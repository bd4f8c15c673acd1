------------------------------ MODULE MCPlugin ------------------------------
(* A virtual machine with two operations, the objects below it and the     *)
(* members of a correlation group in two namespaces, an object that owns   *)
(* itself, and an owned object without a UID.                              *)
EXTENDS Plugin

Spec1(uid, kind, name, namespace, owners) ==
    [uid |-> uid, kind |-> kind, name |-> name, namespace |-> namespace,
     component |-> 1, operation |-> 1, owners |-> owners, group |-> 0, role |-> "none"]
Grouped(spec, role) == [spec EXCEPT !.group = 1, !.role = role, !.component = 0]

vm == Spec1(1, 1, 1, 1, <<>>)
vmMigrating == [vm EXCEPT !.operation = 2]
vmi == Spec1(2, 2, 1, 1, <<1>>)
pod == [Spec1(3, 3, 1, 1, <<2, 1>>) EXCEPT !.component = 2]
subscription == Grouped(Spec1(4, 4, 1, 1, <<>>), "root")
otherSubscription == Grouped(Spec1(0, 4, 2, 1, <<>>), "root")
csv == Grouped(Spec1(5, 5, 1, 1, <<>>), "child")
foreignCSV == Grouped(Spec1(6, 5, 1, 2, <<>>), "child")
knot == Spec1(7, 6, 1, 1, <<7>>)
anon == Spec1(0, 7, 1, 1, <<2>>)

MCShape == {vm, vmMigrating, vmi, pod, subscription, otherSubscription, csv, foreignCSV, knot,
            anon}

\* Two shapes may have completed; the last Id only holds something below
\* the virtual machine.
MCInitial ==
    [id \in Id |-> IF id = 4 THEN {<<vmi, "Active">>, <<pod, "Active">>, <<anon, "Active">>}
                   ELSE (MCShape \X {"Active"}) \cup ({vm, vmi} \X {"Completed"})]

MCCreated == [id \in Id |-> IF id = 1 THEN 2 ELSE 1]

NoFlags == [namespace |-> 0, component |-> 0, kind |-> 0, operation |-> 0,
            selector |-> {}, allPhases |-> FALSE]
MCFlags ==
    {NoFlags, [NoFlags EXCEPT !.allPhases = TRUE],
     [NoFlags EXCEPT !.namespace = 1, !.operation = 1],
     [NoFlags EXCEPT !.component = 1, !.selector = {<<"subject-name", 1>>}]}

Plain(verb) == [verb |-> verb, id |-> 1, kind |-> 0, name |-> 0]
MCCommand ==
    {Plain("list"), Plain("get"), Plain("summary"), Plain("tree"), Plain("for"),
     [Plain("for") EXCEPT !.kind = 1, !.name = 1]}
=============================================================================
