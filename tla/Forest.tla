------------------------------- MODULE Forest -------------------------------
(***************************************************************************)
(* The tree view of kubectl-ifo: BuildForest and the label correlator      *)
(* (pkg/plugin/model) and what the tree printer (pkg/plugin/output/tree.go) *)
(* prints of a node, as operators on the listed InFlightOperations.        *)
(*                                                                         *)
(* A node is the index, in the list, of the first IFO of its subject; the  *)
(* other IFOs of the subject are its siblings.  Components, kinds, names   *)
(* and namespaces are numbers in the order of their strings, 0 the empty   *)
(* string.  Headings, column widths and colours are left out.              *)
(***************************************************************************)
EXTENDS Naturals, SequencesExt

----------------------------------------------------------------------------
(* buildOwnerRefTrees.                                                     *)

\* The node that holds IFO i.  An IFO whose subject has no UID is a node.
NodeOf(ifos, i) ==
    IF ifos[i].uid = 0 THEN i
    ELSE Min({j \in DOMAIN ifos : ifos[j].uid = ifos[i].uid})

Nodes(ifos) == {i \in DOMAIN ifos : NodeOf(ifos, i) = i}

\* The node with subject UID u, or 0.
BySubjectUID(ifos, u) ==
    LET found == {n \in Nodes(ifos) : ifos[n].uid = u /\ u # 0}
    IN  IF found = {} THEN 0 ELSE Min(found)

\* The owner references that name a listed subject, by their position.
ParentRefs(ifos, n) ==
    {k \in DOMAIN ifos[n].owners : BySubjectUID(ifos, ifos[n].owners[k]) # 0}

IsChild_OfAny(ifos, n, m) ==
    \E k \in ParentRefs(ifos, n) : m = BySubjectUID(ifos, ifos[n].owners[k])

\* The first owner that is listed is the parent.
IsChild(ifos, n, m) ==
    /\ ParentRefs(ifos, n) # {}
    /\ m = BySubjectUID(ifos, ifos[n].owners[Min(ParentRefs(ifos, n))])

buildOwnerRefTrees(ifos) ==
    [roots |-> {n \in Nodes(ifos) : ParentRefs(ifos, n) = {}},
     children |-> [m \in Nodes(ifos) |-> {n \in Nodes(ifos) : IsChild(ifos, n, m)}]]

----------------------------------------------------------------------------
(* LabelCorrelator.                                                        *)

groupKey_Global(i) == <<i.group>>

\* Groups do not span namespaces; cluster-scoped subjects have namespace 0.
groupKey(i) == <<i.group, i.namespace>>

\* The earliest candidate; among equals the one listed first, which is what
\* slices.SortFunc yields for the short lists it sorts by insertion.
findGroupRoot(ifos, nodes) ==
    LET candidates == {n \in nodes : ifos[n].role = "root"}
        earliest == {n \in candidates : \A m \in candidates :
                        ifos[n].created <= ifos[m].created}
    IN  IF candidates = {} THEN 0 ELSE Min(earliest)

\* The root of the group of n, or 0.
RootOf(ifos, roots, n) ==
    IF ifos[n].group = 0 THEN 0
    ELSE findGroupRoot(ifos, {m \in roots : groupKey(ifos[m]) = groupKey(ifos[n])})

\* Only the roots of the forest are grouped, by the labels of their first
\* IFO.  The members of a group without a root stay roots.
Correlate(ifos, forest) ==
    [roots |-> {n \in forest.roots : RootOf(ifos, forest.roots, n) \in {0, n}},
     children |-> [m \in Nodes(ifos) |->
        forest.children[m]
            \cup {n \in forest.roots : n # m /\ RootOf(ifos, forest.roots, n) = m}]]

BuildForest(ifos) == Correlate(ifos, buildOwnerRefTrees(ifos))

----------------------------------------------------------------------------
(* The order of roots and children.  slices.SortFunc promises nothing      *)
(* about equals, and the correlator appends the groups in the order of a   *)
(* Go map: any sequence that respects the comparison may come out.         *)

\* By component, then kind, then name.
compareNodes(a, b) ==
    \/ a.component < b.component
    \/ a.component = b.component /\ a.kind < b.kind
    \/ a.component = b.component /\ a.kind = b.kind /\ a.name <= b.name

sortChildren(ifos, nodes) ==
    {s \in SetToSeqs(nodes) : IsSorted(s, LAMBDA n, m : compareNodes(ifos[n], ifos[m]))}

\* PrintForest goes through the sorted roots by component, then namespace.
PrintOrder(a, b) ==
    \/ a.component < b.component
    \/ a.component = b.component /\ a.namespace < b.namespace
    \/ a.component = b.component /\ a.namespace = b.namespace /\ compareNodes(a, b)

PrintForest(ifos, roots) ==
    {s \in SetToSeqs(roots) : IsSorted(s, LAMBDA n, m : PrintOrder(ifos[n], ifos[m]))}

\* The line of one node: its subject and the operations of all its IFOs.
Line(ifos, n, depth) ==
    [node |-> n, depth |-> depth, shown |-> {i \in DOMAIN ifos : NodeOf(ifos, i) = n}]
=============================================================================
