------------------------------- MODULE Plugin -------------------------------
(***************************************************************************)
(* One run of kubectl-ifo (pkg/plugin/cmd, pkg/plugin/client): list, get,  *)
(* summary, tree and tree --for Kind/name.  A command reads the            *)
(* InFlightOperations with one or more API calls while the operator keeps  *)
(* creating, completing and deleting them; it prints what it fetched.      *)
(*                                                                         *)
(* A selector is the set of its key-value pairs.  The labels are the ones  *)
(* the operator puts on an IFO when it creates it                          *)
(* (Operations.operationLabels).  The API server lists in the order of the *)
(* object names, which are random: Id.                                     *)
(***************************************************************************)
EXTENDS Forest, FiniteSets

CONSTANTS
    Id,          \* object names: numbers, in their order
    Created,     \* Id -> the second at which it is created
    Shape,       \* the specs the operator may create
    Initial,     \* Id -> what may be stored under it when the command starts
    Flags,       \* the command lines' filters
    Command,     \* the subcommands with their arguments
    None,
    MaxChanges   \* bound on what the operator does during the command

Phase == {"", "Active", "Completed"}
IFOSpec == [uid : Nat, kind : Nat, name : Nat, namespace : Nat, component : Nat,
            operation : Nat, owners : Seq(Nat), group : Nat,
            role : {"none", "root", "child"}]

ASSUME PluginAssumption ==
    /\ IsFiniteSet(Id) /\ Id \subseteq Nat
    /\ Created \in [Id -> Nat]
    /\ Shape \subseteq IFOSpec
    /\ Flags \subseteq [namespace : Nat, component : Nat, kind : Nat, operation : Nat,
                        selector : SUBSET (STRING \X Nat), allPhases : BOOLEAN]
    /\ Command \subseteq [verb : {"list", "get", "summary", "tree", "for"}, id : Id,
                          kind : Nat, name : Nat]
    /\ None \notin Shape \X Phase

\* What the client makes of the stored object o called id.
Fetched(id, o) ==
    [id |-> id, created |-> Created[id], phase |-> o[2], uid |-> o[1].uid,
     kind |-> o[1].kind, name |-> o[1].name, namespace |-> o[1].namespace,
     component |-> o[1].component, operation |-> o[1].operation,
     owners |-> o[1].owners, group |-> o[1].group, role |-> o[1].role]

VARIABLES
    store,      \* Id -> stored IFO or None
    command, flags,
    pc,         \* the next API call of the command, or how it ended
    ifos,       \* the IFOs fetched so far
    children,   \* tree --for: children whose own children are not yet fetched
    stack,      \* the nodes printSubtree has still to print, with their depth
    output,     \* what was printed
    steady,     \* Ids the operator has left alone since the command began
    changes

cliVars == <<command, flags, pc, ifos, children, stack, output>>
vars == <<store, cliVars, steady, changes>>

Nothing == [kind |-> "nothing"]

Init ==
    /\ store \in [Id -> {None} \cup (Shape \X Phase)]
    /\ \A id \in Id : store[id] \in Initial[id] \cup {None}
    /\ command \in Command
    /\ flags \in Flags
    /\ pc = command.verb
    /\ ifos = <<>>
    /\ children = <<>>
    /\ stack = <<>>
    /\ output = Nothing
    /\ steady = Id
    /\ changes = 0

----------------------------------------------------------------------------
(* The operator, between two calls of the command: before the first one    *)
(* the store holds anything anyway.                                        *)

Changed(id, o) ==
    /\ pc \in {"forChildren", "forGrandchildren"}
    /\ changes < MaxChanges
    /\ store' = [store EXCEPT ![id] = o]
    /\ steady' = steady \ {id}
    /\ changes' = changes + 1
    /\ UNCHANGED cliVars

\* The API server makes up the name: one that was in use during the command
\* does not come back.
Create(id, spec) ==
    store[id] = None /\ id \in steady /\ Changed(id, <<spec, "">>)

SetPhase(id, phase) ==
    store[id] # None /\ store[id][2] # phase /\ Changed(id, <<store[id][1], phase>>)

Delete(id) == store[id] # None /\ Changed(id, None)

----------------------------------------------------------------------------
(* Selectors.                                                              *)

Labels(spec) ==
    {<<"component", spec.component>>, <<"subject-kind", spec.kind>>,
     <<"subject-name", spec.name>>, <<"correlation-group", spec.group>>}
    \cup (IF spec.owners = <<>> THEN {} ELSE {<<"owner-uid", spec.owners[1]>>})

Fields(o) ==
    {<<"namespace", o[1].namespace>>, <<"operation", o[1].operation>>,
     <<"phase", o[2]>>}

Selected(o, opts) ==
    o # None /\ opts.labels \subseteq Labels(o[1]) /\ opts.fields \subseteq Fields(o)

Pair(key, flag) == IF flag = 0 THEN {} ELSE {<<key, flag>>}

\* The filters of the command line, all of them evaluated by the server.
buildListOptions(f) ==
    [labels |-> Pair("component", f.component) \cup Pair("subject-kind", f.kind)
                \cup f.selector,
     fields |-> Pair("namespace", f.namespace) \cup Pair("operation", f.operation)
                \cup (IF f.allPhases THEN {} ELSE {<<"phase", "Active">>})]

removeFieldSelector_Keeps(fields, key) == fields

removeFieldSelector(fields, key) == {p \in fields : p[1] # key}

InOrder(S) == CHOOSE s \in SetToSeqs(S) : \A i, j \in DOMAIN s : i < j => s[i] < s[j]

\* IFOClient.List.
List(opts) ==
    LET ids == InOrder({id \in Id : Selected(store[id], opts)})
    IN  [i \in DOMAIN ids |-> Fetched(ids[i], store[ids[i]])]

----------------------------------------------------------------------------
(* The commands.  Tables are printed in the step that fetches last.        *)

Show(fetched, out) ==
    /\ ifos' = fetched
    /\ output' = out
    /\ pc' = "done"
    /\ children' = <<>>
    /\ UNCHANGED <<store, command, flags, stack, steady, changes>>

\* An API call, or the parsing of --for, fails: an error, exit code 1.
Fail ==
    /\ pc \notin {"print", "done", "failed"}
    /\ pc' = "failed"
    /\ ifos' = <<>>
    /\ children' = <<>>
    /\ UNCHANGED <<store, command, flags, stack, output, steady, changes>>

\* What slices.SortFunc may make of the list: the newest come first.
NewestFirst(fetched) ==
    {s \in SetToSeqs(ToSet(fetched)) :
        \A i, j \in DOMAIN s : i < j => s[i].created >= s[j].created}

runList ==
    /\ pc = "list"
    /\ \E rows \in NewestFirst(List(buildListOptions(flags))) :
        Show(rows, [kind |-> "rows", rows |-> rows])

runGet ==
    /\ pc = "get"
    /\ store[command.id] # None
    /\ LET ifo == Fetched(command.id, store[command.id])
       IN  Show(<<ifo>>, [kind |-> "rows", rows |-> <<ifo>>])

Count(fetched, P(_)) == Cardinality({i \in DOMAIN fetched : P(fetched[i])})

\* An IFO that is not Active counts as completed.
printComponentSummary(fetched) ==
    [c \in {i.component : i \in ToSet(fetched)} |->
        [active |-> Count(fetched, LAMBDA i : i.component = c /\ i.phase = "Active"),
         completed |-> Count(fetched, LAMBDA i : i.component = c /\ i.phase # "Active")]]

printOperationSummary(fetched) ==
    LET active == {i \in ToSet(fetched) : i.phase = "Active"}
    IN  [k \in {i.kind : i \in active} |->
            [op \in {i.operation : i \in {j \in active : j.kind = k}} |->
                Count(fetched, LAMBDA i :
                        i.phase = "Active" /\ i.kind = k /\ i.operation = op)]]

runSummary ==
    /\ pc = "summary"
    /\ LET opts == buildListOptions(flags)
           fetched == List([opts EXCEPT !.fields = removeFieldSelector(@, "phase")])
       IN  Show(fetched, [kind |-> "summary",
                           byComponent |-> printComponentSummary(fetched),
                           byKind |-> printOperationSummary(fetched)])

\* The forest of what was fetched is built; its roots wait to be printed.
ShowTree(fetched) ==
    /\ ifos' = fetched
    /\ children' = <<>>
    /\ output' = [kind |-> "tree", lines |-> <<>>]
    /\ \E order \in PrintForest(fetched, BuildForest(fetched).roots) :
        stack' = [k \in DOMAIN order |-> [node |-> order[k], depth |-> 0]]
    /\ pc' = IF stack' = <<>> THEN "done" ELSE "print"
    /\ UNCHANGED <<store, command, flags, steady, changes>>

\* One call of printSubtree: the line of its node; the calls for the
\* children come before everything that waits already.
printSubtree ==
    /\ pc = "print"
    /\ LET n == Head(stack).node
           depth == Head(stack).depth
       IN  /\ output' = [output EXCEPT !.lines = Append(@, Line(ifos, n, depth))]
           /\ \E order \in sortChildren(ifos, BuildForest(ifos).children[n]) :
                stack' = [k \in DOMAIN order |-> [node |-> order[k], depth |-> depth + 1]]
                         \o Tail(stack)
    /\ pc' = IF stack' = <<>> THEN "done" ELSE "print"
    /\ UNCHANGED <<store, command, flags, ifos, children, steady, changes>>

runTree ==
    /\ pc = "tree"
    /\ ShowTree(List(buildListOptions(flags)))

----------------------------------------------------------------------------
(* listForResource: the IFOs of the resource, then those whose first owner *)
(* it is, then, one call for each of these, those whose owner they are.    *)

Narrowed(pairs) == [buildListOptions(flags) EXCEPT !.labels = @ \cup pairs]

Fetch(fetched, label, todo) ==
    /\ ifos' = ifos \o fetched
    /\ pc' = label
    /\ children' = todo
    /\ UNCHANGED <<store, command, flags, stack, output, steady, changes>>

forTarget ==
    /\ pc = "for"
    /\ command.kind # 0 /\ command.name # 0
    /\ LET fetched == List(Narrowed({<<"subject-kind", command.kind>>,
                                     <<"subject-name", command.name>>}))
       IN  IF fetched = <<>> \/ fetched[1].uid = 0
           THEN ShowTree(fetched)
           ELSE Fetch(fetched, "forChildren", <<>>)

forChildren ==
    /\ pc = "forChildren"
    /\ LET fetched == List(Narrowed({<<"owner-uid", ifos[1].uid>>}))
       IN  IF fetched = <<>> THEN ShowTree(ifos)
           ELSE Fetch(fetched, "forGrandchildren", fetched)

gcOpts_OfTarget(child) ==
    [buildListOptions(flags) EXCEPT !.labels = {<<"owner-uid", ifos[1].uid>>}]

\* The labels asked for on the command line are not asked for here.
gcOpts(child) ==
    [buildListOptions(flags) EXCEPT !.labels = {<<"owner-uid", child.uid>>}]

\* One round of the loop; a child without a UID is passed over.
forGrandchildren ==
    /\ pc = "forGrandchildren"
    /\ LET child == Head(children)
           fetched == IF child.uid = 0 THEN <<>> ELSE List(gcOpts(child))
       IN  IF Len(children) = 1 THEN ShowTree(ifos \o fetched)
           ELSE Fetch(fetched, "forGrandchildren", Tail(children))

----------------------------------------------------------------------------
Next ==
    \/ \E id \in Id :
        \/ \E spec \in Shape : Create(id, spec)
        \/ \E phase \in {"Active", "Completed"} : SetPhase(id, phase)
        \/ Delete(id)
    \/ runList \/ runGet \/ runSummary \/ runTree \/ printSubtree
    \/ forTarget \/ forChildren \/ forGrandchildren
    \/ Fail

Spec == Init /\ [][Next]_vars

----------------------------------------------------------------------------
\* What the command line asks for, in terms of the operation itself.
Matching(o, f) ==
    /\ f.namespace \in {0, o[1].namespace}
    /\ f.operation \in {0, o[1].operation}
    /\ f.component \in {0, o[1].component}
    /\ f.kind \in {0, o[1].kind}
    /\ f.selector \subseteq Labels(o[1])
Asked(o, f) == Matching(o, f) /\ (f.allPhases \/ o[2] = "Active")
Stored == {id \in Id : store[id] # None}
FetchedIds == {i.id : i \in ToSet(ifos)}

\* The summary's two tables, against the store.
SummaryAgrees ==
    LET matching == {id \in Stored : Matching(store[id], flags)}
        active == {id \in matching : store[id][2] = "Active"}
        Of(c) == {id \in matching : store[id][1].component = c}
        Doing(k, o) == {id \in active : store[id][1].kind = k /\ store[id][1].operation = o}
        C == output.byComponent
        K == output.byKind
    IN  /\ matching = FetchedIds
        /\ DOMAIN C = {store[id][1].component : id \in matching}
        /\ \A c \in DOMAIN C :
            /\ C[c].active = Cardinality(Of(c) \cap active)
            /\ C[c].completed = Cardinality(Of(c) \ active)
        /\ \A id \in active : /\ store[id][1].kind \in DOMAIN K
                             /\ store[id][1].operation \in DOMAIN K[store[id][1].kind]
        /\ \A k \in DOMAIN K : \A o \in DOMAIN K[k] : K[k][o] = Cardinality(Doing(k, o))

\* list and tree show the stored operations that satisfy every filter of the
\* command line, list with the newest on top; the summary counts every one
\* the filters let through, also when the default hides completed ones, each
\* in its component and each active one in its kind and operation.
ShowsWhatWasAsked ==
    pc = "done" =>
        /\ command.verb \in {"list", "tree"} =>
            FetchedIds = {id \in Stored : Asked(store[id], flags)}
        /\ command.verb = "list" =>
            \A i, j \in DOMAIN output.rows :
                i < j => output.rows[i].created >= output.rows[j].created
        /\ command.verb = "summary" => SummaryAgrees

TreePrinted == pc = "done" /\ output.kind = "tree"

\* The owners of IFO i that are listed, by the position of the reference.
Uids == {i.uid : i \in ToSet(ifos)} \ {0}
ListedOwners(i) == {k \in DOMAIN i.owners : i.owners[k] \in Uids}
Owner(i) == i.owners[Min(ListedOwners(i))]

\* The lines an operation stands on, as the first one of its subject or as
\* a sibling, and how often it does.
LinesOf(id) ==
    {l \in DOMAIN output.lines : \E i \in output.lines[l].shown : ifos[i].id = id}
Places(id) ==
    {p \in (DOMAIN output.lines) \X (DOMAIN ifos) :
        p[2] \in output.lines[p[1]].shown /\ ifos[p[2]].id = id}

\* The tree loses nothing but cycles: an operation that was fetched is
\* printed, or its subject has an owner none of whose operations is.  It
\* stands on one line, that of its subject, also if tree --for fetched it
\* once for each operation of its parent, provided the subject has a UID;
\* without --for it is printed exactly once.
TreeShowsAll ==
    TreePrinted =>
        \A i \in DOMAIN ifos :
            LET id == ifos[i].id
                n == NodeOf(ifos, i)
            IN  IF LinesOf(id) = {}
                THEN /\ ListedOwners(ifos[n]) # {}
                     /\ \A j \in DOMAIN ifos :
                            ifos[j].uid = Owner(ifos[n]) => LinesOf(ifos[j].id) = {}
                ELSE /\ ifos[i].uid # 0 => Cardinality(LinesOf(id)) = 1
                     /\ command.verb = "tree" => Cardinality(Places(id)) = 1

\* A subject stands below the first of its owners that has operations; one
\* without such an owner stands below the earliest root of its correlation
\* group in its namespace, where there is one; everything else is a root.
Free(n) == ListedOwners(ifos[n]) = {}
GroupRoots(n) ==
    {m \in Nodes(ifos) : /\ Free(m) /\ ifos[m].role = "root"
                         /\ ifos[n].group # 0 /\ ifos[m].group = ifos[n].group
                         /\ ifos[m].namespace = ifos[n].namespace}
EarliestRoot(n, m) ==
    m \in GroupRoots(n) /\ \A k \in GroupRoots(n) : ifos[m].created <= ifos[k].created
Above(lines, l) == Max({k \in 1 .. l - 1 : lines[k].depth = lines[l].depth - 1})
HierarchyShown ==
    TreePrinted =>
        \A l \in DOMAIN output.lines :
            LET n == output.lines[l].node
                m == output.lines[Above(output.lines, l)].node
            IN  IF output.lines[l].depth = 0
                THEN Free(n) /\ (GroupRoots(n) # {} => EarliestRoot(n, n))
                ELSE \/ ~Free(n) /\ ifos[m].uid = Owner(ifos[n])
                     \/ Free(n) /\ EarliestRoot(n, m)

\* tree --for: the operations of the resource, of the subjects it owns and
\* of the subjects these own are printed, if the operator leaves them alone
\* while the command runs, whatever else it does between the calls; nothing
\* that is not linked to the resource is printed.
FirstOwner(o, uids) == o[1].owners # <<>> /\ o[1].owners[1] \in uids
ForShowsFamily ==
    pc = "done" /\ command.verb = "for" =>
        LET quiet == {id \in steady \cap Stored : Asked(store[id], flags)}
            target == {id \in quiet : /\ store[id][1].kind = command.kind
                                      /\ store[id][1].name = command.name}
            uid == IF ifos = <<>> THEN {} ELSE {ifos[1].uid} \ {0}
            owned == {id \in quiet : FirstOwner(store[id], uid)}
            uids == {store[id][1].uid : id \in owned} \ {0}
        IN  /\ target \cup owned \cup {id \in quiet : FirstOwner(store[id], uids)}
                    \subseteq FetchedIds
            /\ \A i \in ToSet(ifos) :
                \/ i.kind = command.kind /\ i.name = command.name
                \/ i.owners # <<>> /\ i.owners[1] \in Uids

----------------------------------------------------------------------------
(* What a comment says, and the code does not do.                          *)

\* "When multiple IFOs share the same subject UID (multiple operations on
\* the same resource), the first is stored in IFO and the rest in Siblings"
\* (model/types.go:8): what stands on one line are different operations.
SiblingsDiffer ==
    TreePrinted =>
        \A l \in DOMAIN output.lines : \A i, j \in output.lines[l].shown :
            ifos[i].id = ifos[j].id => i = j
=============================================================================
