---------------------------- MODULE ReleaseTools ----------------------------
(***************************************************************************)
(* The tools that make a release of the rules directory:                   *)
(* watch-role-generator, ruleset-bundler and csv-generator (cmd/), run by  *)
(* the Makefile's targets generate-watch-role, bundle-rulesets and bundle. *)
(*                                                                         *)
(* A target redirects the output of its tool into a file, so the file is   *)
(* emptied before the tool starts, and make stops at the first tool that   *)
(* fails.  Files are edited between the tools' runs.  A tool reads its     *)
(* inputs in one step.                                                     *)
(***************************************************************************)
EXTENDS Naturals, FiniteSets, SequencesExt

CONSTANTS
    RuleFile,      \* the paths below rules/, numbers in their order
    Yaml,          \* the ones that end in .yaml
    Checkout,      \* RuleFile -> its content in the repository
    Content,       \* what a file may hold: a sequence of documents, or Bad
    Bad,           \* a file that is no YAML
    LeaseGrant,    \* the rules of config/rbac/leader_election_role.yaml
    ManagerGrant,  \* the rules of config/rbac/role.yaml
    MetricsGrant,  \* the static rules for the metrics endpoint
    Crds,          \* names, kinds and served versions in config/crd/bases
    MaxEdits       \* bound on the edits of the rules directory

Verbs == {"get", "list", "watch"}

\* The fixed roles are none that watch-role-generator writes: the manager's
\* verbs include writes, that of the metrics endpoint is create.
ASSUME ToolsAssumption ==
    /\ Yaml \subseteq RuleFile
    /\ Checkout \in [RuleFile -> Content]
    /\ \A content \in Content \ {Bad} : content \in Seq([group : STRING, resource : STRING])
    /\ ManagerGrant.verbs # Verbs /\ MetricsGrant.verbs # Verbs

Empty == [written |-> FALSE]

VARIABLES
    rules,        \* RuleFile -> content
    watchRole,    \* config/rbac/watch_role.yaml
    bundle,       \* dist/ruleset-bundle.yaml
    csv,          \* the ClusterServiceVersion in bundle/manifests
    making,       \* the tool make is about to run
    edits

toolVars == <<rules, watchRole, bundle, csv, making, edits>>

ToolsInit ==
    /\ rules = Checkout
    /\ watchRole = Empty
    /\ bundle = Empty
    /\ csv = Empty
    /\ making = "nothing"
    /\ edits = 0

----------------------------------------------------------------------------
(* watch-role-generator.                                                   *)

\* yaml.Unmarshal fills the target from the first document of the file; an
\* empty file has an empty target.
Target(content) == IF content = <<>> THEN [group |-> "", resource |-> ""] ELSE content[1]

collectTargets_LastOfGroup(dir) ==
    LET read == {[file |-> f, target |-> Target(dir[f])] : f \in Yaml}
        kept == {r \in read : r.target.resource # "" /\
                    \A q \in read : q.target.group = r.target.group => q.file <= r.file}
    IN  [g \in {r.target.group : r \in kept} |->
            {r.target.resource : r \in {q \in kept : q.target.group = g}}]

\* The resources of each API group; a ruleset without a resource is skipped.
collectTargets(dir) ==
    LET read == {Target(dir[f]) : f \in Yaml}
        kept == {t \in read : t.resource # ""}
    IN  [g \in {t.group : t \in kept} |->
            {t.resource : t \in {u \in kept : u.group = g}}]

\* One rule for each group.
buildClusterRole(targets) ==
    {[group |-> g, resources |-> targets[g], verbs |-> Verbs] : g \in DOMAIN targets}

Readable(dir) == \A f \in Yaml : dir[f] # Bad

----------------------------------------------------------------------------
(* csv-generator.                                                          *)

\* readRBACRules: an empty file parses, as a role without rules.
readRBACRules(file) == IF file.written THEN file.rules ELSE {}

buildClusterPermissions_NoWatch == {ManagerGrant, MetricsGrant}

buildClusterPermissions == {ManagerGrant, MetricsGrant} \cup readRBACRules(watchRole)

\* readCRD: the first served version, or none.
readCRD(crd) ==
    LET served == SelectSeq(crd.versions, LAMBDA v : v.served)
    IN  [name |-> crd.name, kind |-> crd.kind,
         version |-> IF served = <<>> THEN "" ELSE served[1].name]

readOwnedCRDs == {readCRD(c) : c \in Crds}

\* One replica, which takes part in leader election.  A note says which rules
\* the role was made of.
buildCSV(clusterPermissions, permissions, owned) ==
    [written |-> TRUE, of |-> watchRole.of, clusterPermissions |-> clusterPermissions,
     permissions |-> permissions, owned |-> owned, replicas |-> 1,
     args |-> {"--metrics-bind-address", "--leader-elect",
               "--health-probe-bind-address"}]

generate_NoPermissions == buildCSV(buildClusterPermissions, {}, readOwnedCRDs)

generate == buildCSV(buildClusterPermissions, {LeaseGrant}, readOwnedCRDs)

----------------------------------------------------------------------------
(* ruleset-bundler copies all documents of all files; whether they parse   *)
(* is not its business, and what does not is no document.  It goes in the  *)
(* order of the paths, which shows when it stops half way: the order of    *)
(* the documents matters to nobody who applies them.                       *)

Copied(dir, files) == UNION {ToSet(dir[f]) : f \in {g \in files : dir[g] # Bad}}

\* The files that were copied when reading file f fails.
Before(f) == {g \in Yaml : g < f}

----------------------------------------------------------------------------
(* make.                                                                   *)

Edit(f, content) ==
    /\ edits < MaxEdits
    /\ rules[f] # content
    /\ rules' = [rules EXCEPT ![f] = content]
    /\ edits' = edits + 1
    /\ UNCHANGED <<watchRole, bundle, csv, making>>

\* make starts: the shell empties the first file of the target.
MakeWatchRole(target) ==
    /\ making = "nothing"
    /\ watchRole' = Empty
    /\ making' = target
    /\ UNCHANGED <<rules, bundle, csv, edits>>

MakeBundleRulesets ==
    /\ making = "nothing"
    /\ bundle' = Empty
    /\ making' = "bundle-rulesets"
    /\ UNCHANGED <<rules, watchRole, csv, edits>>

\* The role is written, with a note of the rules it was made of.  As a
\* prerequisite of bundle it is followed by csv-generator.
RoleWritten ==
    /\ making \in {"generate-watch-role", "bundle"}
    /\ Readable(rules)
    /\ watchRole' = [written |-> TRUE, of |-> rules,
                     rules |-> buildClusterRole(collectTargets(rules))]
    /\ IF making = "bundle" THEN csv' = Empty /\ making' = "csv"
       ELSE making' = "nothing" /\ UNCHANGED csv
    /\ UNCHANGED <<rules, bundle, edits>>

CSVWritten ==
    /\ making = "csv"
    /\ csv' = generate
    /\ making' = "nothing"
    /\ UNCHANGED <<rules, watchRole, bundle, edits>>

BundleWritten ==
    /\ making = "bundle-rulesets"
    /\ bundle' = [written |-> TRUE, whole |-> TRUE, of |-> rules,
                  documents |-> Copied(rules, Yaml)]
    /\ making' = "nothing"
    /\ UNCHANGED <<rules, watchRole, csv, edits>>

\* A file cannot be read: what was copied before it stays in the bundle.
BundleCut(f) ==
    /\ making = "bundle-rulesets"
    /\ bundle' = [written |-> TRUE, whole |-> FALSE, of |-> rules,
                  documents |-> Copied(rules, Before(f))]
    /\ making' = "nothing"
    /\ UNCHANGED <<rules, watchRole, csv, edits>>

\* A tool fails before it writes, on a file that cannot be read or parsed.
ToolFails ==
    /\ making \in {"generate-watch-role", "bundle", "csv"}
    /\ making' = "nothing"
    /\ UNCHANGED <<rules, watchRole, bundle, csv, edits>>

ToolsNext ==
    \/ \E f \in RuleFile, content \in Content : Edit(f, content)
    \/ \E target \in {"generate-watch-role", "bundle"} : MakeWatchRole(target)
    \/ MakeBundleRulesets
    \/ RoleWritten \/ CSVWritten \/ BundleWritten
    \/ \E f \in Yaml : BundleCut(f)
    \/ ToolFails

----------------------------------------------------------------------------
\* What a role grants, as pairs of group and resource to list and watch.
Watchable(grants) ==
    UNION {{g.group} \X g.resources : g \in {h \in grants : Verbs \subseteq h.verbs}}
Targets(dir) ==
    {<<Target(dir[f]).group, Target(dir[f]).resource>> :
        f \in {g \in Yaml : Target(dir[g]).resource # ""}}

\* Least privilege, both ways: a CSV that was written lets the operator
\* watch the targets of the rules it was generated from, all of them and
\* nothing else beyond the two fixed roles, whatever failed or was edited
\* before, meanwhile or since.
GrantsMatchRules ==
    csv.written =>
        Watchable(csv.clusterPermissions \ {ManagerGrant, MetricsGrant}) = Targets(csv.of)
=============================================================================
