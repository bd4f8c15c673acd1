--------------------------- MODULE ReleaseProofs ---------------------------
(***************************************************************************)
(* The release and the processes it runs, for every rules directory, every *)
(* order of edits and tools, any number of processes and any timing of     *)
(* stops, crashes and missed renewals.                                     *)
(***************************************************************************)
EXTENDS Release, TLAPS

----------------------------------------------------------------------------
(* The inductive invariant.                                                *)

Directory == [RuleFile -> Content]

\* A role that was written is the role of the rules noted with it.
RoleFile(role) ==
    role.written =>
        /\ role.of \in Directory /\ Readable(role.of)
        /\ role.rules = buildClusterRole(collectTargets(role.of))

\* A CSV has the permissions of the rules noted with it, and its process
\* takes part in leader election.
CSVFile(file) ==
    file.written =>
        /\ file.of \in Directory /\ Readable(file.of)
        /\ file.clusterPermissions =
                {ManagerGrant, MetricsGrant} \cup buildClusterRole(collectTargets(file.of))
        /\ "--leader-elect" \in file.args

\* A bundle holds documents of the rules noted with it, maybe not all.
BundleFile(file) == file.written => file.documents \subseteq Copied(file.of, Yaml)

\* csv-generator runs after the role was written, and nobody empties the
\* role in between.
FilesInv ==
    /\ rules \in Directory
    /\ making = "csv" => watchRole.written
    /\ RoleFile(watchRole)
    /\ CSVFile(csv) /\ CSVFile(installed)
    /\ BundleFile(bundle) /\ BundleFile(applied)
    /\ installed.written => applied.written

ManagerTypeOK ==
    /\ env \in Environment
    /\ state \in [Process -> {"off", "standby", "leading", "stopping", "waited", "lost"}]
    /\ DOMAIN settings = Process
    /\ age \in 0..LeaseDuration

\* OneActiveManager is not inductive: a process is alone because it holds a
\* lease that nobody else may take yet, also when it has given up or stopped
\* and is on its way out.
ActiveHoldsLease == \A p \in Process : Active(p) => holder = p /\ age < LeaseDuration

\* A process keeps the settings it loaded, from an environment that stays.
SettingsAreLoaded ==
    \A p \in Process : Running(p) => Loads(env) /\ settings[p] = Load(env)

ManagerInv == ManagerTypeOK /\ ActiveHoldsLease /\ SettingsAreLoaded


----------------------------------------------------------------------------
(* The operators of the tools.                                             *)

LEMMA InProduct == \A a, S, x : x \in {a} \X S <=> \E s \in S : x = <<a, s>>
  OBVIOUS

LEMMA InWatchable ==
    \A grants, x : x \in Watchable(grants) <=>
        \E g \in grants : Verbs \subseteq g.verbs /\ \E r \in g.resources : x = <<g.group, r>>
<1> SUFFICES ASSUME NEW grants, NEW x
             PROVE  x \in Watchable(grants) <=>
                      \E g \in grants : /\ Verbs \subseteq g.verbs
                                        /\ \E r \in g.resources : x = <<g.group, r>>
  OBVIOUS
<1> DEFINE P(g) == {g.group} \X g.resources
<1>1. \A g : x \in P(g) <=> \E r \in g.resources : x = <<g.group, r>>
  BY InProduct
<1> HIDE DEF P
<1>2. x \in UNION {P(g) : g \in {h \in grants : Verbs \subseteq h.verbs}} <=>
        \E g \in grants : Verbs \subseteq g.verbs /\ x \in P(g)
  BY Zenon
<1> QED
  BY <1>1, <1>2 DEF Watchable, P

\* The generated role grants the targets of the rules and no others, and
\* every rule of it has the generator's verbs.
LEMMA RoleGrantsTargets ==
    ASSUME NEW dir
    PROVE  LET role == buildClusterRole(collectTargets(dir))
           IN  /\ Watchable(role) = Targets(dir)
               /\ \A r \in role : r.verbs = Verbs
<1> DEFINE read == {Target(dir[f]) : f \in Yaml}
           kept == {t \in read : t.resource # ""}
           groups == {t.group : t \in kept}
           res(g) == {t.resource : t \in {u \in kept : u.group = g}}
           grant(g) == [group |-> g, resources |-> res(g), verbs |-> Verbs]
           role == {grant(g) : g \in groups}
<1>1. buildClusterRole(collectTargets(dir)) = role
  <2>1. collectTargets(dir) = [g \in groups |-> res(g)]
    BY DEF collectTargets
  <2> HIDE DEF groups, res
  <2> QED
    BY <2>1 DEF buildClusterRole
<1>2. \A t : t \in kept <=> \E f \in Yaml : t = Target(dir[f]) /\ Target(dir[f]).resource # ""
  BY Zenon
<1>3. \A x : x \in Targets(dir) <=> \E t \in kept : x = <<t.group, t.resource>>
  <2>1. \A x : x \in Targets(dir) <=>
            \E f \in Yaml : /\ Target(dir[f]).resource # ""
                            /\ x = <<Target(dir[f]).group, Target(dir[f]).resource>>
    BY Zenon DEF Targets
  <2> HIDE DEF kept
  <2> QED
    BY <1>2, <2>1, Zenon
<1> HIDE DEF kept
<1>4. \A g, r : r \in res(g) <=> \E t \in kept : t.group = g /\ r = t.resource
  BY Zenon
<1>5. \A g : g \in groups <=> \E t \in kept : g = t.group
  BY Zenon
<1> HIDE DEF groups, res
<1>6. \A g : grant(g).group = g /\ grant(g).resources = res(g) /\ grant(g).verbs = Verbs
  OBVIOUS
<1> HIDE DEF grant
<1>7. \A x : x \in Watchable(role) <=> \E g \in groups : \E r \in res(g) : x = <<g, r>>
  <2>1. \A x : x \in Watchable(role) <=>
            \E h \in role : Verbs \subseteq h.verbs /\ \E r \in h.resources : x = <<h.group, r>>
    BY InWatchable
  <2>2. \A x : (\E h \in role : Verbs \subseteq h.verbs /\ \E r \in h.resources : x = <<h.group, r>>)
            <=> \E g \in groups : /\ Verbs \subseteq grant(g).verbs
                                  /\ \E r \in grant(g).resources : x = <<grant(g).group, r>>
    BY Zenon
  <2> QED
    BY <1>6, <2>1, <2>2
<1>8. Watchable(role) = Targets(dir)
  <2>1. \A x : x \in Watchable(role) <=> x \in Targets(dir)
    <3>1. ASSUME NEW x, x \in Watchable(role) PROVE x \in Targets(dir)
      <4>1. PICK g \in groups : \E r \in res(g) : x = <<g, r>>
        BY <1>7, <3>1
      <4>2. PICK r \in res(g) : x = <<g, r>>
        BY <4>1
      <4>3. PICK t \in kept : t.group = g /\ r = t.resource
        BY <1>4, <4>2
      <4> QED
        BY <1>3, <4>2, <4>3
    <3>2. ASSUME NEW x, x \in Targets(dir) PROVE x \in Watchable(role)
      <4>1. PICK t \in kept : x = <<t.group, t.resource>>
        BY <1>3, <3>2
      <4>2. t.group \in groups /\ t.resource \in res(t.group)
        BY <1>4, <1>5, <4>1
      <4> QED
        BY <1>7, <4>1, <4>2
    <3> QED
      BY <3>1, <3>2
  <2> QED
    BY <2>1, Zenon
<1>9. \A r \in role : r.verbs = Verbs
  BY <1>6
<1> QED
  BY <1>1, <1>8, <1>9

\* A duration that fits its width is the product itself.
LEMMA WrapFits ==
    ASSUME NEW n \in Int, -(2^(Width - 1)) <= n, n < 2^(Width - 1)
    PROVE  Wrap(n) = n
<1> DEFINE h == 2^(Width - 1)
<1>1. h \in Nat \ {0} /\ -h <= n /\ n < h
  BY ManagerAssumption
<1>2. Wrap(n) = ((n + h) % (2 * h)) - h
  BY DEF Wrap
<1> HIDE DEF h
<1>3. n + h \in Nat /\ 2 * h \in Nat /\ n + h < 2 * h
  BY <1>1
<1>4. \A x, y \in Nat : x < y => x % y = x
  OBVIOUS
<1>5. (n + h) % (2 * h) = n + h
  BY <1>3, <1>4
<1> QED
  BY <1>1, <1>2, <1>5

----------------------------------------------------------------------------
(* The files.                                                              *)

LEMMA EmptyFiles == RoleFile(Empty) /\ CSVFile(Empty) /\ BundleFile(Empty)
  BY DEF Empty, RoleFile, CSVFile, BundleFile

LEMMA ToolsStep ==
    ASSUME FilesInv, ToolsNext, UNCHANGED <<installed, applied>>
    PROVE  FilesInv'
<1> USE DEF FilesInv
<1>1. CSVFile(installed)' /\ BundleFile(applied)' /\ (installed.written => applied.written)'
  BY DEF CSVFile, BundleFile
<1>2. ASSUME NEW f \in RuleFile, NEW content \in Content, Edit(f, content)
      PROVE  FilesInv'
  <2>1. rules' \in Directory
    BY <1>2 DEF Edit, Directory
  <2> QED
    BY <1>1, <1>2, <2>1 DEF Edit, RoleFile, CSVFile, BundleFile
<1>3. ASSUME NEW target \in {"generate-watch-role", "bundle"}, MakeWatchRole(target)
      PROVE  FilesInv'
  BY <1>1, <1>3, EmptyFiles DEF MakeWatchRole
<1>4. CASE MakeBundleRulesets
  BY <1>1, <1>4, EmptyFiles DEF MakeBundleRulesets
<1>5. CASE RoleWritten
  <2>1. /\ watchRole' = [written |-> TRUE, of |-> rules,
                         rules |-> buildClusterRole(collectTargets(rules))]
        /\ Readable(rules) /\ rules' = rules /\ bundle' = bundle
        /\ csv' \in {csv, Empty}
    BY <1>5 DEF RoleWritten
  <2>2. RoleFile(watchRole)' /\ watchRole'.written
    BY <2>1 DEF RoleFile
  <2>3. CSVFile(csv)'
    BY <2>1, EmptyFiles
  <2> QED
    BY <1>1, <2>1, <2>2, <2>3
<1>6. CASE CSVWritten
  <2>1. /\ making = "csv" /\ making' = "nothing" /\ csv' = generate
        /\ UNCHANGED <<rules, watchRole, bundle>>
    BY <1>6 DEF CSVWritten
  <2>2. /\ watchRole.of \in Directory /\ Readable(watchRole.of)
        /\ readRBACRules(watchRole) = buildClusterRole(collectTargets(watchRole.of))
    BY <2>1 DEF RoleFile, readRBACRules
  <2>3. /\ csv'.of = watchRole.of /\ "--leader-elect" \in csv'.args
        /\ csv'.clusterPermissions = {ManagerGrant, MetricsGrant} \cup readRBACRules(watchRole)
    BY <2>1 DEF generate, buildCSV, buildClusterPermissions
  <2>4. CSVFile(csv)'
    BY <2>2, <2>3 DEF CSVFile
  <2> QED
    BY <1>1, <2>1, <2>4
<1>7. CASE BundleWritten
  BY <1>1, <1>7 DEF BundleWritten, BundleFile
<1>8. ASSUME NEW f \in Yaml, BundleCut(f)
      PROVE  FilesInv'
  <2>1. Copied(rules, Before(f)) \subseteq Copied(rules, Yaml)
    BY DEF Copied, Before
  <2> QED
    BY <1>1, <1>8, <2>1 DEF BundleCut, BundleFile
<1>9. CASE ToolFails
  BY <1>1, <1>9 DEF ToolFails
<1> QED
  BY <1>2, <1>3, <1>4, <1>5, <1>6, <1>7, <1>8, <1>9 DEF ToolsNext

LEMMA FilesStep == FilesInv /\ [Next]_vars => FilesInv'
<1> SUFFICES ASSUME FilesInv, [Next]_vars PROVE FilesInv'
  OBVIOUS
<1>1. CASE Prepare
  BY <1>1, ToolsStep DEF Prepare
<1>2. CASE Install
  <2>1. rules' \in Directory
    BY <1>2, ToolsAssumption DEF Install, Directory
  <2> QED
    BY <1>2, <2>1, EmptyFiles DEF Install, FilesInv
<1>3. CASE UNCHANGED <<toolVars, installed, applied>>
  BY <1>3 DEF toolVars, FilesInv, RoleFile, CSVFile, BundleFile
<1> QED
  BY <1>1, <1>2, <1>3 DEF Next, Operate, vars

----------------------------------------------------------------------------
(* The processes.                                                          *)

\* The process is gone: nobody else's lease or settings are touched.
LEMMA LeaveStep ==
    ASSUME ManagerInv, NEW p \in Process, Leave(p), UNCHANGED <<env, age>>
    PROVE  ManagerInv'
<1> USE DEF ManagerInv
<1>1. /\ state' = [state EXCEPT ![p] = "off"]
      /\ settings' = [settings EXCEPT ![p] = NoSettings]
      /\ holder' = IF holder = p THEN Former ELSE holder
  BY DEF Leave, Enter
<1>2. ManagerTypeOK'
  BY <1>1 DEF ManagerTypeOK
<1>3. \A q \in Process : state'[q] = IF q = p THEN "off" ELSE state[q]
  BY <1>1 DEF ManagerTypeOK
<1>4. ActiveHoldsLease'
  BY <1>1, <1>3 DEF ActiveHoldsLease, Active
<1>5. SettingsAreLoaded'
  BY <1>1, <1>3 DEF SettingsAreLoaded, Running, ManagerTypeOK, Loads, Load, LookupSeconds, Wrap
<1> QED
  BY <1>2, <1>4, <1>5

\* A running process changes its state and nothing but its state.
LEMMA EnterStep ==
    ASSUME ManagerInv, NEW p \in Process, Running(p),
           NEW s \in {"leading", "stopping", "waited", "lost"}, Enter(p, s),
           UNCHANGED <<env, settings, holder, age>>,
           holder = p /\ age < LeaseDuration
    PROVE  ManagerInv'
<1> USE DEF ManagerInv
<1>1. state' = [state EXCEPT ![p] = s]
  BY DEF Enter
<1>2. ManagerTypeOK'
  BY <1>1 DEF ManagerTypeOK
<1>3. \A q \in Process : state'[q] = IF q = p THEN s ELSE state[q]
  BY <1>1 DEF ManagerTypeOK
<1>4. ActiveHoldsLease'
  BY <1>1, <1>3 DEF ActiveHoldsLease, Active
<1>5. SettingsAreLoaded'
  BY <1>1, <1>3 DEF SettingsAreLoaded, Running, Loads, Load, LookupSeconds, Wrap
<1> QED
  BY <1>2, <1>4, <1>5

LEMMA BootStep ==
    ASSUME ManagerInv, NEW p \in Process, NEW args, "--leader-elect" \in args, Boot(p, args)
    PROVE  ManagerInv'
<1> USE DEF ManagerInv
<1>1. /\ state' = [state EXCEPT ![p] = "standby"]
      /\ settings' = [settings EXCEPT ![p] = Load(env)]
      /\ Loads(env) /\ UNCHANGED <<env, holder, age>>
  BY DEF Boot, Enter
<1>2. ManagerTypeOK'
  BY <1>1 DEF ManagerTypeOK
<1>3. \A q \in Process : state'[q] = IF q = p THEN "standby" ELSE state[q]
  BY <1>1 DEF ManagerTypeOK
<1>4. \A q \in Process : settings'[q] = IF q = p THEN Load(env) ELSE settings[q]
  BY <1>1 DEF ManagerTypeOK
<1>5. ActiveHoldsLease'
  BY <1>1, <1>3 DEF ActiveHoldsLease, Active
<1>6. Load(env)' = Load(env) /\ Loads(env)' = Loads(env)
  BY <1>1
<1>7. SettingsAreLoaded'
  BY <1>1, <1>3, <1>4, <1>6 DEF SettingsAreLoaded, Running
<1> QED
  BY <1>2, <1>5, <1>7

\* The lease is free: by the invariant nobody is active.
LEMMA AcquireStep ==
    ASSUME ManagerInv, NEW p \in Process, Acquire(p)
    PROVE  ManagerInv'
<1> USE DEF ManagerInv
<1>1. /\ state[p] = "standby" /\ age >= LeaseDuration /\ holder' = p /\ age' = 0
      /\ state' = [state EXCEPT ![p] = "leading"] /\ UNCHANGED <<env, settings>>
  BY DEF Acquire, Enter
<1>2. ManagerTypeOK'
  BY <1>1, ManagerAssumption DEF ManagerTypeOK
<1>3. \A q \in Process : state'[q] = IF q = p THEN "leading" ELSE state[q]
  BY <1>1 DEF ManagerTypeOK
<1>4. \A q \in Process : ~Active(q)
  BY <1>1, ManagerAssumption DEF ActiveHoldsLease, ManagerTypeOK
<1>5. ActiveHoldsLease'
  BY <1>1, <1>3, <1>4, ManagerAssumption DEF ActiveHoldsLease, Active
<1>6. Load(env)' = Load(env) /\ Loads(env)' = Loads(env)
  BY <1>1
<1>7. SettingsAreLoaded'
  BY <1>1, <1>3, <1>6 DEF SettingsAreLoaded, Running
<1> QED
  BY <1>2, <1>5, <1>7

\* The lease ages, or is renewed, while it is young enough.
LEMMA AgeStep ==
    ASSUME ManagerInv, Tick \/ \E p \in Process : Renew(p)
    PROVE  ManagerInv'
<1> USE DEF ManagerInv
<1>1. UNCHANGED <<env, state, settings, holder>>
  BY DEF Tick, Renew
<1>2. ManagerTypeOK'
  BY <1>1, ManagerAssumption DEF ManagerTypeOK, Tick, Renew
<1>3. ActiveHoldsLease'
  <2> SUFFICES ASSUME NEW q \in Process, Active(q)
               PROVE  holder = q /\ age' < LeaseDuration
    BY <1>1 DEF ActiveHoldsLease, Active
  <2>1. holder = q /\ age < LeaseDuration
    BY DEF ActiveHoldsLease
  <2>2. CASE Tick
    BY <2>1, <2>2, ManagerAssumption DEF Tick, Active, ManagerTypeOK
  <2>3. CASE \E p \in Process : Renew(p)
    BY <2>1, <2>3, ManagerAssumption DEF Renew
  <2> QED
    BY <2>1, <2>2, <2>3
<1>4. SettingsAreLoaded'
  BY <1>1 DEF SettingsAreLoaded, Running, Loads, Load, LookupSeconds, Wrap
<1> QED
  BY <1>2, <1>3, <1>4

LEMMA ManagerStep == FilesInv /\ ManagerInv /\ [Next]_vars => ManagerInv'
<1> SUFFICES ASSUME FilesInv, ManagerInv, [Next]_vars PROVE ManagerInv'
  OBVIOUS
<1>1. CASE UNCHANGED managerVars
  BY <1>1 DEF managerVars, ManagerInv, ManagerTypeOK, ActiveHoldsLease, Active,
              SettingsAreLoaded, Running, Loads, Load, LookupSeconds, Wrap
<1>2. CASE Tick \/ \E p \in Process : Renew(p)
  BY <1>2, AgeStep
<1>3. ASSUME NEW p \in Process, Operate, Boot(p, installed.args)
      PROVE  ManagerInv'
  BY <1>3, BootStep DEF Operate, FilesInv, CSVFile
<1>4. ASSUME NEW p \in Process, Acquire(p)
      PROVE  ManagerInv'
  BY <1>4, AcquireStep
<1>5. ASSUME NEW p \in Process, GiveUp(p) \/ Stopped(p)
      PROVE  ManagerInv'
  <2>1. Running(p) /\ Active(p) /\ UNCHANGED <<env, settings, holder, age>>
    BY <1>5 DEF GiveUp, Stopped, CancelElection, Running, Active
  <2>2. holder = p /\ age < LeaseDuration
    BY <2>1 DEF ManagerInv, ActiveHoldsLease
  <2>3. Enter(p, "lost") \/ Enter(p, "waited")
    BY <1>5 DEF GiveUp, Stopped
  <2> QED
    BY <2>1, <2>2, <2>3, EnterStep
<1>6. ASSUME NEW p \in Process, Terminate(p)
      PROVE  ManagerInv'
  <2>1. CASE state[p] = "standby"
    BY <1>6, <2>1, LeaveStep DEF Terminate
  <2>2. CASE state[p] # "standby"
    <3>1. /\ Running(p) /\ Active(p) /\ Enter(p, "stopping")
          /\ UNCHANGED <<env, settings, holder, age>>
      BY <1>6, <2>2 DEF Terminate, Running, Active
    <3>2. holder = p /\ age < LeaseDuration
      BY <3>1 DEF ManagerInv, ActiveHoldsLease
    <3> QED
      BY <3>1, <3>2, EnterStep
  <2> QED
    BY <2>1, <2>2
<1>7. ASSUME NEW p \in Process, Exit(p) \/ Crash(p)
      PROVE  ManagerInv'
  BY <1>7, LeaveStep DEF Exit, Crash
<1> QED
  BY <1>1, <1>2, <1>3, <1>4, <1>5, <1>6, <1>7
     DEF Next, Prepare, Install, Operate, vars

----------------------------------------------------------------------------
LEMMA ReleaseInvHolds == Spec => [](FilesInv /\ ManagerInv)
<1>1. Init => FilesInv
  BY EmptyFiles, ToolsAssumption DEF Init, ToolsInit, FilesInv, Directory
<1>2. Init => ManagerInv
  BY ManagerAssumption
     DEF Init, ManagerInit, ManagerInv, ManagerTypeOK, ActiveHoldsLease, Active,
         SettingsAreLoaded, Running
<1> QED
  BY <1>1, <1>2, FilesStep, ManagerStep, PTL DEF Spec

\* The rules of the generated role are none of the two fixed ones, so taking
\* those away leaves exactly the targets.
LEMMA GrantsOfFile ==
    ASSUME NEW file, CSVFile(file), file.written
    PROVE  /\ Watchable(file.clusterPermissions \ {ManagerGrant, MetricsGrant}) = Targets(file.of)
           /\ Targets(file.of) \subseteq Watchable(file.clusterPermissions)
<1> DEFINE role == buildClusterRole(collectTargets(file.of))
<1>1. file.clusterPermissions = {ManagerGrant, MetricsGrant} \cup role
  BY DEF CSVFile
<1>2. Watchable(role) = Targets(file.of) /\ \A r \in role : r.verbs = Verbs
  BY RoleGrantsTargets
<1> HIDE DEF role
<1>3. ManagerGrant \notin role /\ MetricsGrant \notin role
  BY <1>2, ToolsAssumption
<1>4. file.clusterPermissions \ {ManagerGrant, MetricsGrant} = role
  BY <1>1, <1>3
<1>5. Watchable(role) \subseteq Watchable(file.clusterPermissions)
  BY <1>1, InWatchable
<1> QED
  BY <1>2, <1>4, <1>5

\* Least privilege, for every rules directory and every order of edits, makes
\* and failures: a CSV lets the operator watch the targets of the rules it
\* was generated from and nothing else beyond the two fixed roles.
THEOREM GrantsAreTargets == Spec => []GrantsMatchRules
<1>1. FilesInv => GrantsMatchRules
  BY GrantsOfFile DEF FilesInv, GrantsMatchRules
<1> QED
  BY <1>1, ReleaseInvHolds, PTL

\* A file of at most one document has that document for its target.
LEMMA DocumentIsTarget ==
    ASSUME NEW dir \in Directory, NEW f \in Yaml, dir[f] # Bad, Len(dir[f]) <= 1,
           NEW d \in ToSet(dir[f])
    PROVE  Target(dir[f]) = d
<1> DEFINE Doc == [group : STRING, resource : STRING]
<1>1. dir[f] \in Seq(Doc)
  BY ToolsAssumption DEF Directory
<1> HIDE DEF Doc
<1>2. PICK i \in DOMAIN dir[f] : d = dir[f][i]
  BY DEF ToSet
<1>3. Len(dir[f]) \in Nat /\ DOMAIN dir[f] = 1..Len(dir[f])
  BY <1>1
<1>4. i = 1 /\ Len(dir[f]) = 1
  <2>1. \A l \in Nat : l <= 1 => \A j \in 1..l : j = 1 /\ l = 1
    OBVIOUS
  <2>2. i \in 1..Len(dir[f])
    BY <1>2, <1>3, Zenon
  <2> QED
    BY <1>3, <2>1, <2>2, Zenon
<1>5. dir[f] # <<>>
  BY <1>4
<1> QED
  BY <1>2, <1>4, <1>5 DEF Target

\* An operator and a bundle of rulesets made of the same rules fit: it may
\* watch what each of them names, also when the bundle was cut short.
THEOREM OperatorsMayWatch == Spec => []OperatorMayWatch
<1>1. FilesInv => OperatorMayWatch
  <2> SUFFICES ASSUME FilesInv, installed.written, installed.of = applied.of,
                      \A f \in Yaml : Len(installed.of[f]) <= 1,
                      NEW d \in applied.documents, d.resource # ""
               PROVE  <<d.group, d.resource>> \in Watchable(installed.clusterPermissions)
    BY DEF OperatorMayWatch
  <2> DEFINE dir == installed.of
  <2>1. dir \in Directory /\ d \in Copied(dir, Yaml)
    BY DEF FilesInv, CSVFile, BundleFile
  <2>2. PICK f \in Yaml : dir[f] # Bad /\ d \in ToSet(dir[f])
    BY <2>1 DEF Copied
  <2>3. Target(dir[f]) = d
    BY <2>1, <2>2, DocumentIsTarget
  <2>4. <<d.group, d.resource>> \in Targets(dir)
    BY <2>2, <2>3 DEF Targets
  <2>5. Targets(dir) \subseteq Watchable(installed.clusterPermissions)
    BY GrantsOfFile DEF FilesInv
  <2> QED
    BY <2>4, <2>5
<1> QED
  BY <1>1, ReleaseInvHolds, PTL

\* Leader election leaves at most one process active, for any number of
\* processes, also while pods are replaced, crash or miss their renewals.
THEOREM OneManagerIsActive == Spec => []OneActiveManager
<1>1. ManagerInv => OneActiveManager
  BY DEF ManagerInv, ActiveHoldsLease, OneActiveManager
<1> QED
  BY <1>1, ReleaseInvHolds, PTL

\* A process that runs has every setting, with the seconds of its variable
\* or its default as long as a Duration can hold them.
THEOREM SettingsFollowEnvironment == Spec => []SettingsAreEnvironments
<1>1. ManagerInv => SettingsAreEnvironments
  <2> SUFFICES ASSUME ManagerInv, NEW p \in Process, Running(p), NEW s \in Setting
               PROVE  LET n == IF env[s] = Unset THEN Default[s] ELSE env[s]
                      IN  /\ s \in DOMAIN settings[p]
                          /\ -(2^(Width - 1)) <= n * Second /\ n * Second < 2^(Width - 1) =>
                                settings[p][s] = n * Second
    BY DEF SettingsAreEnvironments
  <2> DEFINE n == IF env[s] = Unset THEN Default[s] ELSE env[s]
  <2>1. env[s] # Malformed /\ settings[p] = Load(env)
    BY DEF ManagerInv, SettingsAreLoaded, Loads
  <2>2. s \in DOMAIN settings[p] /\ settings[p][s] = Wrap(n * Second)
    BY <2>1 DEF Load, LookupSeconds
  <2>3. n * Second \in Int
    <3>1. env \in [Setting -> Int \cup {Unset, Malformed}]
      BY ManagerAssumption DEF ManagerInv, ManagerTypeOK
    <3>2. env[s] \in Int \cup {Unset, Malformed} /\ Default[s] \in Int /\ Second \in Int
      BY <3>1, ManagerAssumption
    <3>3. n \in Int
      BY <2>1, <3>2
    <3> HIDE DEF n
    <3> QED
      BY <3>2, <3>3
  <2> HIDE DEF n
  <2>4. -(2^(Width - 1)) <= n * Second /\ n * Second < 2^(Width - 1) =>
            Wrap(n * Second) = n * Second
    BY <2>3, WrapFits
  <2>5. /\ s \in DOMAIN settings[p]
        /\ -(2^(Width - 1)) <= n * Second /\ n * Second < 2^(Width - 1) =>
                settings[p][s] = n * Second
    BY <2>2, <2>4
  <2> QED
    BY <2>5 DEF n
<1> QED
  BY <1>1, ReleaseInvHolds, PTL
=============================================================================
