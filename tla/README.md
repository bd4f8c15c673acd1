# A TLA+ model of the in-flight operations operator

This directory specifies, model-checks and proves properties of the operator in `src/`:
the controller that loads `OperationRuleSet`s, the dynamic watches it starts for
them, the evaluator and its cache of compiled programs, the event handlers that
turn what rules detect into `InFlightOperation` objects, the condition library
the status is built with, the `kubectl-ifo` plugin that shows the objects, and
the way from the rule files through the release tools to the running processes.
`PROJECT.json` holds the runs, the map from definitions to source lines, the
hazards, the findings and the theorems; this file explains them.

## The system

| Part | State it keeps | Operations | Talks to |
|---|---|---|---|
| Rule cache (`internal/watch/rule_cache.go`) | GVR -> list of rulesets, the `ActiveRulesets` gauge, under one RWMutex | `AddOrUpdateRule`, `AddRule`, `RemoveRule`, `List`, `GVRs` | written by the controller, read by handlers and `Prune` |
| Watch cache (`internal/watch/watch_cache.go`) and registration (`watcher.go`) | GVR -> watch with its stop channel, the `ActiveWatches` gauge, under one mutex | `Register`, `Prune`, `Shutdown` | the informer factory of client-go: one informer per GVR, for ever |
| Controller (`internal/controller`) | nothing between calls except through the two caches; ruleset, finalizer and status live in the API server | `Reconcile` (validate, set up, tear down, finalizers, status) | manager cache (reads), API server (writes), discovery, both caches |
| Event handlers (`watcher.go`: `handle`, `handleDelete`) | one call at a time per GVR: its event, its context with a deadline, listed copies, results | evaluate; complete what is over; ensure what is detected; delete after a deletion | rule cache, evaluator, manager cache (lists), API server |
| Operations (`internal/watch/operations.go`) and the methods of `InFlightOperation` | the stored objects | `List`, `Ensure`, `Build`, `DeleteAll`, `MarkCompleted`, `MarkDetection`, `PastDebounceThreshold` | API server |
| Evaluator and program cache (`internal/evaluator`) | compiled CEL programs, under an RWMutex | `Compile`, `EvaluateRuleSet`, `GetOrCompile` | CEL |
| Condition library (`lib/condition`) | list of conditions, staged flags, Explain report | staging rounds, set, stage, delete, queries | the controller's status |
| Settings (`settings`) and manager (`cmd/manager`) | settings of a process; the lease all processes share | `Load`; start, acquire, renew, stop, exit | environment, leader election of client-go |
| Plugin (`pkg/plugin`) | one command's fetched objects | `list`, `get`, `summary`, `tree`, `tree --for` | API server, in one or several calls |
| Release tools (`cmd/watch-role-generator`, `cmd/csv-generator`, `cmd/ruleset-bundler`) | files | role, CSV and bundle generation | `make`, files; OLM installs the result |
| Metrics, logging, errors | counters | | |

What is hard here is the meeting of several asynchronous parties over state that
lags: the controller and the handlers read a cache that may not have seen their
own last write; handler calls are sequences of API calls under one deadline,
any of which may fail, or take effect and be reported as failed; two handlers
can see one object under two API versions; informers cannot be restarted; the
process may die anywhere, and its successor starts before it is gone. `PROJECT.json` lists these hazards with their lines
and with the properties that cover them.

## Modules

| Module | What it is |
|---|---|
| `RuleCache` | the rule cache; each method holds the lock throughout, so each is one action |
| `Watches` | extends `RuleCache`: `Register`, `Prune`, `Shutdown`, and the life cycle of the informers |
| `RuleSetController` | extends `Watches`: `Reconcile`, step by step, with the API server, users, cache lag, failures, restarts |
| `OperationTracker` | extends `RuleCache`: handlers, informers, `InFlightOperation`s, clock, restarts |
| `OperationLifecycle` | abstract specification that `OperationTracker` implements |
| `ProgramCache` | the evaluator over the program cache, taken apart at every lock operation |
| `Conditions` | the condition library |
| `ConditionSet` | abstract specification that `Conditions` implements |
| `Forest` | the plugin's tree view, as operators on a list of objects: the nodes, their parents, the groups, the orders in which they may be printed |
| `Plugin` | extends `Forest`: one run of a command, between whose calls the operator works |
| `ReleaseTools` | the generators and the make targets that run them |
| `Manager` | settings, leader election, stop and crash of the processes |
| `Release` | composes `ReleaseTools` and `Manager`: the CSV and the bundle that were made are installed, and the processes run with what they grant |
| `MCWatches`, `MCRuleSetController`, `MCOperationTracker`, `MCProgramCache`, `MCConditions`, `MCPlugin`, `MCRelease` | instances for TLC |
| `RuleCacheProofs`, `WatchesProofs`, `RuleSetControllerProofs`, `OperationTrackerProofs`, `ProgramCacheProofs`, `ConditionsProofs`, `ReleaseProofs`, `PluginProofs` | theorems about the module they are named after, and their proofs |

Definitions keep the names of the code. A definition `X_Something` next to `X`
is a faulty variant of it, used only to show that a property notices the fault
(the `mutants` of `PROJECT.json`).

**RuleCache.** A ruleset is `[name, gvr, body]`; `body` stands for everything
the code does not look into here. The lookup under the *current* target GVR and
the swap-with-last deletion are as in the code.

**Watches.** `go informer.Run(stopCh)` is a pending goroutine (`pending[g]`
holds its channel, open or closed) that runs later. `informer[g]` goes from
fresh to running to stopping to stopped and never back; it takes handlers until
it has stopped. These rules are client-go's (marked external).

**RuleSetController.** One worker, hence one program counter. Steps end where
`Reconcile` makes an API call or releases a lock: get, remove rule, prune,
finalizer patch, validate (live discovery), add rule, register, status update.
The deferred end of `Reconcile` (`End`) turns an error into a requeue after
`RequeueInterval` and drops it. `REQUEUE_INTERVAL` may be set to zero or less,
and controller-runtime then requeues nothing: what depends on the retry
(`ReadyIsLoaded`, `LoadedIsFinalized`, `EventuallyJudged`, `DeletionCompletes`)
presupposes an interval above zero, as the default of 60 seconds is. A copy of an object carries `cur`, "this is still the stored version", in
place of a resourceVersion number: the code uses the number only as the
optimistic lock of `Status().Update`. A failing call may have taken effect.

**OperationTracker.** One handler process per GVR; `Handle(g)` is one step of
it, from `Take` (the call; evaluation) through `ListOperations`, `CompleteOne`
and `CleanupCompleted` for what is no longer detected, then `Ensure`, `Create`,
`Mark` for what is, or `DeleteAll` after a deletion. The clock counts seconds,
the resolution of stored timestamps. Of an object are kept: subject, ruleset,
operation, labels beyond the built-in ones, creation and completion time, phase.
What CEL rules find is a function of the subject's content, given by constants.
`OperationLifecycle` describes the stored objects alone, without handlers, copies
and restarts: created unmarked, detected and completed while open, deleted with
their subject or, unless completed ones are retained, before;
`ImplementsLifecycle` is the refinement, whose mapping is the identity.

**Conditions.** List order, staged flags, transition times and the keys of the
Explain report are kept. `Kept` is the loop that copies part of the list. `Read` stands for the round trip through the API
server, which drops the unexported fields. `ConditionSet` describes the same
collection as two maps, what a client sees and what is left over from an
earlier round, with the types asserted in this round, so that a call that has no
effect does not pass as a stutter; `ImplementsConditionSet` is the refinement.

**ProgramCache.** The callers are the handlers (`EvaluateRuleSet`) and the
controller (`Compile`). A step ends wherever another goroutine may run: before
and after each lock operation, between compiling, storing and setting the gauge.
`sync.RWMutex` is modelled with its two phases: `Lock` announces a writer, which
stops new readers, then waits for the readers inside; `Unlock` lets the waiting
readers in before the next writer. What an expression evaluates to is a constant
function of subject and expression: a boolean, a string or an error. What a call
should return is stated as a relation (`IsReference`): the operations of the
matching rules in their order, for each label key the last good value, or an
error if some rule fails.

**Forest and Plugin.** A node of the forest is the index of the first listed
object of its subject. `Init` ranges over stores that the operator can have
filled; the operator's writes interleave only between two calls of one command,
as a single call reads one snapshot. Strings that are sorted are numbers in
their order; a selector is the set of its pairs. A table is printed in the step
that fetches last. A tree is printed one call of `printSubtree` at a time:
`stack` holds the calls still to be made, with their depth, and `output.lines`
the lines printed so far. The recursion of the code is thus a loop of the
model. Headings, widths and colours are left out.

**ReleaseTools, Manager, Release.** A make target empties its file, runs its
tool, which may fail, and stops at the first failure; files are edited in
between. A CSV or bundle remembers the rules it was made of (`of`), for the
properties; the order of the documents in a bundle is left out. `Install` ships what was made and forgets the checkout. Processes
boot with the arguments of the installed CSV, load their settings (or panic in
`init`), stand by, lead, stop gracefully or crash. `Active` includes a process
that is stopping, since `Watcher.Shutdown` does not wait for handlers.

### Modelling decisions

- A request whose context has expired is refused and not applied later. Reads
  from the manager's cache succeed also then.
- A status write that changes nothing within the same second still counts as a
  new version (the API server would skip it); this only adds conflicts.
- `DeleteAllOf` is one step, which may fail having deleted any part.
- `Create` does not store the status, so a new object has phase "" until it is
  marked; the code's second call does that.
- A resync is queued only behind an empty queue: a longer queue of replays holds
  nothing that the last of them does not.
- `lastDetected`, `detectedBy`, `subjectGeneration` and owner references are
  written by the code and never read by it; they are left out.
- Deletions that nobody will ever process are recorded in `missed`: tombstones
  that the handler drops, failed `DeleteAll` calls, deletions before a restart
  or after the watch has stopped. Properties about cleaning up exclude exactly
  these; `TrackerTombstone.cfg` shows that the exclusion is needed.
- `DebounceThreshold` and `K8SAPITimeout` are natural numbers. The settings
  accept a negative number as well; that case is not modelled in the tracker
  (`Manager` has it).
- The lease carries the time since its last renewal, not a time stamp. Client-go
  promises that a leader stops trying after `RenewDeadline`; that its process is
  then gone before `LeaseDuration` is over is the assumption leader election
  rests on, and `Tick` states it. The same is assumed of a process that waited
  for its runnables: the grace period of its pod is shorter than the lease.
- The names of `InFlightOperation`s are generated, so the operator never creates
  one under a name that a running command of the plugin has met before.
- Owner references may form cycles. No root leads to a cycle, so `printSubtree`
  never meets it and the plugin does not show its operations; `TreeShowsAll`
  says so. The instance has an object that owns itself.
- `slices.SortFunc` promises nothing about equals, so rows, roots and children
  come out in any order that respects the comparison. Only the candidates for
  the root of a group keep the order of the list where they are equally old, as
  they do in the insertion sort of short lists; no property depends on it.
- Integers of the settings are `Width` bits wide (8 in the run, 64 in the code),
  so that a product of durations that wraps is within reach. The settings are
  the durations; the flag `RETAIN_COMPLETED_IFOS` (`LookupBool`) and the version
  are not among them.

## Runs

Passing runs. The type invariants of `OperationTracker` and `ProgramCache` are
theorems (`TrackerTypeOK`, `ProgramCacheTypeOK`) and not checked again by a run.
`CHECK_DEADLOCK FALSE` is used where users and clocks are bounded
and the system then really may come to rest.

| Run | Shows |
|---|---|
| `Watcher` | Whole interface of rule cache and watch cache, in every order, with the informer goroutines: `GaugeExact`, `WatchGaugeExact`, `OthersKept` (no call touches an entry of another name), `NoLeakedInformer`, `RunningHasHandler`, `WatchWillRun` (a watched GVR has its informer running or about to, unless it was stopped before) |
| `ControllerRules` | Two rulesets, two GVRs, valid and invalid bodies, three edits, a failing call: `UniqueNames`, `WatchesMatchRules`, `ReadyIsLoaded`, `VerdictIsCurrent` |
| `ControllerLiveness` | One ruleset, a failing call and a restart: `LoadedIsFinalized`; `EventuallyJudged`, `DeletionCompletes` under fairness |
| `Conditions` | Two types, three kinds of content, every order of calls: `ImplementsConditionSet`, `BlockersAreSeen`, `TimeOnlyWithChange`, `ChangesAreReported` |
| `TrackerLifecycle` | One handler, lagging cache, timeouts, a failing call, a restart, retained objects: `ImplementsLifecycle`, `ClosedStaysClosed` |
| `TrackerVersions` | Two handlers that see one subject under two API versions, a ruleset for each that detects its operation throughout, rulesets unloaded, a restart at any point: `ImplementsLifecycle`, `GoneIsClean`, and under fairness `ActiveWhenDetected` (an operation that the rulesets of every version of the subject detect ends up Active for each and stays so). Nothing is completed in this run; that part is `TrackerLifecycle`'s and the theorems' |
| `TrackerLiveness` | `ActiveWhenDetected`, `CompletedWhenOver`, `GoneEventuallyClean` under fairness, with one GVR, a failing call, dynamic labels that change and completed objects deleted |
| `ProgramCache` | Two handlers and the controller, three expressions of which one does not compile: `CompiledOnce`, `MapIsGuarded` (no access to the map beside a write), `ProgramGaugeExact`, `ResultIsReference` (a result is a function of subject and ruleset, whatever is cached), `CallsReturn` under fairness; deadlock is checked |
| `Plugin` | All commands over the stores of up to four objects of ten related kinds: `ShowsWhatWasAsked` (filters, order and counts), `TreeShowsAll` (an object that was fetched, however often, is on exactly one line, that of its subject if the subject has a UID, or below a cycle of owners and on none; without `--for` it is printed once), `HierarchyShown` (below the first listed owner, or the earliest root of its group and namespace), `ForShowsFamily` (`tree --for` shows three generations of what stays unchanged while it runs) |
| `Release` | `GrantsMatchRules` and `OperatorMayWatch` (the operator may watch exactly the targets of the rules, and all that are applied), `OneActiveManager`, `SettingsAreEnvironments`, and `LeaderEventually` under fairness |

Runs that find a violation: the code does otherwise than its documents, comments
or tests say. Each is a finding of `PROJECT.json`, with the quotation.

| Run | Shows |
|---|---|
| `ControllerZombie` | `Reconcile` of a deleted ruleset tears it down and, for want of a return, loads it again |
| `TrackerPartialLoad` | after a restart the first event is judged by the rulesets loaded so far and completes running operations of the others |

Further configurations, to be run by hand, hold counterexamples to other
expectations, all defined in the last section of their modules:
`ControllerDeadWatch` (after a prune and a new registration of a GVR,
`watchActive` is reported over an informer that has stopped for good, although
`api/v1alpha1/operationruleset_types.go:97` says it "indicates whether the
dynamic watch is currently active"), `TrackerDebounce` (an operation is marked
Completed at the first event that lacks it, although `README.md:104` calls
`DEBOUNCE_THRESHOLD` the "Grace period after an operation stops being detected
before marking it Completed"), `ControllerRetarget` (an edited `spec.target` leaves the old GVR loaded and
watched), `ControllerReady` (a valid ruleset whose GVR was once pruned never
becomes Ready, the same cause as `ControllerDeadWatch`), `TrackerRestamp` (each
event within the window moves `status.completed`), `TrackerDuplicates` (two
Active objects of one operation, from a lagging cache), `TrackerLeftover` (a
completed object whose delete failed once is never deleted), `TrackerTombstone`
(a deletion delivered as `DeletedFinalStateUnknown` is dropped),
`TrackerDisagree` (with every ruleset loaded, the handler of one API version
completes a running operation that only the ruleset of another version detects,
although `docs/test-plan-rulesets.md:1174` says "When the operation ends, the IFO
transitions to `status.phase: Completed`"), `PluginRepeats` (`tree --for` fetches
a grandchild once for each operation of its parent and prints its operation that
often, although `pkg/plugin/model/types.go:8` has the siblings of a node be
"multiple operations on the same resource"), `ConditionsReport` (Explain lists a condition as deleted that is there),
`ConditionsTime` (the transition time moves without a transition of the status).

`ActiveWhenDetected` presupposes that the versions agree on the operation. Where
a resource is watched under two versions whose rulesets detect different
operations, `handle` (`watcher.go:172`) completes every object of the subject
that its own rulesets do not account for: the two handlers take turns at
completing, and by default deleting, what the other opened, for as long as
resyncs come. `TrackerDisagree` has the first of these steps.
`TrackerRestart.cfg` is a wider instance of the two safety properties of
`TrackerVersions`, with a third change of the subject and dynamic labels that
change; it passes too, on two million states.

The properties of the plugin and the release state what the code does; these are
the places where its comments or a user may expect more:

- `tree --for` drops the label filters (`--component`, `--kind`, `--selector`) in
  its query for grandchildren (`cmd/tree.go:124`), follows the UID of the first
  listed object only, and ends after two generations below the target, although
  its comment says "Recursively find grandchildren"; children are found by their
  first owner reference only. The children of a child with two operations are
  fetched twice (`cmd/tree.go:118`); the tree has one line for each subject that
  has a UID, on which their operations are then repeated (`PluginRepeats`), and
  one for each copy of an operation whose subject has none.
- The label correlator looks at the roots of the forest and at the labels of the
  first object of a subject: an object that has a listed owner, or whose labels
  are on a sibling, does not join its group (`model/correlate.go:9`).
- The summary counts an object that is not yet marked Active as completed.
- The role generator reads one document per file, the bundler copies all; a
  bundle that was cut short is well-formed.
- `LookupSeconds` accepts numbers whose product wraps around.

### Bounds

- *Names, GVRs, subjects, objects.* Two rulesets and two GVRs suffice for every
  interaction the controller has: sharing a GVR, moving between GVRs, one
  pruning while the other stays. One subject suffices for the tracker, whose
  handlers never relate two subjects; two object names let a second object
  appear while the first exists, and make the quota a reachable case
  (`ActiveWhenDetected` presupposes room for an object where there is none to
  reuse).
- *Edits, changes, faults, crashes.* Three edits reach create, edit, delete and
  create, delete, create again; three changes of a subject reach create, change,
  delete. One fault can strike any call; the code keeps no count of failures,
  so a second one meets the same states. One restart can come at any point.
- *Time.* With threshold and timeout of one second, four seconds let a window
  open, close, and a call that began within it run out after it (`TrackerLifecycle`).
  In the other tracker runs that pass the clock stands still: no call times out
  there and no window closes. What a call does that fails midway is in
  `TrackerLiveness` through its fault.
- *Queue.* Two pending events let an event be overtaken by the state it reports.
- *Callers and expressions* (`ProgramCache`). Three callers let one hold the write
  lock, one wait for it and one read; each ruleset has rules and labels that
  share expressions, so that hits, misses and second looks all happen.
- *Stores* (`Plugin`). Four objects: an owner, two below it or two members of a
  group, and one more; one change by the operator can fall between any two calls.
- *Edits and crashes* (`Release`). Two edits break a file and mend it; three
  crashes or evictions let both processes fail and the first again. The lease
  lasts four units with a renew deadline of two, so that giving up, exiting and
  taking over are at different times.
- *Rules per GVR* (`Watcher`): up to three, so that a deletion meets the first, the
  last and a middle entry.

### Fairness

Users, subjects, failures, restarts and the clock owe nothing. Weakly fair are
the goroutines that the process and client-go keep running: the worker's next
step, a handler's next step, cache updates, requeue timers, informer goroutines,
resyncs (`K8S_INFORMER_RESYNC`, thirty seconds unless set to zero) and the
loading of deployed rulesets. `Get(n)` is strongly fair since the work queue
hands out its names in order, and `Observe` because the notification queue has
no bound in the code, so that the bound of the model must not starve an event.

Callers of the program cache are weakly fair, being goroutines; announcing a
writer is strongly fair, because `sync.RWMutex` starves neither side. In
`Release` time passes, the kubelet boots a container again, a candidate keeps
trying for the lease and a process about to end does; crashes, evictions and
renewals owe nothing.

## Proofs

TLAPS proves every invariant and every action property of the passing runs, and
the refinements of `ConditionSet` and `OperationLifecycle`: for every value of the constants, where a run
has one instance. The assumptions are named, stated in
the module that declares the constants and evaluated by TLC on the runs:
`TrackerAssumption`, `ControllerAssumption`, `CacheAssumption`,
`ConditionsAssumption`, `ToolsAssumption`, `ManagerAssumption`, `PluginAssumption`; rule cache and
watches need none. They give the constants their types, keep `None` and its like
apart from real values, and say four things about the system: the API server
holds finitely many objects, `LeaseDuration`
is longer than `RenewDeadline` (client-go insists), the fixed roles of the
operator have other verbs than a watch (they are the ones in `config/rbac`), and
an integer has at least one bit.

Hardly any of the properties is inductive. What each invariant adds:

| Module | Theorems | Inductive invariant |
|---|---|---|
| `RuleCacheProofs` | `RuleCacheCorrect` (`UniqueNames`), `RulesetGaugeCorrect` (`GaugeExact`), `OtherRulesetsKept` (`OthersKept`) | The type of the lists with the distinctness of the names in each; for the gauge, that the places of all lists form a finite set and the gauge is its size (`PlacesCounted`). Lemmas say what `SwapDelete`, `removeRule` and `addRule` do to the names, the number and the other entries of a list. The last two theorems are about `RuleCacheAPISpec`, the whole interface, `AddRule` included, which the program does not call |
| `WatchesProofs` | `InformersNeverLeak` (`NoLeakedInformer`), `WatchGaugeCorrect` (`WatchGaugeExact`), `RegisteredWillRun` (`WatchWillRun`), `RunningIsHandled` (`RunningHasHandler`) | `WatchesInv`: the type, a finite watch map, the three properties themselves, and `StartedHasHandler`: a running informer, or a fresh one whose goroutine is still pending, has a handler |
| `RuleSetControllerProofs` | `WatchesFollowRules` (`WatchesMatchRules`), `ReadyMeansLoaded` (`ReadyIsLoaded`), `FinalizedWhenLoaded` (`LoadedIsFinalized`), `VerdictsAreCurrent` (`VerdictIsCurrent`), `ControllerKeepsCaches` (`UniqueNames` and the invariant of the watches), `ControllerTypeOK` (`TypeOK`) | `ControllerInv`: what holds between the two calls of `Setup` and of `Teardown` (`BetweenCalls`; a rule whose GVR has no watch yet is alone under it, so undoing a failed registration restores the match), what the staged conditions already say (`StagedIsTrue`), that a copy with `cur` is the stored object, that a pass over an object not written since works on it (`WorksOnStored`), and that an object with nothing outstanding has its finalizer, loaded or not (`QuietIsFinalized`) |
| `OperationTrackerProofs` | `ClosedForGood` (`ClosedStaysClosed`), `NothingIsLeft` (`GoneIsClean`), `TrackerImplementsLifecycle` (`ImplementsLifecycle`), `TrackerTypeOK` (`TypeOK`) | `TrackerInv`: a handler has what its next step needs (`HandlerReady`), a copy that would pass the optimistic lock equals the stored object (`CopiesCurrent`), and one about to be marked was within its window when the call began (`MarkInWindow`). Then a write by a call that began inside the window ends within the timeout, and a stale one is refused. For `GoneIsClean`, in addition: a handler that works on an update, or has one queued, has a removal of the same subject behind it or still to come (`UpdatesFollowed`), and while anything of a deleted subject is left some handler has (`CleanupDue`); so a create that overtakes another handler's `DeleteAll` is followed by one of its own. For the refinement: a handler is told of a deletion only if it happened, and deletes a completed object only if it need not retain it (`DeletionsTrue`); each write is then one step in the life of one object, and everything else stutters |
| `ProgramCacheProofs` | `NeverCompiledTwice` (`CompiledOnce`), `MapAccessGuarded` (`MapIsGuarded`), `ProgramGaugeCorrect` (`ProgramGaugeExact`), `ResultsAreReferences` (`ResultIsReference`), `ProgramCacheTypeOK` (`TypeOK`) | `CacheInv`: the state of the lock is what the callers' places say (`LockKept`), and a program was made of an expression exactly if it is cached or about to be stored (`CountsPrograms`). For the results: what a lookup reports is whether the expression compiles (`OutcomesTrue`), and a result is the reference of the expressions looked at so far (`SoFar`) |
| `ConditionsProofs` | `ConditionsRefineSet` (`ImplementsConditionSet`), `BlockersAreOfThisRound` (`BlockersAreSeen`), `ReportIsComplete` (`ChangesAreReported`), `TimesSettle` (`TimeOnlyWithChange`) | `CollectionInv`: a type has one condition at most, nothing is asserted outside a round, and the report is in three disjoint parts that account for every difference from what was read. A list without duplicates is a map from types to conditions (`At`); one lemma per operation says what it does to that map, and the refinement follows action by action: `Tick`, `Read` and a `StageCondition` of an absent type stutter |
| `ReleaseProofs` | `GrantsAreTargets` (`GrantsMatchRules`), `OperatorsMayWatch` (`OperatorMayWatch`), `OneManagerIsActive` (`OneActiveManager`), `SettingsFollowEnvironment` (`SettingsAreEnvironments`) | `FilesInv`: every file that was written is what its tool makes of the rules noted with it, and the CSV generator runs only over a written role. `ManagerInv`: an active process, one on its way out too, holds a lease that nobody may take yet, and a running one has the settings of its environment |
| `PluginProofs` | `Asks` (`ShowsWhatWasAsked`), `Shows` (`TreeShowsAll`), `Hierarchy` (`HierarchyShown`), `Family` (`ForShowsFamily`), `PluginInvariant` | `PluginInv`, in five parts. `CommandInv`: types, and which command may be where. `PrintInv`: how far printing has come (`Progress`): no node is printed or waits twice (`Once`), every root and every child of a printed node is printed or waits (`Reached`), and each has its parent on the last line that is one level up, since the depths on the stack never grow (`Depths`). `AskedInv`: what was fetched is what the filters let through. `FamilyInv`: while `tree --for` is underway, the operations of the target, of its children and of the grandchildren asked for so far are there if nobody touched them since the command began, and everything there is linked to the target. `IdentityInv`: objects of one name have one subject, and without `--for` the list has each name once; while `tree --for` is underway that rests on names not being given twice (`Faithful`) |

`TrackerInv` and its additions (`DeletionsTrue` too), `ControllerInv`, `FilesInv`, `ManagerInv` and `PluginInv` were
checked with TLC on the instances of the runs before they were proved.

The library's induction theorems take an operator and cannot be used here. What
loops compute (`Kept`) is proved from the fact that a set of numbers without a
least element is empty (`LeastNumber`), applied to the set of lengths at which
the claim would fail.

The lemmas of `PluginProofs` on which the rest stands: a finite set of numbers
has exactly one increasing enumeration, so that a list of the API server holds
each selected object once (`ListFacts`) and counting places in it is counting
objects; the parent of a node is unique and roots are the nodes without one, so
that children of different nodes are disjoint; and one step of `printSubtree`
keeps `Progress`. That nothing but a cycle is lost then needs no induction over
the tree: a node that is neither printed nor waiting has, by `Reached`, a parent
of which the same is true.

Only model-checked:

- all liveness (`EventuallyJudged`, `DeletionCompletes`, `ActiveWhenDetected`,
  `CompletedWhenOver`, `GoneEventuallyClean`, `CallsReturn`, `LeaderEventually`):
  fairness and ENABLED are out of the prover's reach;
- the two violations, which are counterexamples.

## Not modelled

The CEL library and the API server beyond what the code relies on; the wiring of
TLS, webhook and metrics servers (`cmd/manager`); columns, colours, ages and the
JSON and YAML encodings of the plugin's output; the descriptive fields of the CSV
and `--dump-crds`; logs, wrapped errors, counters and histograms.
`Watch.StartWithSync` and `Forest.AllNodes`, which nothing calls. Generated
deep-copy code.

## Further work

Edits of rulesets while handlers run: `OperationTracker` loads and unloads whole
rulesets, `RuleSetController` edits them but has no handlers. A call evaluates
the copy of the rulesets that `List` gave it at its start, so the composition
would add interleavings of loading only.
