-------------------------- MODULE OperationTracker --------------------------
(***************************************************************************)
(* The tracking of operations: the event handlers of the dynamic informers *)
(* (Watcher.handle and handleDelete, internal/watch/watcher.go), the       *)
(* InFlightOperations they create, mark and delete                         *)
(* (internal/watch/operations.go, api/v1alpha1/inflightoperation_types.go) *)
(* and the API server and cache they do it through.                        *)
(*                                                                         *)
(* There is one handler per watched GVR.  client-go calls it for one event *)
(* after another, so a handler is a sequential process; handlers of        *)
(* different GVRs run in parallel, and two of them may see one subject,    *)
(* under two API versions.  Every API call is a step: between two calls of *)
(* one handler everything else may happen.  Lists of InFlightOperations    *)
(* read the manager's cache, which lags; writes go to the API server, and  *)
(* Status().Update carries the resourceVersion of the copy it was computed *)
(* from.  As in RuleSetController, a copy carries whether it is still the  *)
(* stored version (cur) in place of that number.                           *)
(*                                                                         *)
(* Time is counted in seconds, the resolution of the stored timestamps,    *)
(* and 0 is the zero time.  One handler call has K8SAPITimeout seconds for *)
(* all its API calls.                                                      *)
(***************************************************************************)
EXTENDS RuleCache

CONSTANTS
    Subject,               \* watched objects, identified by UID
    Content,               \* what rules and label expressions see of one
    Operation,             \* spec.rules[].operation
    Label,                 \* label pairs other than the built-in ones
    Id,                    \* names the API server generates; also its quota
    Serves,                \* GVR -> the subjects listed under it
    Applies,               \* Body -> the subjects in spec.namespaces
    Matches,               \* Body -> Content -> operations of matching rules
    EvalFails,             \* Body -> contents on which some rule errors
    Labels,                \* Body -> Content -> static and dynamic labels
    Deployed,              \* the rulesets the controller can load
    DebounceThreshold,
    K8SAPITimeout,
    RetainCompletedIFOs,
    None,                  \* no content, no object
    MaxTime, MaxQueue, MaxChanges, MaxFaults, MaxCrashes    \* bounds

IFO == [subj : Subject, rs : Name, op : Operation, labels : SUBSET Label,
        created : Nat, phase : {"", "Active", "Completed"}, completed : Nat]

\* A copy of a stored object, and whether it is still the stored version.
Copy == [rec : IFO \cup {None}, cur : BOOLEAN]
OpCopy == [id : Id, rec : IFO, cur : BOOLEAN]
NoCopy == [rec |-> None, cur |-> FALSE]

\* A deletion, seen ("delete") or inferred ("unknown"), carries no content.
Event == [kind : {"update"}, subj : Subject, content : Content]
         \cup [kind : {"delete", "unknown"}, subj : Subject, content : {None}]

Result == [rs : Name, ops : Seq(Operation), labels : SUBSET Label]

ASSUME TrackerAssumption ==
    /\ Serves \in [GVR -> SUBSET Subject]
    /\ Applies \in [Body -> SUBSET Subject]
    /\ Matches \in [Body -> [Content -> Seq(Operation)]]
    /\ EvalFails \in [Body -> SUBSET Content]
    /\ Labels \in [Body -> [Content -> SUBSET Label]]
    /\ Deployed \subseteq OperationRuleSet
    /\ DebounceThreshold \in Nat
    /\ K8SAPITimeout \in Nat
    /\ RetainCompletedIFOs \in BOOLEAN
    /\ MaxTime \in Nat /\ MaxQueue \in Nat /\ MaxChanges \in Nat
    /\ MaxFaults \in Nat /\ MaxCrashes \in Nat
    /\ None \notin Content /\ None \notin IFO /\ None \notin Event /\ None \notin OpCopy

VARIABLES
    now,        \* the clock
    subjects,   \* Subject -> content, None before creation and after deletion
    gone,       \* the subjects that were deleted
    watching,   \* GVR -> "off", "on", or "dead" once its informer stopped
    indexer,    \* GVR -> the informer's store
    events,     \* GVR -> notifications waiting for the handler
    ifo,        \* Id -> stored InFlightOperation
    cached,     \* Id -> the manager's copy
    pc,         \* GVR -> where the handler is
    evt,        \* GVR -> the event it handles
    began,      \* GVR -> when its context was made
    results,    \* GVR -> results of the evaluation still to be ensured
    held,       \* GVR -> the listed copies still to be looked at
    op,         \* GVR -> id and copy in use by the current call
    missed,     \* subjects whose deletion, or its processing, was lost
    changes, faults, crashes

clusterVars == <<subjects, gone, changes>>
informerVars == <<watching, indexer, events>>
storeVars == <<ifo, cached>>
handlerVars == <<pc, evt, began, results, held, op>>
vars == <<ruleVars, now, clusterVars, informerVars, storeVars, handlerVars,
          missed, faults, crashes>>

PC == {"idle", "list", "run", "cleanup", "create", "mark", "deleteall"}

----------------------------------------------------------------------------
(* InFlightOperation.                                                      *)

MarkCompleted(r) == [r EXCEPT !.phase = "Completed", !.completed = now]

MarkDetection_NoPhase(r) == [r EXCEPT !.completed = 0]

MarkDetection_KeepsTime(r) == [r EXCEPT !.phase = "Active"]

MarkDetection(r) == [r EXCEPT !.phase = "Active", !.completed = 0]

Complete(r) == r.completed # 0

PastDebounceThreshold_Flipped(r) == Complete(r) /\ r.completed + DebounceThreshold > now

PastDebounceThreshold(r) == Complete(r) /\ r.completed + DebounceThreshold <= now

----------------------------------------------------------------------------
(* The evaluator.  A ruleset that does not apply to the subject, or fails  *)
(* on it, is skipped: it contributes no operation.                         *)

EvaluateRuleSet(o, e) ==
    [rs |-> o.name,
     ops |-> IF e.subj \in Applies[o.body] /\ e.content \notin EvalFails[o.body]
             THEN Matches[o.body][e.content] ELSE <<>>,
     labels |-> Labels[o.body][e.content]]

Detected(rs) == UNION {{rs[i].ops[k] : k \in 1..Len(rs[i].ops)} : i \in 1..Len(rs)}

----------------------------------------------------------------------------
Init ==
    /\ RuleCacheInit
    /\ now = 1
    /\ subjects = [s \in Subject |-> None]
    /\ gone = {}
    /\ watching = [g \in GVR |-> "off"]
    /\ indexer = [g \in GVR |-> [s \in Subject |-> None]]
    /\ events = [g \in GVR |-> <<>>]
    /\ ifo = [i \in Id |-> None]
    /\ cached = [i \in Id |-> [rec |-> None, cur |-> TRUE]]
    /\ pc = [g \in GVR |-> "idle"]
    /\ evt = [g \in GVR |-> None]
    /\ began = [g \in GVR |-> 0]
    /\ results = [g \in GVR |-> <<>>]
    /\ held = [g \in GVR |-> [i \in Id |-> NoCopy]]
    /\ op = [g \in GVR |-> None]
    /\ missed = {}
    /\ changes = 0 /\ faults = 0 /\ crashes = 0

----------------------------------------------------------------------------
(* The cluster: subjects come, change and go; time passes.                 *)

Change == changes < MaxChanges /\ changes' = changes + 1
Fault == faults < MaxFaults /\ faults' = faults + 1

CreateSubject(s, c) ==
    /\ subjects[s] = None /\ s \notin gone
    /\ Change
    /\ subjects' = [subjects EXCEPT ![s] = c]
    /\ UNCHANGED <<ruleVars, now, gone, informerVars, storeVars, handlerVars, missed,
                   faults, crashes>>

ChangeSubject(s, c) ==
    /\ subjects[s] \notin {None, c}
    /\ Change
    /\ subjects' = [subjects EXCEPT ![s] = c]
    /\ UNCHANGED <<ruleVars, now, gone, informerVars, storeVars, handlerVars, missed,
                   faults, crashes>>

\* A deletion is seen by the informers that have the subject in store; if
\* there is none, no handler is ever told.
DeleteSubject(s) ==
    /\ subjects[s] # None
    /\ Change
    /\ subjects' = [subjects EXCEPT ![s] = None]
    /\ gone' = gone \cup {s}
    /\ missed' = IF \E g \in GVR : watching[g] = "on" /\ indexer[g][s] # None
                 THEN missed ELSE missed \cup {s}
    /\ UNCHANGED <<ruleVars, now, informerVars, storeVars, handlerVars, faults, crashes>>

Tick ==
    /\ now < MaxTime
    /\ now' = now + 1
    /\ UNCHANGED <<ruleVars, clusterVars, informerVars, storeVars, handlerVars, missed,
                   faults, crashes>>

----------------------------------------------------------------------------
(* client-go's informers and the manager's cache.                          *)

Notify(g, kind, s) ==
    /\ Len(events[g]) < MaxQueue
    /\ events' = [events EXCEPT ![g] =
            Append(@, [kind |-> kind, subj |-> s, content |-> subjects[s]])]
    /\ indexer' = [indexer EXCEPT ![g][s] = subjects[s]]

\* The watch delivers the latest state of s: an Add, an Update or a Delete.
Observe(g, s) ==
    /\ watching[g] = "on"
    /\ s \in Serves[g]
    /\ indexer[g][s] # subjects[s]
    /\ Notify(g, IF subjects[s] = None THEN "delete" ELSE "update", s)
    /\ UNCHANGED <<ruleVars, now, clusterVars, watching, storeVars, handlerVars, missed,
                   faults, crashes>>

\* The watch broke while s was deleted; the list that follows lacks it and
\* the handler gets a DeletedFinalStateUnknown.
ObserveUnknown(g, s) ==
    /\ watching[g] = "on"
    /\ indexer[g][s] # None
    /\ subjects[s] = None
    /\ Fault
    /\ Notify(g, "unknown", s)
    /\ UNCHANGED <<ruleVars, now, clusterVars, watching, storeVars, handlerVars, missed,
                   crashes>>

\* The periodic resync replays the store as updates.  A replay is only
\* queued behind an empty queue: behind a full one it would repeat what is
\* there.
Resync(g, s) ==
    /\ watching[g] = "on"
    /\ indexer[g][s] # None
    /\ events[g] = <<>>
    /\ events' = [events EXCEPT ![g] =
            <<[kind |-> "update", subj |-> s, content |-> indexer[g][s]]>>]
    /\ UNCHANGED <<ruleVars, now, clusterVars, watching, indexer, storeVars, handlerVars,
                   missed, faults, crashes>>

SyncCache(i) ==
    /\ ~cached[i].cur
    /\ cached' = [cached EXCEPT ![i] = [rec |-> ifo[i], cur |-> TRUE]]
    /\ UNCHANGED <<ruleVars, now, clusterVars, informerVars, ifo, handlerVars, missed,
                   faults, crashes>>

----------------------------------------------------------------------------
(* The controller loads and unloads rulesets (RuleSetController has the    *)
(* detail).  The watch of a GVR that loses its last ruleset is stopped: its *)
(* queue is dropped, a call that is running goes on, and no handler of this *)
(* GVR is ever called again in this process.                               *)

Load(o) ==
    /\ ~Holds(cache, o)
    /\ watching[o.gvr] # "dead"
    /\ AddOrUpdateRule(o)
    /\ watching' = [watching EXCEPT ![o.gvr] = "on"]
    /\ UNCHANGED <<now, clusterVars, indexer, events, storeVars, handlerVars, missed,
                   faults, crashes>>

Unload(o) ==
    /\ Holds(cache, o)
    /\ Change
    /\ RemoveRule(o)
    /\ IF cache'[o.gvr] # <<>>
       THEN UNCHANGED <<informerVars, missed>>
       ELSE /\ watching' = [watching EXCEPT ![o.gvr] = "dead"]
            /\ indexer' = [indexer EXCEPT ![o.gvr] = [s \in Subject |-> None]]
            /\ events' = [events EXCEPT ![o.gvr] = <<>>]
            /\ missed' = missed \cup gone \cup
                 (IF evt[o.gvr] = None THEN {} ELSE {evt[o.gvr].subj})
    /\ UNCHANGED <<now, subjects, gone, storeVars, handlerVars, faults, crashes>>

\* The process dies and restarts: memory is lost, the cache of
\* InFlightOperations is listed anew, rulesets are loaded one by one again.
Restart ==
    /\ crashes < MaxCrashes
    /\ crashes' = crashes + 1
    /\ cache' = [g \in GVR |-> <<>>] /\ activeRulesets' = 0
    /\ watching' = [g \in GVR |-> "off"]
    /\ indexer' = [g \in GVR |-> [s \in Subject |-> None]]
    /\ events' = [g \in GVR |-> <<>>]
    /\ cached' = [i \in Id |-> [rec |-> ifo[i], cur |-> TRUE]]
    /\ pc' = [g \in GVR |-> "idle"]
    /\ evt' = [g \in GVR |-> None]
    /\ began' = [g \in GVR |-> 0]
    /\ results' = [g \in GVR |-> <<>>]
    /\ held' = [g \in GVR |-> [i \in Id |-> NoCopy]]
    /\ op' = [g \in GVR |-> None]
    /\ missed' = missed \cup gone
    /\ UNCHANGED <<now, clusterVars, ifo, faults>>

----------------------------------------------------------------------------
(* API calls of a handler.                                                 *)

\* The context of the call has not expired.
InTime(g) == now < began[g] + K8SAPITimeout

\* A call fails when its context has expired, or by a fault.
CallFails(g) == IF InTime(g) THEN Fault ELSE UNCHANGED faults

CallWorks(g) == InTime(g) /\ UNCHANGED faults

\* The stored objects S are written or deleted: other copies are stale.
StaleCached(S) == [i \in Id |-> IF i \in S THEN [cached[i] EXCEPT !.cur = FALSE] ELSE cached[i]]
StaleHeld(S) ==
    [h \in GVR |-> [i \in Id |-> IF i \in S THEN [held[h][i] EXCEPT !.cur = FALSE] ELSE held[h][i]]]
StaleOp(S) ==
    [h \in GVR |-> IF op[h] # None /\ op[h].id \in S THEN [op[h] EXCEPT !.cur = FALSE] ELSE op[h]]

\* A name the API server can generate: one no copy refers to.
Free(i) ==
    /\ ifo[i] = None
    /\ cached[i].rec = None /\ cached[i].cur
    /\ \A h \in GVR : held[h][i].rec = None /\ (op[h] # None => op[h].id # i)

----------------------------------------------------------------------------
(* handle and handleDelete.                                                *)

Return(g) ==
    /\ pc' = [pc EXCEPT ![g] = "idle"]
    /\ evt' = [evt EXCEPT ![g] = None]
    /\ began' = [began EXCEPT ![g] = 0]

\* The handler is called.  A tombstone fails the type assertion and is
\* dropped; an update for a GVR without rulesets returns at once; otherwise
\* the rulesets are read and evaluated.
Take(g) ==
    /\ pc[g] = "idle"
    /\ events[g] # <<>>
    /\ events' = [events EXCEPT ![g] = Tail(@)]
    /\ LET e == Head(events[g])
       IN  \/ /\ e.kind = "unknown"
              /\ missed' = missed \cup {e.subj}
              /\ UNCHANGED handlerVars
           \/ /\ e.kind = "update" /\ List(g) = <<>>
              /\ UNCHANGED <<handlerVars, missed>>
           \/ /\ e.kind = "update" /\ List(g) # <<>>
              /\ pc' = [pc EXCEPT ![g] = "list"]
              /\ results' = [results EXCEPT ![g] =
                    [i \in 1..Len(List(g)) |-> EvaluateRuleSet(List(g)[i], e)]]
              /\ evt' = [evt EXCEPT ![g] = e]
              /\ began' = [began EXCEPT ![g] = now]
              /\ UNCHANGED <<held, op, missed>>
           \/ /\ e.kind = "delete"
              /\ pc' = [pc EXCEPT ![g] = "deleteall"]
              /\ evt' = [evt EXCEPT ![g] = e]
              /\ began' = [began EXCEPT ![g] = now]
              /\ UNCHANGED <<results, held, op, missed>>
    /\ UNCHANGED <<ruleVars, now, clusterVars, watching, indexer, storeVars, faults, crashes>>

ListOperations_ActiveOnly(g) ==
    /\ pc[g] = "list"
    /\ \/ /\ pc' = [pc EXCEPT ![g] = "run"]
          /\ held' = [held EXCEPT ![g] = [i \in Id |->
                IF /\ cached[i].rec # None
                   /\ cached[i].rec.subj = evt[g].subj
                   /\ cached[i].rec.phase = "Active"
                   /\ cached[i].rec.op \notin Detected(results[g])
                THEN cached[i] ELSE NoCopy]]
          /\ UNCHANGED <<evt, began, results, faults>>
       \/ /\ Fault
          /\ Return(g)
          /\ results' = [results EXCEPT ![g] = <<>>]
          /\ UNCHANGED held
    /\ UNCHANGED <<ruleVars, now, clusterVars, informerVars, storeVars, op, missed, crashes>>

\* Operations.List, from the cache.  Copies of operations that were
\* detected are passed over by the loop and not kept here.
ListOperations(g) ==
    /\ pc[g] = "list"
    /\ \/ /\ pc' = [pc EXCEPT ![g] = "run"]
          /\ held' = [held EXCEPT ![g] = [i \in Id |->
                IF /\ cached[i].rec # None
                   /\ cached[i].rec.subj = evt[g].subj
                   /\ cached[i].rec.op \notin Detected(results[g])
                THEN cached[i] ELSE NoCopy]]
          /\ UNCHANGED <<evt, began, results, faults>>
       \/ /\ Fault
          /\ Return(g)
          /\ results' = [results EXCEPT ![g] = <<>>]
          /\ UNCHANGED held
    /\ UNCHANGED <<ruleVars, now, clusterVars, informerVars, storeVars, op, missed, crashes>>

\* One round of the first loop: an operation no longer detected is marked
\* Completed, also when it is already, unless its debounce window is over.
\* The update is best effort; cleanupCompleted follows in any case.
CompleteOne(g, i) ==
    /\ pc[g] = "run"
    /\ held[g][i].rec # None
    /\ IF PastDebounceThreshold(held[g][i].rec)
       THEN /\ held' = [held EXCEPT ![g][i] = NoCopy]
            /\ UNCHANGED <<ifo, cached, pc, op, faults>>
       ELSE /\ \/ /\ CallWorks(g)
                  /\ held[g][i].cur
                  /\ ifo' = [ifo EXCEPT ![i] = MarkCompleted(held[g][i].rec)]
                  /\ cached' = StaleCached({i})
                  /\ held' = [StaleHeld({i}) EXCEPT ![g][i] = NoCopy]
                  /\ op' = IF RetainCompletedIFOs THEN StaleOp({i})
                           ELSE [StaleOp({i}) EXCEPT ![g] =
                                    [id |-> i, rec |-> held[g][i].rec, cur |-> FALSE]]
               \/ /\ IF held[g][i].cur THEN CallFails(g) ELSE UNCHANGED faults
                  /\ held' = [held EXCEPT ![g][i] = NoCopy]
                  /\ op' = IF RetainCompletedIFOs THEN op
                           ELSE [op EXCEPT ![g] =
                                    [id |-> i, rec |-> held[g][i].rec, cur |-> FALSE]]
                  /\ UNCHANGED <<ifo, cached>>
            /\ pc' = [pc EXCEPT ![g] = IF RetainCompletedIFOs THEN "run" ELSE "cleanup"]
    /\ UNCHANGED <<ruleVars, now, clusterVars, informerVars, evt, began, results, missed,
                   crashes>>

\* cleanupCompleted: a delete by name, without precondition.
CleanupCompleted(g) ==
    LET i == op[g].id IN
    /\ pc[g] = "cleanup"
    /\ \/ /\ CallWorks(g)
          /\ ifo' = [ifo EXCEPT ![i] = None]
          /\ cached' = IF ifo[i] = None THEN cached ELSE StaleCached({i})
          /\ held' = StaleHeld({i})
          /\ op' = [StaleOp({i}) EXCEPT ![g] = None]
       \/ /\ CallFails(g)
          /\ op' = [op EXCEPT ![g] = None]
          /\ UNCHANGED <<ifo, cached, held>>
    /\ pc' = [pc EXCEPT ![g] = "run"]
    /\ UNCHANGED <<ruleVars, now, clusterVars, informerVars, evt, began, results, missed,
                   crashes>>

LoopDone(g) == pc[g] = "run" /\ \A i \in Id : held[g][i].rec = None

\* The second loop goes on to the next result; the last one ends the call.
NextResult(g) ==
    /\ LoopDone(g)
    /\ results[g] # <<>> /\ results[g][1].ops = <<>>
    /\ results' = [results EXCEPT ![g] = Tail(@)]
    /\ IF Len(results[g]) = 1 THEN Return(g) ELSE UNCHANGED <<pc, evt, began>>
    /\ UNCHANGED <<ruleVars, now, clusterVars, informerVars, storeVars, held, op, missed,
                   faults, crashes>>

\* The InFlightOperations of this subject, ruleset and operation whose
\* labels include the ones just computed, as the cache has them.
Candidates(g) ==
    LET r == results[g][1]
    IN  {i \in Id : /\ cached[i].rec # None
                    /\ cached[i].rec.subj = evt[g].subj
                    /\ cached[i].rec.rs = r.rs
                    /\ cached[i].rec.op = r.ops[1]
                    /\ r.labels \subseteq cached[i].rec.labels}

\* The first after sorting by creation time; ties are in any order.
Newest(S) == {i \in S : \A j \in S : cached[j].rec.created <= cached[i].rec.created}

\* Ensure: reuse the newest one, or create one if there is none or its
\* debounce window is over.
Ensure(g) ==
    /\ LoopDone(g)
    /\ results[g] # <<>> /\ results[g][1].ops # <<>>
    /\ \/ /\ \/ Candidates(g) = {}
             \/ \E i \in Newest(Candidates(g)) : PastDebounceThreshold(cached[i].rec)
          /\ pc' = [pc EXCEPT ![g] = "create"]
          /\ UNCHANGED <<op, results, faults>>
       \/ \E i \in Newest(Candidates(g)) :
            /\ ~PastDebounceThreshold(cached[i].rec)
            /\ pc' = [pc EXCEPT ![g] = "mark"]
            /\ op' = [op EXCEPT ![g] =
                    [id |-> i, rec |-> cached[i].rec, cur |-> cached[i].cur]]
            /\ UNCHANGED <<results, faults>>
       \/ /\ Fault
          /\ results' = [results EXCEPT ![g][1].ops = Tail(@)]
          /\ UNCHANGED <<pc, op>>
    /\ UNCHANGED <<ruleVars, now, clusterVars, informerVars, storeVars, evt, began, held,
                   missed, crashes>>

\* What Build makes and Create stores: the status is not part of a create.
Build(g) ==
    [subj |-> evt[g].subj, rs |-> results[g][1].rs, op |-> results[g][1].ops[1],
     labels |-> results[g][1].labels, created |-> now, phase |-> "", completed |-> 0]

\* The create may fail, by quota too, or take effect and be reported as
\* failed; on an error the handler goes on to the next operation.
Create(g) ==
    /\ pc[g] = "create"
    /\ \/ \E i \in Id :
            /\ Free(i)
            /\ InTime(g)
            /\ ifo' = [ifo EXCEPT ![i] = Build(g)]
            /\ cached' = StaleCached({i})
            /\ \/ /\ pc' = [pc EXCEPT ![g] = "mark"]
                  /\ op' = [op EXCEPT ![g] = [id |-> i, rec |-> Build(g), cur |-> TRUE]]
                  /\ UNCHANGED <<results, faults>>
               \/ /\ Fault
                  /\ pc' = [pc EXCEPT ![g] = "run"]
                  /\ results' = [results EXCEPT ![g][1].ops = Tail(@)]
                  /\ UNCHANGED op
       \/ /\ IF \E i \in Id : Free(i) THEN CallFails(g) ELSE UNCHANGED faults
          /\ pc' = [pc EXCEPT ![g] = "run"]
          /\ results' = [results EXCEPT ![g][1].ops = Tail(@)]
          /\ UNCHANGED <<ifo, cached, op>>
    /\ UNCHANGED <<ruleVars, now, clusterVars, informerVars, evt, began, held, missed,
                   crashes>>

\* Writes without the resourceVersion.
Mark_Unlocked(g) ==
    LET i == op[g].id IN
    /\ pc[g] = "mark"
    /\ CallWorks(g)
    /\ ifo' = [ifo EXCEPT ![i] = MarkDetection(op[g].rec)]
    /\ cached' = StaleCached({i})
    /\ held' = StaleHeld({i})
    /\ op' = [StaleOp({i}) EXCEPT ![g] = None]
    /\ pc' = [pc EXCEPT ![g] = "run"]
    /\ results' = [results EXCEPT ![g][1].ops = Tail(@)]
    /\ UNCHANGED <<ruleVars, now, clusterVars, informerVars, evt, began, missed, crashes>>

\* MarkDetection and Status().Update; then the next operation, whatever
\* came of it.
Mark(g) ==
    LET i == op[g].id IN
    /\ pc[g] = "mark"
    /\ \/ /\ CallWorks(g)
          /\ op[g].cur
          /\ ifo' = [ifo EXCEPT ![i] = MarkDetection(op[g].rec)]
          /\ cached' = StaleCached({i})
          /\ held' = StaleHeld({i})
          /\ op' = [StaleOp({i}) EXCEPT ![g] = None]
       \/ /\ IF op[g].cur THEN CallFails(g) ELSE UNCHANGED faults
          /\ op' = [op EXCEPT ![g] = None]
          /\ UNCHANGED <<ifo, cached, held>>
    /\ pc' = [pc EXCEPT ![g] = "run"]
    /\ results' = [results EXCEPT ![g][1].ops = Tail(@)]
    /\ UNCHANGED <<ruleVars, now, clusterVars, informerVars, evt, began, missed, crashes>>

Of(s) == {i \in Id : ifo[i] # None /\ ifo[i].subj = s}

\* Deletes what a List finds, as handle does.
DeleteAll_Listed(g) ==
    LET S == {i \in Of(evt[g].subj) : cached[i].rec # None} IN
    /\ pc[g] = "deleteall"
    /\ IF InTime(g)
       THEN /\ ifo' = [i \in Id |-> IF i \in S THEN None ELSE ifo[i]]
            /\ cached' = StaleCached(S)
            /\ held' = StaleHeld(S)
            /\ op' = StaleOp(S)
            /\ UNCHANGED missed
       ELSE /\ missed' = missed \cup {evt[g].subj}
            /\ UNCHANGED <<ifo, cached, held, op>>
    /\ Return(g)
    /\ UNCHANGED <<ruleVars, now, clusterVars, informerVars, results, faults, crashes>>

\* handleDelete: DeleteAllOf by the subject's labels, against the API
\* server.  A failed call may have deleted some; nothing retries it.
DeleteAll(g) ==
    /\ pc[g] = "deleteall"
    /\ \E S \in SUBSET Of(evt[g].subj) :
        /\ \/ InTime(g)
           \/ S = {}
        /\ IF S = Of(evt[g].subj) /\ InTime(g)
           THEN UNCHANGED <<missed, faults>>
           ELSE CallFails(g) /\ missed' = missed \cup {evt[g].subj}
        /\ ifo' = [i \in Id |-> IF i \in S THEN None ELSE ifo[i]]
        /\ cached' = StaleCached(S)
        /\ held' = StaleHeld(S)
        /\ op' = StaleOp(S)
    /\ Return(g)
    /\ UNCHANGED <<ruleVars, now, clusterVars, informerVars, results, crashes>>

----------------------------------------------------------------------------
Handle(g) ==
    \/ Take(g) \/ ListOperations(g) \/ CleanupCompleted(g) \/ NextResult(g)
    \/ \E i \in Id : CompleteOne(g, i)
    \/ Ensure(g) \/ Create(g) \/ Mark(g) \/ DeleteAll(g)

ClusterStep ==
    \/ \E s \in Subject, c \in Content : CreateSubject(s, c) \/ ChangeSubject(s, c)
    \/ \E s \in Subject : DeleteSubject(s)
    \/ Tick

InformerStep ==
    \E g \in GVR, s \in Subject : Observe(g, s) \/ ObserveUnknown(g, s) \/ Resync(g, s)

ControllerStep == \E o \in Deployed : Load(o) \/ Unload(o)

Next ==
    \/ ClusterStep
    \/ InformerStep
    \/ \E i \in Id : SyncCache(i)
    \/ ControllerStep
    \/ Restart
    \/ \E g \in GVR : Handle(g)

Spec == Init /\ [][Next]_vars

\* The operator's own goroutines keep running: watches deliver, resyncs
\* recur, the cache catches up, the controller loads what is deployed, and
\* a handler call goes on.  Subjects and the clock owe nothing.  Delivery is
\* strongly fair because the queue has no bound in the code: a replay that
\* fills MaxQueue does not keep an event away for ever.
Fairness ==
    /\ \A g \in GVR : WF_vars(Handle(g))
    /\ \A g \in GVR, s \in Subject : SF_vars(Observe(g, s)) /\ WF_vars(Resync(g, s))
    /\ \A i \in Id : WF_vars(SyncCache(i))
    /\ \A o \in Deployed : WF_vars(Load(o))

FairSpec == Spec /\ Fairness

----------------------------------------------------------------------------
(* What the tracker promises.                                              *)

TypeOK ==
    /\ RuleCacheTypeOK
    /\ now \in Nat
    /\ subjects \in [Subject -> Content \cup {None}]
    /\ gone \subseteq Subject /\ missed \subseteq Subject
    /\ watching \in [GVR -> {"off", "on", "dead"}]
    /\ indexer \in [GVR -> [Subject -> Content \cup {None}]]
    /\ events \in [GVR -> Seq(Event)]
    /\ ifo \in [Id -> IFO \cup {None}]
    /\ cached \in [Id -> Copy]
    /\ pc \in [GVR -> PC]
    /\ evt \in [GVR -> Event \cup {None}]
    /\ began \in [GVR -> Nat]
    /\ results \in [GVR -> Seq(Result)]
    /\ held \in [GVR -> [Id -> Copy]]
    /\ op \in [GVR -> OpCopy \cup {None}]
    /\ changes \in Nat /\ faults \in Nat /\ crashes \in Nat

\* A completed operation is closed for good once its debounce window and
\* one API timeout have passed: neither a stale cache, nor a slow handler,
\* nor the handler of another GVR reopens or rewrites it; at most it is
\* deleted.  A new detection gets a new InFlightOperation.
ClosedStaysClosed ==
    [][\A i \in Id :
        /\ ifo[i] # None /\ Complete(ifo[i])
        /\ ifo[i].completed + DebounceThreshold + K8SAPITimeout <= now
        => ifo'[i] \in {ifo[i], None}]_vars

\* To a user, the stored objects live as OperationLifecycle says, through
\* stale copies, slow calls, concurrent handlers and restarts: a handler
\* writes the status of the object it read and nothing else, a write never
\* brings back what was deleted, nothing is marked out of its window, and
\* with retention on no record is lost while its subject exists.
Lifecycle == INSTANCE OperationLifecycle WITH object <- ifo, clock <- now
ImplementsLifecycle == Lifecycle!LSpec

\* No handler has anything to do with s any more.
Forgotten(s) ==
    \A g \in GVR :
        /\ indexer[g][s] = None
        /\ \A k \in 1..Len(events[g]) : events[g][k].subj # s
        /\ evt[g] # None => evt[g].subj # s

\* Once every handler is through with a deleted subject, nothing of it is
\* left, however the handlers of two GVRs and the lagging cache interleave,
\* unless a deletion was missed: dropped as a tombstone, failed, not seen
\* before a restart, or lost with a stopped watch.
GoneIsClean == \A s \in gone \ missed : Forgotten(s) => Of(s) = {}

\* The ruleset called n, as loaded under g, finds operation p in content c.
Finds(g, n, s, c, p) ==
    \E k \in 1..Len(cache[g]) :
        /\ cache[g][k].name = n
        /\ LET ops == EvaluateRuleSet(cache[g][k], [subj |-> s, content |-> c]).ops
           IN  \E j \in 1..Len(ops) : ops[j] = p

AllLoaded == \A o \in Deployed : Holds(cache, o)

\* The handlers that see s agree on p: whatever GVR with rulesets lists s,
\* one of its rulesets finds p.  A handler whose rulesets do not find p
\* completes the InFlightOperations that the others keep for it.
Agreed(s, c, p) ==
    \A h \in GVR : s \in Serves[h] /\ List(h) # <<>> => \E m \in Name : Finds(h, m, s, c, p)

ShownActive(s, n, p) ==
    \E i \in Of(s) : ifo[i].rs = n /\ ifo[i].op = p /\ ifo[i].phase = "Active"

\* The InFlightOperations that Ensure looks for when ruleset n finds p, and
\* whether it can do with what there is: one, and all of them open.
Sought(s, c, n, p) ==
    {i \in Of(s) : /\ ifo[i].rs = n /\ ifo[i].op = p
                   /\ \E g \in GVR : \E k \in 1..Len(cache[g]) :
                        /\ cache[g][k].name = n
                        /\ EvaluateRuleSet(cache[g][k], [subj |-> s, content |-> c]).labels
                              \subseteq ifo[i].labels}
Reusable(s, c, n, p) ==
    Sought(s, c, n, p) # {} /\ \A i \in Sought(s, c, n, p) : ~Complete(ifo[i])

\* An operation that goes on is, from some point on, shown Active for every
\* ruleset that finds it, with handlers of two versions on the subject too,
\* provided every version's rulesets find it and the API server has room for
\* an InFlightOperation where there is none to reuse.
ActiveWhenDetected ==
    \A s \in Subject, c \in Content, n \in Name, p \in Operation :
        <>[](/\ AllLoaded /\ subjects[s] = c
             /\ \E g \in GVR : s \in Serves[g] /\ Finds(g, n, s, c, p)
             /\ Agreed(s, c, p)
             /\ Reusable(s, c, n, p) \/ \E i \in Id : ifo[i] = None)
        => <>[]ShownActive(s, n, p)

\* An operation that is over is, from some point on, shown Active by no
\* InFlightOperation, duplicates and half-made ones included.
CompletedWhenOver ==
    \A s \in Subject, c \in Content, p \in Operation :
        <>[](/\ AllLoaded /\ subjects[s] = c
             /\ \E g \in GVR : s \in Serves[g] /\ watching[g] = "on"
             /\ \A g \in GVR, n \in Name : ~Finds(g, n, s, c, p))
        => <>[](\A i \in Of(s) : ifo[i].op = p => Complete(ifo[i]))

\* A deletion that was not missed is eventually cleaned up after.
GoneEventuallyClean ==
    \A s \in Subject : (s \in gone) ~> (s \in missed \/ Of(s) = {})

----------------------------------------------------------------------------
(* What documents, comments and tests say, and the code does not do.       *)

\* "Grace period after an operation stops being detected before marking it
\* Completed" (README.md:104).  It was detected when it was created.
GraceBeforeCompleted ==
    [][\A i \in Id :
        ifo[i] # None /\ ifo'[i] # None /\ ~Complete(ifo[i]) /\ Complete(ifo'[i])
        => now >= ifo[i].created + DebounceThreshold]_vars

\* "Completed is when the operation completed (phase transitioned to
\* Completed)" (inflightoperation_types.go:90).
CompletedIsTransition ==
    [][\A i \in Id :
        /\ ifo[i] # None /\ ifo'[i] # None
        /\ ifo[i].phase = "Completed" /\ ifo'[i].phase = "Completed"
        => ifo'[i].completed = ifo[i].completed]_vars

\* "the operator automatically creates an InFlightOperation resource that
\* tracks that operation through its lifecycle" (README.md:5): one each.
OneActivePerOperation ==
    \A i, j \in Id :
        /\ ifo[i] # None /\ ifo[j] # None
        /\ ifo[i].phase = "Active" /\ ifo[j].phase = "Active"
        /\ <<ifo[i].subj, ifo[i].rs, ifo[i].op>> = <<ifo[j].subj, ifo[j].rs, ifo[j].op>>
        => i = j

\* "When the operation ends, the IFO transitions to status.phase: Completed"
\* (test-plan-rulesets.md): not before.  Stated for subjects whose content
\* never changes: every operation that was ever detected goes on.
CompletesOnlyWhenOver ==
    [][\A i \in Id :
        ifo[i] # None /\ ifo[i].phase = "Active" /\ subjects[ifo[i].subj] # None
        => ifo'[i] # None /\ ifo'[i].phase = "Active"]_vars

\* "After the debounce threshold (default 30s), completed IFOs are deleted
\* by the controller" (test-plan-rulesets.md).
CompletedIsDeleted ==
    \A i \in Id :
        (ifo[i] # None /\ Complete(ifo[i])) ~> (ifo[i] = None \/ ~Complete(ifo[i]))

\* "should clean up IFOs when the subject is deleted" (e2e_test.go:654).
DeletionCleansUp == \A s \in Subject : (s \in gone) ~> (Of(s) = {})
=============================================================================
