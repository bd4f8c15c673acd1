----------------------- MODULE OperationTrackerProofs -----------------------
(***************************************************************************)
(* What the tracker keeps, for every cluster, every set of rulesets, every *)
(* debounce threshold and API timeout: its types, that a completed         *)
(* operation whose window is over is never written again, that nothing is  *)
(* left of a deleted subject, and that it implements OperationLifecycle.   *)
(***************************************************************************)
EXTENDS OperationTracker, RuleCacheProofs

----------------------------------------------------------------------------
(* The inductive invariant.                                                *)

\* The local variables a handler is about to use have been set.
HandlerReady ==
    \A g \in GVR :
        /\ pc[g] # "idle" => evt[g] # None
        /\ pc[g] \in {"create", "mark"} => results[g] # <<>> /\ results[g][1].ops # <<>>
        /\ pc[g] \in {"mark", "cleanup"} => op[g] # None

\* A copy that would pass the optimistic lock is the stored object.
CopiesCurrent ==
    /\ \A i \in Id : cached[i].cur => cached[i].rec = ifo[i]
    /\ \A g \in GVR, i \in Id :
        held[g][i].rec # None /\ held[g][i].cur => held[g][i].rec = ifo[i]
    /\ \A g \in GVR : op[g] # None /\ op[g].cur => op[g].rec = ifo[op[g].id]

\* A call starts in the past, and an InFlightOperation about to be marked
\* was not past its debounce window when the call started.
MarkInWindow ==
    \A g \in GVR :
        /\ began[g] <= now
        /\ pc[g] = "mark" => \/ ~Complete(op[g].rec)
                             \/ began[g] < op[g].rec.completed + DebounceThreshold

TrackerInv == TypeOK /\ HandlerReady /\ CopiesCurrent /\ MarkInWindow

\* The parts of TypeOK, so that a step need only mention what it changes.
ClusterType ==
    /\ now \in Nat
    /\ subjects \in [Subject -> Content \cup {None}]
    /\ gone \subseteq Subject /\ missed \subseteq Subject
    /\ changes \in Nat /\ faults \in Nat /\ crashes \in Nat

InformerType ==
    /\ watching \in [GVR -> {"off", "on", "dead"}]
    /\ indexer \in [GVR -> [Subject -> Content \cup {None}]]
    /\ events \in [GVR -> Seq(Event)]

StoreType ==
    /\ ifo \in [Id -> IFO \cup {None}]
    /\ cached \in [Id -> Copy]

CallType ==
    /\ pc \in [GVR -> PC]
    /\ evt \in [GVR -> Event \cup {None}]
    /\ began \in [GVR -> Nat]
    /\ results \in [GVR -> Seq(Result)]

HeldType ==
    /\ held \in [GVR -> [Id -> Copy]]
    /\ op \in [GVR -> OpCopy \cup {None}]

Typed ==
    /\ RuleCacheTypeOK /\ ClusterType /\ InformerType /\ StoreType /\ CallType
    /\ HeldType /\ HandlerReady

LEMMA TypedIsTypeOK == Typed <=> TypeOK /\ HandlerReady
  BY DEF Typed, TypeOK, ClusterType, InformerType, StoreType, CallType, HeldType

LEMMA InitTyped == Init => Typed
<1> SUFFICES ASSUME Init PROVE Typed
  OBVIOUS
<1>1. RuleCacheTypeOK
  BY DEF Init, RuleCacheInit, RuleCacheTypeOK
<1>2. ClusterType /\ InformerType /\ StoreType /\ CallType
  BY DEF Init, ClusterType, InformerType, StoreType, CallType, Copy, PC
<1>3. HeldType /\ HandlerReady
  BY DEF Init, HeldType, HandlerReady, Copy, NoCopy
<1> QED
  BY <1>1, <1>2, <1>3 DEF Typed

----------------------------------------------------------------------------
(* The steps that touch neither a handler nor the stored objects.          *)

LEMMA ClusterStepTyped == ASSUME Typed, ClusterStep PROVE Typed'
<1>1. UNCHANGED <<ruleVars, informerVars, storeVars, handlerVars>>
  BY DEF ClusterStep, CreateSubject, ChangeSubject, DeleteSubject, Tick
<1>2. RuleCacheTypeOK' /\ InformerType' /\ StoreType' /\ CallType' /\ HeldType' /\ HandlerReady'
  BY <1>1 DEF Typed, ruleVars, informerVars, storeVars, handlerVars, RuleCacheTypeOK,
              InformerType, StoreType, CallType, HeldType, HandlerReady
<1>3. ClusterType'
  BY DEF Typed, ClusterType, ClusterStep, CreateSubject, ChangeSubject, DeleteSubject, Tick,
         Change, clusterVars
<1> QED
  BY <1>2, <1>3 DEF Typed

LEMMA InformerStepTyped == ASSUME Typed, InformerStep PROVE Typed'
<1> USE DEF Typed
<1>1. UNCHANGED <<ruleVars, now, clusterVars, watching, storeVars, handlerVars, missed, crashes>>
      /\ faults' \in Nat
  BY DEF InformerStep, Observe, ObserveUnknown, Resync, Fault, ClusterType
<1>2. /\ RuleCacheTypeOK' /\ ClusterType' /\ StoreType' /\ CallType' /\ HeldType'
      /\ HandlerReady'
  BY <1>1 DEF ruleVars, clusterVars, storeVars, handlerVars, RuleCacheTypeOK, ClusterType,
              StoreType, CallType, HeldType, HandlerReady
<1>3. InformerType'
  <2>1. PICK g \in GVR, s \in Subject : Observe(g, s) \/ ObserveUnknown(g, s) \/ Resync(g, s)
    BY DEF InformerStep
  <2>2. ASSUME NEW e \in Event, events' = [events EXCEPT ![g] = Append(@, e)]
        PROVE  events' \in [GVR -> Seq(Event)]
    BY <2>2 DEF InformerType
  <2>3. subjects[s] \in Content \cup {None} /\ indexer[g][s] \in Content \cup {None}
    BY DEF ClusterType, InformerType
  <2>4. CASE Observe(g, s)
    <3>1. [kind |-> IF subjects[s] = None THEN "delete" ELSE "update",
           subj |-> s, content |-> subjects[s]] \in Event
      BY <2>3 DEF Event
    <3> QED
      BY <1>1, <2>2, <2>3, <2>4, <3>1 DEF Observe, Notify, InformerType
  <2>5. CASE ObserveUnknown(g, s)
    <3>1. [kind |-> "unknown", subj |-> s, content |-> subjects[s]] \in Event
      BY <2>5 DEF Event, ObserveUnknown
    <3> QED
      BY <1>1, <2>2, <2>3, <2>5, <3>1 DEF ObserveUnknown, Notify, InformerType
  <2>6. CASE Resync(g, s)
    <3>1. [kind |-> "update", subj |-> s, content |-> indexer[g][s]] \in Event
      BY <2>3, <2>6 DEF Event, Resync
    <3> QED
      BY <1>1, <2>6, <3>1 DEF Resync, InformerType
  <2> QED
    BY <2>1, <2>4, <2>5, <2>6
<1> QED
  BY <1>2, <1>3

LEMMA SyncCacheTyped == ASSUME Typed, NEW i \in Id, SyncCache(i) PROVE Typed'
<1> USE DEF Typed
<1>1. StoreType'
  BY DEF SyncCache, StoreType, Copy
<1>2. /\ RuleCacheTypeOK' /\ ClusterType' /\ InformerType' /\ CallType' /\ HeldType'
      /\ HandlerReady'
  BY DEF SyncCache, ruleVars, clusterVars, informerVars, handlerVars, RuleCacheTypeOK,
         ClusterType, InformerType, CallType, HeldType, HandlerReady
<1> QED
  BY <1>1, <1>2

LEMMA ControllerStepTyped == ASSUME Typed, ControllerStep PROVE Typed'
<1> USE DEF Typed
<1>1. PICK o \in Deployed : Load(o) \/ Unload(o)
  BY DEF ControllerStep
<1>2. o \in OperationRuleSet /\ o.gvr \in GVR
  BY <1>1, TrackerAssumption DEF OperationRuleSet
<1>3. RuleCacheTypeOK'
  BY <1>1, <1>2, RuleCacheStep DEF Load, Unload
<1>4. StoreType' /\ CallType' /\ HeldType' /\ HandlerReady'
  BY <1>1 DEF Load, Unload, storeVars, handlerVars, StoreType, CallType, HeldType, HandlerReady
<1>5. ClusterType'
  <2>1. evt[o.gvr] # None => evt[o.gvr].subj \in Subject
    BY <1>2 DEF CallType, Event
  <2>2. missed' \subseteq Subject
    BY <1>1, <2>1 DEF Load, Unload, ClusterType, informerVars
  <2>3. now' = now /\ subjects' = subjects /\ gone' = gone /\ faults' = faults
        /\ crashes' = crashes /\ changes' \in Nat
    BY <1>1 DEF Load, Unload, Change, ClusterType, clusterVars
  <2> QED
    BY <2>2, <2>3 DEF ClusterType
<1>6. InformerType'
  <2>1. CASE Load(o)
    BY <1>2, <2>1 DEF Load, InformerType
  <2>2. CASE Unload(o)
    <3>1. CASE cache'[o.gvr] # <<>>
      BY <2>2, <3>1 DEF Unload, InformerType, informerVars
    <3>2. CASE cache'[o.gvr] = <<>>
      <4>1. /\ watching' = [watching EXCEPT ![o.gvr] = "dead"]
            /\ indexer' = [indexer EXCEPT ![o.gvr] = [s \in Subject |-> None]]
            /\ events' = [events EXCEPT ![o.gvr] = <<>>]
        BY <2>2, <3>2 DEF Unload
      <4> QED
        BY <1>2, <4>1 DEF InformerType
    <3> QED
      BY <3>1, <3>2
  <2> QED
    BY <1>1, <2>1, <2>2
<1> QED
  BY <1>3, <1>4, <1>5, <1>6

LEMMA RestartTyped == ASSUME Typed, Restart PROVE Typed'
<1> USE DEF Typed
<1>1. RuleCacheTypeOK' /\ ClusterType' /\ InformerType' /\ StoreType'
  BY DEF Restart, RuleCacheTypeOK, ClusterType, clusterVars, InformerType, StoreType, Copy
<1>2. CallType' /\ HeldType' /\ HandlerReady'
  BY DEF Restart, CallType, HeldType, HandlerReady, Copy, NoCopy, PC
<1> QED
  BY <1>1, <1>2
----------------------------------------------------------------------------
(* The steps of a handler.  They share what they leave alone, and what     *)
(* making copies stale does to a type.                                     *)

LEMMA StaleTyped ==
    ASSUME Typed, NEW S
    PROVE  /\ StaleCached(S) \in [Id -> Copy]
           /\ StaleHeld(S) \in [GVR -> [Id -> Copy]]
           /\ StaleOp(S) \in [GVR -> OpCopy \cup {None}]
           /\ \A h \in GVR : op[h] # None => StaleOp(S)[h] # None
<1> USE DEF Typed
<1>1. StaleCached(S) \in [Id -> Copy]
  BY DEF StaleCached, StoreType, Copy
<1>2. StaleHeld(S) \in [GVR -> [Id -> Copy]]
  <2>1. \A h \in GVR, i \in Id : held[h][i] \in Copy
    BY DEF HeldType
  <2>2. \A c \in Copy : [c EXCEPT !.cur = FALSE] \in Copy
    BY DEF Copy
  <2> QED
    BY <2>1, <2>2 DEF StaleHeld
<1>3. \A h \in GVR : StaleOp(S)[h] \in OpCopy \cup {None}
                    /\ (op[h] # None => StaleOp(S)[h] # None)
  <2> SUFFICES ASSUME NEW h \in GVR
               PROVE  /\ StaleOp(S)[h] \in OpCopy \cup {None}
                      /\ op[h] # None => StaleOp(S)[h] # None
    OBVIOUS
  <2>1. op[h] \in OpCopy \cup {None}
    BY DEF HeldType
  <2>2. \A c \in OpCopy : [c EXCEPT !.cur = FALSE] \in OpCopy
    BY DEF OpCopy
  <2>3. None \notin OpCopy
    BY TrackerAssumption
  <2> QED
    BY <2>1, <2>2, <2>3 DEF StaleOp
<1> QED
  BY <1>1, <1>2, <1>3 DEF StaleOp

\* No step of a handler touches the rule cache, the clock or the subjects.
LEMMA HandleLeaves ==
    ASSUME Typed, NEW g \in GVR, Handle(g)
    PROVE  /\ UNCHANGED <<ruleVars, now, clusterVars, watching, indexer, crashes>>
           /\ RuleCacheTypeOK'
<1>1. UNCHANGED <<ruleVars, now, clusterVars, watching, indexer, crashes>>
  BY DEF Handle, Take, ListOperations, CleanupCompleted, NextResult, CompleteOne, Ensure,
         Create, Mark, DeleteAll, informerVars
<1> QED
  BY <1>1 DEF ruleVars, Typed, RuleCacheTypeOK

\* What an evaluation returns for an update.
LEMMA EvaluateTyped ==
    ASSUME NEW o \in OperationRuleSet, NEW e \in Event, e.kind = "update"
    PROVE  EvaluateRuleSet(o, e) \in Result
<1>1. e.content \in Content /\ o.body \in Body /\ o.name \in Name
  BY DEF Event, OperationRuleSet
<1>2. /\ Matches[o.body][e.content] \in Seq(Operation)
      /\ Labels[o.body][e.content] \in SUBSET Label
      /\ <<>> \in Seq(Operation)
  BY <1>1, TrackerAssumption
<1> QED
  BY <1>1, <1>2 DEF EvaluateRuleSet, Result

LEMMA TakeTyped == ASSUME Typed, NEW g \in GVR, Take(g) PROVE Typed'
<1> USE DEF Typed
<1> DEFINE e == Head(events[g])
<1>1. events[g] \in Seq(Event) /\ events[g] # <<>>
  BY DEF Take, InformerType
<1>2. e \in Event /\ Tail(events[g]) \in Seq(Event)
  BY <1>1
<1>3. e.subj \in Subject /\ e # None
  BY <1>2, TrackerAssumption DEF Event
<1>4. RuleCacheTypeOK'
  BY HandleLeaves DEF Handle
<1>5. InformerType'
  BY <1>2 DEF Take, InformerType
<1>6. StoreType'
  BY DEF Take, storeVars, StoreType
<1>7. ClusterType'
  BY <1>3 DEF Take, ClusterType, clusterVars
<1>8. HeldType'
  BY DEF Take, HeldType, handlerVars
<1>9. CallType' /\ HandlerReady'
  <2>1. CASE UNCHANGED handlerVars
    BY <2>1 DEF handlerVars, CallType, HandlerReady
  <2>2. CASE /\ e.kind = "update" /\ List(g) # <<>>
             /\ pc' = [pc EXCEPT ![g] = "list"]
             /\ results' = [results EXCEPT ![g] =
                    [i \in 1..Len(List(g)) |-> EvaluateRuleSet(List(g)[i], e)]]
             /\ evt' = [evt EXCEPT ![g] = e]
             /\ began' = [began EXCEPT ![g] = now]
             /\ op' = op
    <3>1. List(g) \in Seq(OperationRuleSet)
      BY DEF List, RuleCacheTypeOK
    <3>2. [i \in 1..Len(List(g)) |-> EvaluateRuleSet(List(g)[i], e)] \in Seq(Result)
      BY <1>2, <2>2, <3>1, EvaluateTyped
    <3> HIDE DEF e
    <3>3. CallType'
      BY <1>2, <2>2, <3>2 DEF CallType, ClusterType, PC
    <3>4. HandlerReady'
      BY <1>3, <2>2 DEF HandlerReady, CallType
    <3> QED
      BY <3>3, <3>4
  <2>3. CASE /\ pc' = [pc EXCEPT ![g] = "deleteall"]
             /\ evt' = [evt EXCEPT ![g] = e]
             /\ began' = [began EXCEPT ![g] = now]
             /\ UNCHANGED <<results, op>>
    <3> HIDE DEF e
    <3>1. CallType'
      BY <1>2, <2>3 DEF CallType, ClusterType, PC
    <3>2. HandlerReady'
      BY <1>3, <2>3 DEF HandlerReady, CallType
    <3> QED
      BY <3>1, <3>2
  <2> QED
    BY <2>1, <2>2, <2>3 DEF Take
<1> QED
  BY <1>4, <1>5, <1>6, <1>7, <1>8, <1>9

\* The end of a call.
LEMMA ReturnTyped ==
    ASSUME Typed, NEW g \in GVR, Return(g)
    PROVE  /\ pc' \in [GVR -> PC] /\ evt' \in [GVR -> Event \cup {None}]
           /\ began' \in [GVR -> Nat]
           /\ pc'[g] = "idle"
           /\ \A h \in GVR \ {g} : pc'[h] = pc[h] /\ evt'[h] = evt[h]
  BY DEF Typed, CallType, Return, PC

LEMMA ListOperationsTyped == ASSUME Typed, NEW g \in GVR, ListOperations(g) PROVE Typed'
<1> USE DEF Typed
<1>1. RuleCacheTypeOK'
  BY HandleLeaves DEF Handle
<1>2. InformerType' /\ StoreType' /\ ClusterType'
  BY DEF ListOperations, InformerType, informerVars, StoreType, storeVars, ClusterType,
         clusterVars, Fault
<1>3. HeldType'
  <2>1. PICK h \in [Id -> Copy] : held' = held \/ held' = [held EXCEPT ![g] = h]
    <3>1. [i \in Id |-> IF /\ cached[i].rec # None
                           /\ cached[i].rec.subj = evt[g].subj
                           /\ cached[i].rec.op \notin Detected(results[g])
                        THEN cached[i] ELSE NoCopy] \in [Id -> Copy]
      BY DEF StoreType, Copy, NoCopy
    <3> QED
      BY <3>1 DEF ListOperations
  <2> QED
    BY <2>1 DEF ListOperations, HeldType
<1>4. CallType' /\ HandlerReady'
  <2>1. CASE pc' = [pc EXCEPT ![g] = "run"] /\ UNCHANGED <<evt, began, results, op>>
    BY <2>1 DEF ListOperations, CallType, HandlerReady, PC
  <2>2. CASE Return(g) /\ results' = [results EXCEPT ![g] = <<>>] /\ UNCHANGED op
    BY <2>2, ReturnTyped DEF CallType, HandlerReady
  <2> QED
    BY <2>1, <2>2 DEF ListOperations
<1> QED
  BY <1>1, <1>2, <1>3, <1>4
\* What the status writes and the build of a new object store.
LEMMA MarkTyped ==
    ASSUME Typed, NEW r \in IFO
    PROVE  MarkCompleted(r) \in IFO /\ MarkDetection(r) \in IFO
  BY DEF Typed, ClusterType, MarkCompleted, MarkDetection, IFO

LEMMA CompleteOneTyped ==
    ASSUME Typed, NEW g \in GVR, NEW i \in Id, CompleteOne(g, i)
    PROVE  Typed'
<1> USE DEF Typed
<1> DEFINE r == held[g][i].rec
           c == [id |-> i, rec |-> r, cur |-> FALSE]
<1>1. r \in IFO /\ MarkCompleted(r) \in IFO
  BY MarkTyped DEF CompleteOne, HeldType, Copy
<1>2. c \in OpCopy /\ c # None
  <2>1. c \in OpCopy
    BY <1>1 DEF OpCopy
  <2> QED
    BY <2>1, TrackerAssumption
<1> DEFINE sc == StaleCached({i})
           sh == StaleHeld({i})
           so == StaleOp({i})
<1>a. /\ sc \in [Id -> Copy] /\ sh \in [GVR -> [Id -> Copy]]
      /\ so \in [GVR -> OpCopy \cup {None}]
      /\ \A h \in GVR : op[h] # None => so[h] # None
  BY StaleTyped
<1>3. RuleCacheTypeOK'
  BY HandleLeaves DEF Handle
<1>4. InformerType' /\ ClusterType'
  BY DEF CompleteOne, InformerType, informerVars, ClusterType, clusterVars, CallWorks,
         CallFails, Fault
<1>5. NoCopy \in Copy
  BY DEF NoCopy, Copy
<1> HIDE DEF r, c, sc, sh, so
<1>6. StoreType'
  <2>1. /\ ifo' = ifo \/ ifo' = [ifo EXCEPT ![i] = MarkCompleted(r)]
        /\ cached' = cached \/ cached' = sc
    BY DEF CompleteOne, r, sc
  <2> QED
    BY <1>1, <2>1, <1>a DEF StoreType
<1>7. held' \in [GVR -> [Id -> Copy]]
  <2>1. PICK f \in {held, sh} : held' = [f EXCEPT ![g][i] = NoCopy]
    BY DEF CompleteOne, sh
  <2>2. f \in [GVR -> [Id -> Copy]]
    BY <1>a DEF HeldType
  <2>3. [f[g] EXCEPT ![i] = NoCopy] \in [Id -> Copy]
    BY <1>5, <2>2
  <2> QED
    BY <2>1, <2>2, <2>3
<1>8. /\ \/ UNCHANGED <<pc, op>>
         \/ /\ RetainCompletedIFOs
            /\ pc' = [pc EXCEPT ![g] = "run"]
            /\ op' = op \/ op' = so
         \/ /\ ~RetainCompletedIFOs
            /\ pc' = [pc EXCEPT ![g] = "cleanup"]
            /\ op' = [op EXCEPT ![g] = c] \/ op' = [so EXCEPT ![g] = c]
      /\ UNCHANGED <<evt, began, results>>
  BY DEF CompleteOne, r, c, so
<1>9. HeldType'
  BY <1>2, <1>7, <1>8, <1>a DEF HeldType
<1>10. CallType'
  BY <1>8 DEF CallType, PC
<1>11. HandlerReady'
  <2>1. pc[g] = "run"
    BY DEF CompleteOne
  <2>2. \A h \in GVR : op[h] # None => op'[h] # None
    BY <1>2, <1>8, <1>a DEF HeldType
  <2>3. pc'[g] = "cleanup" => op'[g] # None
    BY <1>2, <1>8, <2>1, <1>a DEF HeldType, CallType
  <2>4. \A h \in GVR : pc'[h] = pc[h] \/ (h = g /\ pc'[h] \in {"run", "cleanup"})
    BY <1>8 DEF CallType
  <2> QED
    BY <1>8, <2>1, <2>2, <2>3, <2>4 DEF HandlerReady
<1> QED
  BY <1>3, <1>4, <1>6, <1>9, <1>10, <1>11

LEMMA CleanupTyped == ASSUME Typed, NEW g \in GVR, CleanupCompleted(g) PROVE Typed'
<1> USE DEF Typed
<1> DEFINE i == op[g].id
           sc == StaleCached({i})
           sh == StaleHeld({i})
           so == StaleOp({i})
<1>a. /\ sc \in [Id -> Copy] /\ sh \in [GVR -> [Id -> Copy]]
      /\ so \in [GVR -> OpCopy \cup {None}]
      /\ \A h \in GVR : op[h] # None => so[h] # None
  BY StaleTyped
<1>1. RuleCacheTypeOK'
  BY HandleLeaves DEF Handle
<1>2. InformerType' /\ ClusterType'
  BY DEF CleanupCompleted, InformerType, informerVars, ClusterType, clusterVars, CallWorks,
         CallFails, Fault
<1>3. /\ ifo' = ifo \/ ifo' = [ifo EXCEPT ![i] = None]
      /\ cached' = cached \/ cached' = sc
      /\ held' = held \/ held' = sh
      /\ op' = [op EXCEPT ![g] = None] \/ op' = [so EXCEPT ![g] = None]
      /\ pc' = [pc EXCEPT ![g] = "run"]
      /\ UNCHANGED <<evt, began, results>>
      /\ pc[g] = "cleanup"
  BY DEF CleanupCompleted
<1> HIDE DEF i, sc, sh, so
<1>4. StoreType' /\ HeldType'
  BY <1>3, <1>a DEF StoreType, HeldType
<1>5. CallType'
  BY <1>3 DEF CallType, PC
<1>6. HandlerReady'
  <2>1. \A h \in GVR \ {g} : pc'[h] = pc[h] /\ (op[h] # None => op'[h] # None)
    BY <1>3, <1>a DEF CallType, HeldType
  <2>2. pc'[g] = "run"
    BY <1>3 DEF CallType
  <2> QED
    BY <1>3, <2>1, <2>2 DEF HandlerReady
<1> QED
  BY <1>1, <1>2, <1>4, <1>5, <1>6

LEMMA NextResultTyped == ASSUME Typed, NEW g \in GVR, NextResult(g) PROVE Typed'
<1> USE DEF Typed
<1>1. RuleCacheTypeOK'
  BY HandleLeaves DEF Handle
<1>2. InformerType' /\ ClusterType' /\ StoreType' /\ HeldType'
  BY DEF NextResult, InformerType, informerVars, ClusterType, clusterVars, StoreType,
         storeVars, HeldType
<1>3. results' \in [GVR -> Seq(Result)]
  <2>1. results[g] \in Seq(Result) /\ results[g] # <<>>
    BY DEF NextResult, CallType
  <2>2. Tail(results[g]) \in Seq(Result)
    BY <2>1
  <2> QED
    BY <2>2 DEF NextResult, CallType
<1>4. \A h \in GVR \ {g} : results'[h] = results[h]
  BY DEF NextResult, CallType
<1>5. pc[g] = "run" /\ op' = op
  BY DEF NextResult, LoopDone
<1>6. CASE Return(g)
  BY <1>3, <1>4, <1>5, <1>6, <1>1, <1>2, ReturnTyped DEF CallType, HandlerReady
<1>7. CASE UNCHANGED <<pc, evt, began>>
  BY <1>3, <1>4, <1>5, <1>7, <1>1, <1>2 DEF CallType, HandlerReady
<1> QED
  BY <1>6, <1>7 DEF NextResult

\* The handler goes on to the next operation of the current result.
LEMMA PopTyped ==
    ASSUME Typed, NEW g \in GVR, results[g] # <<>>, results[g][1].ops # <<>>
    PROVE  /\ [results EXCEPT ![g][1].ops = Tail(@)] \in [GVR -> Seq(Result)]
           /\ \A h \in GVR \ {g} :
                [results EXCEPT ![g][1].ops = Tail(@)][h] = results[h]
<1> DEFINE r == results[g][1]
           q == [r EXCEPT !.ops = Tail(@)]
<1>1. results \in [GVR -> Seq(Result)] /\ results[g] \in Seq(Result)
  BY DEF Typed, CallType
<1>2. 1 \in 1..Len(results[g]) /\ r \in Result
  BY <1>1
<1>3. Tail(r.ops) \in Seq(Operation)
  BY <1>2 DEF Result
<1>4. q \in Result
  BY <1>2, <1>3 DEF Result
<1>5. [results[g] EXCEPT ![1] = q] \in Seq(Result)
  BY <1>1, <1>2, <1>4
<1>6. [results EXCEPT ![g][1].ops = Tail(@)] = [results EXCEPT ![g] = [results[g] EXCEPT ![1] = q]]
  OBVIOUS
<1> HIDE DEF q
<1> QED
  BY <1>1, <1>5, <1>6

LEMMA EnsureTyped == ASSUME Typed, NEW g \in GVR, Ensure(g) PROVE Typed'
<1> USE DEF Typed
<1>1. RuleCacheTypeOK'
  BY HandleLeaves DEF Handle
<1>2. InformerType' /\ ClusterType' /\ StoreType' /\ held' = held
  BY DEF Ensure, InformerType, informerVars, ClusterType, clusterVars, StoreType, storeVars,
         Fault
<1>3. results[g] # <<>> /\ results[g][1].ops # <<>> /\ UNCHANGED <<evt, began>> /\ pc[g] = "run"
  BY DEF Ensure, LoopDone
<1>4. CASE pc' = [pc EXCEPT ![g] = "create"] /\ UNCHANGED <<op, results>>
  BY <1>1, <1>2, <1>3, <1>4 DEF HeldType, CallType, HandlerReady, PC
<1>5. CASE \E i \in Newest(Candidates(g)) :
            /\ pc' = [pc EXCEPT ![g] = "mark"]
            /\ op' = [op EXCEPT ![g] =
                    [id |-> i, rec |-> cached[i].rec, cur |-> cached[i].cur]]
            /\ results' = results
  <2>1. PICK i \in Newest(Candidates(g)) :
            /\ pc' = [pc EXCEPT ![g] = "mark"]
            /\ op' = [op EXCEPT ![g] =
                    [id |-> i, rec |-> cached[i].rec, cur |-> cached[i].cur]]
            /\ results' = results
    BY <1>5
  <2> DEFINE c == [id |-> i, rec |-> cached[i].rec, cur |-> cached[i].cur]
  <2>2. i \in Id /\ cached[i].rec # None
    BY DEF Newest, Candidates
  <2>3. cached[i].rec \in IFO /\ cached[i].cur \in BOOLEAN
    BY <2>2 DEF StoreType, Copy
  <2>4. c \in OpCopy
    BY <2>2, <2>3 DEF OpCopy
  <2>5. c # None
    BY <2>4, TrackerAssumption
  <2> HIDE DEF c
  <2>6. op' = [op EXCEPT ![g] = c]
    BY <2>1 DEF c
  <2>7. HeldType'
    BY <1>2, <2>4, <2>6 DEF HeldType
  <2>8. CallType'
    BY <1>3, <2>1 DEF CallType, PC
  <2>9. HandlerReady'
    BY <1>3, <2>1, <2>5, <2>6 DEF HandlerReady, CallType, HeldType
  <2> QED
    BY <1>1, <1>2, <2>7, <2>8, <2>9
<1>6. CASE results' = [results EXCEPT ![g][1].ops = Tail(@)] /\ UNCHANGED <<pc, op>>
  <2>1. CallType'
    BY <1>3, <1>6, PopTyped DEF CallType
  <2>2. \A h \in GVR \ {g} : results'[h] = results[h]
    BY <1>3, <1>6, PopTyped
  <2>3. HeldType' /\ HandlerReady'
    BY <1>2, <1>3, <1>6, <2>2 DEF HeldType, HandlerReady
  <2> QED
    BY <1>1, <1>2, <2>1, <2>3
<1> QED
  BY <1>4, <1>5, <1>6 DEF Ensure

LEMMA BuildTyped ==
    ASSUME Typed, NEW g \in GVR, pc[g] = "create"
    PROVE  Build(g) \in IFO
<1>1. evt[g] \in Event /\ evt[g].subj \in Subject
  BY DEF Typed, CallType, HandlerReady, Event
<1>2. results[g] \in Seq(Result) /\ results[g] # <<>> /\ results[g][1].ops # <<>>
  BY DEF Typed, CallType, HandlerReady
<1>3. results[g][1] \in Result
  BY <1>2
<1>4. results[g][1].rs \in Name /\ results[g][1].ops \in Seq(Operation)
      /\ results[g][1].labels \in SUBSET Label
  BY <1>3 DEF Result
<1>5. results[g][1].ops[1] \in Operation
  BY <1>2, <1>4
<1> QED
  BY <1>1, <1>4, <1>5 DEF Build, IFO, Typed, ClusterType

LEMMA CreateTyped == ASSUME Typed, NEW g \in GVR, Create(g) PROVE Typed'
<1> USE DEF Typed
<1> DEFINE pop == [results EXCEPT ![g][1].ops = Tail(@)]
<1>1. RuleCacheTypeOK'
  BY HandleLeaves DEF Handle
<1>2. InformerType' /\ ClusterType' /\ held' = held
  <2>1. UNCHANGED <<now, clusterVars, informerVars, held, missed, crashes>>
    BY DEF Create
  <2>2. faults' = faults \/ Fault
    BY DEF Create, CallFails
  <2> QED
    BY <2>1, <2>2 DEF InformerType, informerVars, ClusterType, clusterVars, Fault
<1>3. /\ pc[g] = "create" /\ UNCHANGED <<evt, began>>
      /\ results[g] # <<>> /\ results[g][1].ops # <<>>
  BY DEF Create, HandlerReady
<1>4. Build(g) \in IFO
  BY <1>3, BuildTyped
<1>5. pop \in [GVR -> Seq(Result)] /\ \A h \in GVR \ {g} : pop[h] = results[h]
  BY <1>3, PopTyped
<1>6. PICK i \in Id \cup {None} :
        /\ \/ i \in Id /\ ifo' = [ifo EXCEPT ![i] = Build(g)] /\ cached' = StaleCached({i})
           \/ UNCHANGED <<ifo, cached>>
        /\ \/ /\ i \in Id
              /\ pc' = [pc EXCEPT ![g] = "mark"]
              /\ op' = [op EXCEPT ![g] = [id |-> i, rec |-> Build(g), cur |-> TRUE]]
              /\ results' = results
           \/ pc' = [pc EXCEPT ![g] = "run"] /\ results' = pop /\ op' = op
  BY DEF Create
<1> DEFINE c == [id |-> i, rec |-> Build(g), cur |-> TRUE]
<1> HIDE DEF pop
<1>7. StoreType'
  <2>1. StaleCached({i}) \in [Id -> Copy]
    BY StaleTyped
  <2> QED
    BY <1>4, <1>6, <2>1 DEF StoreType
<1>8. CASE /\ i \in Id /\ pc' = [pc EXCEPT ![g] = "mark"]
           /\ op' = [op EXCEPT ![g] = c] /\ results' = results
  <2>1. c \in OpCopy
    BY <1>4, <1>8 DEF OpCopy
  <2>2. c # None
    BY <2>1, TrackerAssumption
  <2> HIDE DEF c
  <2>3. HeldType' /\ CallType'
    BY <1>2, <1>3, <1>8, <2>1 DEF HeldType, CallType, PC
  <2>4. HandlerReady'
    BY <1>3, <1>8, <2>2 DEF HandlerReady, CallType, HeldType
  <2> QED
    BY <1>1, <1>2, <1>7, <2>3, <2>4
<1>9. CASE pc' = [pc EXCEPT ![g] = "run"] /\ results' = pop /\ op' = op
  BY <1>1, <1>2, <1>3, <1>5, <1>7, <1>9 DEF HeldType, CallType, PC, HandlerReady
<1> QED
  BY <1>6, <1>8, <1>9

LEMMA MarkStepTyped == ASSUME Typed, NEW g \in GVR, Mark(g) PROVE Typed'
<1> USE DEF Typed
<1> DEFINE i == op[g].id
           sc == StaleCached({i})
           sh == StaleHeld({i})
           so == StaleOp({i})
           pop == [results EXCEPT ![g][1].ops = Tail(@)]
<1>a. /\ sc \in [Id -> Copy] /\ sh \in [GVR -> [Id -> Copy]]
      /\ so \in [GVR -> OpCopy \cup {None}]
      /\ \A h \in GVR : op[h] # None => so[h] # None
  BY StaleTyped
<1>1. RuleCacheTypeOK'
  BY HandleLeaves DEF Handle
<1>2. InformerType' /\ ClusterType'
  BY DEF Mark, InformerType, informerVars, ClusterType, clusterVars, CallWorks, CallFails, Fault
<1>3. /\ pc[g] = "mark" /\ results[g] # <<>> /\ results[g][1].ops # <<>> /\ op[g] # None
      /\ UNCHANGED <<evt, began>>
      /\ pc' = [pc EXCEPT ![g] = "run"]
      /\ results' = pop
  BY DEF Mark, HandlerReady
<1>4. op[g].rec \in IFO
  BY <1>3 DEF HeldType, OpCopy
<1>5. pop \in [GVR -> Seq(Result)] /\ \A h \in GVR \ {g} : pop[h] = results[h]
  BY <1>3, PopTyped
<1>6. MarkDetection(op[g].rec) \in IFO
  BY <1>4, MarkTyped
<1>7. /\ ifo' = ifo \/ ifo' = [ifo EXCEPT ![i] = MarkDetection(op[g].rec)]
      /\ cached' = cached \/ cached' = sc
      /\ held' = held \/ held' = sh
      /\ op' = [op EXCEPT ![g] = None] \/ op' = [so EXCEPT ![g] = None]
  BY DEF Mark
<1> HIDE DEF i, sc, sh, so, pop
<1>8. StoreType' /\ HeldType'
  BY <1>6, <1>7, <1>a DEF StoreType, HeldType
<1>9. CallType'
  BY <1>3, <1>5 DEF CallType, PC
<1>10. HandlerReady'
  <2>1. \A h \in GVR \ {g} : /\ pc'[h] = pc[h] /\ results'[h] = results[h]
                             /\ op[h] # None => op'[h] # None
    BY <1>3, <1>5, <1>7, <1>a DEF CallType, HeldType
  <2>2. pc'[g] = "run"
    BY <1>3 DEF CallType
  <2> QED
    BY <1>3, <2>1, <2>2 DEF HandlerReady
<1> QED
  BY <1>1, <1>2, <1>8, <1>9, <1>10

LEMMA DeleteAllTyped == ASSUME Typed, NEW g \in GVR, DeleteAll(g) PROVE Typed'
<1> USE DEF Typed
<1>1. RuleCacheTypeOK'
  BY HandleLeaves DEF Handle
<1>2. evt[g].subj \in Subject
  BY DEF DeleteAll, HandlerReady, CallType, Event
<1>3. PICK S \in SUBSET Id :
        /\ missed' = missed \/ missed' = missed \cup {evt[g].subj}
        /\ faults' = faults \/ Fault
        /\ ifo' = [i \in Id |-> IF i \in S THEN None ELSE ifo[i]]
        /\ cached' = StaleCached(S)
        /\ held' = StaleHeld(S)
        /\ op' = StaleOp(S)
  BY DEF DeleteAll, CallFails, Of
<1>4. Return(g) /\ UNCHANGED <<now, clusterVars, informerVars, results, crashes>>
  BY DEF DeleteAll
<1>5. InformerType' /\ ClusterType'
  BY <1>2, <1>3, <1>4 DEF InformerType, informerVars, ClusterType, clusterVars, Fault
<1>6. StoreType'
  <2>1. cached' \in [Id -> Copy]
    BY <1>3, StaleTyped
  <2> QED
    BY <1>3, <2>1 DEF StoreType
<1>7. HeldType' /\ \A h \in GVR : op[h] # None => op'[h] # None
  BY <1>3, StaleTyped DEF HeldType
<1>8. CallType' /\ HandlerReady'
  BY <1>4, <1>7, ReturnTyped DEF CallType, HandlerReady
<1> QED
  BY <1>1, <1>5, <1>6, <1>7, <1>8

LEMMA NextTyped == Typed /\ [Next]_vars => Typed'
<1> SUFFICES ASSUME Typed, [Next]_vars PROVE Typed'
  OBVIOUS
<1>1. ASSUME NEW g \in GVR, Handle(g) PROVE Typed'
  BY <1>1, TakeTyped, ListOperationsTyped, CleanupTyped, NextResultTyped, CompleteOneTyped,
     EnsureTyped, CreateTyped, MarkStepTyped, DeleteAllTyped DEF Handle
<1>2. CASE UNCHANGED vars
  BY <1>2 DEF vars, ruleVars, clusterVars, informerVars, storeVars, handlerVars, Typed,
              RuleCacheTypeOK, ClusterType, InformerType, StoreType, CallType, HeldType,
              HandlerReady
<1> QED
  BY <1>1, <1>2, ClusterStepTyped, InformerStepTyped, SyncCacheTyped, ControllerStepTyped,
     RestartTyped DEF Next

\* Every variable of the tracker keeps its type: in particular no handler
\* dereferences an object, an event or a result it does not have.
THEOREM TrackerTypeOK == Spec => []TypeOK
<1>1. Typed => TypeOK
  BY TypedIsTypeOK
<1> QED
  BY <1>1, InitTyped, NextTyped, PTL DEF Spec

----------------------------------------------------------------------------
(* The optimistic lock: a copy believed to be current is.                  *)

\* After a write to the objects in S, the copies that are not stale are
\* copies of what is stored.
LEMMA StaleCurrent ==
    ASSUME Typed, CopiesCurrent, NEW S,
           \A i \in Id \ S : ifo'[i] = ifo[i]
    PROVE  /\ \A i \in Id : StaleCached(S)[i].cur => StaleCached(S)[i].rec = ifo'[i]
           /\ \A g \in GVR, i \in Id :
                StaleHeld(S)[g][i].rec # None /\ StaleHeld(S)[g][i].cur
                => StaleHeld(S)[g][i].rec = ifo'[i]
           /\ \A g \in GVR :
                StaleOp(S)[g] # None /\ StaleOp(S)[g].cur
                => StaleOp(S)[g].rec = ifo'[StaleOp(S)[g].id]
<1> USE DEF Typed
<1>1. \A i \in Id : StaleCached(S)[i].cur => StaleCached(S)[i].rec = ifo'[i]
  BY DEF StaleCached, CopiesCurrent, StoreType, Copy
<1>2. \A g \in GVR, i \in Id :
        StaleHeld(S)[g][i].rec # None /\ StaleHeld(S)[g][i].cur
        => StaleHeld(S)[g][i].rec = ifo'[i]
  <2> SUFFICES ASSUME NEW g \in GVR, NEW i \in Id,
                      StaleHeld(S)[g][i].rec # None, StaleHeld(S)[g][i].cur
               PROVE  StaleHeld(S)[g][i].rec = ifo'[i]
    OBVIOUS
  <2>1. held[g][i] \in Copy
    BY DEF HeldType
  <2>2. i \notin S /\ StaleHeld(S)[g][i] = held[g][i]
    BY <2>1 DEF StaleHeld, Copy
  <2> QED
    BY <2>2 DEF CopiesCurrent
<1>3. \A g \in GVR :
        StaleOp(S)[g] # None /\ StaleOp(S)[g].cur
        => StaleOp(S)[g].rec = ifo'[StaleOp(S)[g].id]
  <2> SUFFICES ASSUME NEW g \in GVR, StaleOp(S)[g] # None, StaleOp(S)[g].cur
               PROVE  StaleOp(S)[g].rec = ifo'[StaleOp(S)[g].id]
    OBVIOUS
  <2>1. op[g] \in OpCopy
    BY DEF HeldType, StaleOp
  <2>2. op[g].id \in Id \ S /\ StaleOp(S)[g] = op[g] /\ op[g] # None
    BY <2>1, TrackerAssumption DEF StaleOp, OpCopy
  <2> QED
    BY <2>2 DEF CopiesCurrent
<1> QED
  BY <1>1, <1>2, <1>3

LEMMA CompleteOneCurrent ==
    ASSUME Typed, CopiesCurrent, NEW g \in GVR, NEW i \in Id, CompleteOne(g, i)
    PROVE  CopiesCurrent'
<1> DEFINE c == [id |-> i, rec |-> held[g][i].rec, cur |-> FALSE]
<1>1. held \in [GVR -> [Id -> Copy]] /\ op \in [GVR -> OpCopy \cup {None}]
  BY DEF Typed, HeldType
<1>2. NoCopy.rec = None /\ c.cur = FALSE
  BY DEF NoCopy
<1> HIDE DEF c
<1>3. CASE /\ UNCHANGED <<ifo, cached>>
           /\ held' = [held EXCEPT ![g][i] = NoCopy]
           /\ op' = op \/ op' = [op EXCEPT ![g] = c]
  BY <1>1, <1>2, <1>3 DEF CopiesCurrent
<1>4. CASE /\ ifo' = [ifo EXCEPT ![i] = MarkCompleted(held[g][i].rec)]
           /\ cached' = StaleCached({i})
           /\ held' = [StaleHeld({i}) EXCEPT ![g][i] = NoCopy]
           /\ op' = StaleOp({i}) \/ op' = [StaleOp({i}) EXCEPT ![g] = c]
  <2> DEFINE S == {i}
             sc == StaleCached(S)
             sh == StaleHeld(S)
             so == StaleOp(S)
  <2>1. \A j \in Id \ S : ifo'[j] = ifo[j]
    BY <1>4 DEF Typed, StoreType
  <2> HIDE DEF S
  <2>2. /\ \A j \in Id : sc[j].cur => sc[j].rec = ifo'[j]
        /\ \A h \in GVR, j \in Id : sh[h][j].rec # None /\ sh[h][j].cur => sh[h][j].rec = ifo'[j]
        /\ \A h \in GVR : so[h] # None /\ so[h].cur => so[h].rec = ifo'[so[h].id]
    BY <2>1, StaleCurrent
  <2>3. sh \in [GVR -> [Id -> Copy]] /\ so \in [GVR -> OpCopy \cup {None}]
    BY StaleTyped
  <2> HIDE DEF sc, sh, so
  <2>4. cached' = sc /\ held' = [sh EXCEPT ![g][i] = NoCopy]
        /\ (op' = so \/ op' = [so EXCEPT ![g] = c])
    BY <1>4 DEF sc, sh, so, S
  <2> QED
    BY <1>2, <2>2, <2>3, <2>4 DEF CopiesCurrent
<1> QED
  BY <1>3, <1>4 DEF CompleteOne, c

\* A step that writes the object i, or deletes the objects S, and makes
\* every other copy stale.
LEMMA WriteCurrent ==
    ASSUME Typed, CopiesCurrent, NEW g \in GVR, NEW S,
           \A i \in Id \ S : ifo'[i] = ifo[i],
           cached' = StaleCached(S) \/ (cached' = cached /\ ifo' = ifo),
           held' = StaleHeld(S),
           op' = StaleOp(S) \/ op' = [StaleOp(S) EXCEPT ![g] = None]
    PROVE  CopiesCurrent'
<1> DEFINE sc == StaleCached(S)
           sh == StaleHeld(S)
           so == StaleOp(S)
<1>1. /\ \A j \in Id : sc[j].cur => sc[j].rec = ifo'[j]
      /\ \A h \in GVR, j \in Id : sh[h][j].rec # None /\ sh[h][j].cur => sh[h][j].rec = ifo'[j]
      /\ \A h \in GVR : so[h] # None /\ so[h].cur => so[h].rec = ifo'[so[h].id]
  BY StaleCurrent
<1>2. so \in [GVR -> OpCopy \cup {None}]
  BY StaleTyped
<1> HIDE DEF sc, sh, so
<1>3. /\ cached' = sc \/ (cached' = cached /\ ifo' = ifo)
      /\ held' = sh
      /\ op' = so \/ op' = [so EXCEPT ![g] = None]
  BY DEF sc, sh, so
<1> QED
  BY <1>1, <1>2, <1>3 DEF CopiesCurrent

LEMMA CreateCurrent ==
    ASSUME Typed, CopiesCurrent, NEW g \in GVR, Create(g)
    PROVE  CopiesCurrent'
<1>1. held' = held
  BY DEF Create
<1>2. CASE UNCHANGED <<ifo, cached, op>>
  BY <1>1, <1>2 DEF CopiesCurrent
<1>3. CASE \E i \in Id :
            /\ Free(i)
            /\ ifo' = [ifo EXCEPT ![i] = Build(g)]
            /\ cached' = StaleCached({i})
            /\ \/ op' = [op EXCEPT ![g] = [id |-> i, rec |-> Build(g), cur |-> TRUE]]
               \/ op' = op
  <2>1. PICK i \in Id :
            /\ Free(i)
            /\ ifo' = [ifo EXCEPT ![i] = Build(g)]
            /\ cached' = StaleCached({i})
            /\ \/ op' = [op EXCEPT ![g] = [id |-> i, rec |-> Build(g), cur |-> TRUE]]
               \/ op' = op
    BY <1>3
  <2>2. /\ ifo'[i] = Build(g)
        /\ \A j \in Id \ {i} : ifo'[j] = ifo[j]
    BY <2>1 DEF Typed, StoreType
  <2>3. \A j \in Id : cached'[j].cur => cached'[j].rec = ifo'[j]
    <3> DEFINE S == {i}
    <3>1. (\A j \in Id \ S : ifo'[j] = ifo[j]) /\ cached' = StaleCached(S)
      BY <2>1, <2>2
    <3> HIDE DEF S
    <3> QED
      BY <3>1, StaleCurrent
  <2>4. \A h \in GVR, j \in Id : held'[h][j].rec # None /\ held'[h][j].cur
                                => held'[h][j].rec = ifo'[j]
    BY <1>1, <2>1, <2>2 DEF CopiesCurrent, Free
  <2>5. \A h \in GVR : op[h] # None => op[h].id \in Id \ {i}
    BY <2>1 DEF Free, Typed, HeldType, OpCopy
  <2>6. \A h \in GVR : op'[h] # None /\ op'[h].cur => op'[h].rec = ifo'[op'[h].id]
    <3> SUFFICES ASSUME NEW h \in GVR, op'[h] # None, op'[h].cur
                 PROVE  op'[h].rec = ifo'[op'[h].id]
      OBVIOUS
    <3>1. op'[h] = op[h] \/ op'[h] = [id |-> i, rec |-> Build(g), cur |-> TRUE]
      BY <2>1 DEF Typed, HeldType
    <3> QED
      BY <2>2, <2>5, <3>1 DEF CopiesCurrent
  <2> QED
    BY <2>3, <2>4, <2>6 DEF CopiesCurrent
<1> QED
  BY <1>2, <1>3 DEF Create

LEMMA NextCurrent ==
    ASSUME Typed, CopiesCurrent, [Next]_vars
    PROVE  CopiesCurrent'
<1>1. CASE UNCHANGED <<ifo, cached, held, op>>
  BY <1>1 DEF CopiesCurrent
<1>2. CASE \E i \in Id : SyncCache(i)
  BY <1>2 DEF SyncCache, handlerVars, CopiesCurrent, Typed, StoreType
<1>3. CASE Restart
  BY <1>3 DEF Restart, CopiesCurrent, NoCopy
<1>4. ASSUME NEW g \in GVR, Handle(g) PROVE CopiesCurrent'
  <2>1. CASE Take(g) \/ NextResult(g)
    BY <1>1, <2>1 DEF Take, NextResult, storeVars, handlerVars
  <2>2. CASE ListOperations(g)
    <3>1. UNCHANGED <<ifo, cached, op>>
      BY <2>2 DEF ListOperations, storeVars
    <3>2. \A h \in GVR, i \in Id : held'[h][i] \in {held[h][i], cached[i], NoCopy}
      BY <2>2 DEF ListOperations, Typed, HeldType
    <3>3. NoCopy.rec = None
      BY DEF NoCopy
    <3> QED
      BY <3>1, <3>2, <3>3 DEF CopiesCurrent
  <2>3. CASE \E i \in Id : CompleteOne(g, i)
    BY <2>3, CompleteOneCurrent
  <2>4. CASE CleanupCompleted(g)
    <3> DEFINE S == {op[g].id}
    <3>1. CASE UNCHANGED <<ifo, cached, held>> /\ op' = [op EXCEPT ![g] = None]
      BY <3>1 DEF CopiesCurrent, Typed, HeldType
    <3>2. CASE /\ ifo' = [ifo EXCEPT ![op[g].id] = None]
               /\ cached' = IF ifo[op[g].id] = None THEN cached ELSE StaleCached(S)
               /\ held' = StaleHeld(S)
               /\ op' = [StaleOp(S) EXCEPT ![g] = None]
      <4>1. \A i \in Id \ S : ifo'[i] = ifo[i]
        BY <3>2 DEF Typed, StoreType
      <4>2. ifo[op[g].id] = None => ifo' = ifo
        BY <3>2 DEF Typed, StoreType
      <4>3. cached' = StaleCached(S) \/ (cached' = cached /\ ifo' = ifo)
        BY <3>2, <4>2
      <4> HIDE DEF S
      <4> QED
        BY <3>2, <4>1, <4>3, WriteCurrent
    <3> QED
      BY <2>4, <3>1, <3>2 DEF CleanupCompleted
  <2>5. CASE Ensure(g)
    <3>1. UNCHANGED <<ifo, cached, held>>
      BY <2>5 DEF Ensure, storeVars
    <3>2. \/ op' = op
          \/ \E i \in Id : op' = [op EXCEPT ![g] =
                [id |-> i, rec |-> cached[i].rec, cur |-> cached[i].cur]]
      BY <2>5 DEF Ensure, Newest, Candidates
    <3> QED
      BY <3>1, <3>2 DEF CopiesCurrent, Typed, HeldType
  <2>6. CASE Create(g)
    BY <2>6, CreateCurrent
  <2>7. CASE Mark(g)
    <3> DEFINE S == {op[g].id}
    <3>1. CASE UNCHANGED <<ifo, cached, held>> /\ op' = [op EXCEPT ![g] = None]
      BY <3>1 DEF CopiesCurrent, Typed, HeldType
    <3>2. CASE /\ ifo' = [ifo EXCEPT ![op[g].id] = MarkDetection(op[g].rec)]
               /\ cached' = StaleCached(S)
               /\ held' = StaleHeld(S)
               /\ op' = [StaleOp(S) EXCEPT ![g] = None]
      <4>1. \A i \in Id \ S : ifo'[i] = ifo[i]
        BY <3>2 DEF Typed, StoreType
      <4> HIDE DEF S
      <4> QED
        BY <3>2, <4>1, WriteCurrent
    <3> QED
      BY <2>7, <3>1, <3>2 DEF Mark
  <2>8. CASE DeleteAll(g)
    <3>1. PICK S : /\ ifo' = [i \in Id |-> IF i \in S THEN None ELSE ifo[i]]
                   /\ cached' = StaleCached(S)
                   /\ held' = StaleHeld(S)
                   /\ op' = StaleOp(S)
      BY <2>8 DEF DeleteAll
    <3>2. \A i \in Id \ S : ifo'[i] = ifo[i]
      BY <3>1
    <3> QED
      BY <3>1, <3>2, WriteCurrent
  <2> QED
    BY <1>4, <2>1, <2>2, <2>3, <2>4, <2>5, <2>6, <2>7, <2>8 DEF Handle
<1>5. CASE ClusterStep \/ InformerStep \/ ControllerStep
  BY <1>1, <1>5 DEF ClusterStep, CreateSubject, ChangeSubject, DeleteSubject, Tick,
     InformerStep, Observe, ObserveUnknown, Resync, ControllerStep, Load, Unload, storeVars,
     handlerVars
<1>6. CASE UNCHANGED vars
  BY <1>1, <1>6 DEF vars, storeVars, handlerVars
<1> QED
  BY <1>2, <1>3, <1>4, <1>5, <1>6 DEF Next

----------------------------------------------------------------------------
(* The debounce window.                                                    *)

\* Making copies stale leaves the records in them alone.
LEMMA StaleKeepsRecords ==
    ASSUME Typed, NEW S, NEW h \in GVR, op[h] # None
    PROVE  StaleOp(S)[h].rec = op[h].rec
<1>1. op[h] \in OpCopy
  BY DEF Typed, HeldType
<1> QED
  BY <1>1 DEF StaleOp, OpCopy

\* What the step of one handler does to the calls of the others, and to
\* its own start time.
LEMMA OtherCalls ==
    ASSUME Typed, NEW g \in GVR, Handle(g)
    PROVE  /\ now' = now
           /\ began'[g] \in {began[g], now, 0}
           /\ \A h \in GVR \ {g} :
                /\ pc'[h] = pc[h] /\ began'[h] = began[h]
                /\ op[h] # None => op'[h].rec = op[h].rec
<1> USE DEF Typed, CallType, HeldType
<1>1. now' = now
  BY HandleLeaves
<1>2. CASE \E i \in Id : CompleteOne(g, i)
  <2>1. PICK i \in Id : CompleteOne(g, i)
    BY <1>2
  <2> DEFINE so == StaleOp({i})
  <2>2. so \in [GVR -> OpCopy \cup {None}] /\ \A h \in GVR : op[h] # None => so[h].rec = op[h].rec
    BY StaleTyped, StaleKeepsRecords
  <2>3. \E c : op' \in {op, so, [op EXCEPT ![g] = c], [so EXCEPT ![g] = c]}
    BY <2>1 DEF CompleteOne
  <2> HIDE DEF so
  <2>4. \A h \in GVR \ {g} : op[h] # None => op'[h].rec = op[h].rec
    BY <2>2, <2>3
  <2>5. began' = began /\ \A h \in GVR \ {g} : pc'[h] = pc[h]
    BY <2>1 DEF CompleteOne
  <2> QED
    BY <1>1, <2>4, <2>5
<1>3. CASE CleanupCompleted(g) \/ Mark(g)
  <2> DEFINE so == StaleOp({op[g].id})
  <2>1. so \in [GVR -> OpCopy \cup {None}] /\ \A h \in GVR : op[h] # None => so[h].rec = op[h].rec
    BY StaleTyped, StaleKeepsRecords
  <2>2. op' \in {[op EXCEPT ![g] = None], [so EXCEPT ![g] = None]}
    BY <1>3 DEF CleanupCompleted, Mark
  <2> HIDE DEF so
  <2>3. \A h \in GVR \ {g} : op[h] # None => op'[h].rec = op[h].rec
    BY <2>1, <2>2
  <2>4. began' = began /\ \A h \in GVR \ {g} : pc'[h] = pc[h]
    BY <1>3 DEF CleanupCompleted, Mark
  <2> QED
    BY <1>1, <2>3, <2>4
<1>4. CASE DeleteAll(g)
  <2>1. PICK S : op' = StaleOp(S)
    BY <1>4 DEF DeleteAll
  <2>2. \A h \in GVR : op[h] # None => op'[h].rec = op[h].rec
    BY <2>1, StaleKeepsRecords
  <2>3. /\ began'[g] = 0
        /\ \A h \in GVR \ {g} : pc'[h] = pc[h] /\ began'[h] = began[h]
    BY <1>4 DEF DeleteAll, Return
  <2> QED
    BY <1>1, <2>2, <2>3
<1>5. CASE Take(g)
  BY <1>1, <1>5 DEF Take, handlerVars
<1>6. CASE ListOperations(g) \/ NextResult(g)
  BY <1>1, <1>6 DEF ListOperations, NextResult, Return
<1>7. CASE Ensure(g)
  BY <1>1, <1>7 DEF Ensure
<1>8. CASE Create(g)
  BY <1>1, <1>8 DEF Create
<1> QED
  BY <1>2, <1>3, <1>4, <1>5, <1>6, <1>7, <1>8 DEF Handle

LEMMA HandleInWindow ==
    ASSUME Typed, MarkInWindow, NEW g \in GVR, Handle(g)
    PROVE  MarkInWindow'
<1> USE DEF Typed, CallType, HeldType
<1>1. \A h \in GVR \ {g} :
        /\ began'[h] <= now'
        /\ pc'[h] = "mark" => \/ ~Complete(op'[h].rec)
                              \/ began'[h] < op'[h].rec.completed + DebounceThreshold
  BY OtherCalls DEF MarkInWindow, HandlerReady, Complete
<1>2. began'[g] <= now'
  <2>1. now' = now /\ began'[g] \in {began[g], now, 0}
    BY OtherCalls
  <2>2. now \in Nat /\ began[g] <= now
    BY DEF ClusterType, MarkInWindow
  <2> QED
    BY <2>1, <2>2
<1>3. ASSUME pc'[g] = "mark"
      PROVE  ~Complete(op'[g].rec) \/ began'[g] < op'[g].rec.completed + DebounceThreshold
  <2>1. CASE Ensure(g)
    <3>1. PICK i \in Newest(Candidates(g)) :
            /\ ~PastDebounceThreshold(cached[i].rec)
            /\ op' = [op EXCEPT ![g] = [id |-> i, rec |-> cached[i].rec, cur |-> cached[i].cur]]
      BY <1>3, <2>1 DEF Ensure, LoopDone
    <3>2. i \in Id /\ cached[i].rec \in IFO
      BY DEF Newest, Candidates, StoreType, Copy
    <3>3. op'[g].rec = cached[i].rec /\ began' = began /\ cached[i].rec.completed \in Nat
      BY <2>1, <3>1, <3>2 DEF Ensure, IFO
    <3>4. began[g] <= now /\ began[g] \in Nat /\ now \in Nat /\ DebounceThreshold \in Nat
      BY TrackerAssumption DEF MarkInWindow, ClusterType
    <3> QED
      BY <3>1, <3>3, <3>4 DEF PastDebounceThreshold, Complete
  <2>2. CASE Create(g)
    <3>1. \E i \in Id : op' = [op EXCEPT ![g] = [id |-> i, rec |-> Build(g), cur |-> TRUE]]
      BY <1>3, <2>2 DEF Create
    <3>2. op'[g].rec = Build(g)
      BY <3>1
    <3>3. Build(g).completed = 0
      BY DEF Build
    <3> QED
      BY <3>2, <3>3 DEF Complete
  <2>3. CASE \E i \in Id : CompleteOne(g, i)
    BY <1>3, <2>3 DEF CompleteOne
  <2>4. CASE Take(g) \/ ListOperations(g) \/ CleanupCompleted(g) \/ NextResult(g) \/ Mark(g)
             \/ DeleteAll(g)
    BY <1>3, <2>4 DEF Take, ListOperations, CleanupCompleted, NextResult, LoopDone, Mark,
                     DeleteAll, Return, handlerVars
  <2> QED
    BY <2>1, <2>2, <2>3, <2>4 DEF Handle
<1> QED
  BY <1>1, <1>2, <1>3 DEF MarkInWindow

LEMMA NextInWindow ==
    ASSUME Typed, MarkInWindow, [Next]_vars
    PROVE  MarkInWindow'
<1>1. CASE UNCHANGED handlerVars /\ (now' = now \/ now' = now + 1)
  BY <1>1 DEF handlerVars, MarkInWindow, Typed, CallType, ClusterType, Complete
<1>2. CASE Restart
  BY <1>2 DEF Restart, MarkInWindow, Typed, ClusterType
<1>3. CASE ClusterStep
  BY <1>1, <1>3 DEF ClusterStep, CreateSubject, ChangeSubject, DeleteSubject, Tick
<1>4. CASE InformerStep \/ ControllerStep \/ \E i \in Id : SyncCache(i)
  BY <1>1, <1>4 DEF InformerStep, Observe, ObserveUnknown, Resync, ControllerStep, Load,
     Unload, SyncCache
<1>5. CASE UNCHANGED vars
  BY <1>1, <1>5 DEF vars
<1> QED
  BY <1>2, <1>3, <1>4, <1>5, HandleInWindow DEF Next

----------------------------------------------------------------------------
LEMMA TrackerInvHolds == Spec => []TrackerInv
<1>1. Init => TrackerInv
  <2> SUFFICES ASSUME Init PROVE TrackerInv
    OBVIOUS
  <2>1. CopiesCurrent /\ MarkInWindow
    BY DEF Init, CopiesCurrent, MarkInWindow, NoCopy
  <2> QED
    BY <2>1, InitTyped, TypedIsTypeOK DEF TrackerInv
<1>2. TrackerInv /\ [Next]_vars => TrackerInv'
  <2> SUFFICES ASSUME TrackerInv, [Next]_vars PROVE TrackerInv'
    OBVIOUS
  <2>1. Typed
    BY TypedIsTypeOK DEF TrackerInv
  <2>2. Typed'
    BY <2>1, NextTyped
  <2>3. TypeOK' /\ HandlerReady'
    BY <2>2 DEF Typed, TypeOK, ClusterType, InformerType, StoreType, CallType, HeldType
  <2> QED
    BY <2>1, <2>3, NextCurrent, NextInWindow DEF TrackerInv
<1> QED
  BY <1>1, <1>2, PTL DEF Spec

\* The one step that could reopen a closed object: a write by a handler.
LEMMA HandleKeepsClosed ==
    ASSUME TrackerInv, NEW g \in GVR, Handle(g), NEW i \in Id,
           ifo[i] # None, Complete(ifo[i]),
           ifo[i].completed + DebounceThreshold + K8SAPITimeout <= now
    PROVE  ifo'[i] \in {ifo[i], None}
<1>0. Typed
  BY TypedIsTypeOK DEF TrackerInv
<1> USE DEF TrackerInv
<1>1. /\ ifo \in [Id -> IFO \cup {None}] /\ ifo[i].completed \in Nat /\ now \in Nat
      /\ DebounceThreshold \in Nat /\ K8SAPITimeout \in Nat /\ began[g] \in Nat
  BY <1>0, TrackerAssumption DEF Typed, StoreType, IFO, ClusterType, CallType
<1>2. CASE \E j \in Id : CompleteOne(g, j)
  <2>1. PICK j \in Id : CompleteOne(g, j)
    BY <1>2
  <2>2. CASE ifo' = ifo
    BY <2>2
  <2>3. CASE /\ ~PastDebounceThreshold(held[g][j].rec) /\ held[g][j].cur
             /\ held[g][j].rec # None
             /\ ifo' = [ifo EXCEPT ![j] = MarkCompleted(held[g][j].rec)]
    <3>1. held[g][j].rec = ifo[j]
      BY <2>3 DEF CopiesCurrent
    <3>2. j # i
      BY <1>1, <2>3, <3>1 DEF PastDebounceThreshold
    <3> QED
      BY <1>1, <2>3, <3>2
  <2> QED
    BY <2>1, <2>2, <2>3 DEF CompleteOne
<1>3. CASE Mark(g)
  <2>1. CASE ifo' = ifo
    BY <2>1
  <2>2. CASE /\ InTime(g) /\ op[g].cur
             /\ ifo' = [ifo EXCEPT ![op[g].id] = MarkDetection(op[g].rec)]
    <3>1. pc[g] = "mark" /\ op[g] # None
      BY <1>3 DEF Mark, HandlerReady
    <3>2. op[g].rec = ifo[op[g].id]
      BY <2>2, <3>1 DEF CopiesCurrent
    <3>3. \/ ~Complete(op[g].rec)
          \/ began[g] < op[g].rec.completed + DebounceThreshold
      BY <3>1 DEF MarkInWindow
    <3>4. now < began[g] + K8SAPITimeout
      BY <2>2 DEF InTime
    <3>5. op[g].id # i
      BY <1>1, <3>2, <3>3, <3>4
    <3> QED
      BY <1>1, <2>2, <3>5
  <2> QED
    BY <1>3, <2>1, <2>2 DEF Mark, CallWorks
<1>4. CASE Create(g)
  BY <1>1, <1>4 DEF Create, Free
<1>5. CASE CleanupCompleted(g) \/ DeleteAll(g)
  BY <1>1, <1>5 DEF CleanupCompleted, DeleteAll
<1>6. CASE Take(g) \/ ListOperations(g) \/ NextResult(g) \/ Ensure(g)
  BY <1>6 DEF Take, ListOperations, NextResult, Ensure, storeVars
<1> QED
  BY <1>2, <1>3, <1>4, <1>5, <1>6 DEF Handle

\* Once its debounce window and one API timeout are over, a completed
\* InFlightOperation is never written again, however stale the cache, however
\* slow a handler, however many handlers (watcher.go:172-198,
\* operations.go:73-98).
THEOREM ClosedForGood == Spec => ClosedStaysClosed
<1>1. TrackerInv /\ [Next]_vars =>
        [\A i \in Id :
            /\ ifo[i] # None /\ Complete(ifo[i])
            /\ ifo[i].completed + DebounceThreshold + K8SAPITimeout <= now
            => ifo'[i] \in {ifo[i], None}]_vars
  <2> SUFFICES ASSUME TrackerInv, Next, NEW i \in Id,
                      ifo[i] # None, Complete(ifo[i]),
                      ifo[i].completed + DebounceThreshold + K8SAPITimeout <= now
               PROVE  ifo'[i] \in {ifo[i], None}
    OBVIOUS
  <2>1. CASE \E g \in GVR : Handle(g)
    BY <2>1, HandleKeepsClosed
  <2>2. CASE ~ \E g \in GVR : Handle(g)
    BY <2>2 DEF Next, ClusterStep, CreateSubject, ChangeSubject, DeleteSubject, Tick,
       InformerStep, Observe, ObserveUnknown, Resync, ControllerStep, Load, Unload, SyncCache,
       Restart, storeVars
  <2> QED
    BY <2>1, <2>2
<1> QED
  BY <1>1, TrackerInvHolds, PTL DEF Spec, ClosedStaysClosed


----------------------------------------------------------------------------
(* Nothing is left of a deleted subject.  The argument: a handler that may *)
(* still create something for a subject has a deletion of it to come, and  *)
(* while something is left, some handler has.                              *)

\* A notification that s is gone.
Removal(e, s) == e.subj = s /\ e.kind # "update"

Removes(q, s) == \E k \in 1..Len(q) : Removal(q[k], s)

\* Every update of s in queue q has a removal behind it, unless the store
\* entry x says that one is still to come.
Follows(q, x, s) ==
    \A k \in 1..Len(q) :
        q[k].subj = s /\ q[k].kind = "update" =>
            \/ x # None
            \/ \E m \in 1..Len(q) : k < m /\ Removal(q[m], s)

\* The handler of g has a removal of s to come.
Due(g, s) == indexer[g][s] # None \/ Removes(events[g], s)

CallMatchesEvent ==
    \A g \in GVR :
        /\ pc[g] = "idle" => evt[g] = None
        /\ pc[g] # "idle" => evt[g] # None
        /\ pc[g] = "deleteall" => evt[g].kind = "delete"
        /\ pc[g] \notin {"idle", "deleteall"} => evt[g].kind = "update"

UpdatesFollowed ==
    \A g \in GVR, s \in Subject \ missed :
        /\ Follows(events[g], indexer[g][s], s)
        /\ evt[g] # None /\ evt[g].subj = s /\ evt[g].kind = "update" => Due(g, s)

CleanupDue ==
    \A s \in gone \ missed :
        Of(s) # {} => \E g \in GVR : \/ Due(g, s)
                                     \/ evt[g] # None /\ Removal(evt[g], s)

LEMMA TailFollows ==
    ASSUME NEW q \in Seq(Event), q # <<>>, NEW x, NEW s, Follows(q, x, s)
    PROVE  /\ Follows(Tail(q), x, s)
           /\ Head(q).subj = s /\ Head(q).kind = "update" => x # None \/ Removes(Tail(q), s)
           /\ Removes(q, s) => Removal(Head(q), s) \/ Removes(Tail(q), s)
<1> DEFINE t == Tail(q)
<1>1. /\ Len(q) \in Nat \ {0} /\ Len(t) = Len(q) - 1 /\ Head(q) = q[1]
      /\ \A k \in 1..Len(t) : t[k] = q[k + 1]
  OBVIOUS
<1> HIDE DEF t
<1>2. \A k \in 1..Len(t) : k + 1 \in 1..Len(q) /\ k + 1 # 1
  BY <1>1
<1>3. \A m \in 1..Len(q) : m # 1 => m - 1 \in 1..Len(t) /\ t[m - 1] = q[m]
  <2> SUFFICES ASSUME NEW m \in 1..Len(q), m # 1 PROVE m - 1 \in 1..Len(t) /\ t[m - 1] = q[m]
    OBVIOUS
  <2>1. m - 1 \in 1..Len(t) /\ (m - 1) + 1 = m
    BY <1>1
  <2> QED
    BY <1>1, <2>1
<1>4. Follows(t, x, s)
  <2> SUFFICES ASSUME NEW k \in 1..Len(t), t[k].subj = s, t[k].kind = "update", x = None
               PROVE  \E m \in 1..Len(t) : k < m /\ Removal(t[m], s)
    BY DEF Follows
  <2>1. PICK m \in 1..Len(q) : k + 1 < m /\ Removal(q[m], s)
    BY <1>1, <1>2 DEF Follows
  <2>2. m # 1 /\ k < m - 1
    BY <1>1, <2>1
  <2> QED
    BY <1>3, <2>1, <2>2
<1>5. 1 \in 1..Len(q) /\ \A m \in 1..Len(q) : 1 < m => m # 1
  BY <1>1
<1>6. Head(q).subj = s /\ Head(q).kind = "update" => x # None \/ Removes(t, s)
  BY <1>1, <1>3, <1>5 DEF Follows, Removes
<1>7. Removes(q, s) => Removal(Head(q), s) \/ Removes(t, s)
  BY <1>1, <1>3 DEF Removes
<1> QED
  BY <1>4, <1>6, <1>7 DEF t

LEMMA AppendFollows ==
    ASSUME NEW q \in Seq(Event), NEW e \in Event, NEW x, NEW s, Follows(q, x, s)
    PROVE  /\ e.subj # s => Follows(Append(q, e), x, s)
           /\ Removal(e, s) => Removes(Append(q, e), s) /\ \A y : Follows(Append(q, e), y, s)
           /\ Removes(q, s) => Removes(Append(q, e), s)
<1> DEFINE t == Append(q, e)
<1>1. /\ Len(q) \in Nat /\ Len(t) = Len(q) + 1 /\ t[Len(q) + 1] = e
      /\ \A k \in 1..Len(q) : t[k] = q[k]
  OBVIOUS
<1> HIDE DEF t
<1>2. \A k : k \in 1..Len(t) <=> k \in 1..Len(q) \/ k = Len(q) + 1
  BY <1>1
<1>3. \A k \in 1..Len(q) : k < Len(q) + 1
  BY <1>1
<1>4. e.subj # s => Follows(t, x, s)
  BY <1>1, <1>2 DEF Follows
<1>5. Removal(e, s) => Removes(t, s)
  BY <1>1, <1>2 DEF Removes
<1>6. ASSUME Removal(e, s), NEW y PROVE Follows(t, y, s)
  <2> SUFFICES ASSUME NEW k \in 1..Len(t), t[k].kind = "update"
               PROVE  \E m \in 1..Len(t) : k < m /\ Removal(t[m], s)
    BY DEF Follows
  <2>1. k # Len(q) + 1
    BY <1>1, <1>6 DEF Removal
  <2> QED
    BY <1>1, <1>2, <1>3, <1>6, <2>1
<1>7. Removes(q, s) => Removes(t, s)
  BY <1>1, <1>2 DEF Removes
<1> QED
  BY <1>4, <1>5, <1>6, <1>7 DEF t

LEMMA CallStep == ASSUME Typed, CallMatchesEvent, [Next]_vars PROVE CallMatchesEvent'
<1> USE DEF Typed
<1>1. CASE UNCHANGED <<pc, evt>>
  BY <1>1 DEF CallMatchesEvent
<1>2. CASE Restart
  BY <1>2 DEF Restart, CallMatchesEvent
<1>3. ASSUME NEW g \in GVR, Handle(g) PROVE CallMatchesEvent'
  <2>0. pc \in [GVR -> PC] /\ evt \in [GVR -> Event \cup {None}]
    BY DEF CallType
  <2>1. CASE Take(g)
    <3> DEFINE e == Head(events[g])
    <3>1. events[g] \in Seq(Event) /\ events[g] # <<>>
      BY <2>1 DEF Take, InformerType
    <3>2. e \in Event /\ e # None
      BY <3>1, TrackerAssumption
    <3>3. CASE UNCHANGED handlerVars
      BY <1>1, <3>3 DEF handlerVars
    <3>4. CASE /\ e.kind = "update" /\ pc' = [pc EXCEPT ![g] = "list"]
               /\ evt' = [evt EXCEPT ![g] = e]
      <4> HIDE DEF e
      <4> QED
        BY <2>0, <3>2, <3>4 DEF CallMatchesEvent
    <3>5. CASE /\ e.kind = "delete" /\ pc' = [pc EXCEPT ![g] = "deleteall"]
               /\ evt' = [evt EXCEPT ![g] = e]
      <4> HIDE DEF e
      <4> QED
        BY <2>0, <3>2, <3>5 DEF CallMatchesEvent
    <3> QED
      BY <2>1, <3>3, <3>4, <3>5 DEF Take
  <2>2. CASE Return(g)
    BY <2>0, <2>2 DEF Return, CallMatchesEvent
  <2>3. ASSUME pc[g] \notin {"idle", "deleteall"}, NEW x, x \notin {"idle", "deleteall"},
               pc' = [pc EXCEPT ![g] = x], evt' = evt
        PROVE  CallMatchesEvent'
    BY <2>0, <2>3 DEF CallMatchesEvent
  <2>4. CASE ListOperations(g)
    BY <2>2, <2>3, <2>4 DEF ListOperations
  <2>5. ASSUME NEW i \in Id, CompleteOne(g, i) PROVE CallMatchesEvent'
    <3>1. pc[g] = "run" /\ evt' = evt
      BY <2>5 DEF CompleteOne
    <3>2. CASE pc' = pc
      BY <1>1, <3>1, <3>2
    <3>3. CASE pc' = [pc EXCEPT ![g] = IF RetainCompletedIFOs THEN "run" ELSE "cleanup"]
      BY <2>3, <3>1, <3>3
    <3> QED
      BY <2>5, <3>2, <3>3 DEF CompleteOne
  <2>6. CASE CleanupCompleted(g) \/ Mark(g)
    BY <2>3, <2>6 DEF CleanupCompleted, Mark
  <2>7. CASE NextResult(g)
    BY <1>1, <2>2, <2>7 DEF NextResult
  <2>8. CASE Ensure(g)
    <3>1. pc[g] = "run" /\ evt' = evt
      BY <2>8 DEF Ensure, LoopDone
    <3>2. pc' = pc \/ pc' = [pc EXCEPT ![g] = "create"] \/ pc' = [pc EXCEPT ![g] = "mark"]
      BY <2>8 DEF Ensure
    <3> QED
      BY <1>1, <2>3, <3>1, <3>2
  <2>9. CASE Create(g)
    <3>1. pc[g] = "create" /\ evt' = evt
      BY <2>9 DEF Create
    <3>2. pc' = [pc EXCEPT ![g] = "mark"] \/ pc' = [pc EXCEPT ![g] = "run"]
      BY <2>9 DEF Create
    <3> QED
      BY <2>3, <3>1, <3>2
  <2>10. CASE DeleteAll(g)
    BY <2>2, <2>10 DEF DeleteAll
  <2> QED
    BY <1>3, <2>1, <2>4, <2>5, <2>6, <2>7, <2>8, <2>9, <2>10 DEF Handle
<1>4. CASE ClusterStep \/ InformerStep \/ ControllerStep \/ \E i \in Id : SyncCache(i)
  <2>1. UNCHANGED handlerVars
    BY <1>4 DEF ClusterStep, CreateSubject, ChangeSubject, DeleteSubject, Tick, InformerStep,
       Observe, ObserveUnknown, Resync, ControllerStep, Load, Unload, SyncCache
  <2> QED
    BY <1>1, <2>1 DEF handlerVars
<1>5. CASE UNCHANGED vars
  BY <1>1, <1>5 DEF vars, handlerVars
<1> QED
  BY <1>2, <1>3, <1>4, <1>5 DEF Next


\* A delivery by an informer: an update it still has in store, or a removal.
LEMMA DeliveryKeeps ==
    ASSUME Typed, InformerStep, NEW h \in GVR, NEW u \in Subject,
           Follows(events[h], indexer[h][u], u)
    PROVE  /\ Follows(events'[h], indexer'[h][u], u)
           /\ Due(h, u) => indexer'[h][u] # None \/ Removes(events'[h], u)
<1> USE DEF Typed
<1>0. /\ events \in [GVR -> Seq(Event)] /\ indexer \in [GVR -> [Subject -> Content \cup {None}]]
      /\ events[h] \in Seq(Event)
  BY DEF InformerType
<1>1. ASSUME NEW q, NEW x, x # None PROVE Follows(q, x, u)
  BY <1>1 DEF Follows
<1>2. PICK g \in GVR, s \in Subject : Observe(g, s) \/ ObserveUnknown(g, s) \/ Resync(g, s)
  BY DEF InformerStep
<1>3. CASE Resync(g, s)
  <2> DEFINE e == [kind |-> "update", subj |-> s, content |-> indexer[g][s]]
  <2>1. indexer' = indexer /\ indexer[g][s] # None /\ events' = [events EXCEPT ![g] = <<e>>]
        /\ events[g] = <<>>
    BY <1>3 DEF Resync
  <2>2. e.subj = s
    OBVIOUS
  <2> HIDE DEF e
  <2>3. CASE h # g
    <3>1. events'[h] = events[h]
      BY <1>0, <2>1, <2>3
    <3> QED
      BY <2>1, <3>1 DEF Due
  <2>4. CASE h = g /\ u = s
    BY <1>1, <2>1, <2>4
  <2>5. CASE h = g /\ u # s
    <3>1. events'[h] = <<e>> /\ Len(<<e>>) = 1 /\ <<e>>[1] = e /\ 1..1 = {1}
      BY <1>0, <2>1, <2>5
    <3>2. Follows(<<e>>, indexer'[h][u], u)
      BY <2>2, <2>5, <3>1 DEF Follows
    <3>3. ~Removes(events[h], u)
      BY <2>1, <2>5 DEF Removes
    <3> QED
      BY <2>1, <3>1, <3>2, <3>3 DEF Due
  <2> QED
    BY <2>3, <2>4, <2>5
<1>4. CASE Observe(g, s) \/ ObserveUnknown(g, s)
  <2>1. PICK k \in {"update", "delete", "unknown"} :
          Notify(g, k, s) /\ (k = "update" => subjects[s] # None)
                          /\ (k # "update" => subjects[s] = None)
    BY <1>4 DEF Observe, ObserveUnknown
  <2> DEFINE e == [kind |-> k, subj |-> s, content |-> subjects[s]]
  <2>2. /\ events' = [events EXCEPT ![g] = Append(@, e)]
        /\ indexer' = [indexer EXCEPT ![g][s] = subjects[s]]
    BY <2>1 DEF Notify
  <2>3. e \in Event /\ e.subj = s /\ e.kind = k
    BY <2>1 DEF ClusterType, Event
  <2> HIDE DEF e
  <2>4. CASE h # g
    <3>1. events'[h] = events[h] /\ indexer'[h] = indexer[h]
      BY <1>0, <2>2, <2>4
    <3> QED
      BY <3>1 DEF Due
  <2>5. CASE h = g
    <3>1. events'[h] = Append(events[h], e)
      BY <1>0, <2>2, <2>5
    <3>2. CASE u # s
      <4>1. indexer'[h][u] = indexer[h][u]
        BY <1>0, <2>2, <2>5, <3>2
      <4> QED
        BY <1>0, <2>3, <3>1, <3>2, <4>1, AppendFollows DEF Due
    <3>3. CASE u = s /\ k = "update"
      <4>1. indexer'[h][u] = subjects[s] /\ subjects[s] # None
        BY <1>0, <2>1, <2>2, <2>5, <3>3
      <4> QED
        BY <1>1, <4>1
    <3>4. CASE u = s /\ k # "update"
      <4>1. Removal(e, u)
        BY <2>3, <3>4 DEF Removal
      <4> QED
        BY <1>0, <2>3, <3>1, <4>1, AppendFollows
    <3> QED
      BY <3>2, <3>3, <3>4
  <2> QED
    BY <2>4, <2>5
<1> QED
  BY <1>2, <1>3, <1>4

\* Only a step of an informer, of the handler that takes an event, of the
\* controller and a restart touch queues and stores.
LEMMA FollowedStep ==
    ASSUME Typed, CallMatchesEvent, UpdatesFollowed, [Next]_vars
    PROVE  UpdatesFollowed'
<1> USE DEF Typed
<1>0. /\ events \in [GVR -> Seq(Event)] /\ indexer \in [GVR -> [Subject -> Content \cup {None}]]
      /\ evt \in [GVR -> Event \cup {None}]
  BY DEF InformerType, CallType
<1>1. ASSUME UNCHANGED <<indexer, events>>, missed \subseteq missed',
             \A h \in GVR : evt'[h] \in {evt[h], None}
      PROVE  UpdatesFollowed'
  <2>1. \A h \in GVR : \A u : Due(h, u)' <=> Due(h, u)
    BY <1>1 DEF Due
  <2> QED
    BY <1>1, <2>1 DEF UpdatesFollowed
<1>2. CASE ClusterStep \/ \E i \in Id : SyncCache(i)
  <2>1. UNCHANGED <<informerVars, handlerVars>> /\ missed \subseteq missed'
    BY <1>2 DEF ClusterStep, CreateSubject, ChangeSubject, DeleteSubject, Tick, SyncCache
  <2> QED
    BY <1>1, <2>1 DEF informerVars, handlerVars
<1>3. CASE InformerStep
  <2>1. evt' = evt /\ missed' = missed
    BY <1>3 DEF InformerStep, Observe, ObserveUnknown, Resync, handlerVars
  <2>2. \A h \in GVR, u \in Subject \ missed :
          /\ Follows(events'[h], indexer'[h][u], u)
          /\ Due(h, u) => indexer'[h][u] # None \/ Removes(events'[h], u)
    BY <1>3, DeliveryKeeps DEF UpdatesFollowed
  <2> QED
    BY <2>1, <2>2 DEF UpdatesFollowed, Due
<1>4. ASSUME NEW o \in Deployed, Load(o) PROVE UpdatesFollowed'
  BY <1>1, <1>4 DEF Load, handlerVars
<1>5. ASSUME NEW o \in Deployed, Unload(o) PROVE UpdatesFollowed'
  <2>1. evt' = evt /\ o.gvr \in GVR
    BY <1>5, TrackerAssumption DEF Unload, handlerVars, OperationRuleSet
  <2>2. CASE cache'[o.gvr] # <<>>
    BY <1>1, <1>5, <2>1, <2>2 DEF Unload, informerVars
  <2>3. CASE cache'[o.gvr] = <<>>
    <3>1. /\ indexer' = [indexer EXCEPT ![o.gvr] = [s \in Subject |-> None]]
          /\ events' = [events EXCEPT ![o.gvr] = <<>>]
          /\ missed \subseteq missed'
          /\ evt[o.gvr] # None => evt[o.gvr].subj \in missed'
      BY <1>5, <2>3 DEF Unload
    <3>2. ASSUME NEW h \in GVR, h # o.gvr
          PROVE  events'[h] = events[h] /\ indexer'[h] = indexer[h]
      BY <1>0, <3>1, <3>2
    <3>3. events'[o.gvr] = <<>>
      BY <1>0, <2>1, <3>1
    <3>4. \A x, u : Follows(<<>>, x, u)
      BY DEF Follows
    <3> SUFFICES ASSUME NEW h \in GVR, NEW u \in Subject \ missed'
                 PROVE  /\ Follows(events'[h], indexer'[h][u], u)
                        /\ evt'[h] # None /\ evt'[h].subj = u /\ evt'[h].kind = "update"
                             => indexer'[h][u] # None \/ Removes(events'[h], u)
      BY DEF UpdatesFollowed, Due
    <3>5. CASE h = o.gvr
      BY <2>1, <3>1, <3>3, <3>4, <3>5
    <3>6. CASE h # o.gvr
      BY <2>1, <3>1, <3>2, <3>6 DEF UpdatesFollowed, Due
    <3> QED
      BY <3>5, <3>6
  <2> QED
    BY <2>2, <2>3
<1>6. CASE Restart
  <2>1. \A x, u : Follows(<<>>, x, u)
    BY DEF Follows
  <2>2. \A h \in GVR : events'[h] = <<>> /\ evt'[h] = None
    BY <1>6 DEF Restart
  <2> QED
    BY <2>1, <2>2 DEF UpdatesFollowed
<1>7. ASSUME NEW g \in GVR, Take(g) PROVE UpdatesFollowed'
  <2> DEFINE e == Head(events[g])
  <2>1. /\ pc[g] = "idle" /\ events[g] # <<>> /\ events' = [events EXCEPT ![g] = Tail(@)]
        /\ indexer' = indexer /\ missed \subseteq missed'
        /\ evt' = evt \/ evt' = [evt EXCEPT ![g] = e]
    BY <1>7 DEF Take, handlerVars
  <2>2. evt[g] = None /\ events[g] \in Seq(Event)
    BY <1>0, <2>1 DEF CallMatchesEvent
  <2> SUFFICES ASSUME NEW h \in GVR, NEW u \in Subject \ missed'
               PROVE  /\ Follows(events'[h], indexer'[h][u], u)
                      /\ evt'[h] # None /\ evt'[h].subj = u /\ evt'[h].kind = "update"
                           => indexer'[h][u] # None \/ Removes(events'[h], u)
    BY DEF UpdatesFollowed, Due
  <2>3. Follows(events[h], indexer[h][u], u)
    BY <2>1 DEF UpdatesFollowed
  <2>4. CASE h = g
    <3>1. events'[h] = Tail(events[g]) /\ (evt'[h] = None \/ evt'[h] = e)
      BY <1>0, <2>1, <2>2, <2>4
    <3>2. /\ Follows(Tail(events[g]), indexer[g][u], u)
          /\ e.subj = u /\ e.kind = "update"
               => indexer[g][u] # None \/ Removes(Tail(events[g]), u)
      BY <2>1, <2>2, <2>3, <2>4, TailFollows
    <3> QED
      BY <2>1, <2>4, <3>1, <3>2
  <2>5. CASE h # g
    <3>1. events'[h] = events[h] /\ evt'[h] = evt[h]
      BY <1>0, <2>1, <2>5
    <3> QED
      BY <2>1, <3>1 DEF UpdatesFollowed, Due
  <2> QED
    BY <2>4, <2>5
<1>8. ASSUME NEW g \in GVR, Handle(g), ~Take(g) PROVE UpdatesFollowed'
  <2>1. UNCHANGED <<indexer, events>> /\ missed \subseteq missed'
    BY <1>8 DEF Handle, ListOperations, CleanupCompleted, NextResult, CompleteOne, Ensure,
       Create, Mark, DeleteAll, informerVars
  <2>2. evt' = evt \/ Return(g)
    BY <1>8 DEF Handle, ListOperations, CleanupCompleted, NextResult, CompleteOne, Ensure,
       Create, Mark, DeleteAll
  <2>3. \A h \in GVR : evt'[h] \in {evt[h], None}
    BY <1>0, <2>2 DEF Return
  <2> QED
    BY <1>1, <2>1, <2>3
<1>9. CASE UNCHANGED vars
  BY <1>1, <1>9 DEF vars, informerVars, handlerVars
<1> QED
  BY <1>2, <1>3, <1>4, <1>5, <1>6, <1>7, <1>8, <1>9 DEF Next, ControllerStep


\* A handler's steps on an update keep what is left of a subject the
\* subject's, and create only where a removal is due.
LEMMA CleanupStep ==
    ASSUME Typed, CopiesCurrent, CallMatchesEvent, UpdatesFollowed, CleanupDue, [Next]_vars
    PROVE  CleanupDue'
<1> USE DEF Typed
<1> DEFINE Left(u) == {i \in Id : ifo'[i] # None /\ ifo'[i].subj = u}
           Pending(h, u) == \/ indexer'[h][u] # None \/ Removes(events'[h], u)
                            \/ evt'[h] # None /\ Removal(evt'[h], u)
<1>0. /\ events \in [GVR -> Seq(Event)] /\ indexer \in [GVR -> [Subject -> Content \cup {None}]]
      /\ evt \in [GVR -> Event \cup {None}] /\ ifo \in [Id -> IFO \cup {None}]
      /\ gone \subseteq Subject
  BY DEF InformerType, CallType, StoreType, ClusterType
<1>a. ASSUME \A u \in gone' \ missed' : Left(u) # {} => \E h \in GVR : Pending(h, u)
      PROVE  CleanupDue'
  BY <1>a DEF CleanupDue, Due, Of
<1>b. \A u \in gone \ missed :
        Of(u) # {} => \E h \in GVR : \/ indexer[h][u] # None \/ Removes(events[h], u)
                                     \/ evt[h] # None /\ Removal(evt[h], u)
  BY DEF CleanupDue, Due
<1>1. ASSUME UNCHANGED <<indexer, events, gone>>, missed \subseteq missed',
             \A u : Left(u) \subseteq Of(u),
             \A h \in GVR : evt'[h] = evt[h] \/ evt[h] = None \/ evt[h].kind = "update"
      PROVE  CleanupDue'
  <2> SUFFICES ASSUME NEW u \in gone' \ missed', Left(u) # {}
               PROVE  \E h \in GVR : Pending(h, u)
    BY <1>a
  <2>1. u \in gone \ missed /\ Of(u) # {}
    BY <1>1
  <2>2. PICK h \in GVR : \/ indexer[h][u] # None \/ Removes(events[h], u)
                         \/ evt[h] # None /\ Removal(evt[h], u)
    BY <1>b, <2>1
  <2>3. Pending(h, u)
    BY <1>1, <2>2 DEF Removal
  <2> QED
    BY <2>3
<1>2. ASSUME ifo' = ifo PROVE \A u : Left(u) \subseteq Of(u)
  BY <1>2 DEF Of
<1>3. CASE ClusterStep
  <2>1. UNCHANGED <<informerVars, storeVars, handlerVars>> /\ missed \subseteq missed'
    BY <1>3 DEF ClusterStep, CreateSubject, ChangeSubject, DeleteSubject, Tick
  <2>2. CASE gone' = gone
    BY <1>1, <1>2, <2>1, <2>2 DEF informerVars, storeVars, handlerVars
  <2>3. ASSUME NEW s \in Subject, DeleteSubject(s) PROVE CleanupDue'
    <3>1. /\ gone' = gone \cup {s}
          /\ s \in missed' \/ \E g \in GVR : indexer[g][s] # None
      BY <2>3 DEF DeleteSubject
    <3> SUFFICES ASSUME NEW u \in gone' \ missed', Left(u) # {}
                 PROVE  \E h \in GVR : Pending(h, u)
      BY <1>a
    <3>2. CASE u = s
      BY <2>1, <3>1, <3>2 DEF informerVars
    <3>3. CASE u # s
      <4>1. u \in gone \ missed /\ Of(u) # {}
        BY <1>2, <2>1, <3>1, <3>3 DEF storeVars
      <4> QED
        BY <1>b, <2>1, <4>1 DEF informerVars, handlerVars
    <3> QED
      BY <3>2, <3>3
  <2> QED
    BY <1>3, <2>2, <2>3 DEF ClusterStep, CreateSubject, ChangeSubject, Tick, clusterVars
<1>4. CASE InformerStep
  <2>1. evt' = evt /\ missed' = missed /\ gone' = gone /\ ifo' = ifo
    BY <1>4 DEF InformerStep, Observe, ObserveUnknown, Resync, handlerVars, clusterVars, storeVars
  <2>2. \A h \in GVR, u \in Subject \ missed :
          Due(h, u) => indexer'[h][u] # None \/ Removes(events'[h], u)
    BY <1>4, DeliveryKeeps DEF UpdatesFollowed
  <2> SUFFICES ASSUME NEW u \in gone' \ missed', Left(u) # {}
               PROVE  \E h \in GVR : Pending(h, u)
    BY <1>a
  <2>3. u \in gone \ missed /\ Of(u) # {} /\ u \in Subject
    BY <1>0, <1>2, <2>1
  <2> QED
    BY <1>b, <2>1, <2>2, <2>3 DEF Due
<1>5. CASE \E i \in Id : SyncCache(i)
  BY <1>1, <1>2, <1>5 DEF SyncCache, clusterVars, informerVars, handlerVars
<1>6. ASSUME gone' = gone, gone \subseteq missed' PROVE CleanupDue'
  BY <1>6 DEF CleanupDue
<1>7. CASE ControllerStep
  <2>1. PICK o \in Deployed : Load(o) \/ Unload(o)
    BY <1>7 DEF ControllerStep
  <2>2. CASE Load(o)
    BY <1>1, <1>2, <2>2 DEF Load, clusterVars, storeVars, handlerVars
  <2>3. CASE Unload(o) /\ cache'[o.gvr] # <<>>
    BY <1>1, <1>2, <2>3 DEF Unload, informerVars, storeVars, handlerVars
  <2>4. CASE Unload(o) /\ cache'[o.gvr] = <<>>
    BY <1>6, <2>4 DEF Unload
  <2> QED
    BY <2>1, <2>2, <2>3, <2>4
<1>8. CASE Restart
  BY <1>6, <1>8 DEF Restart, clusterVars
<1>9. CASE UNCHANGED vars
  BY <1>1, <1>2, <1>9 DEF vars, clusterVars, informerVars, storeVars, handlerVars
<1>10. ASSUME NEW g \in GVR, Take(g) PROVE CleanupDue'
  <2> DEFINE e == Head(events[g])
  <2>1. /\ pc[g] = "idle" /\ events[g] # <<>> /\ events' = [events EXCEPT ![g] = Tail(@)]
        /\ indexer' = indexer /\ missed \subseteq missed' /\ gone' = gone /\ ifo' = ifo
        /\ evt' = evt \/ evt' = [evt EXCEPT ![g] = e]
    BY <1>10 DEF Take, handlerVars, clusterVars, storeVars
  <2>2. evt[g] = None /\ events[g] \in Seq(Event) /\ e \in Event /\ e # None
    BY <1>0, <2>1, TrackerAssumption DEF CallMatchesEvent
  <2>3. ASSUME e.kind # "update" PROVE e.subj \in missed' \/ evt' = [evt EXCEPT ![g] = e]
    BY <1>10, <2>3 DEF Take
  <2> SUFFICES ASSUME NEW u \in gone' \ missed', Left(u) # {}
               PROVE  \E h \in GVR : Pending(h, u)
    BY <1>a
  <2>4. u \in gone \ missed /\ Of(u) # {} /\ u \in Subject
    BY <1>0, <1>2, <2>1
  <2>5. PICK h \in GVR : \/ indexer[h][u] # None \/ Removes(events[h], u)
                         \/ evt[h] # None /\ Removal(evt[h], u)
    BY <1>b, <2>4
  <2>6. CASE h # g
    <3>1. events'[h] = events[h] /\ evt'[h] = evt[h]
      BY <1>0, <2>1, <2>6
    <3> QED
      BY <2>1, <2>5, <3>1
  <2>7. CASE h = g
    <3>1. events'[h] = Tail(events[g])
      BY <1>0, <2>1, <2>7
    <3>2. CASE indexer[h][u] # None
      BY <2>1, <3>2
    <3>3. CASE Removes(events[h], u)
      <4>1. Follows(events[g], indexer[g][u], u)
        BY <2>4 DEF UpdatesFollowed
      <4>2. Removal(e, u) \/ Removes(Tail(events[g]), u)
        BY <2>1, <2>2, <2>7, <3>3, <4>1, TailFollows
      <4>3. CASE Removal(e, u)
        <5>1. e.kind # "update" /\ e.subj = u
          BY <4>3 DEF Removal
        <5>2. evt'[g] = e
          BY <1>0, <2>3, <5>1
        <5> QED
          BY <2>2, <4>3, <5>2
      <4>4. CASE Removes(Tail(events[g]), u)
        BY <3>1, <4>4
      <4> QED
        BY <4>2, <4>3, <4>4
    <3> QED
      BY <2>2, <2>5, <2>7, <3>2, <3>3
  <2> QED
    BY <2>6, <2>7
<1>11. ASSUME NEW g \in GVR, UNCHANGED <<indexer, events, gone, missed>>,
              evt' = evt \/ Return(g), pc[g] \notin {"idle", "deleteall"},
              \A u : Left(u) \subseteq Of(u)
       PROVE  CleanupDue'
  <2>1. \A h \in GVR : evt'[h] = evt[h] \/ evt[h].kind = "update"
    BY <1>0, <1>11 DEF Return, CallMatchesEvent
  <2> QED
    BY <1>1, <1>11, <2>1
<1>12. ASSUME NEW g \in GVR, ListOperations(g) \/ NextResult(g) \/ Ensure(g)
       PROVE  CleanupDue'
  <2>1. /\ UNCHANGED <<indexer, events, gone, missed, ifo>> /\ (evt' = evt \/ Return(g))
        /\ pc[g] \notin {"idle", "deleteall"}
    BY <1>12 DEF ListOperations, NextResult, Ensure, LoopDone, clusterVars, informerVars,
       storeVars
  <2> QED
    BY <1>2, <1>11, <2>1
<1>13. ASSUME NEW i \in Id, NEW r, r = ifo[i], r # None,
              \/ ifo' = [ifo EXCEPT ![i] = MarkCompleted(r)]
              \/ ifo' = [ifo EXCEPT ![i] = MarkDetection(r)]
       PROVE  \A u : Left(u) \subseteq Of(u)
  <2>1. r \in IFO
    BY <1>0, <1>13
  <2>2. MarkCompleted(r).subj = r.subj /\ MarkDetection(r).subj = r.subj
    BY <2>1 DEF MarkCompleted, MarkDetection, IFO
  <2>3. \A j \in Id : ifo'[j] # None => ifo[j] # None /\ ifo'[j].subj = ifo[j].subj
    BY <1>0, <1>13, <2>2
  <2> QED
    BY <2>3 DEF Of
<1>14. ASSUME NEW g \in GVR, NEW i \in Id, CompleteOne(g, i) PROVE CleanupDue'
  <2>1. /\ UNCHANGED <<indexer, events, gone, missed>> /\ evt' = evt
        /\ pc[g] = "run" /\ held[g][i].rec # None
    BY <1>14 DEF CompleteOne, clusterVars, informerVars
  <2>2. \A u : Left(u) \subseteq Of(u)
    <3>1. CASE ifo' = ifo
      BY <1>2, <3>1
    <3>2. CASE held[g][i].cur /\ ifo' = [ifo EXCEPT ![i] = MarkCompleted(held[g][i].rec)]
      <4>1. held[g][i].rec = ifo[i]
        BY <2>1, <3>2 DEF CopiesCurrent
      <4> HIDE DEF Left
      <4> QED
        BY <1>13, <2>1, <3>2, <4>1
    <3> QED
      BY <1>14, <3>1, <3>2 DEF CompleteOne
  <2> QED
    BY <1>11, <2>1, <2>2
<1>15. ASSUME NEW g \in GVR, Mark(g) PROVE CleanupDue'
  <2>1. /\ UNCHANGED <<indexer, events, gone, missed>> /\ evt' = evt /\ pc[g] = "mark"
    BY <1>15 DEF Mark, clusterVars, informerVars
  <2>2. op[g] # None /\ op[g].id \in Id /\ op[g].rec \in IFO
    BY <2>1 DEF HandlerReady, HeldType, OpCopy
  <2>3. \A u : Left(u) \subseteq Of(u)
    <3>1. CASE ifo' = ifo
      BY <1>2, <3>1
    <3>2. CASE op[g].cur /\ ifo' = [ifo EXCEPT ![op[g].id] = MarkDetection(op[g].rec)]
      <4>1. op[g].rec = ifo[op[g].id] /\ op[g].rec # None
        BY <2>2, <3>2, TrackerAssumption DEF CopiesCurrent
      <4> HIDE DEF Left
      <4> QED
        BY <1>13, <2>2, <3>2, <4>1
    <3> QED
      BY <1>15, <3>1, <3>2 DEF Mark
  <2> QED
    BY <1>11, <2>1, <2>3
<1>16. ASSUME NEW g \in GVR, CleanupCompleted(g) PROVE CleanupDue'
  <2>1. /\ UNCHANGED <<indexer, events, gone, missed>> /\ evt' = evt /\ pc[g] = "cleanup"
    BY <1>16 DEF CleanupCompleted, clusterVars, informerVars
  <2>2. ifo' = ifo \/ ifo' = [ifo EXCEPT ![op[g].id] = None]
    BY <1>16 DEF CleanupCompleted
  <2>3. \A u : Left(u) \subseteq Of(u)
    BY <1>0, <2>2 DEF Of
  <2> QED
    BY <1>11, <2>1, <2>3
<1>17. ASSUME NEW g \in GVR, Create(g) PROVE CleanupDue'
  <2>1. /\ UNCHANGED <<indexer, events, gone, missed>> /\ evt' = evt /\ pc[g] = "create"
    BY <1>17 DEF Create, clusterVars, informerVars
  <2>2. evt[g] # None /\ evt[g].kind = "update"
    BY <2>1 DEF CallMatchesEvent
  <2>3. ifo' = ifo \/ \E i \in Id : ifo' = [ifo EXCEPT ![i] = Build(g)]
    BY <1>17 DEF Create
  <2>4. \A u : u # evt[g].subj => Left(u) \subseteq Of(u)
    <3>1. Build(g).subj = evt[g].subj
      BY DEF Build
    <3> QED
      BY <1>0, <2>3, <3>1 DEF Of
  <2> SUFFICES ASSUME NEW u \in gone' \ missed', Left(u) # {}
               PROVE  \E h \in GVR : Pending(h, u)
    BY <1>a
  <2>5. u \in gone \ missed /\ u \in Subject
    BY <1>0, <2>1
  <2>6. CASE u = evt[g].subj
    <3>1. Due(g, u)
      BY <2>2, <2>5, <2>6 DEF UpdatesFollowed
    <3> QED
      BY <2>1, <3>1 DEF Due
  <2>7. CASE u # evt[g].subj
    <3>1. Of(u) # {}
      BY <2>4, <2>7
    <3> QED
      BY <1>b, <2>1, <2>5, <3>1
  <2> QED
    BY <2>6, <2>7
<1>18. ASSUME NEW g \in GVR, DeleteAll(g) PROVE CleanupDue'
  <2> DEFINE s == evt[g].subj
  <2>1. /\ UNCHANGED <<indexer, events, gone>> /\ missed \subseteq missed' /\ Return(g)
    BY <1>18 DEF DeleteAll, clusterVars, informerVars
  <2>2. PICK S \in SUBSET Of(s) : /\ ifo' = [i \in Id |-> IF i \in S THEN None ELSE ifo[i]]
                                  /\ S = Of(s) \/ s \in missed'
    BY <1>18 DEF DeleteAll
  <2>3. \A u : Left(u) \subseteq Of(u)
    BY <2>2 DEF Of
  <2>4. s \in missed' \/ Left(s) = {}
    BY <2>2 DEF Of
  <2> HIDE DEF Left
  <2> SUFFICES ASSUME NEW u \in gone' \ missed', Left(u) # {}
               PROVE  \E h \in GVR : Pending(h, u)
    BY <1>a
  <2>5. u \in gone \ missed /\ Of(u) # {} /\ u # s
    BY <2>1, <2>3, <2>4
  <2>6. PICK h \in GVR : \/ indexer[h][u] # None \/ Removes(events[h], u)
                         \/ evt[h] # None /\ Removal(evt[h], u)
    BY <1>b, <2>5
  <2>7. CASE evt[h] # None /\ Removal(evt[h], u)
    <3>1. h # g
      BY <2>5, <2>7 DEF Removal
    <3>2. evt'[h] = evt[h]
      BY <1>0, <2>1, <3>1 DEF Return
    <3> QED
      BY <2>7, <3>2
  <2> QED
    BY <2>1, <2>6, <2>7
<1> QED
  BY <1>3, <1>4, <1>5, <1>7, <1>8, <1>9, <1>10, <1>12, <1>14, <1>15, <1>16, <1>17, <1>18
     DEF Next, Handle

\* Once every handler is through with a deleted subject, and no deletion of
\* it was missed, nothing of it is left: for any number of handlers, stale
\* copies and creates in flight (watcher.go:134-215, operations.go:24-37).
THEOREM NothingIsLeft == Spec => []GoneIsClean
<1> DEFINE CleanInv == CallMatchesEvent /\ UpdatesFollowed /\ CleanupDue
<1>1. Init => CleanInv
  <2> SUFFICES ASSUME Init PROVE CleanInv
    OBVIOUS
  <2>1. \A g \in GVR : pc[g] = "idle" /\ evt[g] = None /\ events[g] = <<>>
    BY DEF Init
  <2>2. CallMatchesEvent /\ UpdatesFollowed
    BY <2>1 DEF CallMatchesEvent, UpdatesFollowed, Follows
  <2>3. CleanupDue
    BY DEF Init, CleanupDue
  <2> QED
    BY <2>2, <2>3
<1>2. TrackerInv /\ CleanInv /\ [Next]_vars => CleanInv'
  <2> SUFFICES ASSUME TrackerInv, CleanInv, [Next]_vars PROVE CleanInv'
    OBVIOUS
  <2>1. Typed /\ CopiesCurrent
    BY TypedIsTypeOK DEF TrackerInv
  <2> QED
    BY <2>1, CallStep, FollowedStep, CleanupStep
<1>3. CleanInv => GoneIsClean
  <2> SUFFICES ASSUME CleanupDue, NEW s \in gone \ missed, Forgotten(s), Of(s) # {}
               PROVE  FALSE
    BY DEF GoneIsClean
  <2>1. PICK g \in GVR : Due(g, s) \/ (evt[g] # None /\ Removal(evt[g], s))
    BY DEF CleanupDue
  <2> QED
    BY <2>1 DEF Forgotten, Due, Removes, Removal
<1> QED
  BY <1>1, <1>2, <1>3, TrackerInvHolds, PTL DEF Spec

----------------------------------------------------------------------------
(* The life of the stored objects.  A write is of the object that was read *)
(* and within its window by TrackerInv; for a deletion, the handler must   *)
(* have been told of one that happened, or not be asked to retain.         *)

\* A deletion is reported of a deleted subject only, and completed objects
\* are deleted only if they are not to be retained.
DeletionsTrue ==
    /\ \A g \in GVR, s \in Subject :
        indexer[g][s] # None => subjects[s] # None \/ s \in gone
    /\ \A g \in GVR : \A k \in 1..Len(events[g]) :
        events[g][k].kind # "update" => events[g][k].subj \in gone
    /\ \A g \in GVR : evt[g] # None /\ evt[g].kind # "update" => evt[g].subj \in gone
    /\ \A g \in GVR : pc[g] = "cleanup" => ~RetainCompletedIFOs

\* The first element of a queue, and those behind it.
LEMMA QueueTail ==
    ASSUME NEW q \in Seq(Event), q # <<>>
    PROVE  /\ 1 \in 1..Len(q) /\ Head(q) = q[1]
           /\ \A k \in 1..Len(Tail(q)) : k + 1 \in 1..Len(q) /\ Tail(q)[k] = q[k + 1]
  OBVIOUS

LEMMA QueueAppend ==
    ASSUME NEW q \in Seq(Event), NEW e \in Event
    PROVE  \A k \in 1..Len(Append(q, e)) :
             \/ k \in 1..Len(q) /\ Append(q, e)[k] = q[k]
             \/ Append(q, e)[k] = e
  OBVIOUS

LEMMA DeletionsStep ==
    ASSUME Typed, DeletionsTrue, [Next]_vars
    PROVE  DeletionsTrue'
<1> USE DEF Typed
<1>0. /\ events \in [GVR -> Seq(Event)] /\ indexer \in [GVR -> [Subject -> Content \cup {None}]]
      /\ evt \in [GVR -> Event \cup {None}] /\ pc \in [GVR -> PC]
      /\ subjects \in [Subject -> Content \cup {None}]
  BY DEF InformerType, CallType, ClusterType
<1>1. ASSUME UNCHANGED <<indexer, events, subjects, gone>>,
             \A h \in GVR : evt'[h] \in {evt[h], None},
             \A h \in GVR : pc'[h] = "cleanup" => pc[h] = "cleanup" \/ ~RetainCompletedIFOs
      PROVE  DeletionsTrue'
  BY <1>1 DEF DeletionsTrue
<1>2. CASE ClusterStep
  <2>1. UNCHANGED <<informerVars, handlerVars>> /\ gone \subseteq gone'
    BY <1>2 DEF ClusterStep, CreateSubject, ChangeSubject, DeleteSubject, Tick, clusterVars
  <2>2. \A s \in Subject : subjects[s] # None => subjects'[s] # None \/ s \in gone'
    <3>1. ASSUME NEW s \in Subject, NEW c \in Content, subjects' = [subjects EXCEPT ![s] = c]
          PROVE  \A u \in Subject : subjects[u] # None => subjects'[u] # None
      BY <1>0, <3>1, TrackerAssumption
    <3>2. ASSUME NEW s \in Subject, DeleteSubject(s)
          PROVE  \A u \in Subject : subjects[u] # None => subjects'[u] # None \/ u \in gone'
      BY <1>0, <3>2 DEF DeleteSubject
    <3>3. CASE Tick
      BY <3>3 DEF Tick, clusterVars
    <3> QED
      BY <1>2, <3>1, <3>2, <3>3 DEF ClusterStep, CreateSubject, ChangeSubject
  <2> QED
    BY <2>1, <2>2 DEF informerVars, handlerVars, DeletionsTrue
<1>3. CASE InformerStep
  <2>1. UNCHANGED <<handlerVars, clusterVars>>
    BY <1>3 DEF InformerStep, Observe, ObserveUnknown, Resync
  <2>2. PICK g \in GVR, s \in Subject : Observe(g, s) \/ ObserveUnknown(g, s) \/ Resync(g, s)
    BY <1>3 DEF InformerStep
  <2>3. PICK e \in Event :
          /\ events' = [events EXCEPT ![g] = Append(@, e)]
          /\ e.kind # "update" => e.subj \in gone
          /\ indexer' = indexer \/ indexer' = [indexer EXCEPT ![g][s] = subjects[s]]
    <3>1. CASE Resync(g, s)
      <4> DEFINE e == [kind |-> "update", subj |-> s, content |-> indexer[g][s]]
      <4>1. /\ events' = [events EXCEPT ![g] = <<e>>] /\ indexer' = indexer
            /\ events[g] = <<>> /\ indexer[g][s] # None
        BY <3>1 DEF Resync
      <4>2. e \in Event /\ e.kind = "update"
        BY <1>0, <4>1 DEF Event
      <4>3. Append(events[g], e) = <<e>>
        BY <4>1
      <4> HIDE DEF e
      <4> QED
        BY <1>0, <4>1, <4>2, <4>3
    <3>2. CASE Observe(g, s) \/ ObserveUnknown(g, s)
      <4>1. PICK k \in {"update", "delete", "unknown"} :
              /\ Notify(g, k, s)
              /\ k = "update" => subjects[s] # None
              /\ k # "update" => subjects[s] = None /\ indexer[g][s] # None
        BY <3>2 DEF Observe, ObserveUnknown
      <4> DEFINE e == [kind |-> k, subj |-> s, content |-> subjects[s]]
      <4>2. e \in Event /\ e.subj = s /\ e.kind = k
        BY <1>0, <4>1 DEF Event
      <4>3. /\ events' = [events EXCEPT ![g] = Append(@, e)]
            /\ indexer' = [indexer EXCEPT ![g][s] = subjects[s]]
        BY <4>1 DEF Notify
      <4>4. k # "update" => s \in gone
        BY <4>1 DEF DeletionsTrue
      <4> HIDE DEF e
      <4> QED
        BY <4>2, <4>3, <4>4
    <3> QED
      BY <2>2, <3>1, <3>2
  <2>4. \A h \in GVR, u \in Subject :
          indexer'[h][u] # None => subjects'[u] # None \/ u \in gone'
    <3>1. \A h \in GVR, u \in Subject : indexer'[h][u] \in {indexer[h][u], subjects[u]}
      BY <1>0, <2>3
    <3>2. UNCHANGED <<subjects, gone>>
      BY <2>1 DEF clusterVars
    <3> QED
      BY <3>1, <3>2 DEF DeletionsTrue
  <2>5. ASSUME NEW h \in GVR, NEW k \in 1..Len(events'[h]), events'[h][k].kind # "update"
        PROVE  events'[h][k].subj \in gone'
    <3>1. CASE h = g
      <4>1. events'[h] = Append(events[g], e) /\ events[g] \in Seq(Event)
        BY <1>0, <2>3, <3>1
      <4> QED
        BY <2>1, <2>3, <2>5, <4>1, QueueAppend DEF DeletionsTrue, clusterVars
    <3>2. CASE h # g
      <4>1. events'[h] = events[h]
        BY <1>0, <2>3, <3>2
      <4> QED
        BY <2>1, <2>5, <4>1 DEF DeletionsTrue, clusterVars
    <3> QED
      BY <3>1, <3>2
  <2> QED
    BY <2>1, <2>4, <2>5 DEF DeletionsTrue, handlerVars, clusterVars
<1>4. CASE \E i \in Id : SyncCache(i)
  BY <1>1, <1>4 DEF SyncCache, clusterVars, informerVars, handlerVars
<1>5. CASE ControllerStep
  <2>1. PICK o \in Deployed : Load(o) \/ Unload(o)
    BY <1>5 DEF ControllerStep
  <2>2. UNCHANGED <<subjects, gone, handlerVars>>
    BY <2>1 DEF Load, Unload, clusterVars
  <2>3. CASE UNCHANGED <<indexer, events>>
    BY <1>1, <2>2, <2>3 DEF handlerVars
  <2>4. CASE /\ indexer' = [indexer EXCEPT ![o.gvr] = [s \in Subject |-> None]]
             /\ events' = [events EXCEPT ![o.gvr] = <<>>]
    <3>1. \A h \in GVR : \/ events'[h] = events[h] /\ indexer'[h] = indexer[h]
                         \/ events'[h] = <<>> /\ indexer'[h] = [s \in Subject |-> None]
      BY <1>0, <2>4
    <3>2. Len(<<>>) = 0 /\ 1..0 = {}
      OBVIOUS
    <3> QED
      BY <2>2, <3>1, <3>2 DEF DeletionsTrue, handlerVars
  <2> QED
    BY <2>1, <2>3, <2>4 DEF Load, Unload, informerVars
<1>6. CASE Restart
  <2>1. \A h \in GVR : /\ events'[h] = <<>> /\ evt'[h] = None /\ pc'[h] = "idle"
                       /\ indexer'[h] = [s \in Subject |-> None]
    BY <1>6 DEF Restart
  <2> QED
    BY <2>1 DEF DeletionsTrue
<1>7. ASSUME NEW g \in GVR, Take(g) PROVE DeletionsTrue'
  <2> DEFINE e == Head(events[g])
  <2>1. /\ events[g] # <<>> /\ events' = [events EXCEPT ![g] = Tail(@)]
        /\ indexer' = indexer /\ subjects' = subjects /\ gone' = gone
        /\ evt' = evt \/ evt' = [evt EXCEPT ![g] = e]
        /\ \/ pc' = pc \/ pc' = [pc EXCEPT ![g] = "list"]
           \/ pc' = [pc EXCEPT ![g] = "deleteall"]
    BY <1>7 DEF Take, handlerVars, clusterVars
  <2>2. /\ 1 \in 1..Len(events[g]) /\ e = events[g][1]
        /\ \A k \in 1..Len(Tail(events[g])) :
             k + 1 \in 1..Len(events[g]) /\ Tail(events[g])[k] = events[g][k + 1]
    BY <1>0, <2>1, QueueTail
  <2>3. e.kind # "update" => e.subj \in gone
    BY <2>2 DEF DeletionsTrue
  <2>4. \A h \in GVR : \A k \in 1..Len(events'[h]) :
          events'[h][k].kind # "update" => events'[h][k].subj \in gone
    BY <1>0, <2>1, <2>2 DEF DeletionsTrue
  <2>5. \A h \in GVR : evt'[h] # None /\ evt'[h].kind # "update" => evt'[h].subj \in gone
    <3> HIDE DEF e
    <3> QED
      BY <1>0, <2>1, <2>3 DEF DeletionsTrue
  <2>6. \A h \in GVR : pc'[h] = "cleanup" => pc[h] = "cleanup"
    BY <1>0, <2>1
  <2> QED
    BY <2>1, <2>4, <2>5, <2>6 DEF DeletionsTrue
<1>8. ASSUME NEW g \in GVR, Handle(g), ~Take(g) PROVE DeletionsTrue'
  <2>1. UNCHANGED <<indexer, events, subjects, gone>>
    BY <1>8 DEF Handle, ListOperations, CleanupCompleted, NextResult, CompleteOne, Ensure,
       Create, Mark, DeleteAll, informerVars, clusterVars
  <2>2. evt' = evt \/ Return(g)
    BY <1>8 DEF Handle, ListOperations, CleanupCompleted, NextResult, CompleteOne, Ensure,
       Create, Mark, DeleteAll
  <2>3. \A h \in GVR : evt'[h] \in {evt[h], None}
    BY <1>0, <2>2 DEF Return
  <2>4. \/ pc' = pc
        \/ \E x \in PC \ {"cleanup"} : pc' = [pc EXCEPT ![g] = x]
        \/ pc' = [pc EXCEPT ![g] = IF RetainCompletedIFOs THEN "run" ELSE "cleanup"]
    BY <1>8 DEF Handle, ListOperations, CleanupCompleted, NextResult, CompleteOne, Ensure,
       Create, Mark, DeleteAll, Return, PC
  <2>5. \A h \in GVR : pc'[h] = "cleanup" => pc[h] = "cleanup" \/ ~RetainCompletedIFOs
    BY <1>0, <2>4
  <2> QED
    BY <1>1, <2>1, <2>3, <2>5
<1>9. CASE UNCHANGED vars
  BY <1>1, <1>9 DEF vars, clusterVars, informerVars, handlerVars
<1> QED
  BY <1>2, <1>3, <1>4, <1>5, <1>6, <1>7, <1>8, <1>9 DEF Next

LEMMA DeletionsHold == Spec => [](CallMatchesEvent /\ DeletionsTrue)
<1>1. Init => CallMatchesEvent /\ DeletionsTrue
  <2> SUFFICES ASSUME Init PROVE CallMatchesEvent /\ DeletionsTrue
    OBVIOUS
  <2>1. \A g \in GVR : /\ pc[g] = "idle" /\ evt[g] = None /\ events[g] = <<>>
                       /\ indexer[g] = [s \in Subject |-> None]
    BY DEF Init
  <2> QED
    BY <2>1 DEF CallMatchesEvent, DeletionsTrue
<1>2. TrackerInv /\ CallMatchesEvent /\ DeletionsTrue /\ [Next]_vars
        => CallMatchesEvent' /\ DeletionsTrue'
  BY TypedIsTypeOK, CallStep, DeletionsStep DEF TrackerInv
<1> QED
  BY <1>1, <1>2, TrackerInvHolds, PTL DEF Spec

\* Each write of a handler is a step in the life of the object it is about.
LEMMA HandleLives ==
    ASSUME TrackerInv, CallMatchesEvent, DeletionsTrue, NEW g \in GVR, Handle(g)
    PROVE  [Lifecycle!LNext]_(Lifecycle!lvars)
<1> USE DEF TrackerInv
<1>0. Typed
  BY TypedIsTypeOK
<1>1. /\ ifo \in [Id -> IFO \cup {None}] /\ now \in Nat /\ began[g] \in Nat
      /\ DebounceThreshold \in Nat /\ K8SAPITimeout \in Nat
      /\ evt[g] \in Event \cup {None}
  BY <1>0, TrackerAssumption DEF Typed, StoreType, ClusterType, CallType
<1>2. now' = now /\ gone' = gone
  BY <1>0, HandleLeaves DEF clusterVars
<1>3. CASE ifo' = ifo
  BY <1>2, <1>3 DEF Lifecycle!lvars
<1>4. ASSUME NEW i \in Id, CompleteOne(g, i), ifo' # ifo PROVE Lifecycle!LNext
  <2>1. /\ ~PastDebounceThreshold(held[g][i].rec) /\ held[g][i].cur
        /\ held[g][i].rec # None
        /\ ifo' = [ifo EXCEPT ![i] = MarkCompleted(held[g][i].rec)]
    BY <1>4 DEF CompleteOne
  <2>2. held[g][i].rec = ifo[i] /\ ifo[i] # None
    BY <2>1 DEF CopiesCurrent
  <2>3. ifo[i].completed \in Nat
    <3>1. ifo[i] \in IFO
      BY <1>1, <2>2
    <3> QED
      BY <3>1 DEF IFO
  <2>4. Lifecycle!Open(i, DebounceThreshold)
    BY <1>1, <2>1, <2>2, <2>3 DEF Lifecycle!Open, PastDebounceThreshold, Complete
  <2>5. Lifecycle!LComplete(i)
    BY <1>2, <2>1, <2>2, <2>4 DEF Lifecycle!LComplete, MarkCompleted
  <2> QED
    BY <2>5 DEF Lifecycle!LNext
<1>5. CASE Mark(g) /\ ifo' # ifo
  <2> DEFINE i == op[g].id
  <2>1. /\ InTime(g) /\ op[g].cur /\ pc[g] = "mark"
        /\ ifo' = [ifo EXCEPT ![i] = MarkDetection(op[g].rec)]
    BY <1>5 DEF Mark, CallWorks
  <2>2. op[g] # None /\ i \in Id /\ op[g].rec \in IFO
    BY <1>0, <2>1 DEF HandlerReady, Typed, HeldType, OpCopy
  <2>3. op[g].rec = ifo[i] /\ ifo[i] # None /\ ifo[i].completed \in Nat
    <3>1. op[g].rec = ifo[i] /\ ifo[i] # None
      BY <2>1, <2>2, TrackerAssumption DEF CopiesCurrent
    <3> QED
      BY <2>2, <3>1 DEF IFO
  <2>4. \/ ~Complete(op[g].rec)
        \/ began[g] < op[g].rec.completed + DebounceThreshold
    BY <2>1 DEF MarkInWindow
  <2>5. now < began[g] + K8SAPITimeout
    BY <2>1 DEF InTime
  <2> HIDE DEF i
  <2>6. Lifecycle!Open(i, DebounceThreshold + K8SAPITimeout)
    BY <1>1, <2>3, <2>4, <2>5 DEF Lifecycle!Open, Complete
  <2>7. Lifecycle!LDetect(i)
    BY <1>2, <2>1, <2>3, <2>6 DEF Lifecycle!LDetect, MarkDetection
  <2> QED
    BY <2>2, <2>7 DEF Lifecycle!LNext
<1>6. CASE Create(g) /\ ifo' # ifo
  <2>1. PICK i \in Id : Free(i) /\ ifo' = [ifo EXCEPT ![i] = Build(g)] /\ pc[g] = "create"
    BY <1>6 DEF Create
  <2>2. /\ evt[g] \in Event /\ results[g] # <<>> /\ results[g][1].ops # <<>>
        /\ results[g] \in Seq(Result)
    BY <1>0, <1>1, <2>1 DEF HandlerReady, Typed, CallType
  <2>3. evt[g].subj \in Subject /\ results[g][1] \in Result
    BY <2>2 DEF Event
  <2>4. /\ results[g][1].rs \in Name /\ results[g][1].labels \in SUBSET Label
        /\ results[g][1].ops \in Seq(Operation)
    BY <2>3 DEF Result
  <2>5. results[g][1].ops[1] \in Operation
    BY <2>2, <2>4
  <2>6. Build(g) \in Lifecycle!Born
    BY <2>3, <2>4, <2>5 DEF Build, Lifecycle!Born
  <2>7. Lifecycle!LCreate(i)
    BY <1>2, <2>1, <2>6 DEF Lifecycle!LCreate, Free
  <2> QED
    BY <2>7 DEF Lifecycle!LNext
<1>7. CASE CleanupCompleted(g) /\ ifo' # ifo
  <2> DEFINE i == op[g].id
  <2>1. pc[g] = "cleanup" /\ ifo' = [ifo EXCEPT ![i] = None]
    BY <1>7 DEF CleanupCompleted
  <2>2. op[g] # None /\ i \in Id
    BY <1>0, <2>1 DEF HandlerReady, Typed, HeldType, OpCopy
  <2> HIDE DEF i
  <2>3. ifo[i] # None
    BY <1>1, <1>7, <2>1
  <2>4. ~RetainCompletedIFOs
    BY <2>1 DEF DeletionsTrue
  <2>5. Lifecycle!LExpire(i)
    BY <1>2, <2>1, <2>3, <2>4 DEF Lifecycle!LExpire
  <2> QED
    BY <2>2, <2>5 DEF Lifecycle!LNext
<1>8. CASE DeleteAll(g)
  <2> DEFINE s == evt[g].subj
  <2>1. PICK S \in SUBSET Of(s) : ifo' = [i \in Id |-> IF i \in S THEN None ELSE ifo[i]]
    BY <1>8 DEF DeleteAll
  <2>2. evt[g] \in Event /\ evt[g] # None /\ evt[g].kind = "delete"
    BY <1>1, <1>8 DEF DeleteAll, CallMatchesEvent
  <2>3. s \in Subject /\ s \in gone
    BY <2>2 DEF DeletionsTrue, Event
  <2> HIDE DEF s
  <2>4. Lifecycle!LCleanUp(s)
    BY <1>2, <2>1, <2>3 DEF Lifecycle!LCleanUp, Of
  <2> QED
    BY <2>3, <2>4 DEF Lifecycle!LNext
<1>9. CASE Take(g) \/ ListOperations(g) \/ NextResult(g) \/ Ensure(g)
  BY <1>3, <1>9 DEF Take, ListOperations, NextResult, Ensure, storeVars
<1> QED
  BY <1>3, <1>4, <1>5, <1>6, <1>7, <1>8, <1>9 DEF Handle

\* The stored InFlightOperations live as OperationLifecycle says: handlers
\* that write stale copies, run late, overlap or are cut off by a restart
\* (watcher.go:134-241, operations.go:24-98) add nothing to it, for any number
\* of them, any threshold and any timeout.
THEOREM TrackerImplementsLifecycle == Spec => ImplementsLifecycle
<1>1. Init => Lifecycle!LInit
  BY DEF Init, Lifecycle!LInit
<1>2. TrackerInv /\ CallMatchesEvent /\ DeletionsTrue /\ [Next]_vars
        => [Lifecycle!LNext]_(Lifecycle!lvars)
  <2> SUFFICES ASSUME TrackerInv, CallMatchesEvent, DeletionsTrue, [Next]_vars
               PROVE  [Lifecycle!LNext]_(Lifecycle!lvars)
    OBVIOUS
  <2>1. CASE UNCHANGED <<ifo, now, gone>>
    BY <2>1 DEF Lifecycle!lvars
  <2>2. CASE \E g \in GVR : Handle(g)
    BY <2>2, HandleLives
  <2>3. CASE Tick
    <3>1. Lifecycle!LTick
      BY <2>3 DEF Tick, clusterVars, storeVars, Lifecycle!LTick
    <3> QED
      BY <3>1 DEF Lifecycle!LNext
  <2>4. ASSUME NEW s \in Subject, DeleteSubject(s)
        PROVE  [Lifecycle!LNext]_(Lifecycle!lvars)
    <3>1. gone' = gone \cup {s} /\ UNCHANGED <<ifo, now>>
      BY <2>4 DEF DeleteSubject, storeVars
    <3>2. CASE s \in gone
      BY <2>1, <3>1, <3>2
    <3>3. CASE s \notin gone
      <4>1. Lifecycle!LDeleteSubject(s)
        BY <3>1, <3>3 DEF Lifecycle!LDeleteSubject
      <4> QED
        BY <4>1 DEF Lifecycle!LNext
    <3> QED
      BY <3>2, <3>3
  <2>5. CASE \/ \E s \in Subject, c \in Content : CreateSubject(s, c) \/ ChangeSubject(s, c)
             \/ InformerStep \/ ControllerStep \/ Restart
             \/ \E i \in Id : SyncCache(i)
    BY <2>1, <2>5 DEF CreateSubject, ChangeSubject, InformerStep, Observe, ObserveUnknown,
       Resync, ControllerStep, Load, Unload, Restart, SyncCache, clusterVars, storeVars
  <2>6. CASE UNCHANGED vars
    BY <2>1, <2>6 DEF vars, clusterVars, storeVars
  <2> QED
    BY <2>2, <2>3, <2>4, <2>5, <2>6 DEF Next, ClusterStep
<1> QED
  BY <1>1, <1>2, TrackerInvHolds, DeletionsHold, PTL
     DEF Spec, ImplementsLifecycle, Lifecycle!LSpec
=============================================================================
