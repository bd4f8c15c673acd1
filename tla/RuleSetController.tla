------------------------- MODULE RuleSetController -------------------------
(***************************************************************************)
(* The reconciler of OperationRuleSets                                     *)
(* (internal/controller/operationruleset_controller.go) with the rule      *)
(* cache and the watches it drives, the API server that stores the         *)
(* rulesets, and the manager's lagging copy of them.                       *)
(*                                                                         *)
(* One worker reconciles (MaxConcurrentReconciles is left at 1), so there  *)
(* is one program counter; what interleaves with it is the users who       *)
(* create, edit and delete rulesets, the delivery of their changes to the  *)
(* manager's cache, the goroutines that run informers, failing or          *)
(* half-failing API calls, and the death and restart of the process.       *)
(*                                                                         *)
(* A resourceVersion is used by the code for one thing only, the           *)
(* optimistic lock of Status().Update, so a copy of an object carries, in  *)
(* place of a number, whether it is still the stored version (cur).        *)
(***************************************************************************)
EXTENDS Watches

CONSTANTS
    Compiles,     \* the Body values whose CEL expressions all compile
    None,         \* no object under this name; no request
    RequeueInterval,  \* REQUEUE_INTERVAL; one of 0 or less asks for no retry
    MaxEdits,     \* bound on what users do: create, edit, delete, (un)install
    MaxFaults,    \* bound on API calls that fail
    MaxCrashes    \* bound on restarts

VARIABLES
    ors,        \* Name -> stored object
    served,     \* the GVRs API discovery knows
    cached,     \* Name -> the manager's copy
    queue,      \* the work queue
    delayed,    \* names with a RequeueAfter timer running
    pc, req,    \* where Reconcile is, and its request
    loc,        \* operationRule, the local copy
    requeue,    \* result.RequeueAfter was set to RequeueInterval
    edits, faults, crashes

apiVars == <<ors, served, cached, edits>>
recVars == <<queue, delayed, pc, req, loc, requeue>>
vars == <<ruleVars, watchVars, apiVars, recVars, faults, crashes>>

CondType == {"Ready", "Validated", "InvalidTarget", "InvalidRule", "WatchFailed"}

ORS == [gvr : GVR, body : Body, deleting : BOOLEAN, fin : BOOLEAN,
        conds : SUBSET CondType, watchActive : BOOLEAN]

ASSUME ControllerAssumption ==
    /\ Compiles \subseteq Body
    /\ None \notin Name /\ None \notin ORS
    /\ RequeueInterval \in Int
    /\ {MaxEdits, MaxFaults, MaxCrashes} \subseteq Nat

Copy == [obj : ORS \cup {None}, cur : BOOLEAN]
NoCopy == [obj |-> None, cur |-> FALSE]

PC == {"idle", "teardown", "prune", "removefin", "addfin", "validate",
       "setup", "register", "status"}

\* The local copy as the rule cache sees it.
Rule == [name |-> req, gvr |-> loc.obj.gvr, body |-> loc.obj.body]

----------------------------------------------------------------------------
(* The API server, its users, and the manager's cache.  A write makes      *)
(* every other copy of the object stale.                                   *)

Stale(copy) == [copy EXCEPT !.cur = FALSE]

\* An object that is being deleted goes away with its last finalizer.
Settled(o) == IF o.deleting /\ ~o.fin THEN None ELSE o

\* A write that changes nothing makes no new version.
Write(n, o) ==
    /\ ors' = [ors EXCEPT ![n] = o]
    /\ cached' = IF o = ors[n] THEN cached ELSE [cached EXCEPT ![n] = Stale(@)]

\* Somebody other than the reconciler writes.
UserWrite(n, o) ==
    /\ edits < MaxEdits
    /\ edits' = edits + 1
    /\ Write(n, o)
    /\ loc' = IF n = req THEN Stale(loc) ELSE loc
    /\ UNCHANGED <<ruleVars, watchVars, served, queue, delayed, pc, req, requeue,
                   faults, crashes>>

UserCreate(n, g, b) ==
    /\ ors[n] = None
    /\ UserWrite(n, [gvr |-> g, body |-> b, deleting |-> FALSE, fin |-> FALSE,
                     conds |-> {}, watchActive |-> FALSE])

UserUpdate(n, g, b) ==
    /\ ors[n] # None
    /\ <<g, b>> # <<ors[n].gvr, ors[n].body>>
    /\ UserWrite(n, [ors[n] EXCEPT !.gvr = g, !.body = b])

UserDelete(n) ==
    /\ ors[n] # None
    /\ ~ors[n].deleting
    /\ UserWrite(n, Settled([ors[n] EXCEPT !.deleting = TRUE]))

\* A CRD is installed or removed.
ToggleServed(g) ==
    /\ edits < MaxEdits
    /\ edits' = edits + 1
    /\ served' = IF g \in served THEN served \ {g} ELSE served \cup {g}
    /\ UNCHANGED <<ruleVars, watchVars, ors, cached, recVars, faults, crashes>>

\* The manager's cache catches up with n; its watch enqueues the name.
SyncCache(n) ==
    /\ ~cached[n].cur
    /\ cached' = [cached EXCEPT ![n] = [obj |-> ors[n], cur |-> TRUE]]
    /\ queue' = queue \cup {n}
    /\ UNCHANGED <<ruleVars, watchVars, ors, served, edits, delayed, pc, req, loc,
                   requeue, faults, crashes>>

\* A RequeueAfter timer fires.
Requeue(n) ==
    /\ n \in delayed
    /\ delayed' = delayed \ {n}
    /\ queue' = queue \cup {n}
    /\ UNCHANGED <<ruleVars, watchVars, apiVars, pc, req, loc, requeue, faults, crashes>>

----------------------------------------------------------------------------
(* Reconcile.                                                              *)

Init ==
    /\ RuleCacheInit
    /\ WatchesInit
    /\ ors = [n \in Name |-> None]
    /\ served = GVR
    /\ cached = [n \in Name |-> [obj |-> None, cur |-> TRUE]]
    /\ queue = {} /\ delayed = {}
    /\ pc = "idle" /\ req = None /\ loc = NoCopy /\ requeue = FALSE
    /\ edits = 0 /\ faults = 0 /\ crashes = 0

\* A RequeueAfter of 0 or less is none.
RequeueAfter(n) == IF RequeueInterval > 0 THEN delayed \cup {n} ELSE delayed

End_NoRequeue(err) ==
    /\ delayed' = IF ~err /\ requeue THEN RequeueAfter(req) ELSE delayed
    /\ pc' = "idle" /\ req' = None /\ loc' = NoCopy /\ requeue' = FALSE

\* The deferred function: Ended asks for a requeue after an error, and the
\* error itself is dropped.
End(err) ==
    /\ delayed' = IF err \/ requeue THEN RequeueAfter(req) ELSE delayed
    /\ pc' = "idle" /\ req' = None /\ loc' = NoCopy /\ requeue' = FALSE

Fault == faults < MaxFaults /\ faults' = faults + 1
NoFault == UNCHANGED faults

\* r.Get reads the manager's cache.  A name it does not have ends the pass;
\* any other error ends it too, and Ended asks for a requeue.
Get(n) ==
    /\ pc = "idle"
    /\ n \in queue
    /\ queue' = queue \ {n}
    /\ \/ /\ NoFault
          /\ cached[n].obj = None
          /\ UNCHANGED <<pc, req, loc, delayed>>
       \/ /\ NoFault
          /\ cached[n].obj # None
          /\ req' = n
          /\ loc' = cached[n]
          /\ pc' = IF cached[n].obj.deleting THEN "teardown" ELSE "addfin"
          /\ UNCHANGED delayed
       \/ /\ Fault
          /\ delayed' = RequeueAfter(n)
          /\ UNCHANGED <<pc, req, loc>>
    /\ UNCHANGED <<ruleVars, watchVars, apiVars, requeue, crashes>>

\* Teardown is RemoveRule, then Prune: two locks, two steps.
TeardownRule ==
    /\ pc = "teardown"
    /\ RemoveRule(Rule)
    /\ pc' = "prune"
    /\ UNCHANGED <<watchVars, apiVars, queue, delayed, req, loc, requeue, faults, crashes>>

TeardownPrune ==
    /\ pc = "prune"
    /\ Prune
    /\ pc' = "removefin"
    /\ UNCHANGED <<ruleVars, apiVars, queue, delayed, req, loc, requeue, faults, crashes>>

\* A merge patch of metadata.finalizers, without a resourceVersion: it is
\* applied to whatever is stored.  The answer is decoded over the local
\* copy, where a field the answer lacks keeps its value.  The call may
\* fail, or take effect and still be reported as failed.
Patch(fin) ==
    LET o == ors[req]
        new == [o EXCEPT !.fin = fin]
    IN  \/ /\ o # None
           /\ NoFault
           /\ Write(req, Settled(new))
           /\ loc' = [obj |-> [new EXCEPT !.deleting = @ \/ loc.obj.deleting],
                      cur |-> Settled(new) # None]
           /\ pc' = "validate"
           /\ UNCHANGED <<delayed, req, requeue>>
        \/ /\ o # None
           /\ Fault
           /\ Write(req, Settled(new))
           /\ End(TRUE)
        \/ /\ IF o = None THEN NoFault ELSE Fault
           /\ UNCHANGED <<ors, cached>>
           /\ End(TRUE)

RemoveFinalizer_Skips ==
    /\ pc = "removefin"
    /\ pc' = "validate"
    /\ UNCHANGED <<ruleVars, watchVars, apiVars, queue, delayed, req, loc, requeue,
                   faults, crashes>>

\* After a successful removal Reconcile does not return: it goes on to
\* validate and set up the ruleset it has just torn down.
RemoveFinalizer ==
    /\ pc = "removefin"
    /\ IF loc.obj.fin
       THEN Patch(FALSE)
       ELSE pc' = "validate" /\ UNCHANGED <<ors, cached, delayed, req, loc, requeue, faults>>
    /\ UNCHANGED <<ruleVars, watchVars, served, edits, queue, crashes>>

AddFinalizer_Skips ==
    /\ pc = "addfin"
    /\ pc' = "validate"
    /\ UNCHANGED <<ruleVars, watchVars, apiVars, queue, delayed, req, loc, requeue,
                   faults, crashes>>

AddFinalizer ==
    /\ pc = "addfin"
    /\ IF loc.obj.fin
       THEN pc' = "validate" /\ UNCHANGED <<ors, cached, delayed, req, loc, requeue, faults>>
       ELSE Patch(TRUE)
    /\ UNCHANGED <<ruleVars, watchVars, served, edits, queue, crashes>>

Verdict_Reason(found) ==
    LET blockers == (IF found THEN {} ELSE {"GVRNotFound"})
                    \cup (IF loc.obj.body \in Compiles THEN {} ELSE {"InvalidRule"})
    IN  IF blockers = {} THEN {"Validated"} ELSE blockers

\* The conditions Validate stages; discovery is a live call that may fail,
\* and a failure reads as a missing target.
Verdict(found) ==
    LET blockers == (IF found THEN {} ELSE {"InvalidTarget"})
                    \cup (IF loc.obj.body \in Compiles THEN {} ELSE {"InvalidRule"})
    IN  IF blockers = {} THEN {"Validated"} ELSE blockers

\* Staging drops every condition not set in this pass.  With a blocker the
\* pass ends without Setup, and without Teardown of what is loaded.
Validate ==
    /\ pc = "validate"
    /\ \E found \in {loc.obj.gvr \in served, FALSE} :
        /\ IF found = (loc.obj.gvr \in served) THEN NoFault ELSE Fault
        /\ loc' = [loc EXCEPT !.obj.conds = Verdict(found)]
        /\ IF Verdict(found) = {"Validated"}
           THEN pc' = "setup" /\ UNCHANGED requeue
           ELSE pc' = "status" /\ requeue' = TRUE
    /\ UNCHANGED <<ruleVars, watchVars, apiVars, queue, delayed, req, crashes>>

\* Setup is AddOrUpdateRule, then Register, and RemoveRule if that failed.
SetupRule ==
    /\ pc = "setup"
    /\ AddOrUpdateRule(Rule)
    /\ pc' = "register"
    /\ UNCHANGED <<watchVars, apiVars, queue, delayed, req, loc, requeue, faults, crashes>>

SetupWatch_KeepsRule ==
    /\ pc = "register"
    /\ Register(loc.obj.gvr)
    /\ pc' = "status"
    /\ UNCHANGED <<ruleVars, apiVars, queue, delayed, req, faults, crashes>>
    /\ IF RegisterFails(loc.obj.gvr)
       THEN /\ loc' = [loc EXCEPT !.obj.conds = @ \cup {"WatchFailed"},
                                  !.obj.watchActive = FALSE]
            /\ requeue' = TRUE
       ELSE /\ loc' = [loc EXCEPT !.obj.conds = @ \cup {"Ready"},
                                  !.obj.watchActive = TRUE]
            /\ UNCHANGED requeue

SetupWatch ==
    /\ pc = "register"
    /\ Register(loc.obj.gvr)
    /\ pc' = "status"
    /\ UNCHANGED <<apiVars, queue, delayed, req, faults, crashes>>
    /\ IF RegisterFails(loc.obj.gvr)
       THEN /\ RemoveRule(Rule)
            /\ loc' = [loc EXCEPT !.obj.conds = @ \cup {"WatchFailed"},
                                  !.obj.watchActive = FALSE]
            /\ requeue' = TRUE
       ELSE /\ UNCHANGED ruleVars
            /\ loc' = [loc EXCEPT !.obj.conds = @ \cup {"Ready"},
                                  !.obj.watchActive = TRUE]
            /\ UNCHANGED requeue

StatusUpdate_NoLock ==
    LET o == ors[req]
        new == [o EXCEPT !.conds = loc.obj.conds, !.watchActive = loc.obj.watchActive]
        accepted == o # None
    IN  /\ pc = "status"
        /\ \/ accepted /\ NoFault /\ Write(req, new) /\ End(FALSE)
           \/ accepted /\ Fault /\ Write(req, new) /\ End(TRUE)
           \/ /\ IF accepted THEN Fault ELSE NoFault
              /\ UNCHANGED <<ors, cached>>
              /\ End(TRUE)
        /\ UNCHANGED <<ruleVars, watchVars, served, edits, queue, crashes>>

\* Status().Update succeeds only on the stored version.
StatusUpdate ==
    LET o == ors[req]
        new == [o EXCEPT !.conds = loc.obj.conds, !.watchActive = loc.obj.watchActive]
        accepted == o # None /\ loc.cur
    IN  /\ pc = "status"
        /\ \/ accepted /\ NoFault /\ Write(req, new) /\ End(FALSE)
           \/ accepted /\ Fault /\ Write(req, new) /\ End(TRUE)
           \/ /\ IF accepted THEN Fault ELSE NoFault
              /\ UNCHANGED <<ors, cached>>
              /\ End(TRUE)
        /\ UNCHANGED <<ruleVars, watchVars, served, edits, queue, crashes>>

\* The process dies at any point and comes back: memory is lost, the new
\* cache is filled by a list, and every listed object is enqueued.
Restart ==
    /\ crashes < MaxCrashes
    /\ crashes' = crashes + 1
    /\ cache' = [g \in GVR |-> <<>>] /\ activeRulesets' = 0
    /\ watches' = {} /\ activeWatches' = 0
    /\ informer' = [g \in GVR |-> "fresh"]
    /\ pending' = [g \in GVR |-> {}]
    /\ handlers' = [g \in GVR |-> 0]
    /\ cached' = [n \in Name |-> [obj |-> ors[n], cur |-> TRUE]]
    /\ queue' = {n \in Name : ors[n] # None}
    /\ delayed' = {} /\ pc' = "idle" /\ req' = None /\ loc' = NoCopy /\ requeue' = FALSE
    /\ UNCHANGED <<ors, served, edits, faults>>

\* The goroutines of client-go.
InformerStep ==
    /\ \E g \in GVR :
        \/ \E stopCh \in {"open", "closed"} : RunInformer(g, stopCh)
        \/ InformerStopped(g)
    /\ UNCHANGED <<ruleVars, apiVars, recVars, faults, crashes>>

Reconcile ==
    \/ TeardownRule \/ TeardownPrune \/ RemoveFinalizer \/ AddFinalizer
    \/ Validate \/ SetupRule \/ SetupWatch \/ StatusUpdate

UserStep ==
    \/ \E n \in Name, g \in GVR, b \in Body : UserCreate(n, g, b) \/ UserUpdate(n, g, b)
    \/ \E n \in Name : UserDelete(n)
    \/ \E g \in GVR : ToggleServed(g)

Next ==
    \/ UserStep
    \/ \E n \in Name : SyncCache(n) \/ Requeue(n) \/ Get(n)
    \/ Reconcile
    \/ InformerStep
    \/ Restart

Spec == Init /\ [][Next]_vars

\* Client-go and controller-runtime keep delivering events, firing timers
\* and running the worker and the informers; users owe nothing.
Fairness ==
    /\ \A n \in Name : WF_vars(SyncCache(n)) /\ WF_vars(Requeue(n)) /\ SF_vars(Get(n))
    /\ WF_vars(Reconcile)
    /\ WF_vars(InformerStep)

FairSpec == Spec /\ Fairness

----------------------------------------------------------------------------
(* What the controller promises.                                           *)

TypeOK ==
    /\ RuleCacheTypeOK
    /\ WatchesTypeOK
    /\ ors \in [Name -> ORS \cup {None}]
    /\ served \subseteq GVR
    /\ cached \in [Name -> Copy]
    /\ queue \subseteq Name /\ delayed \subseteq Name
    /\ pc \in PC /\ req \in Name \cup {None} /\ loc \in Copy
    /\ requeue \in BOOLEAN
    /\ edits \in 0..MaxEdits /\ faults \in 0..MaxFaults /\ crashes \in 0..MaxCrashes

\* Nothing about n is on its way: the cache has its last version, no event,
\* timer or reconcile of n is outstanding.
Quiet(n) == cached[n].cur /\ n \notin queue /\ n \notin delayed /\ req # n

Loaded(n) == \E g \in GVR : Named(cache[g], n) # {}

\* A copy that believes it is the stored version agrees with it on the spec
\* (an auxiliary invariant: it is what makes VerdictIsCurrent inductive).
CopiesCurrent ==
    /\ \A n \in Name : cached[n].cur => cached[n].obj = ors[n]
    /\ loc.cur => /\ ors[req] # None
                  /\ loc.obj.gvr = ors[req].gvr /\ loc.obj.body = ors[req].body

\* A verdict is only ever written over the spec it was computed from, never
\* over an edit made while Reconcile was running.
VerdictIsCurrent ==
    [][\A n \in Name :
        ors[n] # None /\ ors'[n] # None /\ ors'[n].conds # ors[n].conds
        => /\ ("InvalidRule" \in ors'[n].conds) = (ors[n].body \notin Compiles)
           /\ "Ready" \in ors'[n].conds => ors[n].gvr \in watches]_vars

\* Every GVR with a loaded rule has a watch entry, and every entry a rule,
\* except in the window between loading or removing a rule and the call
\* that follows it.
WatchesMatchRules ==
    pc \notin {"prune", "register"} => watches = GVRs(cache)

\* When nothing about it is outstanding, a ruleset reported Ready is loaded
\* in its stored version and watched, after any mix of edits, conflicts,
\* failed calls and restarts.  It takes an interval after which a failed
\* pass is repeated: with REQUEUE_INTERVAL=0 it is not.
ReadyIsLoaded ==
    RequeueInterval > 0 =>
    \A n \in Name :
        Quiet(n) /\ ors[n] # None /\ ~ors[n].deleting /\ "Ready" \in ors[n].conds
        => /\ ors[n].gvr \in watches
           /\ \E i \in Named(cache[ors[n].gvr], n) :
                cache[ors[n].gvr][i].body = ors[n].body

\* The finalizer: a ruleset the controller has loaded cannot vanish from
\* the API before the controller has seen its deletion, provided a failed
\* pass is repeated.
LoadedIsFinalized ==
    RequeueInterval > 0 =>
    \A n \in Name :
        (ors[n] # None /\ Quiet(n) /\ Loaded(n)) => ors[n].fin

Judged(conds) ==
    \/ conds = {"Validated", "Ready"}
    \/ conds = {"Validated", "WatchFailed"}
    \/ conds # {} /\ conds \subseteq {"InvalidTarget", "InvalidRule"}

\* A ruleset that stays is eventually judged for good: Ready, or blocked,
\* or its watch failed, and never both, provided a failed pass is repeated.
EventuallyJudged ==
    RequeueInterval > 0 =>
    \A n \in Name :
        <>[](ors[n] # None /\ ~ors[n].deleting)
        => <>[](ors[n] # None /\ Judged(ors[n].conds))

\* A deletion goes through: the finalizer never blocks it for ever, provided
\* a failed pass is repeated.
DeletionCompletes ==
    RequeueInterval > 0 =>
    \A n \in Name : (ors[n] # None /\ ors[n].deleting) ~> (ors[n] = None \/ ~ors[n].deleting)

----------------------------------------------------------------------------
(* What documents, comments and tests say, and the code does not do.       *)

\* "should clean up when an OperationRuleSet is deleted" (e2e_test.go:624).
DeletedIsUnloaded ==
    \A n \in Name : Quiet(n) /\ ors[n] = None => ~Loaded(n)

\* "it only watches resource types that have active rulesets" (README.md:5).
WatchesOnlyTargets ==
    (\A n \in Name : Quiet(n)) => watches \subseteq {ors[n].gvr : n \in {m \in Name : ors[m] # None}}

\* "WatchActive indicates whether the dynamic watch is currently active"
\* (operationruleset_types.go:97).
WatchActiveIsTrue ==
    \A n \in Name :
        Quiet(n) /\ ors[n] # None /\ ors[n].watchActive
        => informer[ors[n].gvr] # "stopped"

\* "should reconcile an OperationRuleSet to Ready" (e2e_test.go:295).
ValidBecomesReady ==
    \A n \in Name :
        <>[](ors[n] # None /\ ~ors[n].deleting /\ ors[n].gvr \in served
             /\ ors[n].body \in Compiles)
        => <>(ors[n] # None /\ "Ready" \in ors[n].conds)
=============================================================================
