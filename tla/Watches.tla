------------------------------ MODULE Watches ------------------------------
(***************************************************************************)
(* The dynamic watches of the operator: Watcher.Register, Prune and        *)
(* Shutdown (internal/watch/watcher.go) over the map of active watches     *)
(* (internal/watch/watch_cache.go).  The lock of the WatchCache is held    *)
(* across each of the three, so each is one action.                        *)
(*                                                                         *)
(* A Watch owns a stop channel and starts the informer of its GVR with     *)
(* `go informer.Run(stopCh)`: the goroutine runs later, maybe after the    *)
(* watch was stopped again.  The informers belong to client-go: the        *)
(* factory makes ONE informer per GVR and hands it out for ever, an        *)
(* informer runs at most once, and it accepts handlers until it has        *)
(* stopped, also while it is stopping.                                     *)
(***************************************************************************)
EXTENDS RuleCache

CONSTANT
    MaxHandlers    \* bound on the handlers one informer is given

VARIABLES
    watches,         \* the keys of WatchCache.watches
    activeWatches,   \* the gauge metrics.ActiveWatches
    informer,        \* GVR -> life cycle of its one informer
    pending,         \* GVR -> stop channels of Run goroutines not yet run
    handlers         \* GVR -> event handlers that receive its events

watchVars == <<watches, activeWatches, informer, pending, handlers>>

InformerState == {"fresh", "running", "stopping", "stopped"}

----------------------------------------------------------------------------
WatchesInit ==
    /\ watches = {}
    /\ activeWatches = 0
    /\ informer = [g \in GVR |-> "fresh"]
    /\ pending = [g \in GVR |-> {}]
    /\ handlers = [g \in GVR |-> 0]

----------------------------------------------------------------------------
(* client-go's shared informer.                                            *)

\* AddEventHandler is refused only by a stopped informer.
AcceptsHandler(g) == informer[g] # "stopped"

\* The goroutine started by Watch.Start gets to informer.Run(stopCh).  A
\* second Run only warns; a first Run on a closed channel stops at once.
RunInformer(g, stopCh) ==
    /\ stopCh \in pending[g]
    /\ pending' = [pending EXCEPT ![g] = @ \ {stopCh}]
    /\ informer' = [informer EXCEPT ![g] =
            IF @ # "fresh" THEN @
            ELSE IF stopCh = "open" THEN "running" ELSE "stopping"]
    /\ UNCHANGED <<watches, activeWatches, handlers>>

\* The informer's controller returns: no new handler is accepted, and the
\* processor drops the ones it has.
InformerStopped(g) ==
    /\ informer[g] = "stopping"
    /\ informer' = [informer EXCEPT ![g] = "stopped"]
    /\ handlers' = [handlers EXCEPT ![g] = 0]
    /\ UNCHANGED <<watches, activeWatches, pending>>

----------------------------------------------------------------------------
(* Watch and WatchCache.                                                   *)

Stop_NoClose(S) ==
    /\ watches' = watches \ S
    /\ activeWatches' = activeWatches - Cardinality(S)
    /\ UNCHANGED <<informer, pending>>

Stop_KeepsGauge(S) ==
    /\ watches' = watches \ S
    /\ activeWatches' = activeWatches
    /\ informer' = [g \in GVR |->
            IF g \in S /\ informer[g] = "running" THEN "stopping" ELSE informer[g]]
    /\ pending' = [g \in GVR |->
            IF g \in S /\ "open" \in pending[g] THEN {"closed"} ELSE pending[g]]

\* close(stopCh) of the watches in S, deletion of their entries.
Stop(S) ==
    /\ watches' = watches \ S
    /\ activeWatches' = activeWatches - Cardinality(S)
    /\ informer' = [g \in GVR |->
            IF g \in S /\ informer[g] = "running" THEN "stopping" ELSE informer[g]]
    /\ pending' = [g \in GVR |->
            IF g \in S /\ "open" \in pending[g] THEN {"closed"} ELSE pending[g]]

Start_Kept(g) ==
    /\ watches' = watches \cup {g}
    /\ activeWatches' = activeWatches + 1
    /\ pending' = [pending EXCEPT ![g] = IF @ = {} THEN {"open"} ELSE @]

Start(g) ==
    /\ watches' = watches \cup {g}
    /\ activeWatches' = activeWatches + 1
    /\ pending' = [pending EXCEPT ![g] = @ \cup {"open"}]

Exists(g) == g \in watches

----------------------------------------------------------------------------
(* Watcher.                                                                *)

RegisterFails(g) == ~Exists(g) /\ ~AcceptsHandler(g)

Register_NoHandlers(g) ==
    IF Exists(g) \/ ~AcceptsHandler(g)
    THEN UNCHANGED watchVars
    ELSE Start(g) /\ UNCHANGED <<informer, handlers>>

Register(g) ==
    IF Exists(g) \/ ~AcceptsHandler(g)
    THEN UNCHANGED watchVars
    ELSE /\ handlers' = [handlers EXCEPT ![g] = @ + 1]
         /\ Start(g)
         /\ UNCHANGED informer

\* Stops the watches of the GVRs that have no rule left.
Prune ==
    /\ Stop(watches \ GVRs(cache))
    /\ UNCHANGED handlers

Shutdown ==
    /\ Stop(watches)
    /\ UNCHANGED handlers

----------------------------------------------------------------------------
(* The watcher under every order of calls.                                 *)

WatchesNext ==
    \/ RuleCacheNext /\ UNCHANGED watchVars
    \/ /\ \/ \E g \in GVR : handlers[g] < MaxHandlers /\ Register(g)
          \/ Prune
          \/ Shutdown
          \/ \E g \in GVR, stopCh \in {"open", "closed"} : RunInformer(g, stopCh)
          \/ \E g \in GVR : InformerStopped(g)
       /\ UNCHANGED ruleVars

wVars == <<ruleVars, watchVars>>

WatchesSpec == RuleCacheInit /\ WatchesInit /\ [][WatchesNext]_wVars

----------------------------------------------------------------------------
WatchesTypeOK ==
    /\ watches \in SUBSET GVR
    /\ activeWatches \in Int
    /\ informer \in [GVR -> InformerState]
    /\ pending \in [GVR -> SUBSET {"open", "closed"}]
    /\ handlers \in [GVR -> Nat]

\* The exported gauge equals the number of entries of the watch map.
WatchGaugeExact == activeWatches = Cardinality(watches)

\* No informer outlives its watch: one that runs, or whose Run goroutine
\* will find an open channel, belongs to an entry that can still stop it,
\* in every order of registrations, prunes and goroutine starts.
NoLeakedInformer ==
    \A g \in GVR : informer[g] = "running" \/ "open" \in pending[g] => g \in watches

\* A registered watch comes to deliver events: as long as its informer was
\* never run, a goroutine is under way that will run it with a channel that
\* is open, also when the GVR was pruned and registered again before the
\* first goroutine got to run.  (An informer that was run and stopped under
\* an earlier watch stays dead.)
WatchWillRun ==
    \A g \in watches : informer[g] = "fresh" => "open" \in pending[g]

\* An informer that delivers events has somebody to deliver them to.
RunningHasHandler == \A g \in GVR : informer[g] = "running" => handlers[g] > 0
=============================================================================
