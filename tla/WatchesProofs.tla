--------------------------- MODULE WatchesProofs ---------------------------
(***************************************************************************)
(* The watch map, its gauge and the informers stay consistent, for every   *)
(* set of GVRs and every order of registrations, prunes, shutdowns and     *)
(* goroutine starts.                                                       *)
(***************************************************************************)
EXTENDS Watches, FiniteSetTheorems, TLAPS

\* RunningHasHandler is not inductive: an informer is started by a
\* goroutine, so the handler must be there from the moment it is spawned.
StartedHasHandler ==
    \A g \in GVR :
        informer[g] = "running" \/ (informer[g] = "fresh" /\ pending[g] # {})
        => handlers[g] > 0

WatchesInv ==
    /\ WatchesTypeOK
    /\ IsFiniteSet(watches)
    /\ WatchGaugeExact
    /\ NoLeakedInformer
    /\ StartedHasHandler
    /\ WatchWillRun

----------------------------------------------------------------------------
\* Closing the channels of a set of watches (watch_cache.go:54-85).
LEMMA StopStep ==
    ASSUME WatchesInv, NEW S \in SUBSET watches, Stop(S), UNCHANGED handlers
    PROVE  WatchesInv'
<1> USE DEF WatchesInv
<1>1. IsFiniteSet(S) /\ Cardinality(S) \in Nat
  BY FS_Subset, FS_CardinalityType
<1>2. WatchesTypeOK'
  BY <1>1 DEF WatchesTypeOK, Stop, InformerState
<1>3. IsFiniteSet(watches') /\ WatchGaugeExact'
  <2>1. /\ IsFiniteSet(watches \ S)
        /\ Cardinality(watches \ S) = Cardinality(watches) - Cardinality(watches \cap S)
    BY FS_Difference
  <2>2. watches \cap S = S
    OBVIOUS
  <2> QED
    BY <2>1, <2>2 DEF Stop, WatchGaugeExact
<1>4. NoLeakedInformer'
  BY DEF Stop, NoLeakedInformer, WatchesTypeOK
<1>5. StartedHasHandler'
  BY DEF Stop, StartedHasHandler, WatchesTypeOK
<1>6. WatchWillRun'
  BY DEF Stop, WatchWillRun, WatchesTypeOK
<1> QED
  BY <1>2, <1>3, <1>4, <1>5, <1>6

\* Registering a GVR, again or for the first time (watcher.go:73-94).
LEMMA RegisterStep ==
    ASSUME WatchesInv, NEW g \in GVR, Register(g)
    PROVE  WatchesInv'
<1> USE DEF WatchesInv
<1>1. CASE Exists(g) \/ ~AcceptsHandler(g)
  BY <1>1 DEF Register, watchVars, WatchesTypeOK, WatchGaugeExact, NoLeakedInformer,
              StartedHasHandler, WatchWillRun
<1>2. CASE ~(Exists(g) \/ ~AcceptsHandler(g))
  <2>1. /\ watches' = watches \cup {g} /\ g \notin watches
        /\ activeWatches' = activeWatches + 1
        /\ pending' = [pending EXCEPT ![g] = @ \cup {"open"}]
        /\ handlers' = [handlers EXCEPT ![g] = @ + 1]
        /\ informer' = informer
    BY <1>2 DEF Register, Start, Exists
  <2>2. WatchesTypeOK'
    BY <2>1 DEF WatchesTypeOK
  <2>3. IsFiniteSet(watches') /\ WatchGaugeExact'
    BY <2>1, FS_AddElement DEF WatchGaugeExact
  <2>4. NoLeakedInformer'
    BY <2>1 DEF NoLeakedInformer, WatchesTypeOK
  <2>5. StartedHasHandler'
    BY <2>1 DEF StartedHasHandler, WatchesTypeOK
  <2>6. WatchWillRun'
    BY <2>1 DEF WatchWillRun, WatchesTypeOK
  <2> QED
    BY <2>2, <2>3, <2>4, <2>5, <2>6
<1> QED
  BY <1>1, <1>2

\* The steps of client-go: a Run goroutine starts, a stopping informer
\* stops.
LEMMA ClientGoStep ==
    ASSUME WatchesInv, NEW g \in GVR,
           (\E stopCh \in {"open", "closed"} : RunInformer(g, stopCh)) \/ InformerStopped(g)
    PROVE  WatchesInv'
<1> USE DEF WatchesInv
<1>1. watches' = watches /\ activeWatches' = activeWatches
  BY DEF RunInformer, InformerStopped
<1>2. IsFiniteSet(watches') /\ WatchGaugeExact'
  BY <1>1 DEF WatchGaugeExact
<1>3. CASE \E stopCh \in {"open", "closed"} : RunInformer(g, stopCh)
  <2>1. PICK stopCh \in {"open", "closed"} : RunInformer(g, stopCh)
    BY <1>3
  <2>2. WatchesTypeOK'
    BY <2>1 DEF WatchesTypeOK, RunInformer, InformerState
  <2>3. NoLeakedInformer'
    BY <2>1 DEF NoLeakedInformer, RunInformer, WatchesTypeOK
  <2>4. StartedHasHandler'
    BY <2>1 DEF StartedHasHandler, RunInformer, WatchesTypeOK
  <2>5. WatchWillRun'
    BY <2>1 DEF WatchWillRun, RunInformer, WatchesTypeOK
  <2> QED
    BY <1>2, <2>2, <2>3, <2>4, <2>5
<1>4. CASE InformerStopped(g)
  <2>1. WatchesTypeOK'
    BY <1>4 DEF WatchesTypeOK, InformerStopped, InformerState
  <2>2. NoLeakedInformer'
    BY <1>4 DEF NoLeakedInformer, InformerStopped, WatchesTypeOK
  <2>3. StartedHasHandler'
    BY <1>4 DEF StartedHasHandler, InformerStopped, WatchesTypeOK
  <2>4. WatchWillRun'
    BY <1>4 DEF WatchWillRun, InformerStopped, WatchesTypeOK
  <2> QED
    BY <1>2, <2>1, <2>2, <2>3, <2>4
<1> QED
  BY <1>3, <1>4

----------------------------------------------------------------------------
LEMMA WatchesInvHolds == WatchesSpec => []WatchesInv
<1>1. RuleCacheInit /\ WatchesInit => WatchesInv
  BY FS_EmptySet DEF WatchesInit, WatchesInv, WatchesTypeOK, WatchGaugeExact,
                     NoLeakedInformer, StartedHasHandler, WatchWillRun, InformerState
<1>2. WatchesInv /\ [WatchesNext]_wVars => WatchesInv'
  <2> SUFFICES ASSUME WatchesInv, [WatchesNext]_wVars PROVE WatchesInv'
    OBVIOUS
  <2>1. CASE \E g \in GVR : Register(g)
    BY <2>1, RegisterStep
  <2>2. CASE Prune
    BY <2>2, StopStep DEF Prune
  <2>3. CASE Shutdown
    BY <2>3, StopStep DEF Shutdown
  <2>4. CASE \E g \in GVR, stopCh \in {"open", "closed"} : RunInformer(g, stopCh)
    BY <2>4, ClientGoStep
  <2>5. CASE \E g \in GVR : InformerStopped(g)
    BY <2>5, ClientGoStep
  <2>6. CASE UNCHANGED watchVars
    BY <2>6 DEF watchVars, WatchesInv, WatchesTypeOK, WatchGaugeExact,
                NoLeakedInformer, StartedHasHandler, WatchWillRun
  <2> QED
    BY <2>1, <2>2, <2>3, <2>4, <2>5, <2>6 DEF WatchesNext, wVars
<1> QED
  BY <1>1, <1>2, PTL DEF WatchesSpec

\* No informer outlives the map entry that can stop it, in any order of
\* Register, Prune, Shutdown and goroutine starts.
THEOREM InformersNeverLeak == WatchesSpec => []NoLeakedInformer
  BY WatchesInvHolds, PTL DEF WatchesInv

\* The ActiveWatches gauge never drifts from the watch map.
THEOREM WatchGaugeCorrect == WatchesSpec => []WatchGaugeExact
  BY WatchesInvHolds, PTL DEF WatchesInv

\* A registered watch whose informer was never run has a goroutine under way
\* that will run it with an open channel, also after a prune and a second
\* registration before the first goroutine got to run.
THEOREM RegisteredWillRun == WatchesSpec => []WatchWillRun
  BY WatchesInvHolds, PTL DEF WatchesInv

\* An informer that runs has a handler to deliver its events to.
THEOREM RunningIsHandled == WatchesSpec => []RunningHasHandler
<1>1. WatchesInv => RunningHasHandler
  BY DEF WatchesInv, RunningHasHandler, StartedHasHandler
<1> QED
  BY <1>1, WatchesInvHolds, PTL
=============================================================================
