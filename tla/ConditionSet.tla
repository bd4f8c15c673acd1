---------------------------- MODULE ConditionSet ----------------------------
(***************************************************************************)
(* What a client of lib/condition relies on: a set of conditions with at   *)
(* most one per type, and rounds of staging, in which a condition counts   *)
(* only once it was asserted in this round (or is durable) and after which *)
(* only those are left.  No list, no flags, no timestamps.                 *)
(***************************************************************************)
CONSTANTS CondType, Info, None

VARIABLES
    held,       \* type -> the condition a client sees, or None
    stale,      \* type -> a condition of an earlier round, not seen, or None
    staging,
    asserted    \* the types asserted in the round under way

cvars == <<held, stale, staging, asserted>>

Nothing == [t \in CondType |-> None]

Known(t) == IF held[t] # None THEN held[t] ELSE stale[t]

CInit == held = Nothing /\ stale = Nothing /\ staging = FALSE /\ asserted = {}

\* A round begins with the durable conditions only.
CBegin ==
    /\ staging' = TRUE
    /\ asserted' = {}
    /\ held' = [t \in CondType |->
                  IF Known(t) # None /\ Known(t).durable THEN Known(t) ELSE None]
    /\ stale' = [t \in CondType |->
                  IF Known(t) # None /\ ~Known(t).durable THEN Known(t) ELSE None]

\* What was not asserted is forgotten.
CEnd ==
    /\ staging
    /\ staging' = FALSE
    /\ asserted' = {}
    /\ stale' = Nothing
    /\ UNCHANGED held

CSet(t, i) ==
    /\ asserted' = IF staging THEN asserted \cup {t} ELSE {}
    /\ UNCHANGED staging
    /\ held' = [held EXCEPT ![t] = i]
    /\ stale' = [stale EXCEPT ![t] = None]

\* A condition of the previous round is asserted as it was.
CStage(t) ==
    /\ Known(t) # None
    /\ asserted' = IF staging THEN asserted \cup {t} ELSE {}
    /\ UNCHANGED staging
    /\ held' = [held EXCEPT ![t] = Known(t)]
    /\ stale' = [stale EXCEPT ![t] = None]

\* Outside a round a deletion is final; within, the condition is as one of
\* an earlier round.
CDelete(t) ==
    /\ asserted' = asserted \ {t}
    /\ UNCHANGED staging
    /\ held' = [held EXCEPT ![t] = None]
    /\ stale' = [stale EXCEPT ![t] = IF staging THEN Known(t) ELSE None]

CNext ==
    \/ CBegin
    \/ CEnd
    \/ \E t \in CondType :
        \/ \E i \in Info : CSet(t, i)
        \/ CStage(t)
        \/ CDelete(t)

CSpec == CInit /\ [][CNext]_cvars
=============================================================================
