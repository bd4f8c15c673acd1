----------------------------- MODULE Conditions -----------------------------
(***************************************************************************)
(* The condition collection of a resource's status                         *)
(* (lib/condition/condition.go): a list of conditions with staged flags    *)
(* and transition times, and the Explain report of what changed since the  *)
(* resource was read.  The fields staging, staged and explain are not      *)
(* serialized: they live from one read of the resource to the next.        *)
(*                                                                         *)
(* A nil list behaves like an empty one.  The variadic operations treat    *)
(* their arguments independently, so one per call is general.              *)
(* Of Explain, the keys of the three maps are kept.                        *)
(***************************************************************************)
EXTENDS Naturals, Sequences, SequencesExt

CONSTANTS
    CondType,     \* Condition.Type
    Info,         \* what Equal compares and Update copies besides the type: Status,
                  \* Category, Durable, and the rest
    None,
    MaxTime       \* bound on the clock

VARIABLES
    list,        \* List
    staging,
    explain,     \* [added, updated, deleted |-> sets of types]
    now,
    base,        \* type -> Info or None, as it was read (history variable)
    asserted     \* types asserted in the round under way (history variable)

vars == <<list, staging, explain, now, base, asserted>>

Condition == [type : CondType, info : Info, lastTransitionTime : 0..MaxTime,
              staged : BOOLEAN]

ASSUME ConditionsAssumption ==
    /\ \A i \in Info : i.status \in {"True", "False"} /\ i.durable \in BOOLEAN
    /\ None \notin Info /\ None \notin Condition
    /\ MaxTime \in Nat

Empty == [added |-> {}, updated |-> {}, deleted |-> {}]

----------------------------------------------------------------------------
(* Explain.                                                                *)

added(e, t) ==
    [added |-> e.added \cup {t}, updated |-> e.updated \ {t}, deleted |-> e.deleted \ {t}]

updated(e, t) ==
    IF t \in e.added THEN e
    ELSE [e EXCEPT !.updated = @ \cup {t}, !.deleted = @ \ {t}]

deleted(e, S) ==
    [added |-> e.added \ S, updated |-> e.updated \ S, deleted |-> e.deleted \cup S]

----------------------------------------------------------------------------
(* Queries.                                                                *)

Types(l) == {l[i].type : i \in 1..Len(l)}

\* The loop that copies the conditions at the indices in I.
Kept(l, I) ==
    LET kept[n \in 0..Len(l)] ==
            IF n = 0 THEN <<>>
            ELSE IF n \in I THEN Append(kept[n - 1], l[n]) ELSE kept[n - 1]
    IN  kept[Len(l)]

\* The index of the first condition of a type, 0 if there is none; staging
\* is ignored.
find(l, t) == SelectInSeq(l, LAMBDA c : c.type = t)

Entry(t) ==
    LET i == find(list, t)
    IN  IF i = 0 THEN None ELSE list[i].info

\* nil while the condition is not staged in the round under way.
FindCondition(t) ==
    LET i == find(list, t)
    IN  IF i = 0 \/ (staging /\ ~list[i].staged) THEN None ELSE list[i]

HasCondition(S) ==
    /\ S # {}
    /\ \A t \in S : FindCondition(t) # None /\ FindCondition(t).info.status = "True"

HasConditionCategory_AnyRound(S) ==
    \E i \in 1..Len(list) :
        list[i].info.status = "True" /\ list[i].info.category \in S

HasConditionCategory(S) ==
    \E i \in 1..Len(list) :
        /\ list[i].info.status = "True"
        /\ list[i].info.category \in S
        /\ staging => list[i].staged

HasBlockerCondition == HasConditionCategory({"Critical", "Error"})

----------------------------------------------------------------------------
(* Operations.                                                             *)

Init ==
    /\ list = <<>> /\ staging = FALSE /\ explain = Empty
    /\ now = 0 /\ base = [t \in CondType |-> None] /\ asserted = {}

Tick == now < MaxTime /\ now' = now + 1 /\ UNCHANGED <<list, staging, explain, base, asserted>>

\* The status is written and read again, outside a round.
Read ==
    /\ ~staging
    /\ list' = [i \in 1..Len(list) |-> [list[i] EXCEPT !.staged = FALSE]]
    /\ explain' = Empty
    /\ base' = [t \in CondType |-> Entry(t)]
    /\ UNCHANGED <<staging, now, asserted>>

BeginStagingConditions ==
    /\ staging' = TRUE
    /\ asserted' = {}
    /\ list' = [i \in 1..Len(list) |-> [list[i] EXCEPT !.staged = list[i].info.durable]]
    /\ UNCHANGED <<explain, now, base>>

EndStagingConditions_Silent ==
    /\ staging
    /\ staging' = FALSE
    /\ asserted' = {}
    /\ list' = Kept(list, {i \in 1..Len(list) : list[i].staged})
    /\ UNCHANGED <<explain, now, base>>

\* Called to end a round, never without one.
EndStagingConditions ==
    /\ staging
    /\ staging' = FALSE
    /\ asserted' = {}
    /\ list' = Kept(list, {i \in 1..Len(list) : list[i].staged})
    /\ explain' = deleted(explain, {list[i].type : i \in {j \in 1..Len(list) : ~list[j].staged}})
    /\ UNCHANGED <<now, base>>

Update_EqualNotStaged(c, info) ==
    IF c.info = info THEN c
    ELSE [c EXCEPT !.staged = TRUE, !.info = info, !.lastTransitionTime = now]

Update_AlwaysStamps(c, info) ==
    [c EXCEPT !.staged = TRUE, !.info = info, !.lastTransitionTime = now]

\* An equal condition is staged and otherwise left alone.
Update(c, info) ==
    IF c.info = info THEN [c EXCEPT !.staged = TRUE]
    ELSE [c EXCEPT !.staged = TRUE, !.info = info, !.lastTransitionTime = now]

SetCondition(t, info) ==
    LET i == find(list, t)
    IN  /\ IF i = 0
           THEN /\ list' = Append(list, [type |-> t, info |-> info,
                                         lastTransitionTime |-> now, staged |-> TRUE])
                /\ explain' = added(explain, t)
           ELSE /\ list' = [list EXCEPT ![i] = Update(@, info)]
                /\ explain' = IF list[i].info = info THEN explain ELSE updated(explain, t)
        /\ asserted' = IF staging THEN asserted \cup {t} ELSE {}
        /\ UNCHANGED <<staging, now, base>>

StageCondition(t) ==
    /\ list' = [i \in 1..Len(list) |->
                  IF list[i].type = t THEN [list[i] EXCEPT !.staged = TRUE] ELSE list[i]]
    /\ asserted' = IF staging THEN asserted \cup (Types(list) \cap {t}) ELSE {}
    /\ UNCHANGED <<staging, explain, now, base>>

\* Within a round a deleted condition stays in the list, not staged.
DeleteCondition(t) ==
    /\ list' = IF staging
               THEN [i \in 1..Len(list) |->
                       IF list[i].type = t THEN [list[i] EXCEPT !.staged = FALSE]
                       ELSE list[i]]
               ELSE Kept(list, {i \in 1..Len(list) : list[i].type # t})
    /\ explain' = deleted(explain, Types(list) \cap {t})
    /\ asserted' = asserted \ {t}
    /\ UNCHANGED <<staging, now, base>>

Next ==
    \/ Tick
    \/ Read
    \/ BeginStagingConditions
    \/ EndStagingConditions
    \/ \E t \in CondType :
        \/ \E info \in Info : SetCondition(t, info)
        \/ StageCondition(t)
        \/ DeleteCondition(t)

Spec == Init /\ [][Next]_vars

----------------------------------------------------------------------------
(* What the collection promises.                                           *)

\* A client sees a set of conditions and rounds of staging, whatever order
\* it calls the operations in: flags and list order never show through, a
\* type never has two conditions, and a condition of an earlier round is
\* never seen, nor kept, unless it was asserted again or is durable.
Seen(t) == FindCondition(t) # None

Abstract == INSTANCE ConditionSet WITH
    held <- [t \in CondType |-> IF Seen(t) THEN Entry(t) ELSE None],
    stale <- [t \in CondType |-> IF Seen(t) THEN None ELSE Entry(t)]

ImplementsConditionSet == Abstract!CSpec

\* The reconciler decides within a round, by HasBlockerCondition, whether to
\* set a ruleset up.  It sees a blocker exactly when FindCondition does:
\* never one left over from an earlier pass.
BlockersAreSeen ==
    HasBlockerCondition <=>
        \E t \in CondType :
            /\ HasCondition({t})
            /\ FindCondition(t).info.category \in {"Critical", "Error"}

\* Asserting a condition again as it was, in a later round too, keeps its
\* transition time: the status a reconciler writes settles.
TimeOnlyWithChange ==
    [][\A t \in CondType :
        LET i == find(list, t)
            j == find(list', t)
        IN  i # 0 /\ j # 0 /\ list[i].info = list'[j].info
            => list'[j].lastTransitionTime = list[i].lastTransitionTime]_vars

Reported == explain.added \cup explain.updated \cup explain.deleted

\* Explain leaves out nothing and counts nothing twice: a type that came,
\* went or changed since the resource was read is in the report, so an empty
\* report means no change, and it is in one of the three maps, so Len is the
\* number of types reported.
ChangesAreReported ==
    /\ \A t \in CondType \ Reported : Entry(t) = base[t]
    /\ explain.added \cap (explain.updated \cup explain.deleted) = {}
    /\ explain.updated \cap explain.deleted = {}

----------------------------------------------------------------------------
(* What comments say, and the code does not do.                            *)

\* "conditions deleted" (condition.go:338): after a round, those are gone.
DeletedAreGone == ~staging => explain.deleted \cap Types(list) = {}

\* "When the last status transition occurred" (condition.go:48).
TimeIsOfStatus ==
    [][\A t \in CondType :
        LET i == find(list, t)
            j == find(list', t)
        IN  i # 0 /\ j # 0 /\ list[i].info.status = list'[j].info.status
            => list'[j].lastTransitionTime = list[i].lastTransitionTime]_vars
=============================================================================
