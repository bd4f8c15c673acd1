------------------------- MODULE OperationLifecycle -------------------------
(***************************************************************************)
(* What a user of the InFlightOperations relies on: the life of the stored *)
(* objects, without handlers, copies, caches, timeouts or restarts.        *)
(*                                                                         *)
(* An object is created unmarked, is detected and completed while it is    *)
(* open, and is then deleted.  Nobody edits what it is about, nothing      *)
(* brings it back after its deletion, and its record is lost only with its *)
(* subject, unless completed ones are not retained.                        *)
(***************************************************************************)
EXTENDS Naturals

CONSTANTS Id, Subject, Name, Operation, Label, None,
          DebounceThreshold, K8SAPITimeout, RetainCompletedIFOs

VARIABLES
    object,     \* Id -> the stored InFlightOperation, or None
    clock,
    gone        \* the subjects that were deleted

lvars == <<object, clock, gone>>

\* An operation just detected, not yet marked.
Born ==
    [subj : Subject, rs : Name, op : Operation, labels : SUBSET Label,
     created : {clock}, phase : {""}, completed : {0}]

\* Not completed, or less than d seconds ago.
Open(i, d) ==
    object[i] # None /\ (object[i].completed = 0 \/ clock < object[i].completed + d)

LInit ==
    /\ object = [i \in Id |-> None]
    /\ clock = 1
    /\ gone = {}

LCreate(i) ==
    /\ object[i] = None
    /\ \E r \in Born : object' = [object EXCEPT ![i] = r]
    /\ UNCHANGED <<clock, gone>>

\* A detection reopens only what was completed a short time ago: the call
\* that decides to may take K8SAPITimeout until it writes.
LDetect(i) ==
    /\ Open(i, DebounceThreshold + K8SAPITimeout)
    /\ object' = [object EXCEPT ![i] = [@ EXCEPT !.phase = "Active", !.completed = 0]]
    /\ UNCHANGED <<clock, gone>>

LComplete(i) ==
    /\ Open(i, DebounceThreshold)
    /\ object' = [object EXCEPT ![i] = [@ EXCEPT !.phase = "Completed", !.completed = clock]]
    /\ UNCHANGED <<clock, gone>>

LExpire(i) ==
    /\ ~RetainCompletedIFOs
    /\ object[i] # None
    /\ object' = [object EXCEPT ![i] = None]
    /\ UNCHANGED <<clock, gone>>

\* After the deletion of s, all or some of what it did.
LCleanUp(s) ==
    /\ s \in gone
    /\ \E S \in SUBSET {i \in Id : object[i] # None /\ object[i].subj = s} :
        object' = [i \in Id |-> IF i \in S THEN None ELSE object[i]]
    /\ UNCHANGED <<clock, gone>>

LDeleteSubject(s) ==
    /\ s \notin gone
    /\ gone' = gone \cup {s}
    /\ UNCHANGED <<object, clock>>

LTick == clock' = clock + 1 /\ UNCHANGED <<object, gone>>

LNext ==
    \/ \E i \in Id : LCreate(i) \/ LDetect(i) \/ LComplete(i) \/ LExpire(i)
    \/ \E s \in Subject : LCleanUp(s) \/ LDeleteSubject(s)
    \/ LTick

LSpec == LInit /\ [][LNext]_lvars
=============================================================================
