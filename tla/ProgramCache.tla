---------------------------- MODULE ProgramCache ----------------------------
(***************************************************************************)
(* The evaluator of CEL expressions (internal/evaluator/evaluator.go) and  *)
(* its cache of compiled programs (internal/evaluator/program_cache.go).   *)
(*                                                                         *)
(* The callers are the goroutines that share the one evaluator: the        *)
(* informers' handlers, which call EvaluateRuleSet, and the controller,    *)
(* which calls Compile when it validates a ruleset.  GetOrCompile is taken *)
(* apart at every point where another caller may run.  Evaluating a        *)
(* program touches nothing shared, so it is part of the step that ends     *)
(* GetOrCompile.                                                           *)
(***************************************************************************)
EXTENDS Naturals, FiniteSets, Sequences

CONSTANTS
    Handler,       \* the goroutines of the informers
    Controller,    \* the goroutine of the ruleset controller
    Expression,
    Compilable,    \* the expressions that parse, type-check and plan
    Validated,     \* the expressions the controller validates
    Subject,
    Value,         \* Subject -> Expression -> what its program evaluates to
    RuleSet,       \* records of rules and label expressions
    Nobody

\* A boolean value, an error of the evaluation, or any other string.
IsBool(v) == v \in {"true", "false"}
IsString(v) == ~IsBool(v) /\ v # "error"

CompileJob == [kind : {"compile"}, expression : Validated]
EvaluateJob == [kind : {"evaluate"}, subject : Subject, ruleset : RuleSet]

Caller == Handler \cup {Controller}
Jobs(c) == IF c = Controller THEN CompileJob ELSE EvaluateJob

ASSUME CacheAssumption ==
    /\ Nobody \notin Caller
    /\ Compilable \subseteq Expression /\ Validated \subseteq Expression
    /\ \A r \in RuleSet :
        /\ r.rules \in Seq([operation : STRING, expression : Expression])
        /\ r.labels \in Seq([key : STRING, expression : Expression])

VARIABLES
    programs,    \* the keys of ProgramCache.programs
    gauge,       \* metrics.ProgramCacheSize
    readers,     \* callers that hold the read lock
    writer,      \* the caller that holds, or has announced, the write lock
    pc,          \* Caller -> where it is
    job,         \* Caller -> what it was called for
    pos,         \* Caller -> which of the job's expressions it is at
    result,      \* Caller -> the result so far
    compiled     \* Expression -> programs made of it, for the properties

lockVars == <<readers, writer>>
cacheVars == <<programs, gauge, compiled>>
callVars == <<job, pos, result>>
vars == <<cacheVars, lockVars, pc, callVars>>

NoResult == [operations |-> <<>>, labels |-> [k \in {} |-> ""], err |-> FALSE]

Init ==
    /\ programs = {}
    /\ gauge = 0
    /\ readers = {}
    /\ writer = Nobody
    /\ pc = [c \in Caller |-> "idle"]
    /\ job = [c \in Caller |-> Nobody]
    /\ pos = [c \in Caller |-> 1]
    /\ result = [c \in Caller |-> NoResult]
    /\ compiled = [e \in Expression |-> 0]

Goto(c, label) == pc' = [pc EXCEPT ![c] = label]

----------------------------------------------------------------------------
(* The evaluator: Compile, Evaluate, EvaluateLabelExpression and the loop  *)
(* of EvaluateRuleSet over the rules and then the label expressions.       *)

Exprs(j) ==
    IF j.kind = "compile" THEN <<j.expression>>
    ELSE [i \in 1 .. Len(j.ruleset.rules) + Len(j.ruleset.labels) |->
            IF i <= Len(j.ruleset.rules) THEN j.ruleset.rules[i].expression
            ELSE j.ruleset.labels[i - Len(j.ruleset.rules)].expression]

Expr(c) == Exprs(job[c])[pos[c]]

\* Rule i of the job matched or not; an error and a value that is no
\* boolean end the evaluation.
AfterRule(j, i, r, ok) ==
    LET rule == j.ruleset.rules[i]
        v == Value[j.subject][rule.expression]
    IN  IF ~ok \/ ~IsBool(v) THEN [r EXCEPT !.err = TRUE]
        ELSE IF v = "true" THEN [r EXCEPT !.operations = Append(@, rule.operation)]
        ELSE r

\* A label expression that fails is left out.
AfterLabel(j, i, r, ok) ==
    LET l == j.ruleset.labels[i - Len(j.ruleset.rules)]
        v == Value[j.subject][l.expression]
    IN  IF ~ok \/ ~IsString(v) THEN r
        ELSE [r EXCEPT !.labels = [k \in DOMAIN @ \cup {l.key} |->
                                        IF k = l.key THEN v ELSE @[k]]]

AfterExpression(j, i, r, ok) ==
    CASE j.kind = "compile" -> [r EXCEPT !.err = ~ok]
      [] j.kind = "evaluate" /\ i <= Len(j.ruleset.rules) -> AfterRule(j, i, r, ok)
      [] OTHER -> AfterLabel(j, i, r, ok)

\* GetOrCompile returns, with a program or with an error, and the caller
\* goes on to its next expression or is done.
Outcome(c, ok) == AfterExpression(job[c], pos[c], result[c], ok)

Last(c, ok) == Outcome(c, ok).err \/ pos[c] >= Len(Exprs(job[c]))

Returns(c, ok) ==
    /\ result' = [result EXCEPT ![c] = Outcome(c, ok)]
    /\ pos' = [pos EXCEPT ![c] = IF Last(c, ok) THEN @ ELSE @ + 1]
    /\ UNCHANGED job

Onward(c, ok) == IF Last(c, ok) THEN "done" ELSE "rlock"

Call(c, j) ==
    /\ pc[c] = "idle"
    /\ job' = [job EXCEPT ![c] = j]
    /\ Goto(c, IF Exprs(j) = <<>> THEN "done" ELSE "rlock")
    /\ UNCHANGED <<cacheVars, lockVars, pos, result>>

Return(c) ==
    /\ pc[c] = "done"
    /\ job' = [job EXCEPT ![c] = Nobody]
    /\ pos' = [pos EXCEPT ![c] = 1]
    /\ result' = [result EXCEPT ![c] = NoResult]
    /\ Goto(c, "idle")
    /\ UNCHANGED <<cacheVars, lockVars>>

----------------------------------------------------------------------------
(* sync.RWMutex.  Lock first announces the writer, which stops new         *)
(* readers, and waits for the readers inside to leave; Unlock lets the     *)
(* readers that wait in before the next writer.                            *)

RLock(c) ==
    /\ pc[c] = "rlock"
    /\ readers' = IF writer = Nobody THEN readers \cup {c} ELSE readers
    /\ Goto(c, IF writer = Nobody THEN "read" ELSE "rwait")
    /\ UNCHANGED <<cacheVars, writer, callVars>>

RUnlock(c) == readers' = readers \ {c} /\ UNCHANGED writer

AnnounceLock(c) ==
    /\ pc[c] = "lock"
    /\ writer = Nobody
    /\ writer' = c
    /\ Goto(c, "drain")
    /\ UNCHANGED <<cacheVars, readers, callVars>>

Waiting == {d \in Caller : pc[d] = "rwait"}

Unlock(c, label) ==
    /\ writer' = Nobody
    /\ readers' = readers \cup Waiting
    /\ pc' = [d \in Caller |-> IF d = c THEN label
                               ELSE IF d \in Waiting THEN "read" ELSE pc[d]]

----------------------------------------------------------------------------
(* GetOrCompile.                                                           *)

\* The first look, under the read lock.
Hit(c) ==
    /\ pc[c] = "read"
    /\ Expr(c) \in programs
    /\ RUnlock(c)
    /\ Returns(c, TRUE)
    /\ Goto(c, Onward(c, TRUE))
    /\ UNCHANGED cacheVars

Miss_NoLock(c) ==
    /\ pc[c] = "read"
    /\ Expr(c) \notin programs
    /\ RUnlock(c)
    /\ Goto(c, "compile")
    /\ UNCHANGED <<cacheVars, callVars>>

Miss(c) ==
    /\ pc[c] = "read"
    /\ Expr(c) \notin programs
    /\ RUnlock(c)
    /\ Goto(c, "lock")
    /\ UNCHANGED <<cacheVars, callVars>>

AfterMiss_NoSecondLook(c) == Goto(c, "compile")

\* The second look, once the write lock is held.
AfterMiss(c) == Goto(c, IF Expr(c) \in programs THEN "unlock" ELSE "compile")

\* Lock returns once the readers are out.
Lock(c) ==
    /\ pc[c] = "drain"
    /\ readers = {}
    /\ AfterMiss(c)
    /\ UNCHANGED <<cacheVars, lockVars, callVars>>

FailCompile_NilCached(c) ==
    /\ programs' = programs \cup {Expr(c)}
    /\ UNCHANGED <<gauge, compiled>>
    /\ Goto(c, "fail")

\* An error of env.Compile or env.Program caches nothing.
FailCompile(c) ==
    /\ Goto(c, "fail")
    /\ UNCHANGED cacheVars

Compile(c) ==
    /\ pc[c] = "compile"
    /\ IF Expr(c) \in Compilable
       THEN /\ compiled' = [compiled EXCEPT ![Expr(c)] = @ + 1]
            /\ Goto(c, "store")
            /\ UNCHANGED <<programs, gauge>>
       ELSE FailCompile(c)
    /\ UNCHANGED <<lockVars, callVars>>

Store(c) ==
    /\ pc[c] = "store"
    /\ programs' = programs \cup {Expr(c)}
    /\ Goto(c, "gauge")
    /\ UNCHANGED <<gauge, compiled, lockVars, callVars>>

SetGauge_Inc(c) == gauge' = gauge + Cardinality(programs)

SetGauge(c) == gauge' = Cardinality(programs)

Measure(c) ==
    /\ pc[c] = "gauge"
    /\ SetGauge(c)
    /\ Goto(c, "unlock")
    /\ UNCHANGED <<programs, compiled, lockVars, callVars>>

Release_OnSuccess(c) ==
    \/ /\ pc[c] = "unlock"
       /\ Returns(c, TRUE)
       /\ Unlock(c, Onward(c, TRUE))
       /\ UNCHANGED cacheVars
    \/ /\ pc[c] = "fail"
       /\ Returns(c, FALSE)
       /\ Goto(c, Onward(c, FALSE))
       /\ UNCHANGED <<cacheVars, lockVars>>

\* The deferred Unlock, on the way out with a program and with an error.
Release(c) ==
    /\ pc[c] \in {"unlock", "fail"}
    /\ LET ok == pc[c] = "unlock" IN
        Returns(c, ok) /\ Unlock(c, Onward(c, ok))
    /\ UNCHANGED cacheVars

----------------------------------------------------------------------------
Step(c) ==
    \/ Return(c)
    \/ RLock(c) \/ Hit(c) \/ Miss(c)
    \/ AnnounceLock(c) \/ Lock(c)
    \/ Compile(c) \/ Store(c) \/ Measure(c)
    \/ Release(c)

Next == \E c \in Caller : Step(c) \/ \E j \in Jobs(c) : Call(c, j)

Spec == Init /\ [][Next]_vars

\* Goroutines are scheduled, and RWMutex starves neither side: a writer
\* that keeps asking gets its turn.
FairSpec ==
    Spec /\ \A c \in Caller : WF_vars(Step(c)) /\ SF_vars(AnnounceLock(c))

----------------------------------------------------------------------------
TypeOK ==
    /\ programs \in SUBSET Expression
    /\ gauge \in Nat
    /\ readers \in SUBSET Caller
    /\ writer \in Caller \cup {Nobody}
    /\ pc \in [Caller -> {"idle", "rlock", "rwait", "read", "lock", "drain",
                         "compile", "store", "gauge", "unlock", "fail", "done"}]
    /\ compiled \in [Expression -> Nat]

\* However the handlers and the controller interleave, an expression is
\* compiled into one program at most: a caller that missed under the read
\* lock looks again before it compiles (program_cache.go:47).
CompiledOnce == \A e \in Expression : compiled[e] <= 1

\* The map is never written while another caller reads or writes it: Go
\* ends the process on such an access.
MapAccess == {"read", "compile", "store", "gauge"}
MapIsGuarded ==
    \A c, d \in Caller :
        c # d /\ pc[c] \in MapAccess \ {"read"} => pc[d] \notin MapAccess

\* Whoever reads the metric between two compilations sees the size of the
\* map: it is exact unless a caller is between storing and measuring.
ProgramGaugeExact ==
    (\A c \in Caller : pc[c] # "gauge") => gauge = Cardinality(programs)

\* What a call must return, from the subject and the ruleset alone: the
\* operations of the matching rules before the first rule that fails, and,
\* when none does, the last good value of each label key.
Fails(j, rule) ==
    rule.expression \notin Compilable \/ ~IsBool(Value[j.subject][rule.expression])
Matches(j, rule) == Value[j.subject][rule.expression] = "true"
Good(j, l) ==
    l.expression \in Compilable /\ IsString(Value[j.subject][l.expression])

\* ops are the operations of the rules in S, in the order of the rules.
Lists(ops, rules, S) ==
    \E f \in [DOMAIN ops -> S] :
        /\ \A k, m \in DOMAIN ops : k < m => f[k] < f[m]
        /\ \A i \in S : \E k \in DOMAIN ops : f[k] = i
        /\ \A k \in DOMAIN ops : ops[k] = rules[f[k]].operation

\* map holds, for each key of the labels in S, the value of the last of them.
LastOfEach(map, j, S) ==
    LET labels == j.ruleset.labels IN
    /\ DOMAIN map = {labels[i].key : i \in S}
    /\ \A i \in S : (\A h \in S : labels[h].key = labels[i].key => h <= i)
                    => map[labels[i].key] = Value[j.subject][labels[i].expression]

IsReference(j, r) ==
    IF j.kind = "compile"
    THEN r = [NoResult EXCEPT !.err = j.expression \notin Compilable]
    ELSE LET rules == j.ruleset.rules
             labels == j.ruleset.labels
             failing == {i \in DOMAIN rules : Fails(j, rules[i])}
             before == {i \in DOMAIN rules : \A h \in failing : i < h}
         IN  /\ r.err = (failing # {})
             /\ Lists(r.operations, rules, {i \in before : Matches(j, rules[i])})
             /\ LastOfEach(r.labels, j,
                    {i \in DOMAIN labels : failing = {} /\ Good(j, labels[i])})

\* The result of a call is a function of its arguments: it depends neither
\* on what is cached already nor on the calls that run beside it.
ResultIsReference ==
    \A c \in Caller : pc[c] = "done" => IsReference(job[c], result[c])

\* Every call returns: no interleaving of the readers and writers of the
\* cache, and no failing expression, leaves a caller waiting for ever.
CallsReturn == \A c \in Caller : pc[c] # "idle" ~> pc[c] = "idle"
=============================================================================
