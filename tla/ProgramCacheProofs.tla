------------------------- MODULE ProgramCacheProofs -------------------------
(***************************************************************************)
(* For every set of goroutines, expressions and rulesets: the lock of the  *)
(* program cache guards its map, no expression is compiled twice, the      *)
(* gauge is the size of the map, and a call returns what its arguments     *)
(* alone determine.                                                        *)
(***************************************************************************)
EXTENDS ProgramCache, FiniteSetTheorems, TLAPS

\* Where a caller holds or has announced the write lock, and where it holds
\* it with the readers gone.
Writing == {"drain", "compile", "store", "gauge", "unlock", "fail"}
Inside == Writing \ {"drain"}

\* A caller inside GetOrCompile is at one of the expressions of its job.
AtExpression ==
    /\ job \in [Caller -> CompileJob \cup EvaluateJob \cup {Nobody}]
    /\ pos \in [Caller -> Nat]
    /\ \A c \in Caller :
        /\ pc[c] = "idle" => pos[c] = 1
        /\ pc[c] # "idle" => job[c] \in CompileJob \cup EvaluateJob
        /\ pc[c] \notin {"idle", "done"} => pos[c] \in 1..Len(Exprs(job[c]))

\* The lock's own state is what the callers' places say.
LockKept ==
    /\ readers = {c \in Caller : pc[c] = "read"}
    /\ \A c \in Caller : pc[c] \in Writing <=> writer = c
    /\ \A c \in Caller : pc[c] \in Inside => readers = {}

\* A program was made of an expression once if it is stored or about to be,
\* and not at all otherwise; only what is not stored is compiled.
Storing(e) == \E c \in Caller : pc[c] = "store" /\ Expr(c) = e
CountsPrograms ==
    /\ \A e \in Expression : compiled[e] = IF e \in programs \/ Storing(e) THEN 1 ELSE 0
    /\ \A c \in Caller : pc[c] \in {"compile", "store"} => Expr(c) \notin programs

\* A lookup that returns says whether the expression compiles.
OutcomesTrue ==
    /\ programs \subseteq Compilable
    /\ \A c \in Caller :
        /\ pc[c] = "store" => Expr(c) \in Compilable
        /\ pc[c] \in {"gauge", "unlock"} => Expr(c) \in programs
        /\ pc[c] = "fail" => Expr(c) \notin Compilable

\* The first n expressions of the job did not end it, and r is their result.
Evaluated(j, n, r) ==
    LET rules == j.ruleset.rules
        labels == j.ruleset.labels
    IN  /\ \A i \in DOMAIN rules : i <= n => ~Fails(j, rules[i])
        /\ Lists(r.operations, rules, {i \in DOMAIN rules : i <= n /\ Matches(j, rules[i])})
        /\ LastOfEach(r.labels, j,
                {i \in DOMAIN labels : Len(rules) + i <= n /\ Good(j, labels[i])})
SoFar(j, n, r) ==
    /\ r = [operations |-> r.operations, labels |-> r.labels, err |-> FALSE]
    /\ r.operations \in Seq(STRING)
    /\ IF j.kind = "compile" THEN n = 0 /\ r = NoResult ELSE Evaluated(j, n, r)

ResultsSoFar ==
    /\ DOMAIN result = Caller
    /\ \A c \in Caller :
        /\ pc[c] = "idle" => result[c] = NoResult
        /\ pc[c] \notin {"idle", "done"} => SoFar(job[c], pos[c] - 1, result[c])
        /\ pc[c] = "done" => IsReference(job[c], result[c])

CacheInv ==
    /\ TypeOK
    /\ AtExpression
    /\ LockKept
    /\ CountsPrograms
    /\ IsFiniteSet(programs)
    /\ ProgramGaugeExact

----------------------------------------------------------------------------
(* The expressions of a job.                                               *)

LEMMA Elements ==
    ASSUME NEW S, NEW s \in Seq(S)
    PROVE  Len(s) \in Nat /\ \A i \in 1..Len(s) : s[i] \in S
  OBVIOUS

\* The expressions of a ruleset, or the one of a validation.
LEMMA ExprsType ==
    ASSUME NEW j \in CompileJob \cup EvaluateJob
    PROVE  Exprs(j) \in Seq(Expression)
<1>1. CASE j \in CompileJob
  <2>1. j.kind = "compile" /\ j.expression \in Expression
    BY <1>1, CacheAssumption DEF CompileJob
  <2> QED
    BY <2>1 DEF Exprs
<1>2. CASE j \in EvaluateJob
  <2> DEFINE rules == j.ruleset.rules
             labels == j.ruleset.labels
             n == Len(rules) + Len(labels)
  <2>1. j.kind = "evaluate" /\ j.ruleset \in RuleSet
    BY <1>2 DEF EvaluateJob
  <2>2. /\ rules \in Seq([operation : STRING, expression : Expression])
        /\ labels \in Seq([key : STRING, expression : Expression])
    BY <2>1, CacheAssumption
  <2>3. Exprs(j) = [i \in 1..n |-> IF i <= Len(rules) THEN rules[i].expression
                                   ELSE labels[i - Len(rules)].expression]
    BY <2>1 DEF Exprs
  <2> HIDE DEF rules, labels
  <2>4. /\ Len(rules) \in Nat /\ Len(labels) \in Nat
        /\ \A i \in 1..Len(rules) : rules[i] \in [operation : STRING, expression : Expression]
        /\ \A i \in 1..Len(labels) : labels[i] \in [key : STRING, expression : Expression]
    BY <2>2, Elements, Zenon
  <2>5. \A i \in 1..n : (IF i <= Len(rules) THEN rules[i].expression
                         ELSE labels[i - Len(rules)].expression) \in Expression
    BY <2>4
  <2>6. Exprs(j) \in [1..n -> Expression]
    BY <2>3, <2>5
  <2> QED
    BY <2>4, <2>6
<1> QED
  BY <1>1, <1>2

\* A caller that is inside GetOrCompile is there for an expression.
LEMMA ExprType ==
    ASSUME AtExpression, NEW c \in Caller, pc[c] \notin {"idle", "done"}
    PROVE  Expr(c) \in Expression /\ Len(Exprs(job[c])) \in Nat
<1>1. job[c] \in CompileJob \cup EvaluateJob
  BY DEF AtExpression
<1>2. Exprs(job[c]) \in Seq(Expression)
  BY <1>1, ExprsType
<1> QED
  BY <1>2 DEF AtExpression, Expr

LEMMA JobsType ==
    ASSUME NEW c \in Caller, NEW j \in Jobs(c)
    PROVE  j \in CompileJob \cup EvaluateJob
  BY DEF Jobs

----------------------------------------------------------------------------
(* The steps.  The ones outside GetOrCompile first.                        *)

\* A caller is given a job, or hands its result back.
LEMMA CallStep ==
    ASSUME CacheInv, NEW c \in Caller,
           Return(c) \/ \E j \in Jobs(c) : Call(c, j)
    PROVE  CacheInv'
<1> USE DEF CacheInv
<1>1. /\ programs' = programs /\ gauge' = gauge /\ compiled' = compiled
      /\ readers' = readers /\ writer' = writer
  BY DEF Return, Call, cacheVars, lockVars
<1>2. /\ pc[c] \in {"idle", "done"}
      /\ \E l \in {"idle", "done", "rlock"} : pc' = [pc EXCEPT ![c] = l]
  BY DEF Return, Call, Goto
<1>3. \A d \in Caller : d # c => pc'[d] = pc[d] /\ job'[d] = job[d] /\ pos'[d] = pos[d]
  BY DEF Return, Call, Goto, TypeOK, AtExpression
<1>4. TypeOK'
  BY <1>1, <1>2 DEF TypeOK
<1>5. AtExpression'
  <2>1. CASE Return(c)
    BY <2>1, <1>3 DEF Return, Goto, AtExpression, TypeOK
  <2>2. ASSUME NEW j \in Jobs(c), Call(c, j) PROVE AtExpression'
    <3>1. j \in CompileJob \cup EvaluateJob /\ Exprs(j) \in Seq(Expression)
      BY JobsType, ExprsType
    <3>2. /\ job' = [job EXCEPT ![c] = j] /\ pos' = pos /\ pc[c] = "idle"
          /\ pc' = [pc EXCEPT ![c] = IF Exprs(j) = <<>> THEN "done" ELSE "rlock"]
      BY <2>2 DEF Call, Goto
    <3>3. Exprs(j) # <<>> => 1 \in 1..Len(Exprs(j))
      BY <3>1
    <3> QED
      BY <3>1, <3>2, <3>3 DEF AtExpression, TypeOK
  <2> QED
    BY <2>1, <2>2
<1>6. LockKept'
  BY <1>1, <1>2 DEF LockKept, TypeOK, Writing, Inside
<1>7. CountsPrograms'
  BY <1>1, <1>2, <1>3 DEF CountsPrograms, Storing, Expr, TypeOK
<1>8. ProgramGaugeExact'
  BY <1>1, <1>2 DEF ProgramGaugeExact, TypeOK
<1> QED
  BY <1>1, <1>4, <1>5, <1>6, <1>7, <1>8

\* RLock, the first look that misses, Lock announced, Lock held.  Nobody
\* becomes a reader while a writer is inside, or a writer beside another.
LEMMA LockStep ==
    ASSUME CacheInv, NEW c \in Caller,
           RLock(c) \/ Miss(c) \/ AnnounceLock(c) \/ Lock(c)
    PROVE  CacheInv'
<1> USE DEF CacheInv
<1>1. /\ programs' = programs /\ gauge' = gauge /\ compiled' = compiled
      /\ job' = job /\ pos' = pos
  BY DEF RLock, Miss, AnnounceLock, Lock, cacheVars, callVars
<1>2. /\ pc[c] \in {"rlock", "read", "lock", "drain"}
      /\ \E l \in {"read", "rwait", "lock", "drain", "unlock", "compile"} :
            pc' = [pc EXCEPT ![c] = l]
  BY DEF RLock, Miss, AnnounceLock, Lock, AfterMiss, Goto
<1>3. Expr(c) \notin programs \/ pc'[c] # "compile"
  BY <1>2 DEF RLock, Miss, AnnounceLock, Lock, AfterMiss, Goto, TypeOK
<1>4. pc'[c] # "store" /\ pc'[c] # "gauge"
  BY <1>2 DEF TypeOK
<1>5. TypeOK'
  BY <1>1, <1>2 DEF TypeOK, RLock, Miss, RUnlock, AnnounceLock, Lock, lockVars
<1>6. AtExpression'
  BY <1>1, <1>2 DEF AtExpression, TypeOK
<1>7. LockKept'
  <2> USE CacheAssumption DEF LockKept, TypeOK, Writing, Inside
  <2>1. CASE RLock(c)
    BY <2>1 DEF RLock, Goto
  <2>2. CASE Miss(c)
    BY <2>2 DEF Miss, RUnlock, Goto
  <2>3. CASE AnnounceLock(c)
    BY <2>3 DEF AnnounceLock, Goto
  <2>4. CASE Lock(c)
    BY <2>4 DEF Lock, AfterMiss, Goto, lockVars
  <2> QED
    BY <2>1, <2>2, <2>3, <2>4
<1>8. CountsPrograms'
  BY <1>1, <1>2, <1>3, <1>4 DEF CountsPrograms, Storing, Expr, TypeOK
<1>9. ProgramGaugeExact'
  BY <1>1, <1>2, <1>4 DEF ProgramGaugeExact, TypeOK
<1> QED
  BY <1>1, <1>5, <1>6, <1>7, <1>8, <1>9

\* One caller at most is inside the write lock.
LEMMA OneInside ==
    ASSUME CacheInv, NEW c \in Caller, NEW d \in Caller, pc[c] \in Inside, pc[d] \in Writing
    PROVE  c = d
  BY DEF CacheInv, LockKept, Writing, Inside

\* A program is made of the expression, or cannot be made; it is stored; the
\* gauge is set.
LEMMA InsideStep ==
    ASSUME CacheInv, NEW c \in Caller,
           Compile(c) \/ Store(c) \/ Measure(c)
    PROVE  CacheInv'
<1> USE DEF CacheInv
<1>1. job' = job /\ pos' = pos /\ readers' = readers /\ writer' = writer
  BY DEF Compile, Store, Measure, lockVars, callVars
<1>2. /\ pc[c] \in {"compile", "store", "gauge"}
      /\ \E l \in {"store", "fail", "gauge", "unlock"} : pc' = [pc EXCEPT ![c] = l]
  BY DEF Compile, FailCompile, Store, Measure, Goto
<1>3. Expr(c) \in Expression /\ \A d \in Caller : Expr(d)' = Expr(d)
  BY <1>1, <1>2, ExprType DEF Expr
<1>4. \A d \in Caller : d # c => pc[d] \notin Writing /\ pc'[d] = pc[d]
  BY <1>2, OneInside DEF TypeOK, Inside, Writing
<1>5. AtExpression'
  BY <1>1, <1>2 DEF AtExpression, TypeOK
<1>6. LockKept'
  BY <1>1, <1>2 DEF LockKept, TypeOK, Writing, Inside
<1>7. CASE Compile(c) /\ Expr(c) \in Compilable
  <2>1. /\ compiled' = [compiled EXCEPT ![Expr(c)] = @ + 1] /\ programs' = programs
        /\ gauge' = gauge /\ pc[c] = "compile" /\ pc' = [pc EXCEPT ![c] = "store"]
    BY <1>7 DEF Compile, Goto
  <2>2. Expr(c) \notin programs /\ ~Storing(Expr(c)) /\ compiled[Expr(c)] = 0
    BY <1>3, <1>4, <2>1 DEF CountsPrograms, Storing, Writing
  <2>3. \A e \in Expression : Storing(e)' <=> e = Expr(c)
    BY <1>3, <1>4, <2>1 DEF Storing, Writing, TypeOK
  <2>4. \A e \in Expression : ~Storing(e)
    BY <1>4, <2>1 DEF Storing, Writing
  <2>5. CountsPrograms'
    <3>1. \A e \in Expression : compiled'[e] = IF e \in programs' \/ Storing(e)' THEN 1 ELSE 0
      BY <1>3, <2>1, <2>2, <2>3, <2>4 DEF CountsPrograms, TypeOK
    <3>2. \A d \in Caller : pc'[d] \in {"compile", "store"} => Expr(d)' \notin programs'
      BY <1>3, <1>4, <2>1, <2>2 DEF Writing
    <3> QED
      BY <3>1, <3>2 DEF CountsPrograms
  <2>6. TypeOK'
    BY <1>1, <1>3, <2>1 DEF TypeOK
  <2>7. ProgramGaugeExact'
    BY <2>1 DEF ProgramGaugeExact, TypeOK
  <2> QED
    BY <1>5, <1>6, <2>1, <2>5, <2>6, <2>7
<1>8. CASE Compile(c) /\ Expr(c) \notin Compilable
  <2>1. /\ compiled' = compiled /\ programs' = programs /\ gauge' = gauge
        /\ pc[c] = "compile" /\ pc' = [pc EXCEPT ![c] = "fail"]
    BY <1>8 DEF Compile, FailCompile, Goto, cacheVars
  <2>2. CountsPrograms'
    BY <1>3, <2>1 DEF CountsPrograms, Storing, TypeOK
  <2>3. TypeOK' /\ ProgramGaugeExact'
    BY <1>1, <2>1 DEF TypeOK, ProgramGaugeExact
  <2> QED
    BY <1>5, <1>6, <2>1, <2>2, <2>3
<1>9. CASE Store(c)
  <2>1. /\ programs' = programs \cup {Expr(c)} /\ compiled' = compiled /\ gauge' = gauge
        /\ pc[c] = "store" /\ pc' = [pc EXCEPT ![c] = "gauge"]
    BY <1>9 DEF Store, Goto
  <2>2. \A e \in Expression : ~Storing(e)' /\ (Storing(e) <=> e = Expr(c))
    BY <1>3, <1>4, <2>1 DEF Storing, Writing, TypeOK
  <2>3. CountsPrograms'
    <3>1. \A e \in Expression : compiled'[e] = IF e \in programs' \/ Storing(e)' THEN 1 ELSE 0
      BY <2>1, <2>2 DEF CountsPrograms
    <3>2. \A d \in Caller : pc'[d] \notin {"compile", "store"}
      BY <1>4, <2>1 DEF Writing, TypeOK
    <3> QED
      BY <3>1, <3>2 DEF CountsPrograms
  <2>4. IsFiniteSet(programs')
    BY <2>1, FS_AddElement
  <2>5. TypeOK'
    BY <1>1, <1>3, <2>1 DEF TypeOK
  <2>6. ProgramGaugeExact'
    BY <2>1 DEF ProgramGaugeExact, TypeOK
  <2> QED
    BY <1>5, <1>6, <2>3, <2>4, <2>5, <2>6
<1>10. CASE Measure(c)
  <2>1. /\ programs' = programs /\ compiled' = compiled /\ gauge' = Cardinality(programs)
        /\ pc[c] = "gauge" /\ pc' = [pc EXCEPT ![c] = "unlock"]
    BY <1>10 DEF Measure, SetGauge, Goto
  <2>2. CountsPrograms'
    BY <1>3, <2>1 DEF CountsPrograms, Storing, TypeOK
  <2>3. gauge' \in Nat
    BY <2>1, FS_CardinalityType
  <2>4. TypeOK' /\ ProgramGaugeExact'
    BY <1>1, <2>1, <2>3 DEF TypeOK, ProgramGaugeExact
  <2> QED
    BY <1>5, <1>6, <2>1, <2>2, <2>4
<1> QED
  BY <1>7, <1>8, <1>9, <1>10

\* GetOrCompile returned: the caller is at its next expression, or done.
LEMMA OnwardAtExpression ==
    ASSUME AtExpression, TypeOK, NEW c \in Caller, pc[c] \notin {"idle", "done"},
           NEW ok, Returns(c, ok)
    PROVE  /\ job' = job /\ pos' \in [Caller -> Nat]
           /\ \A d \in Caller : d # c => pos'[d] = pos[d]
           /\ Onward(c, ok) \in {"done", "rlock"}
           /\ Onward(c, ok) = "rlock" => pos'[c] \in 1..Len(Exprs(job[c]))
<1>1. /\ pos' = [pos EXCEPT ![c] = IF Last(c, ok) THEN @ ELSE @ + 1] /\ job' = job
      /\ Onward(c, ok) = IF Last(c, ok) THEN "done" ELSE "rlock"
  BY DEF Returns, Onward
<1>2. /\ pos \in [Caller -> Nat] /\ pos[c] \in 1..Len(Exprs(job[c]))
      /\ Len(Exprs(job[c])) \in Nat
  BY ExprType DEF AtExpression
<1>3. ~Last(c, ok) => pos[c] < Len(Exprs(job[c]))
  BY <1>2 DEF Last
<1> QED
  BY <1>1, <1>2, <1>3

\* GetOrCompile returns from the first look, or with the deferred Unlock,
\* which lets the readers in that have been waiting.
LEMMA ReturnStep ==
    ASSUME CacheInv, NEW c \in Caller, Hit(c) \/ Release(c)
    PROVE  CacheInv'
<1> USE DEF CacheInv
<1>1. pc[c] \in {"read", "unlock", "fail"}
  BY DEF Hit, Release
<1>2. programs' = programs /\ gauge' = gauge /\ compiled' = compiled
  BY DEF Hit, Release, cacheVars
<1>3. PICK ok \in BOOLEAN :
        /\ Returns(c, ok)
        /\ \/ /\ pc[c] = "read" /\ RUnlock(c)
              /\ pc' = [pc EXCEPT ![c] = Onward(c, ok)]
           \/ pc[c] \in {"unlock", "fail"} /\ Unlock(c, Onward(c, ok))
  BY DEF Hit, Release, Goto
<1> DEFINE l == Onward(c, ok)
<1>4. /\ job' = job /\ pos' \in [Caller -> Nat]
      /\ \A d \in Caller : d # c => pos'[d] = pos[d]
      /\ l \in {"done", "rlock"}
      /\ l = "rlock" => pos'[c] \in 1..Len(Exprs(job[c]))
  BY <1>1, <1>3, OnwardAtExpression
<1> HIDE DEF l
<1>5. /\ pc' \in [Caller -> {"idle", "rlock", "rwait", "read", "lock", "drain",
                         "compile", "store", "gauge", "unlock", "fail", "done"}]
      /\ pc'[c] = l
      /\ \A d \in Caller : d # c =>
            pc'[d] = pc[d] \/ (pc[d] = "rwait" /\ pc'[d] = "read")
  BY <1>3, <1>4 DEF TypeOK, Unlock, Waiting, l
<1>6. TypeOK'
  <2>1. readers' \in SUBSET Caller /\ writer' \in Caller \cup {Nobody}
    BY <1>3 DEF TypeOK, RUnlock, Unlock, Waiting
  <2> QED
    BY <1>2, <1>5, <2>1 DEF TypeOK
<1>7. AtExpression'
  BY <1>1, <1>4, <1>5 DEF AtExpression
<1>8. LockKept'
  <2>1. CASE pc[c] = "read"
    <3>1. readers' = readers \ {c} /\ writer' = writer /\ pc' = [pc EXCEPT ![c] = l]
      BY <1>3, <2>1 DEF RUnlock, l
    <3> QED
      BY <1>4, <2>1, <3>1 DEF LockKept, TypeOK, Writing, Inside
  <2>2. CASE pc[c] \in {"unlock", "fail"}
    <3>1. /\ writer' = Nobody /\ readers' = readers \cup Waiting
          /\ pc' = [d \in Caller |-> IF d = c THEN l
                                     ELSE IF d \in Waiting THEN "read" ELSE pc[d]]
      BY <1>3, <2>2 DEF Unlock, l
    <3>2. \A d \in Caller : d # c => pc[d] \notin Writing
      BY <2>2, OneInside DEF Inside, Writing
    <3>3. \A d \in Caller : pc'[d] \notin Writing
      BY <1>4, <3>1, <3>2 DEF Waiting, Writing
    <3>4. readers' = {d \in Caller : pc'[d] = "read"}
      BY <1>4, <2>2, <3>1 DEF LockKept, Waiting
    <3> QED
      BY <3>1, <3>3, <3>4, CacheAssumption DEF LockKept, Inside
  <2> QED
    BY <1>1, <2>1, <2>2
<1>9. \A d \in Caller : pc'[d] \in {"compile", "store"} =>
        d # c /\ pc[d] = pc'[d] /\ Expr(d)' = Expr(d)
  BY <1>4, <1>5 DEF Expr
<1>10. \A d \in Caller : pc[d] \in {"compile", "store", "gauge"} =>
        d # c /\ pc[d] = pc'[d] /\ Expr(d)' = Expr(d)
  BY <1>1, <1>4, <1>5 DEF Expr
<1>11. \A e \in Expression : Storing(e)' <=> Storing(e)
  BY <1>9, <1>10 DEF Storing
<1>12. CountsPrograms'
  BY <1>2, <1>9, <1>11 DEF CountsPrograms
<1>13. ProgramGaugeExact'
  BY <1>2, <1>10 DEF ProgramGaugeExact
<1> QED
  BY <1>2, <1>6, <1>7, <1>8, <1>12, <1>13

----------------------------------------------------------------------------
LEMMA CacheInvHolds == Spec => []CacheInv
<1>1. Init => CacheInv
  <2> SUFFICES ASSUME Init PROVE CacheInv
    OBVIOUS
  <2>1. TypeOK /\ AtExpression
    BY DEF Init, TypeOK, AtExpression
  <2>2. LockKept
    BY CacheAssumption DEF Init, LockKept, Writing, Inside
  <2>3. CountsPrograms
    BY DEF Init, CountsPrograms, Storing
  <2>4. IsFiniteSet(programs) /\ ProgramGaugeExact
    BY FS_EmptySet DEF Init, ProgramGaugeExact
  <2> QED
    BY <2>1, <2>2, <2>3, <2>4 DEF CacheInv
<1>2. CacheInv /\ [Next]_vars => CacheInv'
  <2> SUFFICES ASSUME CacheInv, [Next]_vars PROVE CacheInv'
    OBVIOUS
  <2>1. ASSUME NEW c \in Caller, Step(c) \/ \E j \in Jobs(c) : Call(c, j)
        PROVE  CacheInv'
    <3>1. \/ Return(c) \/ \E j \in Jobs(c) : Call(c, j)
          \/ RLock(c) \/ Miss(c) \/ AnnounceLock(c) \/ Lock(c)
          \/ Compile(c) \/ Store(c) \/ Measure(c)
          \/ Hit(c) \/ Release(c)
      BY <2>1 DEF Step
    <3> QED
      BY <3>1, CallStep, LockStep, InsideStep, ReturnStep
  <2>2. CASE UNCHANGED vars
    BY <2>2 DEF vars, cacheVars, lockVars, callVars, CacheInv, TypeOK, AtExpression,
                LockKept, CountsPrograms, Storing, Expr, ProgramGaugeExact
  <2> QED
    BY <2>1, <2>2 DEF Next
<1> QED
  BY <1>1, <1>2, PTL DEF Spec

\* Every variable keeps its type.
THEOREM ProgramCacheTypeOK == Spec => []TypeOK
  BY CacheInvHolds, PTL DEF CacheInv

\* An expression is compiled into one program at most: the second look under
\* the write lock is enough, however many callers missed under the read lock
\* (program_cache.go:47).
THEOREM NeverCompiledTwice == Spec => []CompiledOnce
<1>1. CacheInv => CompiledOnce
  BY DEF CacheInv, CountsPrograms, CompiledOnce
<1> QED
  BY <1>1, CacheInvHolds, PTL

\* Nobody reads or writes the map of programs while another writes it.
THEOREM MapAccessGuarded == Spec => []MapIsGuarded
<1>1. CacheInv => MapIsGuarded
  <2> SUFFICES ASSUME CacheInv, NEW c \in Caller, NEW d \in Caller, c # d,
                      pc[c] \in {"compile", "store", "gauge"}
               PROVE  pc[d] \notin {"read", "compile", "store", "gauge"}
    BY DEF MapIsGuarded, MapAccess
  <2>1. pc[d] \notin Writing
    BY OneInside DEF Inside, Writing
  <2>2. pc[d] # "read"
    BY DEF CacheInv, LockKept, Inside, Writing
  <2> QED
    BY <2>1, <2>2 DEF Writing
<1> QED
  BY <1>1, CacheInvHolds, PTL

\* Between a compilation's store and its measurement aside, the metric is
\* the size of the map.
THEOREM ProgramGaugeCorrect == Spec => []ProgramGaugeExact
  BY CacheInvHolds, PTL DEF CacheInv

----------------------------------------------------------------------------
(* The results.  What one more expression adds to a result, without the    *)
(* cache.                                                                  *)

\* One more rule that matches.
LEMMA ListsOneMore ==
    ASSUME NEW ops \in Seq(STRING), NEW rules, NEW S \in SUBSET Nat, NEW n \in Nat,
           \A i \in S : i < n, Lists(ops, rules, S)
    PROVE  Lists(Append(ops, rules[n].operation), rules, S \cup {n})
<1> DEFINE L == Len(ops)
           new == Append(ops, rules[n].operation)
<1>1. PICK f \in [DOMAIN ops -> S] :
        /\ \A k, m \in DOMAIN ops : k < m => f[k] < f[m]
        /\ \A i \in S : \E k \in DOMAIN ops : f[k] = i
        /\ \A k \in DOMAIN ops : ops[k] = rules[f[k]].operation
  BY DEF Lists
<1>2. L \in Nat /\ DOMAIN ops = 1..L
  OBVIOUS
<1>3. /\ DOMAIN new = 1..(L + 1) /\ new[L + 1] = rules[n].operation
      /\ \A k \in 1..L : new[k] = ops[k]
  OBVIOUS
<1> DEFINE g == [k \in 1..(L + 1) |-> IF k = L + 1 THEN n ELSE f[k]]
<1> HIDE DEF L, new
<1>4. g \in [1..(L + 1) -> S \cup {n}]
  BY <1>1, <1>2
<1>5. ASSUME NEW k \in 1..(L + 1), NEW m \in 1..(L + 1), k < m PROVE g[k] < g[m]
  <2>1. k \in 1..L /\ f[k] \in S
    BY <1>1, <1>2, <1>5
  <2>2. CASE m = L + 1
    <3>1. g[m] = n /\ g[k] = f[k]
      BY <1>2, <2>1, <2>2
    <3>2. f[k] < n
      BY <2>1
    <3> QED
      BY <3>1, <3>2
  <2>3. CASE m \in 1..L
    BY <1>1, <1>2, <1>5, <2>1, <2>3
  <2> QED
    BY <1>2, <2>2, <2>3
<1>6. \A i \in S \cup {n} : \E k \in 1..(L + 1) : g[k] = i
  <2>1. g[L + 1] = n /\ L + 1 \in 1..(L + 1)
    BY <1>2
  <2>2. \A i \in S : \E k \in 1..L : f[k] = i
    BY <1>1, <1>2
  <2>3. \A k \in 1..L : k \in 1..(L + 1) /\ g[k] = f[k]
    BY <1>2
  <2> HIDE DEF g
  <2> QED
    BY <2>1, <2>2, <2>3
<1>7. \A k \in 1..(L + 1) : new[k] = rules[g[k]].operation
  BY <1>1, <1>2, <1>3
<1> HIDE DEF g
<1> HIDE DEF new
<1>8. /\ g \in [DOMAIN new -> S \cup {n}]
      /\ \A k, m \in DOMAIN new : k < m => g[k] < g[m]
      /\ \A i \in S \cup {n} : \E k \in DOMAIN new : g[k] = i
      /\ \A k \in DOMAIN new : new[k] = rules[g[k]].operation
  BY <1>3, <1>4, <1>5, <1>6, <1>7
<1>9. Lists(new, rules, S \cup {n})
  BY <1>8, Zenon DEF Lists
<1> QED
  BY <1>9 DEF new

\* One more label that evaluates to a string.
LEMMA LabelsOneMore ==
    ASSUME NEW j, NEW map, NEW S \in SUBSET Nat, NEW n \in Nat,
           \A i \in S : i < n, LastOfEach(map, j, S)
    PROVE  LET l == j.ruleset.labels[n]
               v == Value[j.subject][l.expression]
           IN  LastOfEach([k \in DOMAIN map \cup {l.key} |-> IF k = l.key THEN v ELSE map[k]],
                          j, S \cup {n})
<1> DEFINE labels == j.ruleset.labels
           l == labels[n]
           v == Value[j.subject][l.expression]
           new == [k \in DOMAIN map \cup {l.key} |-> IF k = l.key THEN v ELSE map[k]]
<1>1. /\ DOMAIN map = {labels[i].key : i \in S}
      /\ \A i \in S : (\A h \in S : labels[h].key = labels[i].key => h <= i)
                      => map[labels[i].key] = Value[j.subject][labels[i].expression]
  BY DEF LastOfEach
<1>2. DOMAIN new = {labels[i].key : i \in S \cup {n}}
  BY <1>1
<1>3. ASSUME NEW i \in S \cup {n},
             \A h \in S \cup {n} : labels[h].key = labels[i].key => h <= i
      PROVE  new[labels[i].key] = Value[j.subject][labels[i].expression]
  <2>1. CASE i = n
    BY <2>1
  <2>2. CASE i \in S
    <3>1. labels[i].key # l.key
      <4>1. i \in Nat /\ i < n /\ n \in S \cup {n}
        BY <2>2
      <4>2. labels[n].key = labels[i].key => n <= i
        BY <1>3, <4>1, Zenon
      <4> QED
        BY <4>1, <4>2
    <3>2. map[labels[i].key] = Value[j.subject][labels[i].expression]
      BY <1>1, <1>3, <2>2
    <3>3. labels[i].key \in DOMAIN map
      BY <1>1, <2>2
    <3> QED
      BY <3>1, <3>2, <3>3
  <2> QED
    BY <2>1, <2>2
<1> HIDE DEF new
<1>4. LastOfEach(new, j, S \cup {n})
  BY <1>2, <1>3 DEF LastOfEach
<1> QED
  BY <1>4 DEF new

\* An evaluation's ruleset.
LEMMA RulesetType ==
    ASSUME NEW j \in EvaluateJob
    PROVE  /\ j.kind = "evaluate"
           /\ Len(j.ruleset.rules) \in Nat /\ Len(j.ruleset.labels) \in Nat
           /\ DOMAIN j.ruleset.rules = 1..Len(j.ruleset.rules)
           /\ DOMAIN j.ruleset.labels = 1..Len(j.ruleset.labels)
           /\ \A i \in DOMAIN j.ruleset.rules : j.ruleset.rules[i].operation \in STRING
           /\ Len(Exprs(j)) = Len(j.ruleset.rules) + Len(j.ruleset.labels)
           /\ \A i \in 1..Len(Exprs(j)) :
                Exprs(j)[i] = IF i <= Len(j.ruleset.rules) THEN j.ruleset.rules[i].expression
                              ELSE j.ruleset.labels[i - Len(j.ruleset.rules)].expression
<1> DEFINE rules == j.ruleset.rules
           labels == j.ruleset.labels
<1>1. j.kind = "evaluate" /\ j.ruleset \in RuleSet
  BY DEF EvaluateJob
<1>2. /\ rules \in Seq([operation : STRING, expression : Expression])
      /\ labels \in Seq([key : STRING, expression : Expression])
  BY <1>1, CacheAssumption
<1>3. /\ Len(rules) \in Nat /\ Len(labels) \in Nat
      /\ DOMAIN rules = 1..Len(rules) /\ DOMAIN labels = 1..Len(labels)
  BY <1>2
<1>4. \A i \in DOMAIN rules : rules[i] \in [operation : STRING, expression : Expression]
  BY <1>2, <1>3, Elements, Zenon
<1>5. Exprs(j) = [i \in 1..(Len(rules) + Len(labels)) |->
                    IF i <= Len(rules) THEN rules[i].expression
                    ELSE labels[i - Len(rules)].expression]
  BY <1>1 DEF Exprs
<1>6. Exprs(j) \in Seq(Expression)
  BY ExprsType
<1> HIDE DEF rules, labels
<1>7. DOMAIN Exprs(j) = 1..(Len(rules) + Len(labels))
  BY <1>5
<1>8. Len(Exprs(j)) = Len(rules) + Len(labels)
  BY <1>3, <1>6, <1>7
<1>9. \A i \in DOMAIN rules : rules[i].operation \in STRING
  BY <1>4
<1> QED
  BY <1>1, <1>3, <1>5, <1>8, <1>9 DEF rules, labels

\* A rule more: it matched, it did not, or it ended the evaluation
\* (evaluator.go:96-110).
LEMMA RuleEvaluated ==
    ASSUME NEW j \in EvaluateJob, NEW n \in 1..Len(j.ruleset.rules), NEW r,
           SoFar(j, n - 1, r), NEW ok \in BOOLEAN,
           ok <=> j.ruleset.rules[n].expression \in Compilable
    PROVE  LET new == AfterRule(j, n, r, ok)
           IN  IF new.err THEN IsReference(j, new) ELSE SoFar(j, n, new)
<1> DEFINE rules == j.ruleset.rules
           labels == j.ruleset.labels
           new == AfterRule(j, n, r, ok)
           S == {i \in DOMAIN rules : i <= n - 1 /\ Matches(j, rules[i])}
           T == {i \in DOMAIN rules : i <= n /\ Matches(j, rules[i])}
<1>1. /\ j.kind = "evaluate" /\ Len(rules) \in Nat /\ Len(labels) \in Nat
      /\ DOMAIN rules = 1..Len(rules) /\ DOMAIN labels = 1..Len(labels)
      /\ rules[n].operation \in STRING
  BY RulesetType
<1>2. /\ r = [operations |-> r.operations, labels |-> r.labels, err |-> FALSE]
      /\ r.operations \in Seq(STRING)
      /\ \A i \in DOMAIN rules : i <= n - 1 => ~Fails(j, rules[i])
      /\ Lists(r.operations, rules, S)
      /\ LastOfEach(r.labels, j,
            {i \in DOMAIN labels : Len(rules) + i <= n - 1 /\ Good(j, labels[i])})
  BY <1>1 DEF SoFar, Evaluated
<1>3. LastOfEach(r.labels, j, {})
  <2>1. {i \in DOMAIN labels : Len(rules) + i <= n - 1 /\ Good(j, labels[i])} = {}
    BY <1>1
  <2> QED
    BY <1>2, <2>1
<1>4. {i \in DOMAIN labels : Len(rules) + i <= n /\ Good(j, labels[i])} = {}
  BY <1>1
<1>5. CASE Fails(j, rules[n])
  <2>1. new = [r EXCEPT !.err = TRUE]
    BY <1>5 DEF AfterRule, Fails
  <2>2. new.err = TRUE /\ new.operations = r.operations /\ new.labels = r.labels
    BY <1>2, <2>1
  <2> DEFINE failing == {i \in DOMAIN rules : Fails(j, rules[i])}
             before == {i \in DOMAIN rules : \A h \in failing : i < h}
  <2>3. n \in failing /\ \A i \in failing : n <= i
    BY <1>1, <1>2, <1>5
  <2>4. {i \in before : Matches(j, rules[i])} = S
    BY <1>1, <2>3
  <2>5. {i \in DOMAIN labels : failing = {} /\ Good(j, labels[i])} = {}
    BY <2>3
  <2> HIDE DEF failing, before, S, new
  <2>6. /\ new.err = (failing # {})
        /\ Lists(new.operations, rules, {i \in before : Matches(j, rules[i])})
        /\ LastOfEach(new.labels, j,
                {i \in DOMAIN labels : failing = {} /\ Good(j, labels[i])})
    <3>1. failing # {}
      BY <2>3
    <3>2. Lists(new.operations, rules, {i \in before : Matches(j, rules[i])})
      BY <1>2, <2>2, <2>4, Zenon
    <3>3. LastOfEach(new.labels, j,
                {i \in DOMAIN labels : failing = {} /\ Good(j, labels[i])})
      BY <1>3, <2>2, <2>5, Zenon
    <3> QED
      BY <2>2, <3>1, <3>2, <3>3
  <2>7. IsReference(j, new)
    BY <1>1, <2>6 DEF IsReference, failing, before
  <2> QED
    BY <2>2, <2>7 DEF new
<1>6. ASSUME ~Fails(j, rules[n]), new.err = FALSE, new.labels = r.labels,
             new = [operations |-> new.operations, labels |-> new.labels, err |-> FALSE],
             new.operations \in Seq(STRING), Lists(new.operations, rules, T)
      PROVE  IF new.err THEN IsReference(j, new) ELSE SoFar(j, n, new)
  <2>1. \A i \in DOMAIN rules : i <= n => ~Fails(j, rules[i])
    BY <1>1, <1>2, <1>6
  <2>2. LastOfEach(new.labels, j,
            {i \in DOMAIN labels : Len(rules) + i <= n /\ Good(j, labels[i])})
    BY <1>3, <1>4, <1>6, Zenon
  <2>3. Evaluated(j, n, new)
    BY <1>6, <2>1, <2>2, Zenon DEF Evaluated
  <2> QED
    BY <1>1, <1>6, <2>3 DEF SoFar
<1>7. CASE ~Fails(j, rules[n]) /\ Matches(j, rules[n])
  <2>1. new = [r EXCEPT !.operations = Append(@, rules[n].operation)]
    BY <1>7 DEF AfterRule, Fails, Matches
  <2>2. new = [operations |-> Append(r.operations, rules[n].operation),
               labels |-> r.labels, err |-> FALSE]
    <3> DEFINE o == r.operations
               m == r.labels
               x == Append(o, rules[n].operation)
    <3>1. r = [operations |-> o, labels |-> m, err |-> FALSE]
      BY <1>2
    <3>2. new = [r EXCEPT !.operations = x]
      BY <2>1
    <3> HIDE DEF o, m, x, new
    <3>3. new = [operations |-> x, labels |-> m, err |-> FALSE]
      BY <3>1, <3>2
    <3> QED
      BY <3>3 DEF o, m, x
  <2>3. S \cup {n} = T /\ S \in SUBSET Nat /\ \A i \in S : i < n
    BY <1>1, <1>7
  <2> HIDE DEF S, T, new
  <2>4. Lists(Append(r.operations, rules[n].operation), rules, T)
    <3>1. /\ n \in Nat /\ r.operations \in Seq(STRING) /\ S \in SUBSET Nat
          /\ (\A i \in S : i < n) /\ Lists(r.operations, rules, S)
      BY <1>1, <1>2, <2>3
    <3>2. Lists(Append(r.operations, rules[n].operation), rules, S \cup {n})
      BY <3>1, ListsOneMore, Zenon
    <3> QED
      BY <2>3, <3>2, Zenon
  <2>5. Append(r.operations, rules[n].operation) \in Seq(STRING)
    BY <1>1, <1>2
  <2>6. /\ new.operations = Append(r.operations, rules[n].operation)
        /\ new.labels = r.labels /\ new.err = FALSE
    BY <2>2
  <2>7. /\ new = [operations |-> new.operations, labels |-> new.labels, err |-> FALSE]
        /\ new.operations \in Seq(STRING) /\ Lists(new.operations, rules, T)
    BY <2>2, <2>4, <2>5, <2>6
  <2>8. IF new.err THEN IsReference(j, new) ELSE SoFar(j, n, new)
    BY <1>6, <1>7, <2>6, <2>7
  <2> QED
    BY <2>8 DEF new
<1>8. CASE ~Fails(j, rules[n]) /\ ~Matches(j, rules[n])
  <2>1. new = r
    BY <1>8 DEF AfterRule, Fails, Matches, IsBool
  <2>2. S = T
    BY <1>1, <1>8
  <2> HIDE DEF S, T, new
  <2>3. Lists(new.operations, rules, T) /\ new.err = FALSE
    BY <1>2, <2>1, <2>2
  <2>4. IF new.err THEN IsReference(j, new) ELSE SoFar(j, n, new)
    BY <1>2, <1>6, <1>8, <2>1, <2>3
  <2> QED
    BY <2>4 DEF new
<1> QED
  BY <1>5, <1>7, <1>8

\* A label expression more: it adds to the labels or is left out
\* (evaluator.go:114-126).
LEMMA LabelEvaluated ==
    ASSUME NEW j \in EvaluateJob, NEW r, NEW n \in Nat,
           Len(j.ruleset.rules) < n, n <= Len(j.ruleset.rules) + Len(j.ruleset.labels),
           SoFar(j, n - 1, r), NEW ok \in BOOLEAN,
           ok <=> j.ruleset.labels[n - Len(j.ruleset.rules)].expression \in Compilable
    PROVE  SoFar(j, n, AfterLabel(j, n, r, ok))
<1> DEFINE rules == j.ruleset.rules
           labels == j.ruleset.labels
           N == Len(rules)
           M == Len(labels)
           h == n - N
           l == labels[h]
           v == Value[j.subject][l.expression]
           new == AfterLabel(j, n, r, ok)
           S == {i \in DOMAIN labels : N + i <= n - 1 /\ Good(j, labels[i])}
           T == {i \in DOMAIN labels : N + i <= n /\ Good(j, labels[i])}
<1>1. /\ j.kind = "evaluate" /\ N \in Nat /\ M \in Nat /\ N < n /\ n <= N + M
      /\ DOMAIN rules = 1..N /\ DOMAIN labels = 1..M
  BY RulesetType
<1>2. /\ r = [operations |-> r.operations, labels |-> r.labels, err |-> FALSE]
      /\ r.operations \in Seq(STRING)
      /\ \A i \in DOMAIN rules : i <= n - 1 => ~Fails(j, rules[i])
      /\ Lists(r.operations, rules,
            {i \in DOMAIN rules : i <= n - 1 /\ Matches(j, rules[i])})
      /\ LastOfEach(r.labels, j, S)
  BY <1>1 DEF SoFar, Evaluated
<1>3. /\ \A i \in DOMAIN rules : i <= n => ~Fails(j, rules[i])
      /\ {i \in DOMAIN rules : i <= n - 1 /\ Matches(j, rules[i])} =
            {i \in DOMAIN rules : i <= n /\ Matches(j, rules[i])}
  BY <1>1, <1>2
<1>4. h \in DOMAIN labels /\ h \in Nat /\ S \in SUBSET Nat /\ \A i \in S : i < h
  <2> HIDE DEF N, M, rules, labels
  <2> QED
    BY <1>1
<1>5. ASSUME new = [operations |-> r.operations, labels |-> new.labels, err |-> FALSE],
             LastOfEach(new.labels, j, T)
      PROVE  SoFar(j, n, new)
  <2> HIDE DEF new, T
  <2>1. new.operations = r.operations
    BY <1>5
  <2>2. Lists(new.operations, rules, {i \in DOMAIN rules : i <= n /\ Matches(j, rules[i])})
    BY <1>2, <1>3, <2>1, Zenon
  <2>3. Evaluated(j, n, new)
    BY <1>3, <1>5, <2>2, Zenon DEF Evaluated, T
  <2> QED
    BY <1>1, <1>2, <1>5, <2>1, <2>3 DEF SoFar
<1>6. CASE ~Good(j, l)
  <2>1. new = r
    BY <1>6 DEF AfterLabel, Good
  <2>2. S = T
    <3> HIDE DEF N, M, rules, labels
    <3>1. \A i \in 1..M : N + i <= n <=> N + i <= n - 1 \/ i = h
      BY <1>1
    <3> QED
      BY <1>1, <1>6, <3>1
  <2> HIDE DEF new, S, T
  <2>3. LastOfEach(new.labels, j, T)
    BY <1>2, <2>1, <2>2, Zenon
  <2>4. new = [operations |-> r.operations, labels |-> new.labels, err |-> FALSE]
    BY <1>2, <2>1
  <2> QED
    BY <1>5, <2>3, <2>4 DEF new
<1>7. CASE Good(j, l)
  <2> DEFINE o == r.operations
             m == r.labels
             x == [k \in DOMAIN m \cup {l.key} |-> IF k = l.key THEN v ELSE m[k]]
  <2>1. new = [r EXCEPT !.labels = x]
    BY <1>7 DEF AfterLabel, Good
  <2>2. S \cup {h} = T
    <3> HIDE DEF N, M, rules, labels
    <3>1. \A i \in 1..M : N + i <= n <=> N + i <= n - 1 \/ i = h
      BY <1>1
    <3> QED
      BY <1>1, <1>4, <1>7, <3>1
  <2>3. LastOfEach(x, j, S \cup {h})
    <3> HIDE DEF S, h
    <3>1. LastOfEach(m, j, S)
      BY <1>2
    <3> QED
      BY <1>4, <3>1, LabelsOneMore, Zenon
  <2>4. r = [operations |-> o, labels |-> m, err |-> FALSE]
    BY <1>2
  <2> HIDE DEF o, m, x, new, S, T, h
  <2>5. new = [operations |-> o, labels |-> x, err |-> FALSE]
    BY <2>1, <2>4
  <2>6. new.labels = x
    BY <2>5
  <2>7. LastOfEach(new.labels, j, T)
    BY <2>2, <2>3, <2>6, Zenon
  <2>8. new = [operations |-> r.operations, labels |-> new.labels, err |-> FALSE]
    BY <2>5, <2>6 DEF o
  <2> QED
    BY <1>5, <2>7, <2>8 DEF new
<1> QED
  BY <1>6, <1>7

\* A result of all expressions is the reference.
LEMMA AllEvaluated ==
    ASSUME NEW j \in EvaluateJob, NEW r, NEW n \in Nat, n >= Len(Exprs(j)), SoFar(j, n, r)
    PROVE  IsReference(j, r)
<1> DEFINE rules == j.ruleset.rules
           labels == j.ruleset.labels
           N == Len(rules)
           M == Len(labels)
           failing == {i \in DOMAIN rules : Fails(j, rules[i])}
           before == {i \in DOMAIN rules : \A h \in failing : i < h}
<1>1. /\ j.kind = "evaluate" /\ N \in Nat /\ M \in Nat /\ N + M <= n
      /\ DOMAIN rules = 1..N /\ DOMAIN labels = 1..M
  BY RulesetType
<1>2. /\ r = [operations |-> r.operations, labels |-> r.labels, err |-> FALSE]
      /\ \A i \in DOMAIN rules : i <= n => ~Fails(j, rules[i])
      /\ Lists(r.operations, rules,
            {i \in DOMAIN rules : i <= n /\ Matches(j, rules[i])})
      /\ LastOfEach(r.labels, j,
            {i \in DOMAIN labels : N + i <= n /\ Good(j, labels[i])})
  BY <1>1 DEF SoFar, Evaluated
<1> HIDE DEF rules, labels, N, M
<1>3. /\ \A i \in DOMAIN rules : i <= n
      /\ \A i \in DOMAIN labels : N + i <= n
  BY <1>1
<1>4. failing = {}
  BY <1>2, <1>3
<1>5. {i \in DOMAIN rules : i <= n /\ Matches(j, rules[i])} =
        {i \in before : Matches(j, rules[i])}
  BY <1>3, <1>4
<1> HIDE DEF failing
<1>6. {i \in DOMAIN labels : N + i <= n /\ Good(j, labels[i])} =
        {i \in DOMAIN labels : failing = {} /\ Good(j, labels[i])}
  BY <1>3, <1>4
<1> HIDE DEF before
<1>7. /\ Lists(r.operations, rules, {i \in before : Matches(j, rules[i])})
      /\ LastOfEach(r.labels, j,
            {i \in DOMAIN labels : failing = {} /\ Good(j, labels[i])})
  BY <1>2, <1>5, <1>6, Zenon
<1>8. r.err = FALSE
  BY <1>2
<1>9. r.err = (failing # {})
  BY <1>4, <1>8
<1> QED
  BY <1>1, <1>7, <1>9, Zenon DEF IsReference, failing, before, rules, labels

\* Before its first expression a call has no result.
LEMMA NothingEvaluated ==
    ASSUME NEW j \in CompileJob \cup EvaluateJob
    PROVE  SoFar(j, 0, NoResult)
<1>1. /\ NoResult = [operations |-> NoResult.operations, labels |-> NoResult.labels,
                     err |-> FALSE]
      /\ NoResult.operations = <<>> /\ DOMAIN NoResult.labels = {}
      /\ NoResult.operations \in Seq(STRING)
  BY DEF NoResult
<1>2. CASE j \in CompileJob
  <2>1. j.kind = "compile"
    BY <1>2 DEF CompileJob
  <2> QED
    BY <1>1, <2>1 DEF SoFar
<1>3. CASE j \in EvaluateJob
  <2> DEFINE rules == j.ruleset.rules
             labels == j.ruleset.labels
  <2>1. /\ j.kind = "evaluate" /\ Len(rules) \in Nat /\ Len(labels) \in Nat
        /\ DOMAIN rules = 1..Len(rules) /\ DOMAIN labels = 1..Len(labels)
    BY <1>3, RulesetType
  <2>2. /\ {i \in DOMAIN rules : i <= 0 /\ Matches(j, rules[i])} = {}
        /\ {i \in DOMAIN labels : Len(rules) + i <= 0 /\ Good(j, labels[i])} = {}
        /\ \A i \in DOMAIN rules : i <= 0 => ~Fails(j, rules[i])
    BY <2>1
  <2>3. Lists(NoResult.operations, rules, {})
    <3>1. DOMAIN NoResult.operations = {}
      BY <1>1
    <3>2. [k \in {} |-> 0] \in [DOMAIN NoResult.operations -> {}]
      BY <3>1
    <3> QED
      BY <3>1, <3>2, Zenon DEF Lists
  <2>4. LastOfEach(NoResult.labels, j, {})
    BY <1>1 DEF LastOfEach
  <2>5. Evaluated(j, 0, NoResult)
    BY <2>2, <2>3, <2>4, Zenon DEF Evaluated
  <2> QED
    BY <1>1, <2>1, <2>5 DEF SoFar
<1> QED
  BY <1>2, <1>3

\* One more expression, of any job: the call goes on with the result so far,
\* or ends with the reference.
LEMMA ExpressionEvaluated ==
    ASSUME NEW j \in CompileJob \cup EvaluateJob, NEW n \in 1..Len(Exprs(j)), NEW r,
           SoFar(j, n - 1, r), NEW ok \in BOOLEAN, ok <=> Exprs(j)[n] \in Compilable
    PROVE  LET new == AfterExpression(j, n, r, ok)
           IN  IF new.err \/ n >= Len(Exprs(j)) THEN IsReference(j, new) ELSE SoFar(j, n, new)
<1> DEFINE new == AfterExpression(j, n, r, ok)
<1>1. CASE j \in CompileJob
  <2>1. j.kind = "compile" /\ Exprs(j) = <<j.expression>>
    BY <1>1 DEF CompileJob, Exprs
  <2>2. n = 1 /\ n >= Len(Exprs(j)) /\ Exprs(j)[n] = j.expression
    BY <2>1
  <2>3. r = NoResult
    BY <2>1 DEF SoFar
  <2>4. new = [NoResult EXCEPT !.err = ~ok]
    BY <2>1, <2>3 DEF AfterExpression
  <2>5. (~ok) = (j.expression \notin Compilable)
    BY <2>2
  <2> HIDE DEF new
  <2>6. IsReference(j, new)
    BY <2>1, <2>4, <2>5, Zenon DEF IsReference
  <2> QED
    BY <2>2, <2>6 DEF new
<1>2. CASE j \in EvaluateJob
  <2> DEFINE rules == j.ruleset.rules
             labels == j.ruleset.labels
  <2>1. /\ j.kind = "evaluate" /\ Len(rules) \in Nat /\ Len(labels) \in Nat
        /\ Len(Exprs(j)) = Len(rules) + Len(labels)
        /\ Exprs(j)[n] = IF n <= Len(rules) THEN rules[n].expression
                         ELSE labels[n - Len(rules)].expression
    BY <1>2, RulesetType
  <2> HIDE DEF rules, labels
  <2>2. n \in Nat /\ n <= Len(rules) + Len(labels) /\ 1 <= n
    BY <2>1
  <2>3. CASE n <= Len(rules)
    <3>1. new = AfterRule(j, n, r, ok)
      BY <2>1, <2>3 DEF AfterExpression, rules
    <3>2. IF new.err THEN IsReference(j, new) ELSE SoFar(j, n, new)
      BY <1>2, <2>1, <2>2, <2>3, <3>1, RuleEvaluated DEF rules
    <3> HIDE DEF new
    <3> QED
      BY <1>2, <2>2, <3>2, AllEvaluated DEF new
  <2>4. CASE Len(rules) < n
    <3>1. new = AfterLabel(j, n, r, ok)
      <4>1. ~(n <= Len(rules))
        BY <2>1, <2>2, <2>4
      <4> QED
        BY <2>1, <4>1 DEF AfterExpression, rules
    <3>2. SoFar(j, n, new)
      <4>1. ok <=> labels[n - Len(rules)].expression \in Compilable
        BY <2>1, <2>2, <2>4
      <4> QED
        BY <1>2, <2>2, <2>4, <3>1, <4>1, LabelEvaluated, Zenon DEF rules, labels
    <3> HIDE DEF new
    <3>3. new.err = FALSE
      BY <3>2 DEF SoFar
    <3> QED
      BY <1>2, <2>2, <3>2, <3>3, AllEvaluated DEF new
  <2> QED
    BY <2>1, <2>2, <2>3, <2>4
<1> QED
  BY <1>1, <1>2

----------------------------------------------------------------------------
(* The results under every interleaving.                                   *)

ResultInv == OutcomesTrue /\ ResultsSoFar

LEMMA CallResult ==
    ASSUME CacheInv, ResultInv, NEW c \in Caller,
           Return(c) \/ \E j \in Jobs(c) : Call(c, j)
    PROVE  ResultInv'
<1> USE DEF ResultInv, CacheInv
<1>1. /\ programs' = programs /\ pc[c] \in {"idle", "done"}
      /\ \E l \in {"idle", "done", "rlock"} : pc' = [pc EXCEPT ![c] = l]
  BY DEF Return, Call, Goto, cacheVars
<1>2. /\ DOMAIN result' = Caller
      /\ \A d \in Caller : d # c => /\ pc'[d] = pc[d] /\ job'[d] = job[d]
                                    /\ pos'[d] = pos[d] /\ result'[d] = result[d]
  BY DEF Return, Call, Goto, TypeOK, AtExpression, ResultsSoFar
<1>3. OutcomesTrue'
  BY <1>1, <1>2 DEF OutcomesTrue, Expr, TypeOK
<1>4. CASE Return(c)
  <2>1. pc'[c] = "idle" /\ result'[c] = NoResult
    BY <1>4 DEF Return, Goto, TypeOK, ResultsSoFar
  <2> QED
    BY <1>2, <1>3, <2>1 DEF ResultsSoFar
<1>5. ASSUME NEW j \in Jobs(c), Call(c, j) PROVE ResultInv'
  <2>1. /\ pc[c] = "idle" /\ job'[c] = j /\ pos'[c] = 1 /\ result'[c] = NoResult
        /\ pc'[c] = IF Exprs(j) = <<>> THEN "done" ELSE "rlock"
    BY <1>5 DEF Call, Goto, TypeOK, AtExpression, ResultsSoFar
  <2>2. j \in CompileJob \cup EvaluateJob
    BY JobsType
  <2>3. SoFar(j, 0, NoResult)
    BY <2>2, NothingEvaluated
  <2>4. Exprs(j) = <<>> => IsReference(j, NoResult)
    <3> HAVE Exprs(j) = <<>>
    <3>1. j \in EvaluateJob
      BY <2>2 DEF CompileJob, Exprs
    <3>2. 0 >= Len(Exprs(j))
      OBVIOUS
    <3> QED
      BY <2>3, <3>1, <3>2, AllEvaluated
  <2>5. SoFar(j, pos'[c] - 1, NoResult)
    BY <2>1, <2>3
  <2> QED
    BY <1>2, <1>3, <2>1, <2>4, <2>5 DEF ResultsSoFar
<1> QED
  BY <1>4, <1>5

\* Between the start and the end of GetOrCompile no result changes.
LEMMA InsideResult ==
    ASSUME CacheInv, ResultInv, NEW c \in Caller,
           \/ RLock(c) \/ Miss(c) \/ AnnounceLock(c) \/ Lock(c)
           \/ Compile(c) \/ Store(c) \/ Measure(c)
    PROVE  ResultInv'
<1> USE DEF ResultInv, CacheInv
<1>1. job' = job /\ pos' = pos /\ result' = result
  BY DEF RLock, Miss, AnnounceLock, Lock, Compile, Store, Measure, callVars
<1>2. /\ pc[c] \notin {"idle", "done"}
      /\ \E l \in {"read", "rwait", "lock", "drain", "unlock", "compile", "store", "fail",
                   "gauge"} : pc' = [pc EXCEPT ![c] = l]
  BY DEF RLock, Miss, AnnounceLock, Lock, AfterMiss, Compile, FailCompile, Store, Measure, Goto
<1>3. ResultsSoFar'
  BY <1>1, <1>2 DEF ResultsSoFar, TypeOK
<1>4. \A d \in Caller : Expr(d)' = Expr(d)
  BY <1>1 DEF Expr
<1>5. OutcomesTrue'
  <2> USE DEF OutcomesTrue, TypeOK
  <2>1. CASE RLock(c) \/ Miss(c) \/ AnnounceLock(c) \/ Lock(c)
    <3>1. programs' = programs
      BY <2>1 DEF RLock, Miss, AnnounceLock, Lock, cacheVars
    <3> QED
      BY <1>4, <2>1, <3>1 DEF RLock, Miss, AnnounceLock, Lock, AfterMiss, Goto
  <2>2. CASE Compile(c)
    BY <1>4, <2>2 DEF Compile, FailCompile, Goto, cacheVars
  <2>3. CASE Store(c)
    BY <1>4, <2>3 DEF Store, Goto
  <2>4. CASE Measure(c)
    BY <1>4, <2>4 DEF Measure, Goto
  <2> QED
    BY <2>1, <2>2, <2>3, <2>4
<1> QED
  BY <1>3, <1>5

\* GetOrCompile returns, and the evaluator takes in its outcome.
LEMMA ReturnResult ==
    ASSUME CacheInv, ResultInv, NEW c \in Caller, Hit(c) \/ Release(c)
    PROVE  ResultInv'
<1> USE DEF ResultInv, CacheInv
<1>1. programs' = programs /\ pc[c] \in {"read", "unlock", "fail"}
  BY DEF Hit, Release, cacheVars
<1>2. PICK ok \in BOOLEAN :
        /\ ok <=> Expr(c) \in Compilable
        /\ Returns(c, ok)
        /\ \/ pc[c] = "read" /\ pc' = [pc EXCEPT ![c] = Onward(c, ok)]
           \/ pc[c] # "read" /\ Unlock(c, Onward(c, ok))
  <2>1. CASE Hit(c)
    BY <2>1 DEF Hit, Goto, OutcomesTrue
  <2>2. CASE Release(c)
    <3>1. (pc[c] = "unlock") <=> Expr(c) \in Compilable
      BY <2>2 DEF Release, OutcomesTrue
    <3> QED
      BY <2>2, <3>1 DEF Release
  <2> QED
    BY <2>1, <2>2
<1> DEFINE j == job[c]
           n == pos[c]
           new == AfterExpression(j, n, result[c], ok)
<1>3. /\ job' = job /\ pos' \in [Caller -> Nat]
      /\ \A d \in Caller : d # c => pos'[d] = pos[d]
  BY <1>1, <1>2, OnwardAtExpression
<1>4. /\ j \in CompileJob \cup EvaluateJob /\ n \in 1..Len(Exprs(j)) /\ n \in Nat
      /\ SoFar(j, n - 1, result[c])
  BY <1>1 DEF AtExpression, ResultsSoFar
<1>5. IF new.err \/ n >= Len(Exprs(j)) THEN IsReference(j, new) ELSE SoFar(j, n, new)
  BY <1>2, <1>4, ExpressionEvaluated, Zenon DEF Expr
<1>6. /\ result' = [result EXCEPT ![c] = new]
      /\ pos'[c] = IF Last(c, ok) THEN n ELSE n + 1
      /\ Onward(c, ok) = IF Last(c, ok) THEN "done" ELSE "rlock"
      /\ Last(c, ok) <=> (new.err \/ n >= Len(Exprs(j)))
  BY <1>2, <1>3 DEF Returns, Onward, Last, Outcome, AtExpression
<1> HIDE DEF new
<1>7. /\ pc'[c] = Onward(c, ok)
      /\ \A d \in Caller : d # c =>
            pc'[d] = pc[d] \/ (pc[d] = "rwait" /\ pc'[d] = "read")
  BY <1>2 DEF TypeOK, Unlock, Waiting
<1>8. DOMAIN result' = Caller /\ result'[c] = new
      /\ \A d \in Caller : d # c => result'[d] = result[d]
  BY <1>6 DEF ResultsSoFar
<1>9. CASE Last(c, ok)
  <2>1. pc'[c] = "done" /\ IsReference(job'[c], result'[c])
    BY <1>3, <1>5, <1>6, <1>7, <1>8, <1>9
  <2>2. ResultsSoFar'
    BY <1>3, <1>7, <1>8, <2>1 DEF ResultsSoFar
  <2>3. OutcomesTrue'
    BY <1>1, <1>3, <1>7, <2>1 DEF OutcomesTrue, Expr
  <2> QED
    BY <2>2, <2>3
<1>10. CASE ~Last(c, ok)
  <2>1. pc'[c] = "rlock" /\ SoFar(job'[c], pos'[c] - 1, result'[c])
    <3>1. pos'[c] - 1 = n
      BY <1>4, <1>6, <1>10
    <3> QED
      BY <1>3, <1>5, <1>6, <1>7, <1>8, <1>10, <3>1
  <2>2. ResultsSoFar'
    BY <1>3, <1>7, <1>8, <2>1 DEF ResultsSoFar
  <2>3. OutcomesTrue'
    BY <1>1, <1>3, <1>7, <2>1 DEF OutcomesTrue, Expr
  <2> QED
    BY <2>2, <2>3
<1> QED
  BY <1>9, <1>10

\* What a call returns depends on its arguments alone: neither on what is
\* cached already nor on the calls that run beside it.
THEOREM ResultsAreReferences == Spec => []ResultIsReference
<1>1. Init => ResultInv
  BY DEF Init, ResultInv, OutcomesTrue, ResultsSoFar
<1>2. CacheInv /\ ResultInv /\ [Next]_vars => ResultInv'
  <2> SUFFICES ASSUME CacheInv, ResultInv, [Next]_vars PROVE ResultInv'
    OBVIOUS
  <2>1. ASSUME NEW c \in Caller, Step(c) \/ \E j \in Jobs(c) : Call(c, j)
        PROVE  ResultInv'
    <3>1. \/ Return(c) \/ \E j \in Jobs(c) : Call(c, j)
          \/ RLock(c) \/ Miss(c) \/ AnnounceLock(c) \/ Lock(c)
          \/ Compile(c) \/ Store(c) \/ Measure(c)
          \/ Hit(c) \/ Release(c)
      BY <2>1 DEF Step
    <3> QED
      BY <3>1, CallResult, InsideResult, ReturnResult
  <2>2. CASE UNCHANGED vars
    BY <2>2 DEF vars, cacheVars, callVars, ResultInv, OutcomesTrue, ResultsSoFar, Expr
  <2> QED
    BY <2>1, <2>2 DEF Next
<1>3. ResultInv => ResultIsReference
  BY DEF ResultInv, ResultsSoFar, ResultIsReference
<1> QED
  BY <1>1, <1>2, <1>3, CacheInvHolds, PTL DEF Spec
=============================================================================
