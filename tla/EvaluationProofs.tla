--------------------------- MODULE EvaluationProofs ---------------------------
(***************************************************************************)
(* Proofs about the worker of evaluation runs and about the algorithms     *)
(* that decide.  EvalRuns, for any workers and runs, as long as nobody     *)
(* runs the retry statement while a worker executes a run (CarefulSpec):   *)
(* the invariant says what a worker may expect of the row that it holds.   *)
(* EvalVerdict, Detection and ProtocolChoice, for any weights, thresholds, *)
(* spans, replies, runs and similarities: their totals are sums over       *)
(* finite sets, so the lemmas about sums come before them.                 *)
(***************************************************************************)
EXTENDS MCEvalRuns, MCDecisions, Sequences, FiniteSetTheorems, WellFoundedInduction, TLAPS

-----------------------------------------------------------------------------
(* The worker of evaluation runs: EvalRuns *)

Holding == {"claiming", "claimed", "judging", "report", "error"}

Types ==
  /\ status \in [Run -> {"none", "pending", "running", "completed", "failed"}]
  /\ details \in [Run -> {"none", "cases", "report", "audited"}]
  /\ passed \in [Run -> BOOLEAN]
  /\ worker \in [Worker -> Task]
  /\ approved \subseteq Run
  /\ retried \subseteq Run
  /\ stranded \subseteq Run
  /\ errors \in 0..MaxErrors
  /\ retries \in 0..MaxRetries

\* A worker has one run, and none when it is idle.
OneEach ==
  \A w \in Worker : IF worker[w].at = "idle" THEN worker[w].run = {}
                    ELSE \E r \in Run : worker[w].run = {r}

\* What the row of a worker's run says.
RowOfRun ==
  \A w \in Worker : \A r \in worker[w].run :
    status[r] = CASE worker[w].at = "claiming" -> "pending"
                  [] worker[w].at = "audit"    -> "completed"
                  [] OTHER                     -> "running"

\* No two workers hold a row.
HeldByOne ==
  \A v, w \in Worker :
    v # w /\ worker[v].at \in Holding /\ worker[w].at \in Holding =>
      worker[v].run \cap worker[w].run = {}

\* A report that passes is that of a run that the comparator let pass.
VerdictIsApproved ==
  \A w \in Worker : worker[w].at = "report" /\ worker[w].passed => worker[w].run \subseteq approved

IInv ==
  /\ Types /\ OneEach /\ RowOfRun /\ HeldByOne
  /\ VerdictIsApproved /\ RetryFindsCases /\ PassedIsApproved

CarefulNext == Next /\ (Retry => \A w \in Worker : Executing(w) = {})

-----------------------------------------------------------------------------
LEMMA InitInv == Init => IInv
BY EvalRunsAssumption
   DEF Init, IInv, Types, OneEach, RowOfRun, HeldByOne, VerdictIsApproved, RetryFindsCases,
       PassedIsApproved, Idle, Task, Holding

\* A row that is posted is nobody's.
LEMMA PostInv == ASSUME IInv, NEW r \in Run, Post(r) PROVE IInv'
<1>1. (Types /\ OneEach)'
  BY DEF IInv, Types, OneEach, Post, history
<1>2. (RowOfRun /\ HeldByOne /\ VerdictIsApproved)'
  BY DEF IInv, Types, OneEach, RowOfRun, HeldByOne, VerdictIsApproved, Post, history, Task
<1>3. (RetryFindsCases /\ PassedIsApproved)'
  BY EvalRunsAssumption DEF IInv, Types, RetryFindsCases, PassedIsApproved, Post, history
<1>4. QED BY <1>1, <1>2, <1>3 DEF IInv

\* The claim takes a row that nobody has locked; those that execute have running rows.
LEMMA ClaimInv == ASSUME IInv, NEW w \in Worker, NEW r \in Run, Claim(w, r) PROVE IInv'
<1>1. /\ status[r] = "pending" /\ r \notin Locked /\ worker[w].at = "idle"
      /\ worker' = [worker EXCEPT ![w].at = "claiming", ![w].run = {r}]
      /\ UNCHANGED <<status, details, passed, history>>
  BY DEF Claim
<1>2. (Types /\ OneEach)'
  BY <1>1, ZenonT(30) DEF IInv, Types, OneEach, history, Task
<1>3. (RowOfRun /\ VerdictIsApproved)'
  BY <1>1, <1>2 DEF IInv, Types, RowOfRun, VerdictIsApproved, history, Task
<1>4. HeldByOne'
  <2>1. ASSUME NEW v \in Worker, v # w, worker[v].at \in Holding PROVE r \notin worker[v].run
    BY <1>1, <2>1 DEF IInv, RowOfRun, Locked, Holding
  <2>2. QED BY <1>1, <2>1 DEF IInv, Types, HeldByOne, Holding, Task
<1>5. (RetryFindsCases /\ PassedIsApproved)'
  BY <1>1 DEF IInv, RetryFindsCases, PassedIsApproved, history
<1>6. QED BY <1>2, <1>3, <1>4, <1>5 DEF IInv

\* The row of a claim changes under no other worker: nobody else holds it, and a row
\* that awaits the auditor is completed.
LEMMA ClaimedInv == ASSUME IInv, NEW w \in Worker, NEW r \in Run, Claimed(w, r) PROVE IInv'
<1>1. worker[w].run = {r} /\ status[r] = "pending"
  BY DEF IInv, OneEach, RowOfRun, Claimed
<1>2. ASSUME NEW v \in Worker, v # w PROVE r \notin worker[v].run
  <2>1. worker[v].at \in Holding \cup {"idle", "audit"}
    BY DEF IInv, Types, Task, Holding
  <2>2. CASE worker[v].at \in Holding
    BY <1>1, <1>2, <2>2 DEF IInv, HeldByOne, Holding, Claimed
  <2>3. CASE worker[v].at = "idle"
    BY <2>3 DEF IInv, OneEach
  <2>4. CASE worker[v].at = "audit"
    BY <1>1, <2>4 DEF IInv, RowOfRun
  <2>5. QED BY <2>1, <2>2, <2>3, <2>4
<1>3. (Types /\ OneEach /\ HeldByOne /\ VerdictIsApproved)'
  BY SMTT(30) DEF IInv, Types, OneEach, HeldByOne, VerdictIsApproved, Holding, Claimed, history, Task
<1>4. RowOfRun'
  BY <1>1, <1>2 DEF IInv, Types, RowOfRun, Claimed, Task
<1>5. (RetryFindsCases /\ PassedIsApproved)'
  BY <1>1, EvalRunsAssumption DEF IInv, Types, RetryFindsCases, PassedIsApproved, Claimed, history
<1>6. QED BY <1>3, <1>4, <1>5 DEF IInv

-----------------------------------------------------------------------------
(* EvalRuns: execution *)

\* A worker that executes a run has the row to itself: it is running, and no other
\* worker has it, not even the auditor.
LEMMA RowIsOwn ==
  ASSUME IInv, NEW w \in Worker, NEW r \in worker[w].run,
         worker[w].at \in Holding \ {"claiming"}
  PROVE  /\ r \in Run /\ worker[w].run = {r} /\ status[r] = "running"
         /\ \A v \in Worker \ {w} : r \notin worker[v].run
<1>1. r \in Run /\ worker[w].run = {r} /\ status[r] = "running"
  BY DEF IInv, OneEach, RowOfRun, Holding
<1>2. ASSUME NEW v \in Worker \ {w} PROVE r \notin worker[v].run
  <2>1. worker[v].at \in Holding \cup {"idle", "audit"}
    BY DEF IInv, Types, Task, Holding
  <2>2. CASE worker[v].at \in Holding
    BY <1>2, <2>2 DEF IInv, HeldByOne, Holding
  <2>3. CASE worker[v].at = "idle"
    BY <2>3 DEF IInv, OneEach
  <2>4. CASE worker[v].at = "audit"
    BY <1>1, <2>4 DEF IInv, RowOfRun
  <2>5. QED BY <2>1, <2>2, <2>3, <2>4
<1>3. QED BY <1>1, <1>2

\* A run without cases is completed: it is not one of HasCases.
LEMMA CompleteEmptyInv ==
  ASSUME IInv, NEW w \in Worker, NEW r \in Run, CompleteEmpty(w, r) PROVE IInv'
<1>1. /\ status[r] = "running"
      /\ \A v \in Worker \ {w} : r \notin worker[v].run
  BY RowIsOwn DEF CompleteEmpty, Holding
<1>2. (Types /\ OneEach /\ HeldByOne /\ VerdictIsApproved)'
  BY DEF IInv, Types, OneEach, HeldByOne, VerdictIsApproved, Holding, CompleteEmpty, Idle, history, Task
<1>3. RowOfRun'
  BY <1>1 DEF IInv, Types, RowOfRun, CompleteEmpty, Idle, Task
<1>4. r \notin HasCases
  BY <1>1 DEF IInv, RetryFindsCases, CompleteEmpty
<1>5. (RetryFindsCases /\ PassedIsApproved)'
  BY <1>4, EvalRunsAssumption DEF IInv, Types, RetryFindsCases, PassedIsApproved, CompleteEmpty, history
<1>6. QED BY <1>2, <1>3, <1>5 DEF IInv

LEMMA LoadCasesInv ==
  ASSUME IInv, NEW w \in Worker, NEW r \in Run, LoadCases(w, r) PROVE IInv'
<1>1. (Types /\ OneEach /\ HeldByOne /\ VerdictIsApproved)'
  BY DEF IInv, Types, OneEach, HeldByOne, VerdictIsApproved, Holding, LoadCases, history, Task
<1>2. (RowOfRun /\ RetryFindsCases /\ PassedIsApproved)'
  BY DEF IInv, Types, RowOfRun, RetryFindsCases, PassedIsApproved, LoadCases, history, Task
<1>3. QED BY <1>1, <1>2 DEF IInv

\* Only a verdict makes a report that passes.
LEMMA JudgeInv ==
  ASSUME IInv, NEW w \in Worker, NEW r \in Run, Judge(w, r) PROVE IInv'
<1>1. PICK passes \in BOOLEAN :
        /\ worker' = [worker EXCEPT ![w].at = "report", ![w].passed = passes]
        /\ approved' = IF passes THEN approved \cup {r} ELSE approved
  BY DEF Judge
<1>2. worker[w].at = "judging" /\ worker[w].run = {r}
  BY DEF IInv, OneEach, Judge
<1>3. (Types /\ OneEach /\ HeldByOne)'
  <2>1. UNCHANGED <<status, details, passed, retried, stranded, errors, retries>>
    BY DEF Judge
  <2>2. worker[w].run = {r} /\ worker'[w].run = {r} /\ worker'[w].at = "report"
    BY <1>1, <1>2 DEF IInv, Types, Task
  <2>3. Types'
    BY <1>1, <2>1, ZenonT(30) DEF IInv, Types, Task
  <2>4. OneEach'
    BY <1>1, <2>2 DEF IInv, Types, OneEach, Task
  <2>5. HeldByOne'
    BY <1>1, <1>2 DEF IInv, Types, HeldByOne, Holding, Task
  <2>6. QED BY <2>3, <2>4, <2>5
<1>4. VerdictIsApproved'
  BY <1>1, <1>2 DEF IInv, Types, VerdictIsApproved, Task
<1>5. RowOfRun'
  BY <1>1, <1>2 DEF IInv, Types, RowOfRun, Judge, Task
<1>6. (RetryFindsCases /\ PassedIsApproved)'
  BY <1>1, <1>2 DEF IInv, RetryFindsCases, PassedIsApproved, Judge, history
<1>7. QED BY <1>3, <1>4, <1>5, <1>6 DEF IInv

LEMMA JudgeRaisesInv == ASSUME IInv, NEW w \in Worker, JudgeRaises(w) PROVE IInv'
<1>1. (Types /\ OneEach /\ HeldByOne /\ VerdictIsApproved)'
  BY DEF IInv, Types, OneEach, HeldByOne, VerdictIsApproved, Holding, JudgeRaises, history, Task
<1>2. RowOfRun'
  BY DEF IInv, Types, RowOfRun, JudgeRaises, Task
<1>3. (RetryFindsCases /\ PassedIsApproved)'
  BY DEF IInv, RetryFindsCases, PassedIsApproved, JudgeRaises, history
<1>4. QED BY <1>1, <1>2, <1>3 DEF IInv

\* The cases of a failed run are still there, since its row was running.
LEMMA WriteErrorInv ==
  ASSUME IInv, NEW w \in Worker, NEW r \in Run, WriteError(w, r) PROVE IInv'
<1>1. /\ status[r] = "running"
      /\ \A v \in Worker \ {w} : r \notin worker[v].run
  BY RowIsOwn DEF WriteError, Holding
<1>2. (Types /\ OneEach /\ HeldByOne /\ VerdictIsApproved)'
  BY DEF IInv, Types, OneEach, HeldByOne, VerdictIsApproved, Holding, WriteError, Idle, history, Task
<1>3. RowOfRun'
  BY <1>1 DEF IInv, Types, RowOfRun, WriteError, Idle, Task
<1>4. (RetryFindsCases /\ PassedIsApproved)'
  BY <1>1, EvalRunsAssumption DEF IInv, Types, RetryFindsCases, PassedIsApproved, WriteError, history
<1>5. QED BY <1>2, <1>3, <1>4 DEF IInv

\* The report completes the run, so the cases that it replaces are not needed again.
LEMMA WriteReportInv ==
  ASSUME IInv, NEW w \in Worker, NEW r \in Run, WriteReport(w, r) PROVE IInv'
<1>1. /\ worker[w].run = {r}
      /\ \A v \in Worker \ {w} : r \notin worker[v].run
  BY RowIsOwn DEF WriteReport, Holding
<1>2. worker[w].passed \in BOOLEAN
  BY DEF IInv, Types, Task
<1>3. (Types /\ OneEach)'
  BY <1>1, <1>2 DEF IInv, Types, OneEach, WriteReport, Idle, history, Task
<1>4. (HeldByOne /\ VerdictIsApproved)'
  BY DEF IInv, Types, HeldByOne, VerdictIsApproved, Holding, WriteReport, Idle, history, Task
<1>5. RowOfRun'
  BY <1>1 DEF IInv, Types, RowOfRun, WriteReport, Idle, Task
<1>6. RetryFindsCases'
  BY EvalRunsAssumption DEF IInv, Types, RetryFindsCases, WriteReport
<1>7. PassedIsApproved'
  BY <1>1, EvalRunsAssumption DEF IInv, Types, PassedIsApproved, VerdictIsApproved, WriteReport, history
<1>8. QED BY <1>3, <1>4, <1>5, <1>6, <1>7 DEF IInv

\* The auditor's run is completed.
LEMMA AuditInv ==
  ASSUME IInv, NEW w \in Worker, NEW r \in Run, Audit(w, r) PROVE IInv'
<1>1. status[r] = "completed"
  BY DEF IInv, RowOfRun, Audit
<1>2. (Types /\ OneEach /\ HeldByOne /\ VerdictIsApproved)'
  BY DEF IInv, Types, OneEach, HeldByOne, VerdictIsApproved, Holding, Audit, Idle, history, Task
<1>3. (RowOfRun /\ PassedIsApproved)'
  BY DEF IInv, Types, RowOfRun, PassedIsApproved, Audit, Idle, history, Task
<1>4. RetryFindsCases'
  BY <1>1, EvalRunsAssumption DEF IInv, Types, RetryFindsCases, Audit
<1>5. QED BY <1>2, <1>3, <1>4 DEF IInv

-----------------------------------------------------------------------------
(* EvalRuns: failures, crashes and retries *)

\* A worker that stops leaves its row as it is.
LEMMA StopInv ==
  ASSUME IInv, NEW w \in Worker, Stop(w), errors < MaxErrors, errors' = errors + 1 PROVE IInv'
<1>1. errors' \in 0..MaxErrors
  BY EvalRunsAssumption DEF IInv, Types
<1>2. stranded' \subseteq Run
  BY DEF IInv, Types, Stop, Task
<1>3. (Types /\ OneEach)'
  BY <1>1, <1>2 DEF IInv, Types, OneEach, Stop, Idle, Task
<1>4. (HeldByOne /\ VerdictIsApproved)'
  BY DEF IInv, Types, HeldByOne, VerdictIsApproved, Holding, Stop, Idle, Task
<1>5. (RowOfRun /\ RetryFindsCases /\ PassedIsApproved)'
  BY DEF IInv, Types, RowOfRun, RetryFindsCases, PassedIsApproved, Stop, Idle, Task
<1>6. QED BY <1>3, <1>4, <1>5 DEF IInv

\* A retry meets no worker that executes: the running rows are nobody's.
LEMMA RetryInv ==
  ASSUME IInv, Retry, \A w \in Worker : Executing(w) = {} PROVE IInv'
<1>1. retries' \in 0..MaxRetries
  BY EvalRunsAssumption DEF IInv, Types, Retry
<1>2. Types'
  BY <1>1 DEF IInv, Types, Retry
<1>3. (OneEach /\ HeldByOne /\ VerdictIsApproved)'
  BY DEF IInv, OneEach, HeldByOne, VerdictIsApproved, Retry
<1>4. ASSUME NEW w \in Worker, NEW r \in worker[w].run
      PROVE  worker[w].at \in {"claiming", "audit"} /\ r \in Run /\ status[r] # "running"
  BY DEF IInv, OneEach, RowOfRun, Executing
<1>5. RowOfRun'
  BY <1>4 DEF IInv, Types, RowOfRun, Retry
<1>6. (RetryFindsCases /\ PassedIsApproved)'
  BY EvalRunsAssumption DEF IInv, Types, RetryFindsCases, PassedIsApproved, Retry
<1>7. QED BY <1>2, <1>3, <1>5, <1>6 DEF IInv

-----------------------------------------------------------------------------
\* Every step keeps the invariant.
LEMMA NextInv == IInv /\ [CarefulNext]_vars => IInv'
<1> SUFFICES ASSUME IInv, [CarefulNext]_vars PROVE IInv'
  OBVIOUS
<1>1. CASE \E r \in Run : Post(r)
  BY <1>1, PostInv
<1>2. CASE \E w \in Worker : Step(w)
  BY <1>2, ClaimInv, ClaimedInv, CompleteEmptyInv, LoadCasesInv, JudgeInv, JudgeRaisesInv,
     WriteReportInv, WriteErrorInv, AuditInv DEF Step
<1>3. CASE \E w \in Worker : DatabaseError(w) \/ Crash(w)
  BY <1>3, StopInv DEF DatabaseError, Crash
<1>4. CASE Retry /\ \A w \in Worker : Executing(w) = {}
  BY <1>4, RetryInv
<1>5. CASE UNCHANGED vars
  BY <1>5 DEF vars, IInv, Types, OneEach, RowOfRun, HeldByOne, VerdictIsApproved,
              RetryFindsCases, PassedIsApproved
<1>6. QED BY <1>1, <1>2, <1>3, <1>4, <1>5 DEF CarefulNext, Next

\* The invariant holds in every state.
THEOREM EvalRunsInvariant == CarefulSpec => []IInv
<1>1. [Next /\ (Retry => \A w \in Worker : Executing(w) = {})]_vars => [CarefulNext]_vars
  BY DEF CarefulNext
<1>2. QED BY <1>1, InitInv, NextInv, PTL DEF CarefulSpec

\* The row that a worker executes is its own, and a row that may be claimed again has
\* its cases: _claim_pending_eval_run() and the retry of its docstring are safe
\* together, for any number of workers, failures and crashes.
THEOREM EvalRunsClaimsAreSafe == CarefulSpec => []ClaimsAreSafe
<1>1. IInv => TypeOK
  <2> SUFFICES ASSUME IInv, NEW w \in Worker
               PROVE  Cardinality(worker[w].run) = IF worker[w].at = "idle" THEN 0 ELSE 1
    BY DEF IInv, Types, TypeOK
  <2>1. CASE worker[w].at = "idle"
    BY <2>1, FS_EmptySet DEF IInv, OneEach
  <2>2. CASE worker[w].at # "idle"
    BY <2>2, FS_Singleton DEF IInv, OneEach
  <2>3. QED BY <2>1, <2>2
<1>2. IInv => ClaimedOnce
  BY DEF IInv, Types, Task, HeldByOne, Holding, ClaimedOnce, Executing
<1>3. IInv => RetryFindsCases
  BY DEF IInv
<1>4. QED BY <1>1, <1>2, <1>3, EvalRunsInvariant, PTL DEF ClaimsAreSafe

\* A run with cases passes only if the comparator let it pass (_execute_eval_run).
THEOREM EvalRunsPassedIsApproved == CarefulSpec => []PassedIsApproved
<1>1. IInv => PassedIsApproved
  BY DEF IInv
<1>2. QED BY <1>1, EvalRunsInvariant, PTL

-----------------------------------------------------------------------------
(* Sums *)

Below == {ss \in Nat \X Nat : ss[1] < ss[2]}

LEMMA BelowWF == IsWellFoundedOn(Below, Nat)
BY NatLessThanWellFounded DEF OpToRel, Below

\* A set that has zero, and the successors of what it has, has every number.
LEMMA Counting ==
  ASSUME NEW T \in SUBSET Nat, 0 \in T, \A n \in T : n + 1 \in T
  PROVE  T = Nat
<1> DEFINE B == Nat \ T
<1> SUFFICES ASSUME B # {} PROVE FALSE
  OBVIOUS
<1>1. PICK n \in B : \A k \in B : ~(<<k, n>> \in Below)
  <2>1. B \subseteq Nat
    OBVIOUS
  <2> HIDE DEF B
  <2>2. QED BY <2>1, BelowWF, WFMin
<1>2. n \in Nat /\ n # 0 /\ n - 1 \in Nat /\ n - 1 < n
  BY <1>1
<1>3. n - 1 \in T
  BY <1>1, <1>2 DEF Below
<1>4. QED BY <1>1, <1>2, <1>3

\* The element that the sums take first.
One(s) == CHOOSE x \in s : TRUE

\* What holds of the empty set, and of a set if of what is left without its first
\* element, holds of every finite set.
LEMMA Peeling ==
  ASSUME NEW S, IsFiniteSet(S), NEW T \in SUBSET (SUBSET S), {} \in T,
         \A s \in SUBSET S : s # {} /\ s \ {One(s)} \in T => s \in T
  PROVE  S \in T
<1> DEFINE N == {n \in Nat : \A s \in SUBSET S : Cardinality(s) = n => s \in T}
<1>1. \A s \in SUBSET S : IsFiniteSet(s) /\ Cardinality(s) \in Nat
  BY FS_Subset, FS_CardinalityType
<1>2. 0 \in N
  BY <1>1, FS_EmptySet
<1>3. ASSUME NEW n \in N PROVE n + 1 \in N
  <2>1. ASSUME NEW s \in SUBSET S, Cardinality(s) = n + 1 PROVE s \in T
    <3>1. IsFiniteSet(s) /\ s # {} /\ n \in Nat
      BY <1>1, <2>1, FS_EmptySet
    <3>2. One(s) \in s
      BY <3>1 DEF One
    <3>3. Cardinality(s \ {One(s)}) = n
      <4>1. Cardinality(s \ {One(s)}) = Cardinality(s) - 1
        BY <3>1, <3>2, FS_RemoveElement
      <4>2. QED BY <2>1, <3>1, <4>1
    <3>4. s \ {One(s)} \in T
      BY <3>3
    <3>5. QED BY <3>1, <3>4
  <2>2. n + 1 \in Nat
    OBVIOUS
  <2>3. QED BY <2>1, <2>2
<1>4. N = Nat
  <2>1. N \in SUBSET Nat
    OBVIOUS
  <2> HIDE DEF N
  <2>2. QED BY <1>2, <1>3, <2>1, Counting
<1>5. QED BY <1>1, <1>4

\* g holds the sums of F over the subsets of S.
Adds(g, S, F) ==
  g = [s \in SUBSET S |-> IF s = {} THEN 0 ELSE F[One(s)] + g[s \ {One(s)}]]

\* There are such sums.
LEMMA SumsExist ==
  ASSUME NEW S, IsFiniteSet(S), NEW F \in [S -> Int]
  PROVE  \E g : Adds(g, S, F)
<1> DEFINE Peeled(g) == [s \in SUBSET S |-> IF s = {} THEN 0 ELSE F[One(s)] + g[s \ {One(s)}]]
           N == {n \in Nat : \E g : g = [s \in SUBSET S |-> g[s]]
                               /\ \A s \in SUBSET S : Cardinality(s) <= n => g[s] = Peeled(g)[s]}
<1>1. \A s \in SUBSET S : IsFiniteSet(s) /\ Cardinality(s) \in Nat /\ Cardinality(s) <= Cardinality(S)
  BY FS_Subset, FS_CardinalityType
<1>2. 0 \in N
  <2> DEFINE z == [s \in SUBSET S |-> 0]
  <2>1. \A s \in SUBSET S : Cardinality(s) <= 0 => s = {}
    BY <1>1, FS_EmptySet
  <2>2. \A s \in SUBSET S : Cardinality(s) <= 0 => z[s] = Peeled(z)[s]
    BY <2>1
  <2>3. z = [s \in SUBSET S |-> z[s]]
    OBVIOUS
  <2> HIDE DEF z
  <2>4. QED BY <2>2, <2>3
<1>3. ASSUME NEW n \in N PROVE n + 1 \in N
  <2>1. PICK g : g = [s \in SUBSET S |-> g[s]] /\ \A s \in SUBSET S : Cardinality(s) <= n => g[s] = Peeled(g)[s]
    OBVIOUS
  <2> DEFINE h == Peeled(g)
  <2>2. ASSUME NEW s \in SUBSET S, Cardinality(s) <= n + 1 PROVE h[s] = Peeled(h)[s]
    <3>1. CASE s = {}
      BY <3>1
    <3>2. CASE s # {}
      <4>1. One(s) \in s
        BY <3>2 DEF One
      <4>2. Cardinality(s \ {One(s)}) <= n /\ s \ {One(s)} \in SUBSET S
        BY <1>1, <2>2, <4>1, FS_RemoveElement
      <4>3. g[s \ {One(s)}] = h[s \ {One(s)}]
        BY <2>1, <4>2
      <4>4. h[s] = F[One(s)] + g[s \ {One(s)}]
        BY <3>2
      <4>5. Peeled(h)[s] = F[One(s)] + h[s \ {One(s)}]
        <5> HIDE DEF h
        <5>1. QED BY <3>2
      <4>6. QED BY <4>3, <4>4, <4>5
    <3>3. QED BY <3>1, <3>2
  <2>3. h = [s \in SUBSET S |-> h[s]]
    OBVIOUS
  <2> HIDE DEF h
  <2>4. \E k : k = [s \in SUBSET S |-> k[s]]
             /\ \A s \in SUBSET S : Cardinality(s) <= n + 1 => k[s] = Peeled(k)[s]
    <3> HIDE DEF Peeled
    <3>1. QED BY <2>2, <2>3
  <2>5. n + 1 \in Nat
    OBVIOUS
  <2>6. QED BY <2>4, <2>5
<1>4. N = Nat
  <2>1. N \in SUBSET Nat
    OBVIOUS
  <2> HIDE DEF N
  <2>2. QED BY <1>2, <1>3, <2>1, Counting
<1>5. PICK g : /\ g = [s \in SUBSET S |-> g[s]]
              /\ \A s \in SUBSET S : Cardinality(s) <= Cardinality(S) => g[s] = Peeled(g)[s]
  <2>1. Cardinality(S) \in N
    BY <1>1, <1>4
  <2>2. QED BY <2>1
<1>6. g = Peeled(g)
  BY <1>1, <1>5
<1>7. QED BY <1>6 DEF Adds

Sum(F) == Verdict!SumFunction(F)

LEMMA SumOf ==
  ASSUME NEW S, IsFiniteSet(S), NEW F \in [S -> Int]
  PROVE  \E g : Adds(g, S, F) /\ Sum(F) = g[S]
<1> DEFINE g == CHOOSE g : Adds(g, S, F)
<1>1. Adds(g, S, F)
  BY SumsExist
<1>2. Sum(F) = g[S]
  <2>1. DOMAIN F = S
    OBVIOUS
  <2>2. QED BY Zenon, <2>1 DEF Sum, Adds, One, Verdict!SumFunction, Verdict!SumFunctionOnSet,
            Verdict!FoldFunctionOnSet, Verdict!MapThenFoldSet
<1>3. QED BY <1>1, <1>2

\* How the sums of F over the subsets of S go on.
GoesOn(g, S, F) ==
  /\ g[{}] = 0
  /\ \A s \in SUBSET S : g[s] \in Int
  /\ \A s \in SUBSET S : s # {} => /\ One(s) \in S
                                  /\ s \ {One(s)} \in SUBSET S
                                  /\ g[s] = F[One(s)] + g[s \ {One(s)}]

\* Every sum goes on that way.
LEMMA Adding ==
  ASSUME NEW S, IsFiniteSet(S), NEW F \in [S -> Int]
  PROVE  \E g : GoesOn(g, S, F) /\ Sum(F) = g[S]
<1>0. PICK g : Adds(g, S, F) /\ Sum(F) = g[S]
  BY SumOf
<1>1. g[{}] = 0
  BY <1>0 DEF Adds
<1>2. ASSUME NEW s \in SUBSET S, s # {}
      PROVE  One(s) \in s /\ One(s) \in S /\ s \ {One(s)} \in SUBSET S /\ g[s] = F[One(s)] + g[s \ {One(s)}]
  <2>1. One(s) \in s
    BY <1>2 DEF One
  <2>2. g[s] = F[One(s)] + g[s \ {One(s)}]
    BY <1>0, <1>2 DEF Adds
  <2>3. QED BY <2>1, <2>2
<1>3. ASSUME NEW r \in SUBSET S PROVE g[r] \in Int
  <2> DEFINE T == {s \in SUBSET r : g[s] \in Int}
  <2>1. {} \in T
    BY <1>1
  <2>2. \A s \in SUBSET r : s # {} /\ s \ {One(s)} \in T => s \in T
    BY <1>2
  <2>3. IsFiniteSet(r) /\ T \in SUBSET SUBSET r
    BY FS_Subset
  <2>4. r \in T
    <3> HIDE DEF T
    <3>1. QED BY <2>1, <2>2, <2>3, Peeling
  <2>5. QED BY <2>4
<1>4. GoesOn(g, S, F)
  BY <1>1, <1>2, <1>3 DEF GoesOn
<1>5. QED BY <1>0, <1>4

\* A sum of numbers is a number.
LEMMA SumType ==
  ASSUME NEW S, IsFiniteSet(S), NEW F \in [S -> Int]
  PROVE  Sum(F) \in Int
<1>1. PICK f : GoesOn(f, S, F) /\ Sum(F) = f[S]
  BY Adding
<1>2. QED BY <1>1 DEF GoesOn

\* What is no less everywhere has no smaller sum.
LEMMA SumMonotone ==
  ASSUME NEW S, IsFiniteSet(S), NEW F \in [S -> Int], NEW G \in [S -> Int], \A x \in S : F[x] <= G[x]
  PROVE  Sum(F) <= Sum(G)
<1>1. PICK f : GoesOn(f, S, F) /\ Sum(F) = f[S]
  BY Adding
<1>2. PICK g : GoesOn(g, S, G) /\ Sum(G) = g[S]
  BY Adding
<1> DEFINE T == {s \in SUBSET S : f[s] <= g[s]}
<1>3. {} \in T
  BY <1>1, <1>2 DEF GoesOn
<1>4. ASSUME NEW s \in SUBSET S, s # {}, s \ {One(s)} \in T PROVE s \in T
  <2>1. One(s) \in S /\ f[s] = F[One(s)] + f[s \ {One(s)}] /\ f[s \ {One(s)}] \in Int
    BY <1>1, <1>4 DEF GoesOn
  <2>2. g[s] = G[One(s)] + g[s \ {One(s)}] /\ g[s \ {One(s)}] \in Int
    BY <1>2, <1>4 DEF GoesOn
  <2>3. F[One(s)] \in Int /\ G[One(s)] \in Int /\ F[One(s)] <= G[One(s)]
    BY <2>1
  <2>4. f[s \ {One(s)}] <= g[s \ {One(s)}]
    BY <1>4
  <2>5. QED BY <2>1, <2>2, <2>3, <2>4
<1>5. S \in T
  <2>1. T \in SUBSET SUBSET S
    OBVIOUS
  <2> HIDE DEF T
  <2>2. QED BY <1>3, <1>4, <2>1, Peeling
<1>6. QED BY <1>1, <1>2, <1>5

\* The sum of the differences is the difference of the sums.
LEMMA SumOfDifferences ==
  ASSUME NEW S, IsFiniteSet(S), NEW F \in [S -> Int], NEW G \in [S -> Int], NEW H \in [S -> Int],
         \A x \in S : H[x] = F[x] - G[x]
  PROVE  Sum(H) = Sum(F) - Sum(G)
<1>1. PICK f : GoesOn(f, S, F) /\ Sum(F) = f[S]
  BY Adding
<1>2. PICK g : GoesOn(g, S, G) /\ Sum(G) = g[S]
  BY Adding
<1>3. PICK h : GoesOn(h, S, H) /\ Sum(H) = h[S]
  BY Adding
<1> DEFINE T == {s \in SUBSET S : h[s] = f[s] - g[s]}
<1>4. {} \in T
  BY <1>1, <1>2, <1>3 DEF GoesOn
<1>5. ASSUME NEW s \in SUBSET S, s # {}, s \ {One(s)} \in T PROVE s \in T
  <2>1. One(s) \in S /\ f[s] = F[One(s)] + f[s \ {One(s)}] /\ f[s \ {One(s)}] \in Int
    BY <1>1, <1>5 DEF GoesOn
  <2>2. g[s] = G[One(s)] + g[s \ {One(s)}] /\ g[s \ {One(s)}] \in Int
    BY <1>2, <1>5 DEF GoesOn
  <2>3. h[s] = H[One(s)] + h[s \ {One(s)}] /\ h[s \ {One(s)}] \in Int
    BY <1>3, <1>5 DEF GoesOn
  <2>4. F[One(s)] \in Int /\ G[One(s)] \in Int /\ H[One(s)] = F[One(s)] - G[One(s)]
    BY <2>1
  <2>5. h[s \ {One(s)}] = f[s \ {One(s)}] - g[s \ {One(s)}]
    BY <1>5
  <2>6. QED BY <2>1, <2>2, <2>3, <2>4, <2>5
<1>6. S \in T
  <2>1. T \in SUBSET SUBSET S
    OBVIOUS
  <2> HIDE DEF T
  <2>2. QED BY <1>4, <1>5, <2>1, Peeling
<1>7. QED BY <1>1, <1>2, <1>3, <1>6

\* The sum of what is nowhere below zero is not, either.
LEMMA SumOfGains ==
  ASSUME NEW S, IsFiniteSet(S), NEW F \in [S -> Int], \A x \in S : F[x] >= 0
  PROVE  Sum(F) >= 0
<1>1. PICK f : GoesOn(f, S, F) /\ Sum(F) = f[S]
  BY Adding
<1> DEFINE T == {s \in SUBSET S : f[s] >= 0}
<1>2. {} \in T
  BY <1>1 DEF GoesOn
<1>3. ASSUME NEW s \in SUBSET S, s # {}, s \ {One(s)} \in T PROVE s \in T
  <2>1. One(s) \in S /\ f[s] = F[One(s)] + f[s \ {One(s)}] /\ f[s \ {One(s)}] \in Int
    BY <1>1, <1>3 DEF GoesOn
  <2>2. F[One(s)] \in Int /\ F[One(s)] >= 0
    BY <2>1
  <2>3. QED BY <1>3, <2>1, <2>2
<1>4. S \in T
  <2>1. T \in SUBSET SUBSET S
    OBVIOUS
  <2> HIDE DEF T
  <2>2. QED BY <1>2, <1>3, <2>1, Peeling
<1>5. QED BY <1>1, <1>4

\* Any element may be the first that a sum takes.
LEMMA AnyFirst ==
  ASSUME NEW S, IsFiniteSet(S), NEW F \in [S -> Int], NEW f, GoesOn(f, S, F)
  PROVE  \A s \in SUBSET S : \A x \in s : f[s] = F[x] + f[s \ {x}]
<1> DEFINE T == {n \in Nat : \A s \in SUBSET S : Cardinality(s) = n => \A x \in s : f[s] = F[x] + f[s \ {x}]}
<1>1. \A s \in SUBSET S : IsFiniteSet(s) /\ Cardinality(s) \in Nat
  BY FS_Subset, FS_CardinalityType
<1>2. 0 \in T
  BY <1>1, FS_EmptySet
<1>3. ASSUME NEW n \in T PROVE n + 1 \in T
  <2>1. ASSUME NEW s \in SUBSET S, Cardinality(s) = n + 1, NEW x \in s PROVE f[s] = F[x] + f[s \ {x}]
    <3> DEFINE c == One(s)
    <3>1. c \in s /\ c \in S /\ f[s] = F[c] + f[s \ {c}]
      BY DEF GoesOn, One
    <3>2. CASE x = c
      BY <3>1, <3>2
    <3>3. CASE x # c
      <4> HIDE DEF c
      <4>1. Cardinality(s \ {c}) = n /\ Cardinality(s \ {x}) = n
        <5>1. Cardinality(s \ {c}) = Cardinality(s) - 1 /\ Cardinality(s \ {x}) = Cardinality(s) - 1
          BY <1>1, <3>1, FS_RemoveElement
        <5>2. n \in Nat
          OBVIOUS
        <5>3. QED BY <2>1, <5>1, <5>2
      <4>2. x \in s \ {c} /\ c \in s \ {x} /\ s \ {c} \in SUBSET S /\ s \ {x} \in SUBSET S
        BY <3>1, <3>3
      <4>3. f[s \ {c}] = F[x] + f[(s \ {c}) \ {x}] /\ f[s \ {x}] = F[c] + f[(s \ {x}) \ {c}]
        BY <4>1, <4>2
      <4>4. (s \ {c}) \ {x} = (s \ {x}) \ {c} /\ (s \ {x}) \ {c} \in SUBSET S
        OBVIOUS
      <4>5. f[(s \ {x}) \ {c}] \in Int /\ F[x] \in Int /\ F[c] \in Int
        BY <3>1, <4>4 DEF GoesOn
      <4> DEFINE rest == f[(s \ {x}) \ {c}]
      <4>6. f[s \ {c}] = F[x] + rest /\ f[s \ {x}] = F[c] + rest /\ rest \in Int
        BY <4>3, <4>4, <4>5
      <4> HIDE DEF rest
      <4>7. QED BY <3>1, <4>5, <4>6
    <3>4. QED BY <3>2, <3>3
  <2>2. n + 1 \in Nat
    OBVIOUS
  <2>3. QED BY <2>1, <2>2
<1>4. T = Nat
  <2>1. T \in SUBSET Nat
    OBVIOUS
  <2> HIDE DEF T
  <2>2. QED BY <1>2, <1>3, <2>1, Counting
<1>5. QED BY <1>1, <1>4

\* A sum is one of its elements and the sum of the others.
LEMMA SumWithout ==
  ASSUME NEW S, IsFiniteSet(S), NEW F \in [S -> Int], NEW x \in S
  PROVE  Sum(F) = F[x] + Sum([y \in S \ {x} |-> F[y]])
<1> DEFINE G == [y \in S \ {x} |-> F[y]]
<1>0. G \in [S \ {x} -> Int] /\ \A y \in S \ {x} : G[y] = F[y]
  OBVIOUS
<1> HIDE DEF G
<1>1. PICK f : GoesOn(f, S, F) /\ Sum(F) = f[S]
  BY Adding
<1>2. IsFiniteSet(S \ {x})
  BY FS_RemoveElement
<1>3. PICK g : GoesOn(g, S \ {x}, G) /\ Sum(G) = g[S \ {x}]
  BY <1>0, <1>2, Adding
<1> DEFINE T == {s \in SUBSET (S \ {x}) : f[s] = g[s]}
<1>4. {} \in T
  BY <1>1, <1>3 DEF GoesOn
<1>5. ASSUME NEW s \in SUBSET (S \ {x}), s # {}, s \ {One(s)} \in T PROVE s \in T
  <2>1. One(s) \in S /\ f[s] = F[One(s)] + f[s \ {One(s)}]
    BY <1>1, <1>5 DEF GoesOn
  <2>2. One(s) \in S \ {x} /\ g[s] = G[One(s)] + g[s \ {One(s)}]
    BY <1>3, <1>5 DEF GoesOn
  <2>3. f[s \ {One(s)}] = g[s \ {One(s)}]
    BY <1>5
  <2>4. QED BY <1>0, <2>1, <2>2, <2>3
<1>6. S \ {x} \in T
  <2>1. T \in SUBSET SUBSET (S \ {x})
    OBVIOUS
  <2> HIDE DEF T
  <2>2. QED BY <1>2, <1>4, <1>5, <2>1, Peeling
<1>7. f[S] = F[x] + f[S \ {x}]
  BY <1>1, AnyFirst
<1>8. QED BY <1>1, <1>3, <1>6, <1>7 DEF G

\* The last of the summands with numbers.
LEMMA LastSummand ==
  ASSUME NEW n \in Nat, NEW F \in [1..n + 1 -> Int], NEW G \in [1..n -> Int], \A i \in 1..n : G[i] = F[i]
  PROVE  Sum(F) = F[n + 1] + Sum(G)
<1> DEFINE S == 1..n + 1
           x == n + 1
           H == [y \in S \ {x} |-> F[y]]
<1>1. IsFiniteSet(S) /\ x \in S /\ F \in [S -> Int]
  BY FS_Interval
<1>2. G = H
  <2>1. S \ {x} = 1..n
    OBVIOUS
  <2>2. QED BY <2>1
<1> HIDE DEF S, x
<1>3. Sum(F) = F[x] + Sum(H)
  BY <1>1, SumWithout, ZenonT(30)
<1>4. Sum(F) = F[x] + Sum(G)
  <2> HIDE DEF H
  <2>1. QED BY <1>2, <1>3
<1>5. QED BY <1>4 DEF x

\* A sum of numbers that are not negative is no less than one of them.
LEMMA SumAtLeast ==
  ASSUME NEW S, IsFiniteSet(S), NEW F \in [S -> Int], \A y \in S : F[y] >= 0, NEW x \in S
  PROVE  F[x] <= Sum(F)
<1> DEFINE G == [y \in S \ {x} |-> F[y]]
<1>1. G \in [S \ {x} -> Int] /\ \A y \in S \ {x} : G[y] = F[y] /\ G[y] >= 0
  OBVIOUS
<1>2. IsFiniteSet(S \ {x})
  BY FS_RemoveElement
<1>3. Sum(F) = F[x] + Sum(G)
  BY SumWithout
<1> HIDE DEF G
<1>4. Sum(G) \in Int /\ Sum(G) >= 0
  BY <1>1, <1>2, SumType, SumOfGains
<1>5. F[x] \in Int
  OBVIOUS
<1>6. QED BY <1>3, <1>4, <1>5

-----------------------------------------------------------------------------
(* Products, weighted sums and greatest values *)

\* Multiplying by a weight keeps the order.
LEMMA Times ==
  ASSUME NEW x \in Int, NEW y \in Int, NEW w \in Nat
  PROVE  /\ x <= y => x * w <= y * w
         /\ x < y /\ w # 0 => x * w < y * w
         /\ x * w \in Int
<1>1. y * w = x * w + (y - x) * w
  OBVIOUS
<1>2. x <= y => (y - x) * w >= 0
  OBVIOUS
<1>3. x < y /\ w # 0 => (y - x) * w > 0
  OBVIOUS
<1>4. x * w \in Int /\ (y - x) * w \in Int
  OBVIOUS
<1>5. QED BY <1>1, <1>2, <1>3, <1>4

LEMMA Products ==
  /\ \A x, y \in Nat \ {0} : x * y \in Nat \ {0}
  /\ \A x, y \in Int : x * y = y * x /\ x * y \in Int
  /\ \A x, y, z \in Int : (x * y) * z = x * (y * z)
  /\ \A x, y, z \in Int : (x + y) * z = x * z + y * z
<1>1. \A x, y \in Nat \ {0} : x * y \in Nat \ {0}
  OBVIOUS
<1>2. \A x, y \in Int : x * y = y * x /\ x * y \in Int
  OBVIOUS
<1>3. \A x, y, z \in Int : (x * y) * z = x * (y * z)
  OBVIOUS
<1>4. \A x, y, z \in Int : (x + y) * z = x * z + y * z
  OBVIOUS
<1>5. QED BY <1>1, <1>2, <1>3, <1>4

\* The sum of three fractions, over the product of their denominators.
LEMMA Together ==
  ASSUME NEW tn \in Int, NEW sn \in Int, NEW fn \in Int, NEW td \in Int, NEW sd \in Int, NEW fd \in Int,
         NEW ud \in Int, NEW vd \in Int, NEW gd \in Int
  PROVE  (5 * tn * sd * fd + 30 * sn * td * fd + 20 * fn * td * sd) * (ud * vd * gd)
           = 5 * ((tn * ud) * (sd * fd * vd * gd)) + 30 * ((sn * vd) * (td * fd * ud * gd))
               + 20 * ((fn * gd) * (td * sd * ud * vd))
OBVIOUS

\* The sum of multiples is the multiple of the sum.
LEMMA SumScaled ==
  ASSUME NEW S, IsFiniteSet(S), NEW W \in [S -> Int], NEW H \in [S -> Int], NEW c \in Int,
         \A x \in S : H[x] = c * W[x]
  PROVE  Sum(H) = c * Sum(W)
<1>1. PICK w : GoesOn(w, S, W) /\ Sum(W) = w[S]
  BY Adding
<1>2. PICK h : GoesOn(h, S, H) /\ Sum(H) = h[S]
  BY Adding
<1> DEFINE T == {s \in SUBSET S : h[s] = c * w[s]}
<1>3. {} \in T
  BY <1>1, <1>2 DEF GoesOn
<1>4. ASSUME NEW s \in SUBSET S, s # {}, s \ {One(s)} \in T PROVE s \in T
  <2>1. One(s) \in S /\ w[s] = W[One(s)] + w[s \ {One(s)}] /\ w[s \ {One(s)}] \in Int
    BY <1>1, <1>4 DEF GoesOn
  <2>2. h[s] = H[One(s)] + h[s \ {One(s)}]
    BY <1>2, <1>4 DEF GoesOn
  <2>3. W[One(s)] \in Int /\ H[One(s)] = c * W[One(s)]
    BY <2>1
  <2>4. h[s \ {One(s)}] = c * w[s \ {One(s)}]
    BY <1>4
  <2>5. \A x, y \in Int : c * x + c * y = c * (x + y)
    OBVIOUS
  <2>6. h[s] = c * w[s]
    BY <2>1, <2>2, <2>3, <2>4, <2>5
  <2>7. QED BY <2>6
<1>5. S \in T
  <2>1. T \in SUBSET SUBSET S
    OBVIOUS
  <2> HIDE DEF T
  <2>2. QED BY <1>3, <1>4, <2>1, Peeling
<1>6. QED BY <1>1, <1>2, <1>5

\* A sum of ones counts.
LEMMA SumOfOnes ==
  ASSUME NEW S, IsFiniteSet(S), NEW F \in [S -> Int], \A x \in S : F[x] = 1
  PROVE  Sum(F) = Cardinality(S)
<1>1. PICK f : GoesOn(f, S, F) /\ Sum(F) = f[S]
  BY Adding
<1> DEFINE T == {s \in SUBSET S : f[s] = Cardinality(s)}
<1>2. {} \in T
  BY <1>1, FS_EmptySet DEF GoesOn
<1>3. ASSUME NEW s \in SUBSET S, s # {}, s \ {One(s)} \in T PROVE s \in T
  <2>1. One(s) \in S /\ f[s] = F[One(s)] + f[s \ {One(s)}]
    BY <1>1, <1>3 DEF GoesOn
  <2>2. F[One(s)] = 1
    BY <2>1
  <2>3. One(s) \in s /\ IsFiniteSet(s) /\ Cardinality(s) \in Nat
    BY <1>3, FS_Subset, FS_CardinalityType DEF One
  <2>4. Cardinality(s \ {One(s)}) = Cardinality(s) - 1
    BY <2>3, FS_RemoveElement
  <2>5. f[s \ {One(s)}] = Cardinality(s \ {One(s)})
    BY <1>3
  <2>6. QED BY <2>1, <2>2, <2>3, <2>4, <2>5
<1>4. S \in T
  <2>1. T \in SUBSET SUBSET S
    OBVIOUS
  <2> HIDE DEF T
  <2>2. QED BY <1>2, <1>3, <2>1, Peeling
<1>5. QED BY <1>1, <1>4

\* A function with a finite domain has a greatest value, and a least one.
LEMMA GreatestValue ==
  ASSUME NEW S, IsFiniteSet(S), S # {}, NEW F \in [S -> Int]
  PROVE  \E m \in S : \A x \in S : F[x] <= F[m]
<1> DEFINE T == {s \in SUBSET S : s # {} => \E m \in s : \A x \in s : F[x] <= F[m]}
<1>1. {} \in T
  OBVIOUS
<1>2. ASSUME NEW s \in SUBSET S, s # {}, s \ {One(s)} \in T PROVE s \in T
  <2> DEFINE c == One(s)
  <2>1. c \in s /\ c \in S
    BY <1>2 DEF One
  <2> HIDE DEF c
  <2>2. CASE s \ {c} = {}
    <3>1. s = {c} /\ F[c] \in Int
      BY <2>1, <2>2
    <3>2. QED BY <2>1, <3>1
  <2>3. CASE s \ {c} # {}
    <3>1. PICK m \in s \ {c} : \A x \in s \ {c} : F[x] <= F[m]
      BY <1>2, <2>3 DEF c
    <3>2. F[m] \in Int /\ F[c] \in Int /\ \A x \in s : F[x] \in Int
      BY <2>1
    <3>3. CASE F[c] <= F[m]
      BY <3>1, <3>3
    <3>4. CASE F[m] <= F[c]
      <4>1. \A x \in s : F[x] <= F[c]
        BY <3>1, <3>2, <3>4
      <4>2. QED BY <2>1, <4>1
    <3>5. QED BY <3>2, <3>3, <3>4
  <2>4. QED BY <2>2, <2>3
<1>3. S \in T
  <2>1. T \in SUBSET SUBSET S
    OBVIOUS
  <2> HIDE DEF T
  <2>2. QED BY <1>1, <1>2, <2>1, Peeling
<1>4. QED BY <1>3

LEMMA LeastValue ==
  ASSUME NEW S, IsFiniteSet(S), S # {}, NEW F \in [S -> Int]
  PROVE  \E m \in S : \A x \in S : F[m] <= F[x]
<1> DEFINE G == [x \in S |-> -F[x]]
<1>1. G \in [S -> Int] /\ \A x \in S : G[x] = -F[x] /\ F[x] \in Int
  OBVIOUS
<1> HIDE DEF G
<1>2. PICK m \in S : \A x \in S : G[x] <= G[m]
  BY <1>1, GreatestValue
<1>3. \A x \in S : F[m] <= F[x]
  BY <1>1, <1>2
<1>4. QED BY <1>3

\* A weighted sum of what is at least c, and of what is at most c.
LEMMA WeightedSum ==
  ASSUME NEW S, IsFiniteSet(S), NEW F \in [S -> Int], NEW W \in [S -> Nat], NEW c \in Int
  PROVE  LET n == Sum([x \in S |-> F[x] * W[x]])
         IN  /\ (\A x \in S : c <= F[x]) => c * Sum(W) <= n
             /\ (\A x \in S : F[x] <= c) => n <= c * Sum(W)
             /\ n \in Int
<1> DEFINE P == [x \in S |-> F[x] * W[x]]
           H == [x \in S |-> c * W[x]]
<1>1. P \in [S -> Int] /\ H \in [S -> Int] /\ W \in [S -> Int]
  OBVIOUS
<1>2. \A x \in S : H[x] = c * W[x] /\ P[x] = F[x] * W[x] /\ F[x] \in Int /\ W[x] \in Nat
  OBVIOUS
<1>3. /\ \A x \in S : c <= F[x] => H[x] <= P[x]
      /\ \A x \in S : F[x] <= c => P[x] <= H[x]
  BY <1>2, Times
<1> HIDE DEF P, H
<1>4. Sum(H) = c * Sum(W)
  BY <1>1, <1>2, SumScaled, SMTT(30)
<1>5. (\A x \in S : c <= F[x]) => Sum(H) <= Sum(P)
  BY <1>1, <1>3, SumMonotone
<1>6. (\A x \in S : F[x] <= c) => Sum(P) <= Sum(H)
  BY <1>1, <1>3, SumMonotone
<1>7. Sum(P) \in Int
  BY <1>1, SumType
<1>8. QED BY <1>4, <1>5, <1>6, <1>7 DEF P

-----------------------------------------------------------------------------
(* The verdict of run_regression() and the test of significance: EvalVerdict *)

Case == [b : [Dims -> Raw], c : [Dims -> Raw]]

\* Both answers of a case have a score, a number, in every dimension.
LEMMA Scores ==
  ASSUME Verdict!ConstantsOK, NEW cases \in Seq(Case)
  PROVE  /\ Len(cases) \in Nat /\ DOMAIN cases = 1..Len(cases)
         /\ IsFiniteSet(DOMAIN cases) /\ Cardinality(DOMAIN cases) = Len(cases)
         /\ \A i \in DOMAIN cases :
              /\ cases[i].b \in [Dims -> Int] /\ cases[i].c \in [Dims -> Int]
              /\ \A d \in Dims : Verdict!Delta(cases[i], d) = cases[i].c[d] - cases[i].b[d]
                               /\ Verdict!Delta(cases[i], d) \in Int
<1>1. Len(cases) \in Nat /\ DOMAIN cases = 1..Len(cases) /\ \A i \in DOMAIN cases : cases[i] \in Case
  OBVIOUS
<1>2. IsFiniteSet(DOMAIN cases) /\ Cardinality(DOMAIN cases) = Len(cases)
  BY <1>1, FS_Interval, SMTT(30)
<1>3. Raw \subseteq Int
  BY DEF Verdict!ConstantsOK
<1>4. ASSUME NEW i \in DOMAIN cases
      PROVE  cases[i].b \in [Dims -> Int] /\ cases[i].c \in [Dims -> Int]
  BY <1>1, <1>3 DEF Case
<1>5. QED BY <1>1, <1>2, <1>4 DEF Verdict!Delta

\* Better scores make no worse overall score.
LEMMA OverallMonotone ==
  ASSUME Verdict!ConstantsOK, NEW x \in [Dims -> Int], NEW y \in [Dims -> Int],
         \A d \in Dims : x[d] <= y[d]
  PROVE  /\ Verdict!Overall(x) \in Int /\ Verdict!Overall(y) \in Int
         /\ Verdict!Overall(x) <= Verdict!Overall(y)
<1> DEFINE F == [d \in Dims |-> x[d] * Weight[d]]
           G == [d \in Dims |-> y[d] * Weight[d]]
<1>1. IsFiniteSet(Dims)
  BY Zenon DEF Verdict!ConstantsOK, Verdict!IsFiniteSet, IsFiniteSet
<1>2. Weight \in [Dims -> Nat]
  BY DEF Verdict!ConstantsOK
<1>3. F \in [Dims -> Int] /\ G \in [Dims -> Int]
  BY <1>2
<1>4. \A d \in Dims : F[d] <= G[d]
  BY <1>2, Times
<1>5. Verdict!Overall(x) = Sum(F) /\ Verdict!Overall(y) = Sum(G)
  BY DEF Verdict!Overall, Sum
<1> HIDE DEF F, G
<1>6. QED BY <1>1, <1>3, <1>4, <1>5, SumType, SumMonotone

LEMMA AllWeightsType == ASSUME Verdict!ConstantsOK PROVE Verdict!AllWeights \in Nat \ {0}
<1>1. IsFiniteSet(Dims)
  BY Zenon DEF Verdict!ConstantsOK, Verdict!IsFiniteSet, IsFiniteSet
<1>2. Weight \in [Dims -> Int]
  BY DEF Verdict!ConstantsOK
<1>3. Sum(Weight) \in Int
  BY <1>1, <1>2, SumType
<1>4. Verdict!AllWeights \in Int
  BY <1>3 DEF Sum, Verdict!AllWeights
<1>5. QED BY <1>4 DEF Verdict!ConstantsOK

\* The outcomes of a comparison with the threshold.
LEMMA BelowIs ==
  ASSUME Verdict!ConstantsOK, NEW delta \in Int, NEW unit \in Int
  PROVE  /\ OneIn * delta \in Int
         /\ (FALSE \in Verdict!Below(delta, unit)) <=> (OneIn * delta >= -unit)
         /\ (TRUE \in Verdict!Below(delta, unit)) <=> (OneIn * delta <= -unit)
<1> DEFINE product == OneIn * delta
<1>1. product \in Int
  BY DEF Verdict!ConstantsOK
<1>2. /\ (FALSE \in Verdict!Below(delta, unit)) <=> (product = -unit \/ ~(product < -unit))
      /\ (TRUE \in Verdict!Below(delta, unit)) <=> (product = -unit \/ product < -unit)
  BY DEF Verdict!Below
<1> HIDE DEF product
<1>3. /\ (FALSE \in Verdict!Below(delta, unit)) <=> (product >= -unit)
      /\ (TRUE \in Verdict!Below(delta, unit)) <=> (product <= -unit)
  <2>1. (product = -unit \/ ~(product < -unit)) <=> (product >= -unit)
    BY <1>1
  <2>2. (product = -unit \/ product < -unit) <=> (product <= -unit)
    BY <1>1
  <2>3. QED BY <1>2, <2>1, <2>2
<1>4. QED BY <1>1, <1>3 DEF product

\* The report may pass when nothing is certain to regress, and fail when something may.
LEMMA PassesIs ==
  ASSUME NEW cases
  PROVE  /\ (TRUE \in Verdict!Passes(cases))
               <=> ((\A i \in DOMAIN cases : FALSE \in Verdict!CaseRegresses(cases[i]))
                    /\ (\A d \in Dims : FALSE \in Verdict!DimRegresses(cases, d)))
         /\ (FALSE \in Verdict!Passes(cases))
               <=> ((\E i \in DOMAIN cases : TRUE \in Verdict!CaseRegresses(cases[i]))
                    \/ (\E d \in Dims : TRUE \in Verdict!DimRegresses(cases, d)))
         /\ Verdict!Passes(cases) \subseteq BOOLEAN
<1> DEFINE compared == {Verdict!CaseRegresses(cases[i]) : i \in DOMAIN cases}
                         \union {Verdict!DimRegresses(cases, d) : d \in Dims}
<1>1. Verdict!Passes(cases) = {passes \in BOOLEAN : IF passes THEN \A out \in compared : FALSE \in out
                                                              ELSE \E out \in compared : TRUE \in out}
  BY DEF Verdict!Passes
<1>2. /\ (\A out \in compared : FALSE \in out)
           <=> ((\A i \in DOMAIN cases : FALSE \in Verdict!CaseRegresses(cases[i]))
                /\ (\A d \in Dims : FALSE \in Verdict!DimRegresses(cases, d)))
      /\ (\E out \in compared : TRUE \in out)
           <=> ((\E i \in DOMAIN cases : TRUE \in Verdict!CaseRegresses(cases[i]))
                \/ (\E d \in Dims : TRUE \in Verdict!DimRegresses(cases, d)))
  OBVIOUS
<1> HIDE DEF compared
<1>3. /\ (TRUE \in Verdict!Passes(cases)) <=> (\A out \in compared : FALSE \in out)
      /\ (FALSE \in Verdict!Passes(cases)) <=> (\E out \in compared : TRUE \in out)
      /\ Verdict!Passes(cases) \subseteq BOOLEAN
  BY <1>1
<1>4. QED BY <1>2, <1>3

\* The differences of the cases in a dimension, which TotalDelta adds.
Deltas(cases, d) == [i \in DOMAIN cases |-> Verdict!Delta(cases[i], d)]

LEMMA TotalDeltaIs ==
  ASSUME Verdict!ConstantsOK, NEW cases \in Seq(Case), NEW d \in Dims
  PROVE  /\ Verdict!TotalDelta(cases, d) = Sum(Deltas(cases, d))
         /\ Deltas(cases, d) \in [DOMAIN cases -> Int]
         /\ Verdict!TotalDelta(cases, d) \in Int
<1>1. Verdict!TotalDelta(cases, d) = Sum(Deltas(cases, d))
  BY DEF Verdict!TotalDelta, Sum, Deltas
<1>2. Deltas(cases, d) \in [DOMAIN cases -> Int]
  BY Scores DEF Deltas
<1>3. QED BY <1>1, <1>2, Scores, SumType

\* What is compared with the threshold, and its unit, are numbers.
LEMMA Units ==
  ASSUME Verdict!ConstantsOK, NEW cases \in Seq(Case)
  PROVE  /\ Steps * Len(cases) \in Nat /\ (cases # <<>> => Steps * Len(cases) > 0)
         /\ Steps * Verdict!AllWeights \in Nat /\ Steps * Verdict!AllWeights > 0
         /\ OneIn \in Nat \ {0}
<1>1. Steps \in Nat \ {0} /\ OneIn \in Nat \ {0} /\ Verdict!AllWeights \in Nat \ {0} /\ Len(cases) \in Nat
  BY AllWeightsType, Scores DEF Verdict!ConstantsOK
<1>2. Steps * Verdict!AllWeights \in Nat \ {0}
  BY <1>1, Products
<1>3. cases # <<>> => Steps * Len(cases) \in Nat \ {0}
  <2>1. cases # <<>> => Len(cases) \in Nat \ {0}
    OBVIOUS
  <2>2. QED BY <1>1, <2>1, Products
<1>4. Steps * Len(cases) \in Nat
  BY <1>1
<1>5. QED BY <1>1, <1>2, <1>3, <1>4

\* A fall that the test of significance sees is beyond the threshold of run_regression(),
\* or near it.
LEMMA ThresholdIsDimRegresses ==
  ASSUME Verdict!ConstantsOK, NEW cases \in Seq(Case), NEW d \in Dims, TRUE \in Verdict!ThresholdHit(cases, d)
  PROVE  \/ Verdict!Near(Verdict!TotalDelta(cases, d), Steps * Len(cases))
         \/ OneIn * Verdict!TotalDelta(cases, d) < -(Steps * Len(cases))
<1> DEFINE F == [i \in DOMAIN cases |-> cases[i].c[d]]
           G == [i \in DOMAIN cases |-> cases[i].b[d]]
           delta == Sum(F) - Sum(G)
           unit == Steps * Len(cases)
<1>1. F \in [DOMAIN cases -> Int] /\ G \in [DOMAIN cases -> Int]
  BY Scores
<1>2. \A i \in DOMAIN cases : Deltas(cases, d)[i] = F[i] - G[i]
  BY Scores DEF Deltas
<1>3. Verdict!ThresholdHit(cases, d) = {hit \in BOOLEAN : Verdict!Near(delta, unit) \/ (hit <=> OneIn * delta < -unit)}
  BY DEF Verdict!ThresholdHit, Sum
<1> HIDE DEF F, G
<1>4. Sum(Deltas(cases, d)) = delta
  <2>1. IsFiniteSet(DOMAIN cases) /\ Deltas(cases, d) \in [DOMAIN cases -> Int]
    BY Scores, TotalDeltaIs
  <2>2. QED BY <1>1, <1>2, <2>1, SumOfDifferences, ZenonT(30)
<1>5. Verdict!TotalDelta(cases, d) = delta
  BY <1>4, TotalDeltaIs
<1> HIDE DEF delta, unit
<1>6. Verdict!Near(delta, unit) \/ OneIn * delta < -unit
  BY <1>3
<1>7. QED BY <1>5, <1>6 DEF unit

\* A significant fall needs the threshold, and a case that falls.
LEMMA SignificantNeeds ==
  ASSUME Verdict!ConstantsOK, NEW cases \in Seq(Case), NEW d \in Dims, TRUE \in Verdict!Significant(cases, d)
  PROVE  /\ TRUE \in Verdict!ThresholdHit(cases, d)
         /\ ~\A i \in DOMAIN cases : Verdict!Delta(cases[i], d) >= 0
<1>1. PICK hit \in Verdict!ThresholdHit(cases, d), below \in Verdict!IntervalBelowZero(cases, d),
           large \in Verdict!EffectHit(cases, d) : TRUE <=> (Len(cases) >= 3 /\ hit /\ below /\ large)
  BY DEF Verdict!Significant
<1>2. /\ hit \in BOOLEAN /\ below \in BOOLEAN
      /\ below => \E i \in DOMAIN cases : Verdict!Delta(cases[i], d) < 0
  BY DEF Verdict!ThresholdHit, Verdict!IntervalBelowZero
<1>3. hit = TRUE /\ below = TRUE
  BY Zenon, <1>1, <1>2
<1>4. PICK i \in DOMAIN cases : Verdict!Delta(cases[i], d) < 0
  BY <1>2, <1>3
<1>5. ~(Verdict!Delta(cases[i], d) >= 0)
  BY <1>4, Scores
<1>6. QED BY <1>3, <1>5

\* What the comparison passes and the test of significance fails is near the threshold.
LEMMA SignificantIsNear ==
  ASSUME Verdict!ConstantsOK, NEW cases \in Seq(Case), TRUE \in Verdict!Passes(cases), NEW d \in Dims,
         TRUE \in Verdict!Significant(cases, d)
  PROVE  Verdict!Near(Verdict!TotalDelta(cases, d), Steps * Len(cases))
<1>1. /\ TRUE \in Verdict!ThresholdHit(cases, d)
      /\ ~\A i \in DOMAIN cases : Verdict!Delta(cases[i], d) >= 0
  BY SignificantNeeds
<1>2. \/ Verdict!Near(Verdict!TotalDelta(cases, d), Steps * Len(cases))
      \/ OneIn * Verdict!TotalDelta(cases, d) < -(Steps * Len(cases))
  BY <1>1, ThresholdIsDimRegresses
<1>3. Verdict!DimRegresses(cases, d) = Verdict!Below(Verdict!TotalDelta(cases, d), Steps * Len(cases))
  BY <1>1 DEF Verdict!DimRegresses
<1>4. FALSE \in Verdict!DimRegresses(cases, d)
  BY PassesIs
<1>5. Verdict!TotalDelta(cases, d) \in Int /\ Steps * Len(cases) \in Int
  BY TotalDeltaIs, Units
<1>6. OneIn * Verdict!TotalDelta(cases, d) >= -(Steps * Len(cases)) /\ OneIn * Verdict!TotalDelta(cases, d) \in Int
  BY <1>3, <1>4, <1>5, BelowIs
<1>7. QED BY <1>2, <1>5, <1>6

\* When every answer of the candidate is as good as that of the baseline, it passes.
LEMMA NoLossPasses ==
  ASSUME Verdict!ConstantsOK, NEW cases \in Seq(Case),
         \A i \in DOMAIN cases, d \in Dims : Verdict!Delta(cases[i], d) >= 0
  PROVE  FALSE \notin Verdict!Passes(cases) /\ \A d \in Dims : TRUE \notin Verdict!Significant(cases, d)
<1>0. \A delta, unit \in Int : delta >= 0 /\ unit > 0 => TRUE \notin Verdict!Below(delta, unit)
  <2>1. ASSUME NEW delta \in Int, NEW unit \in Int, delta >= 0, unit > 0 PROVE TRUE \notin Verdict!Below(delta, unit)
    <3>1. OneIn * delta >= 0 /\ OneIn * delta \in Int
      BY <2>1 DEF Verdict!ConstantsOK
    <3>2. ~(OneIn * delta <= -unit)
      BY <2>1, <3>1
    <3>3. QED BY <3>2, BelowIs
  <2>2. QED BY <2>1
<1>1. ASSUME NEW i \in DOMAIN cases PROVE TRUE \notin Verdict!CaseRegresses(cases[i])
  <2>1. cases[i].b \in [Dims -> Int] /\ cases[i].c \in [Dims -> Int]
        /\ \A d \in Dims : cases[i].b[d] <= cases[i].c[d]
    BY Scores
  <2>2. /\ Verdict!Overall(cases[i].b) \in Int /\ Verdict!Overall(cases[i].c) \in Int
        /\ Verdict!Overall(cases[i].b) <= Verdict!Overall(cases[i].c)
    BY <2>1, OverallMonotone
  <2>3. /\ Verdict!Overall(cases[i].c) - Verdict!Overall(cases[i].b) \in Int
        /\ Verdict!Overall(cases[i].c) - Verdict!Overall(cases[i].b) >= 0
    BY <2>2
  <2>4. Steps * Verdict!AllWeights \in Int /\ Steps * Verdict!AllWeights > 0
    BY Units
  <2>5. QED BY <1>0, <2>3, <2>4 DEF Verdict!CaseRegresses
<1>2. ASSUME NEW d \in Dims PROVE TRUE \notin Verdict!DimRegresses(cases, d)
  <2>1. \A i \in DOMAIN cases : Deltas(cases, d)[i] >= 0
    BY DEF Deltas
  <2>2. Verdict!TotalDelta(cases, d) >= 0 /\ Verdict!TotalDelta(cases, d) \in Int
    BY <2>1, Scores, TotalDeltaIs, SumOfGains
  <2>3. cases # <<>> => Steps * Len(cases) \in Int /\ Steps * Len(cases) > 0
    BY Units
  <2>4. QED BY <1>0, <2>2, <2>3 DEF Verdict!DimRegresses
<1>3. ASSUME NEW d \in Dims PROVE TRUE \notin Verdict!Significant(cases, d)
  BY SignificantNeeds
<1>4. QED BY <1>1, <1>2, <1>3, PassesIs

\* When every answer loses more than the threshold in a dimension, it does not.
LEMMA LossFails ==
  ASSUME Verdict!ConstantsOK, NEW cases \in Seq(Case), cases # <<>>,
         \A i \in DOMAIN cases, d \in Dims : OneIn * Verdict!Delta(cases[i], d) < -Steps
  PROVE  TRUE \notin Verdict!Passes(cases)
<1>1. PICK d \in Dims : TRUE
  BY DEF Verdict!ConstantsOK
<1> DEFINE S == DOMAIN cases
           D == Deltas(cases, d)
           W == [i \in S |-> 1]
<1>2. IsFiniteSet(S) /\ Cardinality(S) = Len(cases) /\ D \in [S -> Int] /\ Verdict!TotalDelta(cases, d) = Sum(D)
      /\ \A i \in S : D[i] = Verdict!Delta(cases[i], d)
  BY Scores, TotalDeltaIs DEF Deltas
<1>3. S # {} /\ Len(cases) \in Nat \ {0}
  OBVIOUS
<1>4. W \in [S -> Nat] /\ W \in [S -> Int] /\ \A i \in S : W[i] = 1
  OBVIOUS
<1>5. \A i \in S : OneIn * D[i] < -Steps
  BY <1>2
<1>6. D = [i \in S |-> D[i] * W[i]]
  BY <1>2, <1>4
<1> HIDE DEF S, D, W
<1>7. PICK m \in S : \A i \in S : D[i] <= D[m]
  BY <1>2, <1>3, GreatestValue
<1>8. Sum(W) = Len(cases)
  BY <1>2, <1>4, SumOfOnes
<1>9. Sum(D) <= D[m] * Len(cases) /\ Sum(D) \in Int
  <2> DEFINE top == D[m]
             sum == Sum([i \in S |-> D[i] * W[i]])
  <2>1. IsFiniteSet(S) /\ D \in [S -> Int] /\ W \in [S -> Nat] /\ top \in Int
    BY <1>2, <1>4
  <2>2. \A i \in S : D[i] <= top
    BY <1>7
  <2> HIDE DEF top
  <2>3. ((\A i \in S : D[i] <= top) => sum <= top * Sum(W)) /\ sum \in Int
    BY <2>1, WeightedSum
  <2>4. sum = Sum(D)
    BY <1>6
  <2> HIDE DEF sum
  <2>5. QED BY <1>8, <2>2, <2>3, <2>4 DEF top
<1>10. OneIn * Sum(D) < -(Steps * Len(cases))
  <2> DEFINE n == Len(cases)
             top == D[m]
             sum == Sum(D)
  <2>1. OneIn \in Nat /\ Steps \in Int /\ n \in Nat /\ n # 0 /\ top \in Int /\ sum \in Int /\ sum <= top * n
        /\ OneIn * top < -Steps
    BY <1>2, <1>3, <1>5, <1>9 DEF Verdict!ConstantsOK
  <2> HIDE DEF n, top, sum
  <2>2. sum * OneIn <= (top * n) * OneIn /\ sum * OneIn \in Int /\ top * n \in Int
    BY <2>1, Times
  <2>3. (OneIn * top) * n < (-Steps) * n
    BY <2>1, Times
  <2>4. (top * n) * OneIn = (OneIn * top) * n /\ sum * OneIn = OneIn * sum /\ (-Steps) * n = -(Steps * n)
    BY <2>1
  <2>5. (OneIn * top) * n \in Int /\ -(Steps * n) \in Int
    BY <2>1
  <2>6. OneIn * sum < -(Steps * n)
    BY <2>2, <2>3, <2>4, <2>5
  <2>7. QED BY <2>6 DEF n, sum
<1>11. Verdict!DimRegresses(cases, d) = Verdict!Below(Sum(D), Steps * Len(cases))
  BY <1>2 DEF Verdict!DimRegresses
<1>12. FALSE \notin Verdict!DimRegresses(cases, d)
  <2>1. Steps * Len(cases) \in Int /\ Sum(D) \in Int
    BY <1>9, Units
  <2>2. OneIn * Sum(D) \in Int
    BY <2>1, BelowIs
  <2>3. ~(OneIn * Sum(D) >= -(Steps * Len(cases)))
    BY <1>10, <2>1, <2>2
  <2>4. FALSE \notin Verdict!Below(Sum(D), Steps * Len(cases))
    BY <2>1, <2>3, BelowIs
  <2>5. QED BY <1>11, <2>4
<1>13. QED BY <1>12, PassesIs

\* Answers of the candidate that are as good as others that pass may pass.
LEMMA BetterPasses ==
  ASSUME Verdict!ConstantsOK, NEW cases \in Seq(Case), NEW better \in Seq(Case),
         Len(better) = Len(cases), TRUE \in Verdict!Passes(cases),
         \A i \in DOMAIN cases : /\ better[i].b = cases[i].b
                                 /\ \A d \in Dims : cases[i].c[d] <= better[i].c[d]
  PROVE  TRUE \in Verdict!Passes(better)
<1>0. DOMAIN better = DOMAIN cases
  OBVIOUS
<1>1. \A less, more, unit \in Int : less <= more /\ FALSE \in Verdict!Below(less, unit) => FALSE \in Verdict!Below(more, unit)
  <2>1. ASSUME NEW less \in Int, NEW more \in Int, NEW unit \in Int, less <= more, FALSE \in Verdict!Below(less, unit)
        PROVE  FALSE \in Verdict!Below(more, unit)
    <3>1. less * OneIn <= more * OneIn
      BY <2>1, Times DEF Verdict!ConstantsOK
    <3>2. less * OneIn = OneIn * less /\ more * OneIn = OneIn * more
      BY DEF Verdict!ConstantsOK
    <3>3. OneIn * less \in Int /\ OneIn * more \in Int /\ OneIn * less >= -unit
      BY <2>1, BelowIs
    <3>4. OneIn * more >= -unit
      BY <3>1, <3>2, <3>3
    <3>5. QED BY <3>4, BelowIs
  <2>2. QED BY <2>1
<1>2. ASSUME NEW i \in DOMAIN better PROVE FALSE \in Verdict!CaseRegresses(better[i])
  <2>1. cases[i].c \in [Dims -> Int] /\ better[i].c \in [Dims -> Int] /\ cases[i].b \in [Dims -> Int]
    BY <1>0, Scores
  <2>2. /\ Verdict!Overall(cases[i].c) \in Int /\ Verdict!Overall(better[i].c) \in Int
        /\ Verdict!Overall(cases[i].c) <= Verdict!Overall(better[i].c)
    BY <1>0, <2>1, OverallMonotone
  <2>3. Verdict!Overall(cases[i].b) \in Int
    <3>1. \A d \in Dims : cases[i].b[d] <= cases[i].b[d]
      BY <2>1
    <3>2. QED BY <2>1, <3>1, OverallMonotone
  <2>4. FALSE \in Verdict!CaseRegresses(cases[i]) /\ better[i].b = cases[i].b
    BY <1>0, PassesIs
  <2> DEFINE less == Verdict!Overall(cases[i].c) - Verdict!Overall(cases[i].b)
             more == Verdict!Overall(better[i].c) - Verdict!Overall(cases[i].b)
             unit == Steps * Verdict!AllWeights
  <2>5. FALSE \in Verdict!Below(less, unit) /\ Verdict!CaseRegresses(better[i]) = Verdict!Below(more, unit)
    BY <2>4 DEF Verdict!CaseRegresses
  <2>6. less \in Int /\ more \in Int /\ less <= more /\ unit \in Int
    BY <2>2, <2>3, Units
  <2> HIDE DEF less, more, unit
  <2>7. QED BY <1>1, <2>5, <2>6
<1>3. ASSUME NEW d \in Dims PROVE FALSE \in Verdict!DimRegresses(better, d)
  <2>1. \A i \in DOMAIN cases : Deltas(cases, d)[i] <= Deltas(better, d)[i]
    <3>1. ASSUME NEW i \in DOMAIN cases PROVE Deltas(cases, d)[i] <= Deltas(better, d)[i]
      <4>1. /\ cases[i].c[d] \in Int /\ better[i].c[d] \in Int /\ cases[i].b[d] \in Int
            /\ better[i].b = cases[i].b /\ cases[i].c[d] <= better[i].c[d]
        BY <1>0, Scores
      <4>2. Deltas(cases, d)[i] = cases[i].c[d] - cases[i].b[d] /\ Deltas(better, d)[i] = better[i].c[d] - better[i].b[d]
        BY <1>0 DEF Deltas, Verdict!Delta
      <4>3. QED BY <4>1, <4>2
    <3>2. QED BY <3>1
  <2>2. Verdict!TotalDelta(cases, d) <= Verdict!TotalDelta(better, d)
    <3>1. IsFiniteSet(DOMAIN cases)
      BY Scores
    <3>2. /\ Verdict!TotalDelta(cases, d) = Sum(Deltas(cases, d)) /\ Deltas(cases, d) \in [DOMAIN cases -> Int]
          /\ Verdict!TotalDelta(better, d) = Sum(Deltas(better, d)) /\ Deltas(better, d) \in [DOMAIN cases -> Int]
      BY <1>0, TotalDeltaIs
    <3>3. Sum(Deltas(cases, d)) <= Sum(Deltas(better, d))
      BY <2>1, <3>1, <3>2, SumMonotone
    <3>4. QED BY <3>2, <3>3
  <2>3. FALSE \in Verdict!DimRegresses(cases, d)
    BY PassesIs
  <2>4. better # <<>> => cases # <<>>
    OBVIOUS
  <2>5. /\ Verdict!TotalDelta(cases, d) \in Int /\ Verdict!TotalDelta(better, d) \in Int
        /\ Steps * Len(cases) \in Int
    BY TotalDeltaIs, Units
  <2>6. CASE better = <<>>
    BY <2>6 DEF Verdict!DimRegresses
  <2>7. CASE better # <<>>
    <3>1. FALSE \in Verdict!Below(Verdict!TotalDelta(cases, d), Steps * Len(cases))
      BY <2>3, <2>4, <2>7 DEF Verdict!DimRegresses
    <3>2. Verdict!DimRegresses(better, d) = Verdict!Below(Verdict!TotalDelta(better, d), Steps * Len(cases))
      BY <2>7 DEF Verdict!DimRegresses
    <3>3. QED BY <1>1, <2>2, <2>5, <3>1, <3>2
  <2>8. QED BY <2>6, <2>7
<1>4. QED BY <1>2, <1>3, PassesIs

-----------------------------------------------------------------------------
(* The gate, and the runs: EvalVerdict *)

Counts == {"total", "correct", "fp", "fn", "attempted", "succeeded"}

\* A scenario is correct, or at most one of a false positive and a false negative.
Counted ==
  /\ results \in [Counts -> Nat]
  /\ results.correct + results.fp + results.fn <= results.total

\* What the worker has decided follows from the outcomes that the scores allow.
Decided(cases, says, hit, decision) ==
  /\ says = "passed" => TRUE \in Verdict!Passes(cases)
  /\ says = "failed" => FALSE \in Verdict!Passes(cases)
  /\ \A d \in hit : TRUE \in Verdict!Significant(cases, d)
  /\ decision = IF says = "passed" /\ hit = {} THEN "passed" ELSE "failed"

Told ==
  IF rigorous = "none" THEN report = "none" /\ significant = {}
  ELSE report # "none" /\ Decided(judged, report, significant, rigorous)

VerdictInv == Verdict!TypeOK /\ Told /\ Counted

LEMMA VerdictInit == Verdict!ConstantsOK /\ Verdict!Init => VerdictInv
BY DEF Verdict!ConstantsOK, Verdict!Init, VerdictInv, Verdict!TypeOK, Told, Counted, Counts

LEMMA ScenarioCounts ==
  ASSUME NEW s \in [bad : BOOLEAN, outcome : {"detected", "missed", "raises", "remedied", "remedy_fails"}]
  PROVE  /\ \A flag \in BOOLEAN : Verdict!One(flag) \in Nat
         /\ Verdict!One(Verdict!Correct(s)) + Verdict!One(Verdict!FalsePositive(s))
              + Verdict!One(Verdict!FalseNegative(s)) <= 1
BY DEF Verdict!One, Verdict!Correct, Verdict!FalsePositive, Verdict!FalseNegative, Verdict!Detected

LEMMA VerdictNext ==
  ASSUME Verdict!ConstantsOK, VerdictInv, [Verdict!Next]_(Verdict!vars)
  PROVE  VerdictInv'
<1>0. judged \in Seq(Case)
  BY DEF VerdictInv, Verdict!TypeOK, Case
<1>1. CASE UNCHANGED Verdict!vars
  <2>1. /\ judged' = judged /\ report' = report /\ significant' = significant
        /\ rigorous' = rigorous /\ results' = results
    BY <1>1 DEF Verdict!vars
  <2>2. QED BY <2>1 DEF VerdictInv, Verdict!TypeOK, Told, Counted
<1>2. ASSUME NEW b \in [Dims -> Raw], NEW c \in [Dims -> Raw], Verdict!Judge(b, c) PROVE VerdictInv'
  <2>1. [b |-> b, c |-> c] \in Case
    BY DEF Case
  <2>2. /\ judged' = Append(judged, [b |-> b, c |-> c]) /\ Len(judged) < MaxCases /\ rigorous = "none"
        /\ rigorous' = rigorous /\ report' = report /\ significant' = significant /\ results' = results
    BY <1>2 DEF Verdict!Judge
  <2> HIDE DEF Case
  <2>3. judged' \in Seq(Case) /\ Len(judged') = Len(judged) + 1 /\ Len(judged) \in Nat
    BY <1>0, <2>1, <2>2
  <2>4. Len(judged') <= MaxCases
    BY <2>2, <2>3 DEF Verdict!ConstantsOK
  <2>5. Verdict!TypeOK'
    BY <2>2, <2>3, <2>4 DEF VerdictInv, Verdict!TypeOK, Case
  <2>6. QED BY <2>2, <2>5 DEF VerdictInv, Told, Counted
<1>3. CASE Verdict!Decide
  <2>1. PICK passes \in Verdict!Passes(judged), hit \in SUBSET Dims :
          /\ \A d \in Dims : (d \in hit) \in Verdict!Significant(judged, d)
          /\ report' = IF passes THEN "passed" ELSE "failed"
          /\ significant' = hit
          /\ rigorous' = IF passes /\ hit = {} THEN "passed" ELSE "failed"
    BY <1>3 DEF Verdict!Decide
  <2>2. judged' = judged /\ results' = results
    BY <1>3 DEF Verdict!Decide
  <2>3. passes \in BOOLEAN
    BY PassesIs
  <2>4. Decided(judged, report', significant', rigorous')
    <3>1. \A d \in hit : TRUE \in Verdict!Significant(judged, d)
      <4>1. ASSUME NEW d \in hit PROVE TRUE \in Verdict!Significant(judged, d)
        <5>1. (d \in hit) = TRUE /\ d \in Dims
          OBVIOUS
        <5>2. QED BY Zenon, <2>1, <5>1
      <4>2. QED BY <4>1
    <3>2. CASE passes = TRUE
      <4>1. report' = "passed" /\ TRUE \in Verdict!Passes(judged)
        BY <2>1, <3>2
      <4>2. QED BY <2>1, <3>1, <3>2, <4>1 DEF Decided
    <3>3. CASE passes = FALSE
      <4>1. report' = "failed" /\ FALSE \in Verdict!Passes(judged) /\ rigorous' = "failed"
        BY <2>1, <3>3
      <4>2. QED BY <2>1, <3>1, <4>1 DEF Decided
    <3>4. QED BY <2>3, <3>2, <3>3
  <2>5. rigorous' \in {"passed", "failed"} /\ report' \in {"passed", "failed"} /\ significant' \subseteq Dims
    BY <2>1
  <2>6. Told'
    BY <2>2, <2>4, <2>5 DEF Told
  <2>7. QED BY <2>2, <2>5, <2>6 DEF VerdictInv, Verdict!TypeOK, Counted
<1>4. ASSUME NEW s \in Scenarios, Verdict!Evaluate(s) PROVE VerdictInv'
  <2>1. s \in [bad : BOOLEAN, outcome : {"detected", "missed", "raises", "remedied", "remedy_fails"}]
    BY DEF Verdict!ConstantsOK
  <2>2. /\ judged' = judged /\ rigorous' = rigorous /\ rigorous = "none"
        /\ report' = report /\ significant' = significant
    BY <1>4 DEF Verdict!Evaluate
  <2>3. Counted'
    <3>1. results' = [total |-> results.total + 1,
                      correct |-> results.correct + Verdict!One(Verdict!Correct(s)),
                      fp |-> results.fp + Verdict!One(Verdict!FalsePositive(s)),
                      fn |-> results.fn + Verdict!One(Verdict!FalseNegative(s)),
                      attempted |-> results.attempted + Verdict!One(Verdict!Attempted(s)),
                      succeeded |-> results.succeeded + Verdict!One(Verdict!Succeeded(s))]
      BY <1>4 DEF Verdict!Evaluate
    <3>2. \A flag : Verdict!One(flag) \in Nat
      BY DEF Verdict!One
    <3>3. Verdict!One(Verdict!Correct(s)) + Verdict!One(Verdict!FalsePositive(s))
            + Verdict!One(Verdict!FalseNegative(s)) <= 1
      BY <2>1, ScenarioCounts
    <3>4. QED BY <3>1, <3>2, <3>3 DEF VerdictInv, Counted, Counts
  <2>4. QED BY <2>2, <2>3 DEF VerdictInv, Verdict!TypeOK, Told
<1>5. QED BY <1>1, <1>2, <1>3, <1>4 DEF Verdict!Next

\* A better answer in one dimension of one case.
LEMMA RaisedPasses ==
  ASSUME Verdict!ConstantsOK, judged \in Seq(Case), TRUE \in Verdict!Passes(judged),
         NEW i \in DOMAIN judged, NEW d \in Dims, NEW raw \in Raw, raw > judged[i].c[d]
  PROVE  TRUE \in Verdict!Passes([judged EXCEPT ![i].c[d] = raw])
<1> DEFINE better == [judged EXCEPT ![i].c[d] = raw]
           c == [judged[i].c EXCEPT ![d] = raw]
<1>1. judged[i] \in Case /\ judged[i].c \in [Dims -> Raw] /\ Raw \subseteq Int
  <2>1. judged[i] \in Case
    OBVIOUS
  <2>2. QED BY <2>1 DEF Case, Verdict!ConstantsOK
<1>2. c \in [Dims -> Raw] /\ \A e \in Dims : judged[i].c[e] <= c[e]
  <2> DEFINE old == judged[i].c
  <2>1. old \in [Dims -> Raw] /\ old[d] < raw /\ \A e \in Dims : old[e] \in Int
    BY <1>1
  <2>2. c = [old EXCEPT ![d] = raw] /\ raw \in Int
    BY <1>1
  <2> HIDE DEF old, c
  <2>3. c \in [Dims -> Raw] /\ \A e \in Dims : old[e] <= c[e]
    BY <2>1, <2>2
  <2>4. QED BY <2>3 DEF old
<1>3. [b |-> judged[i].b, c |-> c] \in Case
  BY <1>1, <1>2 DEF Case
<1>4. better = [judged EXCEPT ![i] = [b |-> judged[i].b, c |-> c]]
  <2> DEFINE r == judged[i]
  <2>1. r \in Case
    BY <1>1
  <2> HIDE DEF r, c
  <2>2. [r EXCEPT !.c = c] = [b |-> r.b, c |-> c]
    <3>1. r = [b |-> r.b, c |-> r.c]
      BY <2>1 DEF Case
    <3>2. \A x, y, z : [[b |-> x, c |-> y] EXCEPT !.c = z] = [b |-> x, c |-> z]
      OBVIOUS
    <3>3. [[b |-> r.b, c |-> r.c] EXCEPT !.c = c] = [b |-> r.b, c |-> c]
      BY <3>2
    <3>4. QED BY Zenon, <3>1, <3>3
  <2>3. better = [judged EXCEPT ![i] = [r EXCEPT !.c = c]]
    BY DEF r, c
  <2>4. QED BY <2>2, <2>3 DEF r
<1> HIDE DEF better, c
<1>5. better \in Seq(Case) /\ Len(better) = Len(judged)
  <2> HIDE DEF Case
  <2>1. QED BY <1>3, <1>4
<1>6. \A k \in DOMAIN judged : /\ better[k].b = judged[k].b
                              /\ \A e \in Dims : judged[k].c[e] <= better[k].c[e]
  <2>1. ASSUME NEW k \in DOMAIN judged
        PROVE better[k].b = judged[k].b /\ \A e \in Dims : judged[k].c[e] <= better[k].c[e]
    <3>1. CASE k = i
      BY <1>2, <1>4, <3>1
    <3>2. CASE k # i
      <4>1. better[k] = judged[k]
        BY <1>4, <3>2
      <4>2. \A e \in Dims : judged[k].c[e] \in Int
        BY Scores
      <4>3. QED BY <4>1, <4>2
    <3>3. QED BY <3>1, <3>2
  <2>2. QED BY <2>1
<1>7. TRUE \in Verdict!Passes(better)
  BY <1>5, <1>6, BetterPasses
<1>8. QED BY <1>7 DEF better

LEMMA VerdictInvHolds == ASSUME Verdict!ConstantsOK, VerdictInv PROVE Verdict!VerdictsHold
<1>0. judged \in Seq(Case)
  BY DEF VerdictInv, Verdict!TypeOK, Case
<1>1. rigorous # "none" => Decided(judged, report, significant, rigorous) /\ report # "none"
  BY DEF VerdictInv, Told
<1>2. rigorous \in {"none", "passed", "failed"} /\ report \in {"none", "passed", "failed"} /\ significant \subseteq Dims
      /\ (rigorous = "none" => report = "none")
  BY DEF VerdictInv, Told, Verdict!TypeOK
<1>3. Verdict!VerdictFollowsScores
  <2>1. ASSUME rigorous # "none", \A i \in DOMAIN judged, d \in Dims : Verdict!Delta(judged[i], d) >= 0
        PROVE  rigorous = "passed"
    <3>1. FALSE \notin Verdict!Passes(judged) /\ \A d \in Dims : TRUE \notin Verdict!Significant(judged, d)
      BY <1>0, <2>1, NoLossPasses
    <3>2. report = "passed"
      BY <1>1, <1>2, <2>1, <3>1 DEF Decided
    <3>3. significant = {}
      BY <1>1, <1>2, <2>1, <3>1 DEF Decided
    <3>4. QED BY <1>1, <2>1, <3>2, <3>3 DEF Decided
  <2>2. ASSUME rigorous = "passed", judged # <<>>,
               \A i \in DOMAIN judged, d \in Dims : OneIn * Verdict!Delta(judged[i], d) < -Steps
        PROVE  FALSE
    <3>1. TRUE \notin Verdict!Passes(judged)
      BY <1>0, <2>2, LossFails
    <3>2. QED BY <1>1, <2>2, <3>1 DEF Decided
  <2>3. QED BY <2>1, <2>2 DEF Verdict!VerdictFollowsScores, Verdict!Cases
<1>4. Verdict!BetterStillPasses
  <2>1. report = "passed" => TRUE \in Verdict!Passes(judged)
    BY <1>1, <1>2 DEF Decided
  <2>2. QED BY <1>0, <2>1, RaisedPasses DEF Verdict!BetterStillPasses, Verdict!Cases
<1>5. Verdict!SignificanceIsCovered
  <2>1. rigorous = "passed" => report = "passed"
    BY <1>1 DEF Decided
  <2>2. ASSUME report = "passed", rigorous = "failed"
        PROVE  \E d \in significant : Verdict!Near(Verdict!TotalDelta(judged, d), Steps * Len(judged))
    <3>1. significant # {} /\ TRUE \in Verdict!Passes(judged) /\ \A d \in significant : TRUE \in Verdict!Significant(judged, d)
      BY <1>1, <2>2 DEF Decided
    <3>2. PICK d \in significant : TRUE
      BY <3>1
    <3>3. d \in Dims /\ TRUE \in Verdict!Significant(judged, d)
      BY <1>2, <3>1
    <3>4. Verdict!Near(Verdict!TotalDelta(judged, d), Steps * Len(judged))
      BY <1>0, <3>1, <3>3, SignificantIsNear
    <3>5. QED BY <3>4
  <2>3. QED BY <2>1, <2>2 DEF Verdict!SignificanceIsCovered
<1>6. Verdict!GateCountsErrors
  BY DEF VerdictInv, Counted, Counts, Verdict!GateCountsErrors, Verdict!GatePasses
<1>7. QED BY <1>3, <1>4, <1>5, <1>6 DEF VerdictInv, Verdict!VerdictsHold

\* run_regression(), is_regression_significant() and QualityGate, for any dimensions,
\* weights, threshold, scores and scenarios, and however floats round: the test of
\* significance fails a run that the comparison passes only at the threshold itself, a
\* better answer is never why a comparison fails, and what the gate passes has less than
\* one error in twenty.
THEOREM VerdictsAreSound == Verdict!Spec => []VerdictsHold
<1>1. Verdict!Init => VerdictInv
  BY VerdictInit, DecisionConstants
<1>2. VerdictInv /\ [Verdict!Next]_(Verdict!vars) => VerdictInv'
  BY VerdictNext, DecisionConstants
<1>3. VerdictInv => VerdictsHold
  BY VerdictInvHolds, DecisionConstants DEF VerdictsHold
<1>4. QED BY <1>1, <1>2, <1>3, PTL DEF Verdict!Spec

-----------------------------------------------------------------------------
(* The detectors and the classifier tool: Detection *)

LEMMA DetectSum == ASSUME NEW F PROVE Detect!SumFunction(F) = Sum(F)
BY Zenon DEF Sum, Detect!SumFunction, Detect!SumFunctionOnSet, Detect!FoldFunctionOnSet, Detect!MapThenFoldSet,
   Verdict!SumFunction, Verdict!SumFunctionOnSet, Verdict!FoldFunctionOnSet, Verdict!MapThenFoldSet

LEMMA DetectCardinality == ASSUME NEW S PROVE Detect!Cardinality(S) = Cardinality(S)
BY Zenon DEF Detect!Cardinality, Cardinality, Detect!IsFiniteSet, IsFiniteSet

LEMMA DetectMin ==
  ASSUME NEW S \in SUBSET Nat, S # {}
  PROVE  Detect!Min(S) \in S /\ \A y \in S : Detect!Min(S) <= y
<1>1. PICK x \in S : \A y \in S : ~(<<y, x>> \in Below)
  BY BelowWF, WFMin
<1>2. ASSUME NEW y \in S PROVE x <= y
  <2>1. y < x => <<y, x>> \in Below
    BY DEF Below
  <2>2. QED BY <1>1, <2>1
<1>3. QED BY <1>2 DEF Detect!Min

\* The rows, the records and the trace are of the same reports.
Corresponding ==
  /\ rows \in Seq({Detect!RowOf(r) : r \in Reports}) /\ records \in Seq({Detect!RecordOf(r) : r \in Reports})
  /\ trace \in Seq({Detect!DictOf(r) : r \in Reports})
  /\ Len(rows) \in Nat /\ DOMAIN rows = 1..Len(rows)
  /\ Len(records) = Len(rows) /\ DOMAIN records = 1..Len(rows)
  /\ Len(trace) = Len(rows) /\ DOMAIN trace = 1..Len(rows)
  /\ \A i \in 1..Len(rows) : \E r \in Reports :
       rows[i] = Detect!RowOf(r) /\ records[i] = Detect!RecordOf(r) /\ trace[i] = Detect!DictOf(r)

Unnamed == \E i \in 1..Len(rows) : trace[i].key = Absent

\* What the answer of the classifier tool is still due to.
StillFound ==
  verdict.by = "heuristic" =>
    CASE verdict.type = "tool_timeout" -> \E i \in 1..Len(rows) : rows[i].ms > TimeoutMs
      [] verdict.type = "infinite_loop" ->
           Unnamed \/ \E i \in 1..Len(rows) : Cardinality(Detect!Named(rows, rows[i].name)) >= LoopThreshold
      [] verdict.type = "tool_misuse" -> Cardinality(Detect!Errors(rows)) >= 2
      [] verdict.type = "context_overflow" -> Detect!Tokens(trace) > ContextTokens
      [] OTHER -> FALSE

DetectInv == Detect!TypeOK /\ Corresponding /\ StillFound

\* Spans that the rules see as they see the rows, but for the names; and with the names.
SeenAlike(s) ==
  /\ Len(s) = Len(rows)
  /\ \A i \in 1..Len(rows) : Detect!OrZero(s[i].ms) = rows[i].ms /\ (s[i].status = "ERROR" <=> rows[i].status = "ERROR")
SameNames(s) == Len(s) = Len(rows) /\ \A i \in 1..Len(rows) : s[i].name = rows[i].name

LEMMA SpansAgree ==
  ASSUME Detect!ConstantsOK, Corresponding, NEW i \in 1..Len(rows)
  PROVE  /\ rows[i].ms \in Nat /\ rows[i].ms = Detect!OrZero(records[i].ms) /\ rows[i].ms = Detect!OrZero(trace[i].ms)
         /\ rows[i].status = "ERROR" <=> records[i].status = "ERROR"
         /\ rows[i].status = "ERROR" <=> trace[i].status = "ERROR"
         /\ rows[i].name = records[i].name /\ rows[i].name = trace[i].name
         /\ records[i].key = "span_name" /\ records[i].prompt = Absent /\ records[i].completion = Absent
         /\ Detect!TokensOf(trace[i]) \in Nat
<1>1. PICK r \in Reports : rows[i] = Detect!RowOf(r) /\ records[i] = Detect!RecordOf(r) /\ trace[i] = Detect!DictOf(r)
  BY DEF Corresponding
<1>2. {r.ms, r.prompt, r.completion, r.total} \subseteq Nat \cup {Absent, Null} /\ Absent # "ERROR"
  BY DEF Detect!ConstantsOK
<1>3. \A x \in Nat \cup {Absent, Null} : Detect!OrZero(x) \in Nat
  BY DEF Detect!OrZero
<1>4. /\ rows[i].name = r.name /\ rows[i].ms = Detect!OrZero(r.ms)
      /\ rows[i].status = IF r.status = Absent THEN "OK" ELSE r.status
  BY <1>1 DEF Detect!RowOf
<1>5. /\ records[i].name = r.name /\ records[i].ms = r.ms /\ records[i].key = "span_name"
      /\ records[i].prompt = Absent /\ records[i].completion = Absent
      /\ records[i].status = IF r.status = Absent THEN "UNSET" ELSE r.status
  BY <1>1 DEF Detect!RecordOf
<1>6. /\ trace[i].name = r.name /\ trace[i].ms = r.ms /\ trace[i].status = r.status
      /\ trace[i].prompt = r.prompt /\ trace[i].completion = r.completion
  BY <1>1 DEF Detect!DictOf
<1>7. Detect!TokensOf(trace[i]) \in Nat
  <2>1. Detect!OrZero(r.prompt) \in Nat /\ Detect!OrZero(r.completion) \in Nat
    BY <1>2, <1>3
  <2>2. QED BY <1>6, <2>1 DEF Detect!TokensOf
<1>8. rows[i].ms \in Nat
  BY <1>2, <1>3, <1>4
<1>9. rows[i].status = "ERROR" <=> records[i].status = "ERROR"
  BY <1>4, <1>5
<1>10. rows[i].status = "ERROR" <=> trace[i].status = "ERROR"
  BY <1>2, <1>4, <1>6
<1>11. QED BY <1>4, <1>5, <1>6, <1>7, <1>8, <1>9, <1>10

LEMMA RulesSeeTheSame ==
  ASSUME Detect!ConstantsOK, Corresponding
  PROVE  /\ SeenAlike(records) /\ SeenAlike(trace)
         /\ SameNames(Detect!SpanNames(records)) /\ (~Unnamed => SameNames(Detect!Normalized(trace)))
         /\ Detect!Positions(rows) = 1..Len(rows)
         /\ Detect!Errors(rows) \in SUBSET (1..Len(rows))
         /\ \A n : Detect!Named(rows, n) \in SUBSET (1..Len(rows))
<1>1. /\ Detect!Positions(records) = 1..Len(rows) /\ Detect!Positions(rows) = 1..Len(rows)
      /\ Detect!Positions(trace) = 1..Len(rows) /\ Len(rows) \in Nat
      /\ Len(records) = Len(rows) /\ Len(trace) = Len(rows)
  BY DEF Corresponding, Detect!Positions
<1>2. SeenAlike(records) /\ SeenAlike(trace)
  BY <1>1, SpansAgree DEF SeenAlike
<1>3. \A i \in 1..Len(rows) : \E r \in Reports : records[i] = Detect!RecordOf(r) /\ trace[i] = Detect!DictOf(r)
  BY DEF Corresponding
<1>4. SameNames(Detect!SpanNames(records))
  <2>1. Detect!SpanNames(records) =
          [i \in 1..Len(rows) |-> [records[i] EXCEPT !.name = IF records[i].key = "span_name" THEN @ ELSE "unknown"]]
    BY <1>1 DEF Detect!SpanNames
  <2>2. ASSUME NEW i \in 1..Len(rows) PROVE Detect!SpanNames(records)[i].name = rows[i].name
    <3>1. PICK r \in Reports : records[i] = Detect!RecordOf(r)
      BY <1>3
    <3>2. [records[i] EXCEPT !.name = IF records[i].key = "span_name" THEN @ ELSE "unknown"].name = records[i].name
      BY <3>1 DEF Detect!RecordOf
    <3>3. QED BY <2>1, <3>2, SpansAgree
  <2>3. Len(Detect!SpanNames(records)) = Len(rows)
    BY <1>1, <2>1
  <2>4. QED BY <2>2, <2>3 DEF SameNames
<1>5. ASSUME ~Unnamed PROVE SameNames(Detect!Normalized(trace))
  <2>1. Detect!Normalized(trace) =
          [i \in 1..Len(rows) |-> [trace[i] EXCEPT !.name = IF trace[i].key = Absent THEN "unknown" ELSE @]]
    BY <1>1 DEF Detect!Normalized
  <2>2. ASSUME NEW i \in 1..Len(rows) PROVE Detect!Normalized(trace)[i].name = rows[i].name
    <3>1. PICK r \in Reports : trace[i] = Detect!DictOf(r)
      BY <1>3
    <3>2. [trace[i] EXCEPT !.name = IF trace[i].key = Absent THEN "unknown" ELSE @].name = trace[i].name
      BY <1>5, <3>1 DEF Detect!DictOf, Unnamed
    <3>3. QED BY <2>1, <3>2, SpansAgree
  <2>3. Len(Detect!Normalized(trace)) = Len(rows)
    BY <1>1, <2>1
  <2>4. QED BY <2>2, <2>3 DEF SameNames
<1>6. QED BY <1>1, <1>2, <1>4, <1>5 DEF Detect!Errors, Detect!Named

LEMMA ErrorsAlike ==
  ASSUME Detect!ConstantsOK, Corresponding, NEW s, SeenAlike(s)
  PROVE  Detect!Positions(s) = 1..Len(rows) /\ Detect!Errors(s) = Detect!Errors(rows)
BY DEF SeenAlike, Detect!Positions, Detect!Errors

LEMMA NamesAlike ==
  ASSUME Detect!ConstantsOK, Corresponding, NEW s, SameNames(s)
  PROVE  Detect!Positions(s) = 1..Len(rows) /\ \A n : Detect!Named(s, n) = Detect!Named(rows, n)
BY DEF SameNames, Detect!Positions, Detect!Named

\* The tokens of the spans of a trace, which Tokens adds.
TokenCounts(s) == [i \in 1..Len(s) |-> Detect!TokensOf(s[i])]

LEMMA TokensAre ==
  ASSUME NEW s, Len(s) \in Nat, \A i \in 1..Len(s) : Detect!TokensOf(s[i]) \in Nat
  PROVE  /\ Detect!Tokens(s) = Sum(TokenCounts(s)) /\ Detect!Tokens(s) \in Nat
         /\ TokenCounts(s) \in [1..Len(s) -> Int]
         /\ \A i \in 1..Len(s) : /\ TokenCounts(s)[i] = Detect!TokensOf(s[i])
                                /\ TokenCounts(s)[i] >= 0 /\ TokenCounts(s)[i] <= Detect!Tokens(s)
<1>1. Detect!Tokens(s) = Sum(TokenCounts(s))
  BY DetectSum DEF Detect!Tokens, TokenCounts, Detect!Positions
<1>2. TokenCounts(s) \in [1..Len(s) -> Int] /\ \A i \in 1..Len(s) : TokenCounts(s)[i] >= 0
  BY DEF TokenCounts
<1>3. IsFiniteSet(1..Len(s))
  BY FS_Interval
<1>4. Sum(TokenCounts(s)) \in Int /\ Sum(TokenCounts(s)) >= 0
  BY <1>2, <1>3, SumType, SumOfGains
<1>5. \A i \in 1..Len(s) : TokenCounts(s)[i] <= Sum(TokenCounts(s))
  BY <1>2, <1>3, SumAtLeast
<1>6. \A i \in 1..Len(s) : TokenCounts(s)[i] = Detect!TokensOf(s[i])
  BY DEF TokenCounts
<1>7. QED BY <1>1, <1>2, <1>4, <1>5, <1>6

LEMMA TraceCounts ==
  ASSUME Detect!ConstantsOK, Corresponding
  PROVE  Len(trace) \in Nat /\ Len(trace) = Len(rows) /\ Detect!Tokens(trace) \in Nat
<1>1. Len(trace) \in Nat /\ Len(trace) = Len(rows) /\ \A i \in 1..Len(trace) : Detect!TokensOf(trace[i]) \in Nat
  BY SpansAgree DEF Corresponding
<1>2. QED BY <1>1, TokensAre

\* The spans of the collector have no counts.
LEMMA RecordsHaveNone ==
  ASSUME Detect!ConstantsOK, Corresponding
  PROVE  Detect!CheckOverflow(records) = {}
<1>1. \A i \in 1..Len(rows) : Detect!TokensOf(records[i]) = 0
  BY SpansAgree DEF Detect!TokensOf, Detect!OrZero
<1>2. Len(records) \in Nat /\ Len(records) = Len(rows)
  BY DEF Corresponding
<1>3. /\ Detect!Tokens(records) = Sum(TokenCounts(records)) /\ Detect!Tokens(records) \in Nat
      /\ TokenCounts(records) \in [1..Len(records) -> Int]
      /\ \A i \in 1..Len(records) : TokenCounts(records)[i] = 0
  BY <1>1, <1>2, TokensAre
<1>4. IsFiniteSet(1..Len(records))
  BY <1>2, FS_Interval
<1>5. Sum(TokenCounts(records)) = 0
  <2>1. Sum(TokenCounts(records)) \in Int
    BY <1>3, <1>4, SumType
  <2>2. Sum(TokenCounts(records)) = 0 * Sum(TokenCounts(records))
    BY <1>3, <1>4, SumScaled
  <2>3. QED BY <2>1, <2>2
<1>6. Detect!Tokens(records) <= ContextTokens
  BY <1>3, <1>5 DEF Detect!ConstantsOK
<1>7. \A i \in Detect!Positions(records) : Null \notin {records[i].prompt, records[i].completion}
  BY <1>2, SpansAgree DEF Detect!Positions, Detect!ConstantsOK
<1>8. QED BY <1>6, <1>7 DEF Detect!CheckOverflow

\* The tokens of a trace that has grown.
LEMMA TokensGrow ==
  ASSUME NEW s, NEW t, Len(s) \in Nat, Len(t) = Len(s) + 1,
         \A i \in 1..Len(t) : Detect!TokensOf(t[i]) \in Nat, \A i \in 1..Len(s) : t[i] = s[i]
  PROVE  Detect!Tokens(s) <= Detect!Tokens(t)
<1> DEFINE n == Len(s)
           F == TokenCounts(t)
           G == TokenCounts(s)
<1>1. 1..n + 1 = 1..Len(t) /\ (1..n + 1) \ {n + 1} = 1..n /\ n + 1 \in 1..n + 1 /\ \A i \in 1..n : i \in 1..Len(t)
  OBVIOUS
<1>2. \A i \in 1..n : Detect!TokensOf(s[i]) \in Nat
  BY <1>1
<1>3. /\ Detect!Tokens(t) = Sum(F) /\ F \in [1..n + 1 -> Int] /\ F[n + 1] >= 0 /\ Sum(F) \in Int
  BY <1>1, TokensAre
<1>4. Detect!Tokens(s) = Sum(G) /\ G \in [1..n -> Int] /\ Sum(G) \in Int
  BY <1>2, TokensAre
<1>5. \A i \in 1..n : G[i] = F[i]
  BY <1>1 DEF TokenCounts
<1>6. n \in Nat
  OBVIOUS
<1> HIDE DEF F, G, n
<1>7. Sum(F) = F[n + 1] + Sum(G)
  BY <1>3, <1>4, <1>5, <1>6, LastSummand
<1>8. F[n + 1] \in Int
  BY <1>1, <1>3
<1>9. QED BY <1>3, <1>4, <1>7, <1>8

LEMMA SpanSets ==
  ASSUME Corresponding, NEW S \in SUBSET (1..Len(rows))
  PROVE  IsFiniteSet(S) /\ Cardinality(S) \in Nat
<1>1. IsFiniteSet(1..Len(rows))
  BY FS_Interval DEF Corresponding
<1>2. QED BY <1>1, FS_Subset, FS_CardinalityType

\* The first of four checks that answers.
LEMMA FirstOfFour ==
  ASSUME NEW a, NEW b, NEW c, NEW d
  PROVE  Detect!FirstOf(<<a, b, c, d>>) =
           IF a # {} THEN a ELSE IF b # {} THEN b ELSE IF c # {} THEN c ELSE d
<1> DEFINE checks == <<a, b, c, d>>
           hits == {k \in 1..4 : checks[k] # {}}
           m == Detect!Min(hits)
<1>1. checks[1] = a /\ checks[2] = b /\ checks[3] = c /\ checks[4] = d
  OBVIOUS
<1>2. Detect!FirstOf(checks) = IF hits = {} THEN {} ELSE checks[m]
  BY DEF Detect!FirstOf
<1>3. CASE hits = {}
  <2>1. \A k \in 1..4 : checks[k] = {}
    BY <1>3
  <2>2. a = {} /\ b = {} /\ c = {} /\ d = {}
    BY <1>1, <2>1
  <2>3. QED BY <1>2, <1>3, <2>2
<1>4. CASE hits # {}
  <2>1. m \in hits /\ \A k \in hits : m <= k
    <3>1. hits \in SUBSET Nat
      OBVIOUS
    <3> HIDE DEF hits
    <3>2. QED BY <1>4, <3>1, DetectMin
  <2>2. m \in 1..4 /\ checks[m] # {}
    BY <2>1
  <2>3. \A k \in 1..4 : k < m => checks[k] = {}
    <3>1. ASSUME NEW k \in 1..4, k < m, checks[k] # {} PROVE FALSE
      <4>1. k \in hits
        BY <3>1
      <4> HIDE DEF hits, checks
      <4>2. m <= k
        BY <2>1, <4>1 DEF m
      <4> HIDE DEF m
      <4>3. QED BY <2>2, <3>1, <4>2
    <3>2. QED BY <3>1
  <2>4. Detect!FirstOf(checks) = checks[m]
    BY <1>2, <1>4
  <2> HIDE DEF m, hits, checks
  <2>5. m = 1 \/ m = 2 \/ m = 3 \/ m = 4
    BY <2>2
  <2>6. Detect!FirstOf(checks) = IF a # {} THEN a ELSE IF b # {} THEN b ELSE IF c # {} THEN c ELSE d
    BY <1>1, <2>2, <2>3, <2>4, <2>5
  <2>7. QED BY <2>6 DEF checks
<1>5. QED BY <1>3, <1>4

LEMMA TimeoutFound ==
  ASSUME Detect!ConstantsOK, Corresponding, NEW s, SeenAlike(s), NEW f \in Detect!CheckTimeout(s)
  PROVE  f \in Detect!Timeouts(rows) /\ f.type = "tool_timeout" /\ \E i \in 1..Len(rows) : rows[i].ms > TimeoutMs
<1> DEFINE slow == {i \in 1..Len(rows) : Detect!OrZero(s[i].ms) > TimeoutMs}
<1>1. slow # {} /\ f = Detect!Found("tool_timeout", Detect!Min(slow), Detect!Capped(s[Detect!Min(slow)].ms, 2 * TimeoutMs))
  BY ErrorsAlike DEF Detect!CheckTimeout
<1>2. Detect!Min(slow) \in slow
  <2>1. slow \in SUBSET Nat
    BY DEF Corresponding
  <2> HIDE DEF slow
  <2>2. QED BY <1>1, <2>1, DetectMin
<1> DEFINE i == Detect!Min(slow)
<1>3. i \in 1..Len(rows) /\ rows[i].ms > TimeoutMs /\ Detect!OrZero(s[i].ms) = rows[i].ms
  BY <1>2 DEF SeenAlike
<1>4. s[i].ms = rows[i].ms
  <2>1. TimeoutMs \in Nat
    BY DEF Detect!ConstantsOK
  <2> HIDE DEF i, slow
  <2>2. QED BY <1>3, <2>1 DEF Detect!OrZero
<1>5. f = Detect!Found("tool_timeout", i, Detect!Capped(rows[i].ms, 2 * TimeoutMs))
  BY <1>1, <1>4
<1> HIDE DEF i, slow
<1>6. f \in Detect!Timeouts(rows)
  BY <1>3, <1>5, RulesSeeTheSame DEF Detect!Timeouts
<1>7. QED BY <1>3, <1>5, <1>6 DEF Detect!Found

LEMMA NoTimeout ==
  ASSUME Detect!ConstantsOK, Corresponding, NEW s, SeenAlike(s), Detect!CheckTimeout(s) = {}
  PROVE  Detect!Timeouts(rows) = {}
<1>1. \A i \in 1..Len(rows) : ~(Detect!OrZero(s[i].ms) > TimeoutMs)
  BY ErrorsAlike DEF Detect!CheckTimeout
<1>2. \A i \in 1..Len(rows) : ~(rows[i].ms > TimeoutMs)
  BY <1>1 DEF SeenAlike
<1>3. QED BY <1>2, RulesSeeTheSame DEF Detect!Timeouts

LEMMA LoopFound ==
  ASSUME Detect!ConstantsOK, Corresponding, NEW s, SameNames(s), NEW f \in Detect!FirstLoop(s, LoopThreshold)
  PROVE  /\ f \in Detect!Loops(rows) /\ f.type = "infinite_loop"
         /\ \E i \in 1..Len(rows) : Cardinality(Detect!Named(rows, rows[i].name)) >= LoopThreshold
<1> DEFINE repeated == {i \in 1..Len(rows) : Detect!Cardinality(Detect!Named(s, s[i].name)) >= LoopThreshold}
           k == Detect!Min(repeated)
           n == s[k].name
<1>1. repeated # {} /\ f = Detect!Found("infinite_loop", Detect!Min(Detect!Named(s, n)),
                                      Detect!Capped(Detect!Cardinality(Detect!Named(s, n)), 2 * LoopThreshold))
  BY NamesAlike DEF Detect!FirstLoop
<1>2. k \in repeated
  <2>1. repeated \in SUBSET Nat
    BY DEF Corresponding
  <2> HIDE DEF repeated
  <2>2. QED BY <1>1, <2>1, DetectMin
<1>3. k \in 1..Len(rows) /\ rows[k].name = n /\ Detect!Cardinality(Detect!Named(s, n)) >= LoopThreshold
  BY <1>2 DEF SameNames
<1>4. Detect!Named(s, n) = Detect!Named(rows, n)
  BY NamesAlike
<1> HIDE DEF n, k, repeated
<1>5. f \in Detect!Loops(rows)
  BY <1>1, <1>3, <1>4, RulesSeeTheSame DEF Detect!Loops
<1>6. QED BY <1>1, <1>3, <1>4, <1>5, DetectCardinality DEF Detect!Found

LEMMA NoLoop ==
  ASSUME Detect!ConstantsOK, Corresponding, NEW s, SameNames(s), Detect!FirstLoop(s, LoopThreshold) = {}
  PROVE  Detect!Loops(rows) = {}
<1>1. \A i \in 1..Len(rows) : ~(Detect!Cardinality(Detect!Named(s, s[i].name)) >= LoopThreshold)
  BY NamesAlike DEF Detect!FirstLoop
<1>2. \A i \in 1..Len(rows) : ~(Detect!Cardinality(Detect!Named(rows, rows[i].name)) >= LoopThreshold)
  BY <1>1, NamesAlike DEF SameNames
<1>3. QED BY <1>2, RulesSeeTheSame DEF Detect!Loops

LEMMA MisuseFound ==
  ASSUME Detect!ConstantsOK, Corresponding, NEW s, SeenAlike(s), NEW f \in Detect!CheckMisuse(s)
  PROVE  /\ f \in Detect!Misuses(rows) /\ f.type = "tool_misuse" /\ Cardinality(Detect!Errors(rows)) >= 2
<1>1. Detect!Cardinality(Detect!Errors(rows)) = Cardinality(Detect!Errors(rows))
      /\ Cardinality(Detect!Errors(rows)) \in Nat
  <2>1. IsFiniteSet(Detect!Errors(rows))
    BY RulesSeeTheSame, SpanSets
  <2>2. QED BY <2>1, DetectCardinality, FS_CardinalityType
<1>2. ~(Detect!Cardinality(Detect!Errors(rows)) < 2)
      /\ f = Detect!Found("tool_misuse", 0, Detect!Capped(Detect!Cardinality(Detect!Errors(rows)), 5))
  BY ErrorsAlike DEF Detect!CheckMisuse
<1>3. QED BY <1>1, <1>2 DEF Detect!Misuses, Detect!Found

LEMMA NoMisuse ==
  ASSUME Detect!ConstantsOK, Corresponding, NEW s, SeenAlike(s), Detect!CheckMisuse(s) = {}
  PROVE  Detect!Misuses(rows) = {}
<1>1. Detect!Cardinality(Detect!Errors(rows)) < 2
  BY ErrorsAlike DEF Detect!CheckMisuse
<1>2. QED BY <1>1 DEF Detect!Misuses

LEMMA OverflowIs ==
  ASSUME Detect!ConstantsOK, Corresponding
  PROVE  /\ Detect!ToolOverflow(trace) # {} <=> Detect!Tokens(trace) > ContextTokens
         /\ \A f \in Detect!ToolOverflow(trace) : f.type = "context_overflow" /\ Detect!Tokens(trace) > ContextTokens
<1>1. ContextTokens \in Nat
  BY DEF Detect!ConstantsOK
<1>2. Detect!Tokens(trace) <= ContextTokens <=> ~(Detect!Tokens(trace) > ContextTokens)
  BY <1>1, TraceCounts
<1>3. Detect!Found("context_overflow", 0, Detect!Capped(2 * Detect!Tokens(trace), 3 * ContextTokens)).type = "context_overflow"
  BY DEF Detect!Found
<1>4. QED BY <1>2, <1>3 DEF Detect!ToolOverflow

\* RunAll of the records and Analyze of the rows.
LEMMA RulesDoAgree == ASSUME Detect!ConstantsOK, Corresponding PROVE Detect!RulesAgree
<1> DEFINE a == Detect!CheckTimeout(records)
           b == Detect!CheckLoop(records)
           d == Detect!CheckMisuse(records)
<1>1. Detect!RunAll(records) = IF a # {} THEN a ELSE IF b # {} THEN b ELSE d
  <2>1. Detect!RunAll(records) = Detect!FirstOf(<<a, b, {}, d>>)
    BY RecordsHaveNone DEF Detect!RunAll
  <2> HIDE DEF a, b, d
  <2>2. Detect!FirstOf(<<a, b, {}, d>>) = IF a # {} THEN a ELSE IF b # {} THEN b ELSE IF {} # {} THEN {} ELSE d
    BY FirstOfFour
  <2>3. QED BY <2>1, <2>2
<1>2. SeenAlike(records) /\ SameNames(Detect!SpanNames(records))
  BY RulesSeeTheSame
<1>3. a \subseteq Detect!Timeouts(rows)
  BY <1>2, TimeoutFound
<1>4. b \subseteq Detect!Loops(rows)
  BY <1>2, LoopFound DEF Detect!CheckLoop
<1>5. d \subseteq Detect!Misuses(rows)
  BY <1>2, MisuseFound
<1>6. Detect!RunAll(records) \subseteq Detect!Analyze(rows)
  <2> HIDE DEF a, b, d
  <2>1. QED BY <1>1, <1>3, <1>4, <1>5 DEF Detect!Analyze
<1>7. ASSUME Detect!RunAll(records) = {}, NEW f \in Detect!Analyze(rows)
      PROVE  f.type \in {"hallucination", "context_overflow"}
  <2>1. a = {} /\ b = {} /\ d = {}
    <3> HIDE DEF a, b, d
    <3>1. QED BY <1>1, <1>7
  <2>2. Detect!Timeouts(rows) = {} /\ Detect!Loops(rows) = {} /\ Detect!Misuses(rows) = {}
    BY <1>2, <2>1, NoTimeout, NoLoop, NoMisuse DEF Detect!CheckLoop
  <2>3. f \in Detect!Overflows(rows) \/ f \in Detect!Hallucinations(rows)
    BY <1>7, <2>2 DEF Detect!Analyze
  <2>4. f \in Detect!Overflows(rows) => f.type = "context_overflow"
    BY DEF Detect!Overflows, Detect!Found
  <2>5. f \in Detect!Hallucinations(rows) => f.type = "hallucination"
    BY DEF Detect!Hallucinations, Detect!Found
  <2>6. QED BY <2>3, <2>4, <2>5
<1>8. QED BY <1>6, <1>7 DEF Detect!RulesAgree, Detect!Types

\* RunAll and RunTool of the trace.
LEMMA CopiesDoAgree == ASSUME Detect!ConstantsOK, Corresponding PROVE Detect!CopiesAgree
<1> SUFFICES ASSUME \A i \in Detect!Positions(trace) : trace[i].key \in {"span_name", Absent}
             PROVE  \/ Detect!RunAll(trace) = {Detect!Found("TypeError", 0, <<0, 1>>)}
                    \/ Detect!RunAll(trace) = Detect!RunTool(trace)
  BY DEF Detect!CopiesAgree
<1> DEFINE a == Detect!CheckTimeout(trace)
           b == Detect!CheckLoop(trace)
           c == Detect!CheckOverflow(trace)
           d == Detect!CheckMisuse(trace)
           o == Detect!ToolOverflow(trace)
<1>1. Detect!ToolLoop(trace) = b
  <2>1. \A i \in Detect!Positions(trace) :
          /\ trace[i].key = "span_name" => trace[i].key # Absent
          /\ trace[i].key # "span_name" => trace[i].key = Absent
    BY DEF Detect!ConstantsOK
  <2>2. Detect!SpanNames(trace) = Detect!Normalized(trace)
    BY <2>1 DEF Detect!SpanNames, Detect!Normalized
  <2>3. QED BY <2>2 DEF Detect!ToolLoop, Detect!CheckLoop
<1>2. Detect!RunAll(trace) = IF a # {} THEN a ELSE IF b # {} THEN b ELSE IF c # {} THEN c ELSE d
  <2>1. Detect!RunAll(trace) = Detect!FirstOf(<<a, b, c, d>>)
    BY DEF Detect!RunAll
  <2> HIDE DEF a, b, c, d
  <2>2. QED BY <2>1, FirstOfFour
<1>3. Detect!RunTool(trace) = IF a # {} THEN a ELSE IF b # {} THEN b ELSE IF o # {} THEN o ELSE d
  <2>1. Detect!RunTool(trace) = Detect!FirstOf(<<a, b, o, d>>)
    BY <1>1 DEF Detect!RunTool
  <2> HIDE DEF a, b, o, d
  <2>2. QED BY <2>1, FirstOfFour
<1>4. c = o \/ c = {Detect!Found("TypeError", 0, <<0, 1>>)}
  BY DEF Detect!CheckOverflow, Detect!ToolOverflow
<1> HIDE DEF a, b, c, d, o
<1>5. QED BY <1>2, <1>3, <1>4

LEMMA SpikeFollows == ASSUME Detect!ConstantsOK, Corresponding PROVE Detect!OverflowIsASpike
<1>1. {RunawayTokens, ContextTokens} \subseteq Nat /\ RunawayTokens < ContextTokens
  BY DEF Detect!ConstantsOK
<1>2. Detect!Tokens(trace) > ContextTokens => Detect!Tokens(trace) > RunawayTokens
  BY <1>1, TraceCounts
<1>3. QED BY <1>2, OverflowIs DEF Detect!OverflowIsASpike, Detect!CostSpike

LEMMA OutlivesGrowth == ASSUME Detect!ConstantsOK, Corresponding, StillFound PROVE Detect!VerdictOutlivesGrowth
<1> SUFFICES ASSUME verdict.by = "heuristic", ~Unnamed \/ verdict.type # "infinite_loop"
             PROVE  IF verdict.type = "context_overflow" THEN Detect!ToolOverflow(trace) # {}
                    ELSE verdict.type \in Detect!Types(Detect!Analyze(rows))
  BY DEF Detect!VerdictOutlivesGrowth, Unnamed, Detect!Positions, Corresponding
<1>1. CASE verdict.type = "context_overflow"
  BY <1>1, OverflowIs DEF StillFound
<1>2. CASE verdict.type = "tool_timeout"
  <2>1. PICK i \in 1..Len(rows) : rows[i].ms > TimeoutMs
    BY <1>2 DEF StillFound
  <2> DEFINE f == Detect!Found("tool_timeout", i, Detect!Capped(rows[i].ms, 2 * TimeoutMs))
  <2>2. f \in Detect!Timeouts(rows) /\ f.type = "tool_timeout"
    BY <2>1, RulesSeeTheSame DEF Detect!Timeouts, Detect!Found
  <2> HIDE DEF f
  <2>3. QED BY <1>2, <2>2 DEF Detect!Analyze, Detect!Types
<1>3. CASE verdict.type = "infinite_loop"
  <2>1. PICK i \in 1..Len(rows) : Cardinality(Detect!Named(rows, rows[i].name)) >= LoopThreshold
    BY <1>3 DEF StillFound
  <2> DEFINE n == rows[i].name
             f == Detect!Found("infinite_loop", Detect!Min(Detect!Named(rows, n)),
                               Detect!Capped(Detect!Cardinality(Detect!Named(rows, n)), 2 * LoopThreshold))
  <2>2. f \in Detect!Loops(rows)
    BY <2>1, RulesSeeTheSame, DetectCardinality DEF Detect!Loops
  <2>3. f.type = "infinite_loop"
    BY DEF Detect!Found
  <2> HIDE DEF f
  <2>4. QED BY <1>3, <2>2, <2>3 DEF Detect!Analyze, Detect!Types
<1>4. CASE verdict.type = "tool_misuse"
  <2> DEFINE f == Detect!Found("tool_misuse", 0, Detect!Capped(Detect!Cardinality(Detect!Errors(rows)), 5))
  <2>1. Cardinality(Detect!Errors(rows)) >= 2 /\ Cardinality(Detect!Errors(rows)) \in Nat
    BY <1>4, SpanSets, RulesSeeTheSame DEF StillFound
  <2>2. f \in Detect!Misuses(rows)
    BY <2>1, DetectCardinality DEF Detect!Misuses
  <2>3. f.type = "tool_misuse"
    BY DEF Detect!Found
  <2> HIDE DEF f
  <2>4. QED BY <1>4, <2>2, <2>3 DEF Detect!Analyze, Detect!Types
<1>5. QED BY <1>1, <1>2, <1>3, <1>4 DEF StillFound

LEMMA JudgesDoAgree == Detect!JudgesAgree
BY DEF Detect!JudgesAgree, Detect!LlmJudge, Detect!ToolJudge, Detect!IsAnswer, Detect!Valid

\* What grows when a report arrives.
LEMMA ReportGrows ==
  ASSUME Detect!ConstantsOK, DetectInv, NEW r \in Reports, Detect!Report(r)
  PROVE  DetectInv'
<1>1. /\ rows' = Append(rows, Detect!RowOf(r)) /\ records' = Append(records, Detect!RecordOf(r))
      /\ trace' = Append(trace, Detect!DictOf(r)) /\ verdict' = verdict /\ Len(rows) < MaxSpans
  BY DEF Detect!Report
<1> DEFINE n == Len(rows)
           R == {Detect!RowOf(q) : q \in Reports}
           K == {Detect!RecordOf(q) : q \in Reports}
           D == {Detect!DictOf(q) : q \in Reports}
<1>2. /\ Detect!RowOf(r) \in R /\ Detect!RecordOf(r) \in K /\ Detect!DictOf(r) \in D
      /\ rows \in Seq(R) /\ records \in Seq(K) /\ trace \in Seq(D)
      /\ Len(rows) \in Nat /\ Len(records) = Len(rows) /\ Len(trace) = Len(rows)
  BY DEF DetectInv, Corresponding
<1>3. /\ rows' \in Seq(R) /\ Len(rows') = n + 1 /\ DOMAIN rows' = 1..n + 1
      /\ records' \in Seq(K) /\ Len(records') = n + 1 /\ DOMAIN records' = 1..n + 1
      /\ trace' \in Seq(D) /\ Len(trace') = n + 1 /\ DOMAIN trace' = 1..n + 1
      /\ \A i \in 1..n : rows'[i] = rows[i] /\ records'[i] = records[i] /\ trace'[i] = trace[i]
      /\ rows'[n + 1] = Detect!RowOf(r) /\ records'[n + 1] = Detect!RecordOf(r) /\ trace'[n + 1] = Detect!DictOf(r)
  <2> HIDE DEF R, K, D
  <2>1. QED BY <1>1, <1>2
<1>4. Corresponding'
  <2>1. ASSUME NEW i \in 1..n + 1
        PROVE  \E q \in Reports :
                 rows'[i] = Detect!RowOf(q) /\ records'[i] = Detect!RecordOf(q) /\ trace'[i] = Detect!DictOf(q)
    <3>1. CASE i = n + 1
      BY <1>3, <3>1
    <3>2. CASE i # n + 1
      <4>1. i \in 1..n
        BY <1>2, <3>2
      <4>2. QED BY <1>3, <4>1 DEF DetectInv, Corresponding
    <3>3. QED BY <3>1, <3>2
  <2>2. QED BY <1>2, <1>3, <2>1 DEF Corresponding
<1>5. Detect!TypeOK'
  BY <1>1, <1>2, <1>3 DEF DetectInv, Detect!TypeOK, Detect!ConstantsOK
<1>6. StillFound'
  <2> HIDE DEF R, K, D
  <2>1. Detect!Positions(rows)' = 1..n + 1 /\ Detect!Positions(rows) = 1..n /\ n \in Nat
    BY <1>2, <1>3 DEF Detect!Positions
  <2>2. Detect!Errors(rows) \in SUBSET Detect!Errors(rows)' /\ Detect!Errors(rows)' \in SUBSET (1..n + 1)
    BY <1>3, <2>1 DEF Detect!Errors
  <2>3. \A m : Detect!Named(rows, m) \in SUBSET Detect!Named(rows', m) /\ Detect!Named(rows', m) \in SUBSET (1..n + 1)
    BY <1>3, <2>1 DEF Detect!Named, Detect!Positions
  <2>4. \A S \in SUBSET (1..n + 1) : \A T \in SUBSET S :
          Cardinality(S) \in Nat /\ Cardinality(T) \in Nat /\ Cardinality(T) <= Cardinality(S)
    <3>1. IsFiniteSet(1..n + 1)
      BY <2>1, FS_Interval
    <3>2. ASSUME NEW S \in SUBSET (1..n + 1) PROVE IsFiniteSet(S)
      BY <3>1, FS_Subset
    <3>3. QED BY <3>2, FS_Subset, FS_CardinalityType
  <2>5. Cardinality(Detect!Errors(rows)) >= 2 => Cardinality(Detect!Errors(rows)') >= 2
    BY <2>2, <2>4
  <2>6. LoopThreshold \in Nat /\ ContextTokens \in Nat
    BY DEF Detect!ConstantsOK
  <2>7. \A m : Cardinality(Detect!Named(rows, m)) >= LoopThreshold => Cardinality(Detect!Named(rows', m)) >= LoopThreshold
    BY <2>3, <2>4, <2>6
  <2>8. Detect!Tokens(trace) <= Detect!Tokens(trace') /\ Detect!Tokens(trace) \in Nat /\ Detect!Tokens(trace') \in Nat
    <3>1. Corresponding
      BY DEF DetectInv
    <3>2. \A i \in 1..n + 1 : Detect!TokensOf(trace'[i]) \in Nat
      <4>1. \A x \in Nat \cup {Absent, Null} : Detect!OrZero(x) \in Nat
        BY DEF Detect!OrZero
      <4>2. {r.prompt, r.completion} \subseteq Nat \cup {Absent, Null}
        BY DEF Detect!ConstantsOK
      <4>3. Detect!OrZero(r.prompt) \in Nat /\ Detect!OrZero(r.completion) \in Nat
        BY <4>1, <4>2
      <4>4. Detect!TokensOf(Detect!DictOf(r)) \in Nat
        BY <4>3 DEF Detect!TokensOf, Detect!DictOf
      <4>5. \A i \in 1..n : Detect!TokensOf(trace[i]) \in Nat
        BY <3>1, SpansAgree
      <4>6. QED BY <1>3, <2>1, <4>4, <4>5
    <3>3. Len(trace) = n /\ Len(trace') = n + 1 /\ n + 1 \in Nat
      BY <1>2, <1>3
    <3>4. \A i \in 1..n : trace'[i] = trace[i]
      BY <1>3
    <3>5. Detect!Tokens(trace) \in Nat
      BY <3>1, TraceCounts
    <3> HIDE DEF n
    <3>6. Detect!Tokens(trace) <= Detect!Tokens(trace')
      BY <2>1, <3>2, <3>3, <3>4, TokensGrow
    <3>7. Detect!Tokens(trace') \in Nat
      BY <3>2, <3>3, TokensAre
    <3>8. QED BY <3>5, <3>6, <3>7
  <2>9. (\E i \in 1..n : rows[i].ms > TimeoutMs) => \E i \in 1..n + 1 : rows'[i].ms > TimeoutMs
    BY <1>3, <2>1
  <2>10. (\E i \in 1..n : Cardinality(Detect!Named(rows, rows[i].name)) >= LoopThreshold) =>
           \E i \in 1..n + 1 : Cardinality(Detect!Named(rows', rows'[i].name)) >= LoopThreshold
    BY <1>3, <2>1, <2>7
  <2>11. Unnamed => Unnamed'
    BY <1>3, <2>1 DEF Unnamed
  <2>12. QED BY <1>1, <1>3, <2>5, <2>6, <2>8, <2>9, <2>10, <2>11 DEF DetectInv, StillFound
<1>7. QED BY <1>4, <1>5, <1>6 DEF DetectInv

LEMMA ClassifyFinds ==
  ASSUME Detect!ConstantsOK, DetectInv, NEW reply \in Replies, Detect!Classify(reply)
  PROVE  DetectInv'
<1>1. rows' = rows /\ records' = records /\ trace' = trace
  BY DEF Detect!Classify
<1> DEFINE found == {f.type : f \in Detect!RunTool(trace)}
<1>2. PICK type : /\ verdict' = [type |-> type, by |-> IF found # {} THEN "heuristic" ELSE "model"]
                  /\ found # {} => type \in found
  BY DEF Detect!Classify
<1>3. Corresponding' /\ Detect!TypeOK'
  BY <1>1, <1>2 DEF DetectInv, Corresponding, Detect!TypeOK
<1>4. StillFound'
  <2> SUFFICES ASSUME verdict'.by = "heuristic" PROVE StillFound'
    BY DEF StillFound
  <2>1. found # {}
    BY <1>2
  <2>2. PICK f \in Detect!RunTool(trace) : f.type = type
    BY <1>2, <2>1
  <2>3. verdict'.type = f.type
    BY <1>2, <2>2
  <2>4. \/ f.type = "tool_timeout" /\ \E i \in 1..Len(rows) : rows[i].ms > TimeoutMs
        \/ /\ f.type = "infinite_loop"
           /\ Unnamed \/ \E i \in 1..Len(rows) : Cardinality(Detect!Named(rows, rows[i].name)) >= LoopThreshold
        \/ f.type = "tool_misuse" /\ Cardinality(Detect!Errors(rows)) >= 2
        \/ f.type = "context_overflow" /\ Detect!Tokens(trace) > ContextTokens
    <3>1. Corresponding /\ SeenAlike(trace) /\ (~Unnamed => SameNames(Detect!Normalized(trace)))
      BY RulesSeeTheSame DEF DetectInv
    <3>2. f \in Detect!CheckTimeout(trace) \/ f \in Detect!ToolLoop(trace) \/ f \in Detect!ToolOverflow(trace)
          \/ f \in Detect!CheckMisuse(trace)
      <4> DEFINE a == Detect!CheckTimeout(trace)
                 b == Detect!ToolLoop(trace)
                 c == Detect!ToolOverflow(trace)
                 d == Detect!CheckMisuse(trace)
      <4>1. f \in Detect!FirstOf(<<a, b, c, d>>)
        BY <2>2 DEF Detect!RunTool
      <4> HIDE DEF a, b, c, d
      <4>2. f \in a \/ f \in b \/ f \in c \/ f \in d
        BY <4>1, FirstOfFour
      <4>3. QED BY <4>2 DEF a, b, c, d
    <3>3. f \in Detect!ToolLoop(trace) => f.type = "infinite_loop"
      BY DEF Detect!ToolLoop, Detect!FirstLoop, Detect!Found
    <3>4. f \in Detect!ToolLoop(trace) /\ ~Unnamed =>
            \E i \in 1..Len(rows) : Cardinality(Detect!Named(rows, rows[i].name)) >= LoopThreshold
      BY <3>1, LoopFound DEF Detect!ToolLoop
    <3>5. QED BY <3>1, <3>2, <3>3, <3>4, TimeoutFound, MisuseFound, OverflowIs
  <2>5. Unnamed' <=> Unnamed
    BY <1>1 DEF Unnamed
  <2>6. QED BY <1>1, <2>3, <2>4, <2>5 DEF StillFound
<1>5. QED BY <1>3, <1>4 DEF DetectInv

LEMMA DetectInit == ASSUME Detect!ConstantsOK PROVE Detect!Init => DetectInv
BY DEF Detect!ConstantsOK, Detect!Init, DetectInv, Detect!TypeOK, Corresponding, StillFound

\* FailureDetector, heuristics.py and the classifier tool, for any reports, replies and
\* thresholds: what the rules on the collector's spans answer those on the rows find too,
\* the tool answers as they do when spans are named by "span_name" and no count that is
\* reached is None, what it found stays found while the trace grows, and it accepts what
\* the stricter judge does.
THEOREM DetectorsDoAgree == Detect!Spec => []DetectorsAgree
<1>1. Detect!Init => DetectInv
  BY DetectInit, DecisionConstants
<1>2. DetectInv /\ [Detect!Next]_(Detect!vars) => DetectInv'
  <2> SUFFICES ASSUME DetectInv, [Detect!Next]_(Detect!vars) PROVE DetectInv'
    OBVIOUS
  <2>1. CASE UNCHANGED Detect!vars
    <3>1. rows' = rows /\ records' = records /\ trace' = trace /\ verdict' = verdict
      BY <2>1 DEF Detect!vars
    <3>2. QED BY <3>1 DEF DetectInv, Detect!TypeOK, Corresponding, StillFound, Unnamed
  <2>2. QED BY <2>1, ReportGrows, ClassifyFinds, DecisionConstants DEF Detect!Next
<1>3. DetectInv => DetectorsAgree
  BY RulesDoAgree, CopiesDoAgree, SpikeFollows, OutlivesGrowth, JudgesDoAgree, DecisionConstants
  DEF DetectInv, DetectorsAgree, Detect!DetectorsAgree
<1>4. QED BY <1>1, <1>2, <1>3, PTL DEF Detect!Spec

-----------------------------------------------------------------------------
(* The choice of a protocol: ProtocolChoice *)

LEMMA ChoiceSum == ASSUME NEW F PROVE Choice!SumFunction(F) = Sum(F)
BY Zenon DEF Sum, Choice!SumFunction, Choice!SumFunctionOnSet, Choice!FoldFunctionOnSet, Choice!MapThenFoldSet,
   Verdict!SumFunction, Verdict!SumFunctionOnSet, Verdict!FoldFunctionOnSet, Verdict!MapThenFoldSet

LEMMA ChoiceCardinality == ASSUME NEW S PROVE Choice!Cardinality(S) = Cardinality(S)
BY Zenon DEF Choice!Cardinality, Cardinality, Choice!IsFiniteSet, IsFiniteSet

\* The history is one of runs.
Recorded ==
  /\ Len(runHistory) \in Nat /\ DOMAIN runHistory = 1..Len(runHistory)
  /\ \A i \in DOMAIN runHistory : runHistory[i].run \in Runs /\ runHistory[i].day \in Int

\* Rows are finitely many, with costs, similarities and perhaps scores.
LEMMA RowsAre ==
  ASSUME Choice!ConstantsOK, Recorded, NEW S \in SUBSET DOMAIN runHistory
  PROVE  /\ IsFiniteSet(S) /\ Cardinality(S) \in Nat /\ S \in SUBSET Nat
         /\ \A i \in S : /\ runHistory[i].run.score \in Int \cup {NoScore}
                           /\ runHistory[i].run.cost \in Nat
                           /\ \A problem \in Problems : Similarity(problem, runHistory[i].run.problem) \in Nat
<1>1. IsFiniteSet(DOMAIN runHistory)
  BY FS_Interval DEF Recorded
<1>2. IsFiniteSet(S) /\ Cardinality(S) \in Nat
  BY <1>1, FS_Subset, FS_CardinalityType
<1>3. S \in SUBSET Nat
  BY DEF Recorded
<1>4. ASSUME NEW i \in S
      PROVE  /\ runHistory[i].run.score \in Int \cup {NoScore} /\ runHistory[i].run.cost \in Nat
             /\ \A problem \in Problems : Similarity(problem, runHistory[i].run.problem) \in Nat
  <2>1. runHistory[i].run \in Runs
    BY DEF Recorded
  <2>2. QED BY <2>1 DEF Choice!ConstantsOK
<1>5. QED BY <1>2, <1>3, <1>4

\* The rows all have some similarity.
Alike(problem, S) == \A i \in S : Similarity(problem, runHistory[i].run.problem) > 0

\* a is at least c, and at most c.
Above(c, a) == c * a.d <= a.n
Under(a, c) == a.n <= c * a.d
Fraction(a) == a.n \in Int /\ a.d \in Nat \ {0}

\* The weighted mean lies between the least and the greatest of what the rows say.
LEMMA WeightedMean ==
  ASSUME Choice!ConstantsOK, Recorded, NEW S \in SUBSET DOMAIN runHistory, NEW problem \in Problems,
         NEW says \in [S -> Int]
  PROVE  /\ Fraction(Choice!Weighted(problem, says))
         /\ \A c \in Int : S # {} /\ Alike(problem, S) =>
              /\ (\A i \in S : c <= says[i]) => Above(c, Choice!Weighted(problem, says))
              /\ (\A i \in S : says[i] <= c) => Under(Choice!Weighted(problem, says), c)
<1> DEFINE W == [i \in S |-> Similarity(problem, runHistory[i].run.problem)]
           N == Sum([i \in S |-> says[i] * W[i]])
           D == IF Sum(W) = 0 THEN 1 ELSE Sum(W)
           Bounds(c) == /\ (\A i \in S : c <= says[i]) => c * Sum(W) <= N
                        /\ (\A i \in S : says[i] <= c) => N <= c * Sum(W)
<1>1. IsFiniteSet(S) /\ W \in [S -> Nat]
  BY RowsAre
<1>2. Choice!Weighted(problem, says) = [n |-> N, d |-> D]
  <2>1. DOMAIN says = S
    OBVIOUS
  <2>2. QED BY <2>1, ChoiceSum DEF Choice!Weighted, Choice!Ratio
<1>3. Alike(problem, S) => \A i \in S : W[i] > 0
  BY DEF Alike
<1>4. N \in Int /\ \A c \in Int : Bounds(c)
  <2> HIDE DEF W
  <2>1. ASSUME NEW c \in Int PROVE Bounds(c) /\ N \in Int
    BY <1>1, WeightedSum
  <2> HIDE DEF Bounds
  <2>2. 0 \in Int
    OBVIOUS
  <2>3. QED BY <2>1, <2>2
<1> HIDE DEF W, Bounds
<1>5. Sum(W) \in Nat
  <2>1. W \in [S -> Int] /\ \A i \in S : W[i] >= 0
    BY <1>1
  <2>2. QED BY <1>1, <2>1, SumType, SumOfGains
<1>6. S # {} /\ Alike(problem, S) => Sum(W) > 0
  <2> SUFFICES ASSUME S # {}, Alike(problem, S) PROVE Sum(W) > 0
    OBVIOUS
  <2>1. PICK i \in S : TRUE
    OBVIOUS
  <2>2. W \in [S -> Int] /\ (\A y \in S : W[y] >= 0) /\ W[i] > 0 /\ W[i] \in Nat
    BY <1>1, <1>3
  <2>3. W[i] <= Sum(W)
    BY <1>1, <2>2, SumAtLeast
  <2>4. QED BY <1>5, <2>2, <2>3
<1> HIDE DEF N
<1>7. D \in Nat \ {0} /\ (S # {} /\ Alike(problem, S) => D = Sum(W))
  BY <1>5, <1>6
<1> HIDE DEF D
<1>8. /\ Choice!Weighted(problem, says).n = N /\ Choice!Weighted(problem, says).d = D
  BY <1>2
<1>9. Fraction(Choice!Weighted(problem, says))
  BY <1>4, <1>7, <1>8 DEF Fraction
<1>10. ASSUME NEW c \in Int, S # {}, Alike(problem, S)
       PROVE  /\ (\A i \in S : c <= says[i]) => Above(c, Choice!Weighted(problem, says))
              /\ (\A i \in S : says[i] <= c) => Under(Choice!Weighted(problem, says), c)
  <2>1. Choice!Weighted(problem, says).n = N /\ Choice!Weighted(problem, says).d = Sum(W)
    BY <1>7, <1>8, <1>10
  <2>2. Above(c, Choice!Weighted(problem, says)) <=> c * Sum(W) <= N
    BY <2>1, Zenon DEF Above
  <2>3. Under(Choice!Weighted(problem, says), c) <=> N <= c * Sum(W)
    BY <2>1, Zenon DEF Under
  <2>4. /\ (\A i \in S : c <= says[i]) => c * Sum(W) <= N
        /\ (\A i \in S : says[i] <= c) => N <= c * Sum(W)
    <3>1. Bounds(c)
      BY <1>4
    <3>2. QED BY <3>1, Zenon DEF Bounds
  <2>5. QED BY <2>2, <2>3, <2>4
<1>11. QED BY <1>9, <1>10

-----------------------------------------------------------------------------
(* The order of fractions *)

LEMMA LessTyped ==
  ASSUME NEW a, NEW b, Fraction(a), Fraction(b)
  PROVE  /\ a.n * b.d \in Int /\ b.n * a.d \in Int
         /\ Choice!Less(a, b) <=> a.n * b.d < b.n * a.d
         /\ Choice!Less(b, a) <=> b.n * a.d < a.n * b.d
BY Products DEF Fraction, Choice!Less

\* What is at least c is not less than what is at most c.
LEMMA Apart ==
  ASSUME NEW a, NEW b, Fraction(a), Fraction(b), NEW c \in Int, NEW e \in Int, Above(c, a), Under(b, e)
  PROVE  /\ e <= c => ~Choice!Less(a, b)
         /\ e < c => Choice!Less(b, a)
<1>1. /\ a.n \in Int /\ b.n \in Int /\ a.d \in Nat \ {0} /\ b.d \in Nat \ {0}
      /\ c * a.d <= a.n /\ b.n <= e * b.d
      /\ c * a.d \in Int /\ e * b.d \in Int /\ c * b.d \in Int /\ e * a.d \in Int
  BY Products DEF Fraction, Above, Under
<1>2. (c * a.d) * b.d <= a.n * b.d /\ b.n * a.d <= (e * b.d) * a.d
  BY <1>1, Times
<1>3. (c * a.d) * b.d = c * (a.d * b.d) /\ (e * b.d) * a.d = e * (a.d * b.d)
  BY <1>1
<1>4. a.d * b.d \in Nat \ {0}
  BY <1>1, Products
<1>5. /\ e <= c => e * (a.d * b.d) <= c * (a.d * b.d)
      /\ e < c => e * (a.d * b.d) < c * (a.d * b.d)
  BY <1>4, Times
<1>6. e * (a.d * b.d) \in Int /\ c * (a.d * b.d) \in Int
  BY <1>4, Products
<1>7. QED BY <1>2, <1>3, <1>5, <1>6, LessTyped

\* The order is one of values.
LEMMA LessOrder ==
  ASSUME NEW a, NEW b, NEW e, Fraction(a), Fraction(b), Fraction(e)
  PROVE  /\ Choice!Less(a, b) => ~Choice!Less(b, a)
         /\ Choice!Less(a, b) /\ ~Choice!Less(e, b) => Choice!Less(a, e)
         /\ ~Choice!Less(b, a) /\ Choice!Less(b, e) => Choice!Less(a, e)
         /\ ~Choice!Less(b, a) /\ ~Choice!Less(e, b) => ~Choice!Less(e, a)
<1>1. /\ a.n \in Int /\ b.n \in Int /\ e.n \in Int
      /\ a.d \in Nat \ {0} /\ b.d \in Nat \ {0} /\ e.d \in Nat \ {0}
  BY DEF Fraction
<1> DEFINE A == (a.n * b.d) * e.d
           B == (b.n * a.d) * e.d
           E == (e.n * a.d) * b.d
<1>2. /\ Choice!Less(a, b) <=> A < B
      /\ Choice!Less(b, a) <=> B < A
      /\ A \in Int /\ B \in Int
  <2>1. /\ a.n * b.d < b.n * a.d => A < B
        /\ b.n * a.d < a.n * b.d => B < A
        /\ a.n * b.d = b.n * a.d => A = B
        /\ A \in Int /\ B \in Int
    BY <1>1, LessTyped, Times
  <2> HIDE DEF A, B
  <2>2. QED BY <2>1, LessTyped
<1>3. /\ Choice!Less(b, e) <=> B < E
      /\ Choice!Less(e, b) <=> E < B
      /\ E \in Int
  <2>1. (b.n * e.d) * a.d = B /\ (e.n * b.d) * a.d = E
    BY <1>1
  <2>2. /\ b.n * e.d < e.n * b.d => (b.n * e.d) * a.d < (e.n * b.d) * a.d
        /\ e.n * b.d < b.n * e.d => (e.n * b.d) * a.d < (b.n * e.d) * a.d
        /\ b.n * e.d = e.n * b.d => (b.n * e.d) * a.d = (e.n * b.d) * a.d
        /\ (e.n * b.d) * a.d \in Int /\ (b.n * e.d) * a.d \in Int
    BY <1>1, LessTyped, Times
  <2> HIDE DEF B, E
  <2>3. QED BY <2>1, <2>2, LessTyped
<1>4. /\ Choice!Less(a, e) <=> A < E
      /\ Choice!Less(e, a) <=> E < A
  <2>1. (a.n * e.d) * b.d = A /\ (e.n * a.d) * b.d = E
    BY <1>1
  <2>2. /\ a.n * e.d < e.n * a.d => (a.n * e.d) * b.d < (e.n * a.d) * b.d
        /\ e.n * a.d < a.n * e.d => (e.n * a.d) * b.d < (a.n * e.d) * b.d
        /\ a.n * e.d = e.n * a.d => (a.n * e.d) * b.d = (e.n * a.d) * b.d
    BY <1>1, LessTyped, Times
  <2>3. A \in Int /\ E \in Int
    BY <1>2, <1>3
  <2> HIDE DEF A, E
  <2>4. QED BY <2>1, <2>2, <2>3, LessTyped
<1> HIDE DEF A, B, E
<1>5. QED BY <1>2, <1>3, <1>4

\* Three values that weigh, each no less than another.
LEMMA Weighing ==
  ASSUME NEW a \in Int, NEW b \in Int, NEW c \in Int, NEW x \in Int, NEW y \in Int, NEW z \in Int,
         NEW k \in Nat \ {0}, NEW l \in Nat \ {0}, NEW m \in Nat \ {0}, x <= a, y <= b, z <= c
  PROVE  /\ 5 * (x * k) + 30 * (y * l) + 20 * (z * m) <= 5 * (a * k) + 30 * (b * l) + 20 * (c * m)
         /\ x < a \/ y < b \/ z < c =>
              5 * (x * k) + 30 * (y * l) + 20 * (z * m) < 5 * (a * k) + 30 * (b * l) + 20 * (c * m)
<1>1. /\ x * k <= a * k /\ y * l <= b * l /\ z * m <= c * m
      /\ x < a => x * k < a * k
      /\ y < b => y * l < b * l
      /\ z < c => z * m < c * m
      /\ x * k \in Int /\ a * k \in Int /\ y * l \in Int /\ b * l \in Int /\ z * m \in Int /\ c * m \in Int
  BY Times
<1>2. QED BY <1>1

\* The combined score follows its criteria: no less in all and more in one is more.
LEMMA CombinedOrder ==
  ASSUME NEW t, NEW s, NEW f, NEW u, NEW v, NEW g,
         Fraction(t), Fraction(s), Fraction(f), Fraction(u), Fraction(v), Fraction(g)
  PROVE  LET a == Choice!Combined(t, s, f)
             b == Choice!Combined(u, v, g)
         IN  /\ Fraction(a) /\ Fraction(b)
             /\ /\ ~Choice!Less(t, u) /\ ~Choice!Less(s, v) /\ ~Choice!Less(f, g)
                /\ Choice!Less(u, t) \/ Choice!Less(v, s) \/ Choice!Less(g, f)
                => Choice!Less(b, a)
<1> DEFINE a == Choice!Combined(t, s, f)
           b == Choice!Combined(u, v, g)
<1>1. /\ t.n \in Int /\ s.n \in Int /\ f.n \in Int /\ u.n \in Int /\ v.n \in Int /\ g.n \in Int
      /\ t.d \in Nat \ {0} /\ s.d \in Nat \ {0} /\ f.d \in Nat \ {0}
      /\ u.d \in Nat \ {0} /\ v.d \in Nat \ {0} /\ g.d \in Nat \ {0}
  BY DEF Fraction
<1>2. /\ a.n = 5 * t.n * s.d * f.d + 30 * s.n * t.d * f.d + 20 * f.n * t.d * s.d /\ a.d = t.d * s.d * f.d
      /\ b.n = 5 * u.n * v.d * g.d + 30 * v.n * u.d * g.d + 20 * g.n * u.d * v.d /\ b.d = u.d * v.d * g.d
  BY DEF Choice!Combined, Choice!Ratio
<1> HIDE DEF a, b
<1>3. Fraction(a) /\ Fraction(b)
  <2>1. t.d * s.d * f.d \in Nat \ {0} /\ u.d * v.d * g.d \in Nat \ {0}
    BY <1>1, Products
  <2>2. a.n \in Int /\ b.n \in Int
    BY <1>1, <1>2
  <2>3. QED BY <1>2, <2>1, <2>2 DEF Fraction
<1> DEFINE k == s.d * f.d * v.d * g.d
           l == t.d * f.d * u.d * g.d
           m == t.d * s.d * u.d * v.d
<1>4. a.n * b.d = 5 * ((t.n * u.d) * k) + 30 * ((s.n * v.d) * l) + 20 * ((f.n * g.d) * m)
  BY <1>1, <1>2, Together
<1>5. b.n * a.d = 5 * ((u.n * t.d) * k) + 30 * ((v.n * s.d) * l) + 20 * ((g.n * f.d) * m)
  <2>1. b.n * a.d = 5 * ((u.n * t.d) * (v.d * g.d * s.d * f.d)) + 30 * ((v.n * s.d) * (u.d * g.d * t.d * f.d))
                      + 20 * ((g.n * f.d) * (u.d * v.d * t.d * s.d))
    BY <1>1, <1>2, Together
  <2>2. k = v.d * g.d * s.d * f.d /\ l = u.d * g.d * t.d * f.d /\ m = u.d * v.d * t.d * s.d
    BY <1>1
  <2> HIDE DEF k, l, m
  <2>3. QED BY <2>1, <2>2
<1>6. k \in Nat \ {0} /\ l \in Nat \ {0} /\ m \in Nat \ {0}
  BY <1>1, Products
<1> HIDE DEF k, l, m
<1>7. ASSUME ~Choice!Less(t, u), ~Choice!Less(s, v), ~Choice!Less(f, g),
             Choice!Less(u, t) \/ Choice!Less(v, s) \/ Choice!Less(g, f)
      PROVE  Choice!Less(b, a)
  <2>1. /\ u.n * t.d <= t.n * u.d /\ v.n * s.d <= s.n * v.d /\ g.n * f.d <= f.n * g.d
        /\ u.n * t.d < t.n * u.d \/ v.n * s.d < s.n * v.d \/ g.n * f.d < f.n * g.d
        /\ u.n * t.d \in Int /\ t.n * u.d \in Int /\ v.n * s.d \in Int /\ s.n * v.d \in Int
        /\ g.n * f.d \in Int /\ f.n * g.d \in Int
    BY <1>7, LessTyped
  <2> DEFINE p == t.n * u.d
             q == s.n * v.d
             r == f.n * g.d
             x == u.n * t.d
             y == v.n * s.d
             z == g.n * f.d
  <2>2. /\ a.n * b.d = 5 * (p * k) + 30 * (q * l) + 20 * (r * m)
        /\ b.n * a.d = 5 * (x * k) + 30 * (y * l) + 20 * (z * m)
    BY <1>4, <1>5
  <2> HIDE DEF p, q, r, x, y, z
  <2>3. 5 * (x * k) + 30 * (y * l) + 20 * (z * m) < 5 * (p * k) + 30 * (q * l) + 20 * (r * m)
    <3>1. /\ p \in Int /\ q \in Int /\ r \in Int /\ x \in Int /\ y \in Int /\ z \in Int
          /\ x <= p /\ y <= q /\ z <= r
          /\ x < p \/ y < q \/ z < r
      BY <2>1 DEF p, q, r, x, y, z
    <3>2. QED BY <1>6, <3>1, Weighing
  <2>4. b.n * a.d < a.n * b.d
    BY <2>2, <2>3
  <2>5. QED BY <1>3, <2>4, LessTyped
<1>8. QED BY <1>3, <1>7 DEF a, b

\* The share of the largest cost that is left falls as the average cost rises.
LEMMA FitOrder ==
  ASSUME NEW max \in Nat, NEW a, NEW b, Fraction(a), Fraction(b)
  PROVE  LET fit(avg) == IF max = 0 THEN Choice!Ratio(1, 2)
                         ELSE Choice!Ratio(max * avg.d - avg.n, max * avg.d)
         IN  /\ Fraction(fit(a)) /\ Fraction(fit(b))
             /\ ~Choice!Less(b, a) => ~Choice!Less(fit(a), fit(b))
             /\ max # 0 /\ Choice!Less(a, b) => Choice!Less(fit(b), fit(a))
<1> DEFINE fit(avg) == IF max = 0 THEN Choice!Ratio(1, 2)
                       ELSE Choice!Ratio(max * avg.d - avg.n, max * avg.d)
<1>1. a.n \in Int /\ b.n \in Int /\ a.d \in Nat \ {0} /\ b.d \in Nat \ {0}
  BY DEF Fraction
<1>2. CASE max = 0
  <2>1. fit(a) = [n |-> 1, d |-> 2] /\ fit(b) = [n |-> 1, d |-> 2]
    BY <1>2 DEF Choice!Ratio
  <2> HIDE DEF fit
  <2>2. QED BY <1>2, <2>1 DEF Fraction, Choice!Less, fit
<1>3. CASE max # 0
  <2>1. /\ fit(a).n = max * a.d - a.n /\ fit(a).d = max * a.d
        /\ fit(b).n = max * b.d - b.n /\ fit(b).d = max * b.d
    BY <1>3 DEF Choice!Ratio
  <2> HIDE DEF fit
  <2>2. max * a.d \in Nat \ {0} /\ max * b.d \in Nat \ {0}
    BY <1>1, <1>3, Products
  <2>3. Fraction(fit(a)) /\ Fraction(fit(b))
    BY <1>1, <2>1, <2>2 DEF Fraction
  <2>4. /\ fit(a).n * fit(b).d = (max * max) * (a.d * b.d) - (a.n * b.d) * max
        /\ fit(b).n * fit(a).d = (max * max) * (a.d * b.d) - (b.n * a.d) * max
    BY <1>1, <2>1
  <2>5. (max * max) * (a.d * b.d) \in Int
    BY <1>1, Products
  <2>6. /\ ~Choice!Less(b, a) => (a.n * b.d) * max <= (b.n * a.d) * max
        /\ Choice!Less(a, b) => (a.n * b.d) * max < (b.n * a.d) * max
        /\ (a.n * b.d) * max \in Int /\ (b.n * a.d) * max \in Int
    BY <1>3, LessTyped, Times
  <2>7. /\ ~Choice!Less(b, a) => ~Choice!Less(fit(a), fit(b))
        /\ Choice!Less(a, b) => Choice!Less(fit(b), fit(a))
    BY <2>3, <2>4, <2>5, <2>6, LessTyped
  <2>8. QED BY <2>3, <2>7 DEF fit
<1>4. QED BY <1>2, <1>3

-----------------------------------------------------------------------------
(* The criteria of a protocol *)

\* The score of a row; five when it has none.
ScoreOf(i) == IF runHistory[i].run.score = NoScore THEN 5 ELSE runHistory[i].run.score
Good(i) == IF runHistory[i].run.status \in Choice!Successful THEN 1 ELSE 0
CostOf(i) == runHistory[i].run.cost

LEMMA RowValues ==
  ASSUME Choice!ConstantsOK, Recorded, NEW S \in SUBSET DOMAIN runHistory
  PROVE  \A i \in S : ScoreOf(i) \in Int /\ Good(i) \in Int /\ CostOf(i) \in Nat
BY RowsAre DEF ScoreOf, Good, CostOf

\* Each criterion lies between the least and the greatest value of the rows.
LEMMA TaskScoreBounds ==
  ASSUME Choice!ConstantsOK, Recorded, NEW S \in SUBSET DOMAIN runHistory, NEW problem \in Problems,
         S # {}, Alike(problem, S)
  PROVE  /\ Fraction(Choice!TaskScore(problem, S))
         /\ \A c \in Int : /\ (\A i \in S : c <= ScoreOf(i)) => Above(c, Choice!TaskScore(problem, S))
                           /\ (\A i \in S : ScoreOf(i) <= c) => Under(Choice!TaskScore(problem, S), c)
<1> DEFINE R == Choice!Scored(S)
           says == [i \in R |-> runHistory[i].run.score]
<1>1. R \in SUBSET S /\ (\A i \in S : i \in R <=> runHistory[i].run.score # NoScore)
  BY DEF Choice!Scored
<1>2. CASE R = {}
  <2>1. Choice!TaskScore(problem, S) = [n |-> 5, d |-> 1]
    BY <1>2 DEF Choice!TaskScore, Choice!Ratio
  <2>2. \A i \in S : ScoreOf(i) = 5
    BY <1>1, <1>2 DEF ScoreOf
  <2>3. PICK i \in S : TRUE
    OBVIOUS
  <2>4. QED BY <2>1, <2>2, <2>3 DEF Fraction, Above, Under
<1>3. CASE R # {}
  <2>1. Choice!TaskScore(problem, S) = Choice!Weighted(problem, says)
    BY <1>3 DEF Choice!TaskScore
  <2>2. \A i \in R : ScoreOf(i) = says[i] /\ says[i] \in Int
    BY <1>1, RowsAre DEF ScoreOf
  <2>3. says \in [R -> Int]
    BY <2>2
  <2>4. R \in SUBSET DOMAIN runHistory /\ Alike(problem, R)
    BY <1>1 DEF Alike
  <2> HIDE DEF says, R
  <2>5. /\ Fraction(Choice!Weighted(problem, says))
        /\ \A c \in Int : /\ (\A i \in R : c <= says[i]) => Above(c, Choice!Weighted(problem, says))
                          /\ (\A i \in R : says[i] <= c) => Under(Choice!Weighted(problem, says), c)
    BY <1>3, <2>3, <2>4, WeightedMean
  <2>6. \A c : /\ (\A i \in S : c <= ScoreOf(i)) => \A i \in R : c <= says[i]
               /\ (\A i \in S : ScoreOf(i) <= c) => \A i \in R : says[i] <= c
    BY <1>1, <2>2
  <2>7. QED BY <2>1, <2>5, <2>6, Zenon
<1>4. QED BY <1>2, <1>3

LEMMA SuccessBounds ==
  ASSUME Choice!ConstantsOK, Recorded, NEW S \in SUBSET DOMAIN runHistory, NEW problem \in Problems,
         S # {}, Alike(problem, S)
  PROVE  /\ Fraction(Choice!SuccessRate(problem, S))
         /\ \A c \in Int : /\ (\A i \in S : c <= Good(i)) => Above(c, Choice!SuccessRate(problem, S))
                           /\ (\A i \in S : Good(i) <= c) => Under(Choice!SuccessRate(problem, S), c)
<1> DEFINE says == [i \in S |-> IF runHistory[i].run.status \in Choice!Successful THEN 1 ELSE 0]
<1>1. says \in [S -> Int] /\ \A i \in S : says[i] = Good(i)
  BY DEF Good
<1>2. Choice!SuccessRate(problem, S) = Choice!Weighted(problem, says)
  BY DEF Choice!SuccessRate
<1> HIDE DEF says
<1>3. /\ Fraction(Choice!Weighted(problem, says))
      /\ \A c \in Int : /\ (\A i \in S : c <= says[i]) => Above(c, Choice!Weighted(problem, says))
                        /\ (\A i \in S : says[i] <= c) => Under(Choice!Weighted(problem, says), c)
  BY <1>1, WeightedMean
<1>4. \A c : /\ (\A i \in S : c <= Good(i)) => \A i \in S : c <= says[i]
             /\ (\A i \in S : Good(i) <= c) => \A i \in S : says[i] <= c
  BY <1>1
<1>5. QED BY <1>2, <1>3, <1>4, Zenon

LEMMA CostBounds ==
  ASSUME Choice!ConstantsOK, Recorded, NEW S \in SUBSET DOMAIN runHistory, NEW problem \in Problems,
         S # {}, Alike(problem, S)
  PROVE  /\ Fraction(Choice!AverageCost(problem, S))
         /\ \A c \in Int : /\ (\A i \in S : c <= CostOf(i)) => Above(c, Choice!AverageCost(problem, S))
                           /\ (\A i \in S : CostOf(i) <= c) => Under(Choice!AverageCost(problem, S), c)
<1> DEFINE says == [i \in S |-> runHistory[i].run.cost]
<1>1. says \in [S -> Int] /\ \A i \in S : says[i] = CostOf(i)
  BY RowsAre DEF CostOf
<1>2. Choice!AverageCost(problem, S) = Choice!Weighted(problem, says)
  BY DEF Choice!AverageCost
<1> HIDE DEF says
<1>3. /\ Fraction(Choice!Weighted(problem, says))
      /\ \A c \in Int : /\ (\A i \in S : c <= says[i]) => Above(c, Choice!Weighted(problem, says))
                        /\ (\A i \in S : says[i] <= c) => Under(Choice!Weighted(problem, says), c)
  BY <1>1, WeightedMean
<1>4. \A c : /\ (\A i \in S : c <= CostOf(i)) => \A i \in S : c <= says[i]
             /\ (\A i \in S : CostOf(i) <= c) => \A i \in S : says[i] <= c
  BY <1>1
<1>5. QED BY <1>2, <1>3, <1>4, Zenon

\* What tells two sets of rows apart: c, the least value of X, and e, the greatest of Y.
Between(X, Y, V, c, e) ==
  /\ \A i \in X : c <= V[i]
  /\ \A j \in Y : V[j] <= e
  /\ (\A i \in X, j \in Y : V[j] <= V[i]) => e <= c
  /\ (\A i \in X, j \in Y : V[j] < V[i]) => e < c

LEMMA Extremes ==
  ASSUME NEW X, IsFiniteSet(X), X # {}, NEW Y, IsFiniteSet(Y), Y # {}, NEW V \in [X \cup Y -> Int]
  PROVE  \E c, e \in Int : Between(X, Y, V, c, e)
<1> DEFINE F == [i \in X |-> V[i]]
           G == [j \in Y |-> V[j]]
<1>1. F \in [X -> Int] /\ G \in [Y -> Int] /\ (\A i \in X : F[i] = V[i]) /\ (\A j \in Y : G[j] = V[j])
  OBVIOUS
<1> HIDE DEF F, G
<1>2. PICK m \in X : \A i \in X : F[m] <= F[i]
  BY <1>1, LeastValue
<1>3. PICK n \in Y : \A j \in Y : G[j] <= G[n]
  BY <1>1, GreatestValue
<1>4. /\ V[m] \in Int /\ V[n] \in Int
      /\ \A i \in X : V[m] <= V[i]
      /\ \A j \in Y : V[j] <= V[n]
  BY <1>1, <1>2, <1>3
<1>5. QED BY <1>4 DEF Between

\* X and Y are rows of two protocols; those of X are no worse, or better.
LEMMA CriteriaOrder ==
  ASSUME Choice!ConstantsOK, Recorded, NEW problem \in Problems,
         NEW X \in SUBSET DOMAIN runHistory, X # {}, Alike(problem, X),
         NEW Y \in SUBSET DOMAIN runHistory, Y # {}, Alike(problem, Y)
  PROVE  /\ LET a == Choice!TaskScore(problem, X)
                b == Choice!TaskScore(problem, Y)
            IN  /\ (\A i \in X, j \in Y : ScoreOf(j) <= ScoreOf(i)) => ~Choice!Less(a, b)
                /\ (\A i \in X, j \in Y : ScoreOf(j) < ScoreOf(i)) => Choice!Less(b, a)
         /\ LET a == Choice!SuccessRate(problem, X)
                b == Choice!SuccessRate(problem, Y)
            IN  /\ (\A i \in X, j \in Y : Good(j) <= Good(i)) => ~Choice!Less(a, b)
                /\ (\A i \in X, j \in Y : Good(j) < Good(i)) => Choice!Less(b, a)
         /\ LET a == Choice!AverageCost(problem, X)
                b == Choice!AverageCost(problem, Y)
            IN  /\ (\A i \in X, j \in Y : CostOf(i) <= CostOf(j)) => ~Choice!Less(b, a)
                /\ (\A i \in X, j \in Y : CostOf(i) < CostOf(j)) => Choice!Less(a, b)
<1>1. IsFiniteSet(X) /\ IsFiniteSet(Y)
  BY RowsAre
<1>2. \A i \in X \cup Y : ScoreOf(i) \in Int /\ Good(i) \in Int /\ CostOf(i) \in Int
  BY RowValues
<1>3. LET a == Choice!TaskScore(problem, X)
          b == Choice!TaskScore(problem, Y)
      IN  /\ (\A i \in X, j \in Y : ScoreOf(j) <= ScoreOf(i)) => ~Choice!Less(a, b)
          /\ (\A i \in X, j \in Y : ScoreOf(j) < ScoreOf(i)) => Choice!Less(b, a)
  <2> DEFINE a == Choice!TaskScore(problem, X)
             b == Choice!TaskScore(problem, Y)
             V == [i \in X \cup Y |-> ScoreOf(i)]
  <2>1. V \in [X \cup Y -> Int] /\ \A i \in X \cup Y : V[i] = ScoreOf(i)
    BY <1>2
  <2>2. /\ Fraction(a) /\ Fraction(b)
        /\ \A c \in Int : (\A i \in X : c <= ScoreOf(i)) => Above(c, a)
        /\ \A e \in Int : (\A i \in Y : ScoreOf(i) <= e) => Under(b, e)
    BY TaskScoreBounds
  <2> HIDE DEF a, b, V
  <2>3. PICK c, e \in Int : Between(X, Y, V, c, e)
    BY <1>1, <2>1, Extremes
  <2>4. Above(c, a) /\ Under(b, e)
    BY <2>1, <2>2, <2>3 DEF Between
  <2>5. /\ e <= c => ~Choice!Less(a, b)
        /\ e < c => Choice!Less(b, a)
    BY <2>2, <2>4, Apart
  <2>6. QED BY <2>1, <2>3, <2>5 DEF Between, a, b
<1>4. LET a == Choice!SuccessRate(problem, X)
          b == Choice!SuccessRate(problem, Y)
      IN  /\ (\A i \in X, j \in Y : Good(j) <= Good(i)) => ~Choice!Less(a, b)
          /\ (\A i \in X, j \in Y : Good(j) < Good(i)) => Choice!Less(b, a)
  <2> DEFINE a == Choice!SuccessRate(problem, X)
             b == Choice!SuccessRate(problem, Y)
             V == [i \in X \cup Y |-> Good(i)]
  <2>1. V \in [X \cup Y -> Int] /\ \A i \in X \cup Y : V[i] = Good(i)
    BY <1>2
  <2>2. /\ Fraction(a) /\ Fraction(b)
        /\ \A c \in Int : (\A i \in X : c <= Good(i)) => Above(c, a)
        /\ \A e \in Int : (\A i \in Y : Good(i) <= e) => Under(b, e)
    BY SuccessBounds
  <2> HIDE DEF a, b, V
  <2>3. PICK c, e \in Int : Between(X, Y, V, c, e)
    BY <1>1, <2>1, Extremes
  <2>4. Above(c, a) /\ Under(b, e)
    BY <2>1, <2>2, <2>3 DEF Between
  <2>5. /\ e <= c => ~Choice!Less(a, b)
        /\ e < c => Choice!Less(b, a)
    BY <2>2, <2>4, Apart
  <2>6. QED BY <2>1, <2>3, <2>5 DEF Between, a, b
<1>5. LET a == Choice!AverageCost(problem, X)
          b == Choice!AverageCost(problem, Y)
      IN  /\ (\A i \in X, j \in Y : CostOf(i) <= CostOf(j)) => ~Choice!Less(b, a)
          /\ (\A i \in X, j \in Y : CostOf(i) < CostOf(j)) => Choice!Less(a, b)
  <2> DEFINE a == Choice!AverageCost(problem, X)
             b == Choice!AverageCost(problem, Y)
             V == [i \in Y \cup X |-> CostOf(i)]
  <2>1. V \in [Y \cup X -> Int] /\ \A i \in Y \cup X : V[i] = CostOf(i)
    BY <1>2
  <2>2. /\ Fraction(a) /\ Fraction(b)
        /\ \A c \in Int : (\A i \in Y : c <= CostOf(i)) => Above(c, b)
        /\ \A e \in Int : (\A i \in X : CostOf(i) <= e) => Under(a, e)
    BY CostBounds
  <2> HIDE DEF a, b, V
  <2>3. PICK c, e \in Int : Between(Y, X, V, c, e)
    BY <1>1, <2>1, Extremes
  <2>4. Above(c, b) /\ Under(a, e)
    BY <2>1, <2>2, <2>3 DEF Between
  <2>5. /\ e <= c => ~Choice!Less(b, a)
        /\ e < c => Choice!Less(a, b)
    BY <2>2, <2>4, Apart
  <2>6. QED BY <2>1, <2>3, <2>5 DEF Between, a, b
<1>6. QED BY <1>3, <1>4, <1>5

\* The largest cost of the neighbours.
LEMMA MaxCostIs ==
  ASSUME Choice!ConstantsOK, Recorded, NEW near \in SUBSET DOMAIN runHistory, near # {}
  PROVE  /\ Choice!MaxCost(near) \in Nat
         /\ \A i \in near : CostOf(i) <= Choice!MaxCost(near)
<1> DEFINE costs == {runHistory[i].run.cost : i \in near}
           F == [i \in near |-> CostOf(i)]
<1>1. F \in [near -> Int] /\ (\A i \in near : F[i] = CostOf(i) /\ CostOf(i) \in Nat) /\ IsFiniteSet(near)
  BY RowsAre, RowValues
<1> HIDE DEF F
<1>2. PICK m \in near : \A i \in near : F[i] <= F[m]
  BY <1>1, GreatestValue
<1>3. \A x \in costs : \E i \in near : x = CostOf(i)
  BY DEF CostOf
<1>4. \A i \in near : CostOf(i) \in costs
  BY DEF CostOf
<1> HIDE DEF costs
<1>5. CostOf(m) \in costs /\ \A y \in costs : CostOf(m) >= y
  BY <1>1, <1>2, <1>3, <1>4
<1>6. Choice!MaxCost(near) = CHOOSE x \in costs : \A y \in costs : x >= y
  BY DEF Choice!MaxCost, Choice!Max, costs
<1>7. Choice!MaxCost(near) \in costs /\ \A y \in costs : Choice!MaxCost(near) >= y
  BY <1>5, <1>6
<1>8. QED BY <1>1, <1>3, <1>4, <1>7

LEMMA ScoreIsFraction ==
  ASSUME Choice!ConstantsOK, Recorded, NEW problem \in Problems,
         NEW near \in SUBSET DOMAIN runHistory, Alike(problem, near),
         NEW p, Choice!OfProtocol(near, p) # {}
  PROVE  Fraction(Choice!Score(problem, near, p))
<1> DEFINE R == Choice!OfProtocol(near, p)
           t == Choice!TaskScore(problem, R)
           s == Choice!SuccessRate(problem, R)
           f == Choice!CostFit(problem, R, Choice!MaxCost(near))
           a == Choice!AverageCost(problem, R)
<1>1. R \in SUBSET near /\ R # {} /\ near # {} /\ R \in SUBSET DOMAIN runHistory /\ Alike(problem, R)
  BY DEF Choice!OfProtocol, Alike
<1>2. Choice!Score(problem, near, p) = Choice!Combined(t, s, f)
  BY DEF Choice!Score
<1> HIDE DEF R
<1>3. Fraction(t) /\ Fraction(s) /\ Fraction(a)
  BY <1>1, TaskScoreBounds, SuccessBounds, CostBounds
<1>4. Choice!MaxCost(near) \in Nat
  BY <1>1, MaxCostIs
<1>5. Fraction(f)
  <2> HIDE DEF a
  <2>1. f = IF Choice!MaxCost(near) = 0 THEN Choice!Ratio(1, 2)
            ELSE Choice!Ratio(Choice!MaxCost(near) * a.d - a.n, Choice!MaxCost(near) * a.d)
    BY DEF Choice!CostFit, a
  <2> HIDE DEF f
  <2>2. QED BY <1>3, <1>4, <2>1, FitOrder
<1> HIDE DEF t, s, f
<1>6. Fraction(Choice!Combined(t, s, f))
  BY <1>3, <1>5, CombinedOrder
<1>7. QED BY <1>2, <1>6

\* A protocol that is better in every respect has the greater score.
LEMMA BetterWins ==
  ASSUME Choice!ConstantsOK, Recorded, NEW problem \in Problems,
         NEW near \in SUBSET DOMAIN runHistory, Alike(problem, near),
         NEW p, NEW q, Choice!Dominates(near, p, q)
  PROVE  Choice!Less(Choice!Score(problem, near, q), Choice!Score(problem, near, p))
<1> DEFINE X == Choice!OfProtocol(near, p)
           Y == Choice!OfProtocol(near, q)
           max == Choice!MaxCost(near)
           t == Choice!TaskScore(problem, X)
           s == Choice!SuccessRate(problem, X)
           a == Choice!AverageCost(problem, X)
           f == Choice!CostFit(problem, X, max)
           u == Choice!TaskScore(problem, Y)
           v == Choice!SuccessRate(problem, Y)
           b == Choice!AverageCost(problem, Y)
           g == Choice!CostFit(problem, Y, max)
<1>1. /\ X # {} /\ Y # {}
      /\ \A i \in X, j \in Y : Good(j) <= Good(i) /\ ScoreOf(j) <= ScoreOf(i) /\ CostOf(i) <= CostOf(j)
      /\ \/ \A i \in X, j \in Y : Good(j) < Good(i)
         \/ \A i \in X, j \in Y : CostOf(i) < CostOf(j)
         \/ \A i \in X, j \in Y : ScoreOf(j) < ScoreOf(i)
  <2>1. X \in SUBSET DOMAIN runHistory /\ Y \in SUBSET DOMAIN runHistory
    BY DEF Choice!OfProtocol
  <2>2. \A i \in X \cup Y : ScoreOf(i) \in Int /\ Good(i) \in Int /\ CostOf(i) \in Int
    BY <2>1, RowValues
  <2>3. /\ X # {} /\ Y # {}
        /\ \A i \in X, j \in Y : Good(i) >= Good(j) /\ ScoreOf(i) >= ScoreOf(j) /\ CostOf(i) <= CostOf(j)
        /\ \/ \A i \in X, j \in Y : Good(i) > Good(j)
           \/ \A i \in X, j \in Y : CostOf(i) < CostOf(j)
           \/ \A i \in X, j \in Y : ScoreOf(i) > ScoreOf(j)
    BY Zenon DEF Choice!Dominates, Good, ScoreOf, CostOf
  <2> HIDE DEF X, Y
  <2>4. QED BY <2>2, <2>3
<1>2. /\ X \in SUBSET near /\ near # {} /\ X \in SUBSET DOMAIN runHistory /\ Alike(problem, X)
      /\ Y \in SUBSET near /\ Y \in SUBSET DOMAIN runHistory /\ Alike(problem, Y)
  BY <1>1 DEF Choice!OfProtocol, Alike
<1>3. /\ Choice!Score(problem, near, p) = Choice!Combined(t, s, f)
      /\ Choice!Score(problem, near, q) = Choice!Combined(u, v, g)
  BY DEF Choice!Score
<1> HIDE DEF X, Y
<1>4. Fraction(t) /\ Fraction(s) /\ Fraction(a) /\ Fraction(u) /\ Fraction(v) /\ Fraction(b)
  BY <1>1, <1>2, TaskScoreBounds, SuccessBounds, CostBounds
<1>5. /\ (\A i \in X, j \in Y : ScoreOf(j) <= ScoreOf(i)) => ~Choice!Less(t, u)
      /\ (\A i \in X, j \in Y : ScoreOf(j) < ScoreOf(i)) => Choice!Less(u, t)
      /\ (\A i \in X, j \in Y : Good(j) <= Good(i)) => ~Choice!Less(s, v)
      /\ (\A i \in X, j \in Y : Good(j) < Good(i)) => Choice!Less(v, s)
      /\ (\A i \in X, j \in Y : CostOf(i) <= CostOf(j)) => ~Choice!Less(b, a)
      /\ (\A i \in X, j \in Y : CostOf(i) < CostOf(j)) => Choice!Less(a, b)
  BY <1>1, <1>2, CriteriaOrder
<1>6. max \in Nat /\ \A i \in near : CostOf(i) <= max
  BY <1>2, MaxCostIs
<1>7. (\A i \in X, j \in Y : CostOf(i) < CostOf(j)) => max # 0
  <2>1. PICK i \in X : TRUE
    BY <1>1
  <2>2. PICK j \in Y : TRUE
    BY <1>1
  <2>3. CostOf(i) \in Nat /\ CostOf(j) \in Nat /\ CostOf(j) <= max
    BY <1>2, <1>6, RowValues
  <2> HIDE DEF max
  <2>4. QED BY <1>6, <2>1, <2>2, <2>3
<1>8. /\ Fraction(f) /\ Fraction(g)
      /\ ~Choice!Less(b, a) => ~Choice!Less(f, g)
      /\ max # 0 /\ Choice!Less(a, b) => Choice!Less(g, f)
  <2>1. /\ f = IF max = 0 THEN Choice!Ratio(1, 2) ELSE Choice!Ratio(max * a.d - a.n, max * a.d)
        /\ g = IF max = 0 THEN Choice!Ratio(1, 2) ELSE Choice!Ratio(max * b.d - b.n, max * b.d)
    BY DEF Choice!CostFit
  <2> HIDE DEF a, b, f, g, max
  <2>2. QED BY <1>4, <1>6, <2>1, FitOrder
<1> HIDE DEF t, s, a, f, u, v, b, g, max
<1>9. /\ ~Choice!Less(t, u) /\ ~Choice!Less(s, v) /\ ~Choice!Less(f, g)
      /\ Choice!Less(u, t) \/ Choice!Less(v, s) \/ Choice!Less(g, f)
  BY <1>1, <1>5, <1>7, <1>8
<1>10. Choice!Less(Choice!Combined(u, v, g), Choice!Combined(t, s, f))
  BY <1>4, <1>8, <1>9, CombinedOrder
<1>11. QED BY <1>3, <1>10

-----------------------------------------------------------------------------
(* The recommendation *)

\* Some element of a set is not beaten by another.
LEMMA SomeUnbeaten ==
  ASSUME NEW S, IsFiniteSet(S), S # {}, NEW R,
         \A x \in S : ~(<<x, x>> \in R),
         \A x, y, z \in S : <<x, y>> \in R /\ <<y, z>> \in R => <<x, z>> \in R
  PROVE  \E m \in S : \A x \in S : ~(<<x, m>> \in R)
<1> DEFINE T == {s \in SUBSET S : s # {} => \E m \in s : \A x \in s : ~(<<x, m>> \in R)}
<1>1. {} \in T
  OBVIOUS
<1>2. ASSUME NEW s \in SUBSET S, s # {}, s \ {One(s)} \in T PROVE s \in T
  <2> DEFINE c == One(s)
  <2>1. c \in s /\ c \in S
    BY <1>2 DEF One
  <2>2. s \ {c} \in T
    BY <1>2
  <2> HIDE DEF c
  <2>3. CASE s \ {c} = {}
    <3>1. s = {c}
      BY <2>1, <2>3
    <3>2. QED BY <2>1, <3>1
  <2>4. CASE s \ {c} # {}
    <3>1. PICK m \in s \ {c} : \A x \in s \ {c} : ~(<<x, m>> \in R)
      BY <2>2, <2>4
    <3>2. CASE <<c, m>> \in R
      <4>1. \A x \in s : ~(<<x, c>> \in R)
        BY <2>1, <3>1, <3>2
      <4>2. QED BY <2>1, <4>1
    <3>3. CASE ~(<<c, m>> \in R)
      BY <3>1, <3>3
    <3>4. QED BY <3>2, <3>3
  <2>5. QED BY <2>3, <2>4
<1>3. S \in T
  <2>1. T \in SUBSET SUBSET S
    OBVIOUS
  <2> HIDE DEF T
  <2>2. QED BY <1>1, <1>2, <2>1, Peeling
<1>4. QED BY <1>3

\* The protocols that some neighbour ran, and how two of them compare.
Points(problem, near, k) == Choice!Score(problem, near, ProtocolOrder[k])
Outdoes(problem, near, j, k) ==
  \/ Choice!Less(Points(problem, near, k), Points(problem, near, j))
  \/ ~Choice!Less(Points(problem, near, j), Points(problem, near, k)) /\ j < k
Unbeaten(problem, near) ==
  {k \in Choice!Candidates(near) : ~ \E j \in Choice!Candidates(near) : Outdoes(problem, near, j, k)}

\* Recommend, with its local definitions named.
LEMMA RecommendIs ==
  ASSUME NEW problem, NEW min, NEW topK, NEW near, near = Choice!Neighbours(problem, min, topK)
  PROVE  Choice!Recommend(problem, min, topK)
           = IF Choice!Candidates(near) = {} THEN {"round_robin"}
             ELSE IF Choice!Raises(problem, near) THEN {}
             ELSE {ProtocolOrder[k] : k \in Unbeaten(problem, near)}
BY DEF Choice!Recommend, Unbeaten, Outdoes, Points

LEMMA CandidatesAre ==
  ASSUME Choice!ConstantsOK, NEW near
  PROVE  /\ IsFiniteSet(Choice!Candidates(near)) /\ Choice!Candidates(near) \in SUBSET Nat
         /\ \A k \in Choice!Candidates(near) : Choice!OfProtocol(near, ProtocolOrder[k]) # {}
<1>1. DOMAIN ProtocolOrder = 1..Len(ProtocolOrder) /\ Len(ProtocolOrder) \in Nat
  BY DEF Choice!ConstantsOK
<1>2. IsFiniteSet(DOMAIN ProtocolOrder) /\ DOMAIN ProtocolOrder \in SUBSET Nat
  BY <1>1, FS_Interval
<1>3. Choice!Candidates(near) \in SUBSET DOMAIN ProtocolOrder
  BY DEF Choice!Candidates
<1>4. QED BY <1>2, <1>3, FS_Subset DEF Choice!Candidates

\* The first of the best is one.
LEMMA OneUnbeaten ==
  ASSUME Choice!ConstantsOK, NEW problem, NEW near
  PROVE  \A j, k \in Unbeaten(problem, near) : j = k
<1> SUFFICES ASSUME NEW j \in Unbeaten(problem, near), NEW k \in Unbeaten(problem, near), j # k PROVE FALSE
  OBVIOUS
<1>1. j \in Nat /\ k \in Nat /\ j \in Choice!Candidates(near) /\ k \in Choice!Candidates(near)
  BY CandidatesAre DEF Unbeaten
<1>2. ~Outdoes(problem, near, j, k) /\ ~Outdoes(problem, near, k, j)
  BY <1>1 DEF Unbeaten
<1>3. j < k \/ k < j
  BY <1>1
<1>4. QED BY <1>2, <1>3 DEF Outdoes

\* Outdoing is an order, so that some candidate is not outdone.
LEMMA SomeRecommended ==
  ASSUME Choice!ConstantsOK, Recorded, NEW problem \in Problems,
         NEW near \in SUBSET DOMAIN runHistory, Alike(problem, near), Choice!Candidates(near) # {}
  PROVE  Unbeaten(problem, near) # {}
<1> DEFINE C == Choice!Candidates(near)
           R == {pair \in C \X C : Outdoes(problem, near, pair[1], pair[2])}
<1>1. IsFiniteSet(C) /\ C \in SUBSET Nat /\ \A k \in C : Fraction(Points(problem, near, k))
  BY CandidatesAre, ScoreIsFraction DEF Points
<1>2. \A x, y \in C : <<x, y>> \in R <=> Outdoes(problem, near, x, y)
  OBVIOUS
<1> HIDE DEF C, R
<1>3. \A x \in C : ~(<<x, x>> \in R)
  <2>1. \A x \in C : ~Choice!Less(Points(problem, near, x), Points(problem, near, x))
    BY <1>1, LessOrder
  <2>2. \A x \in C : ~(x < x)
    BY <1>1
  <2>3. QED BY <1>2, <2>1, <2>2 DEF Outdoes
<1>4. \A x, y, z \in C : <<x, y>> \in R /\ <<y, z>> \in R => <<x, z>> \in R
  <2> SUFFICES ASSUME NEW x \in C, NEW y \in C, NEW z \in C,
                      Outdoes(problem, near, x, y), Outdoes(problem, near, y, z)
               PROVE  Outdoes(problem, near, x, z)
    BY <1>2
  <2> DEFINE a == Points(problem, near, x)
             b == Points(problem, near, y)
             e == Points(problem, near, z)
  <2>1. Fraction(a) /\ Fraction(b) /\ Fraction(e) /\ x \in Nat /\ y \in Nat /\ z \in Nat
    BY <1>1
  <2>2. /\ Choice!Less(b, a) \/ (~Choice!Less(a, b) /\ x < y)
        /\ Choice!Less(e, b) \/ (~Choice!Less(b, e) /\ y < z)
    BY DEF Outdoes
  <2> HIDE DEF a, b, e
  <2>3. CASE Choice!Less(b, a)
    <3>1. ~Choice!Less(b, e)
      BY <2>1, <2>2, LessOrder
    <3>2. Choice!Less(e, a)
      BY <2>1, <2>3, <3>1, LessOrder
    <3>3. QED BY <3>2 DEF Outdoes, a, e
  <2>4. CASE ~Choice!Less(a, b) /\ x < y
    <3>1. CASE Choice!Less(e, b)
      <4>1. Choice!Less(e, a)
        BY <2>1, <2>4, <3>1, LessOrder
      <4>2. QED BY <4>1 DEF Outdoes, a, e
    <3>2. CASE ~Choice!Less(b, e) /\ y < z
      <4>1. ~Choice!Less(a, e)
        BY <2>1, <2>4, <3>2, LessOrder
      <4>2. x < z
        BY <2>1, <2>4, <3>2
      <4>3. QED BY <4>1, <4>2 DEF Outdoes, a, e
    <3>3. QED BY <2>2, <3>1, <3>2
  <2>5. QED BY <2>2, <2>3, <2>4
<1>5. C # {}
  BY DEF C
<1>6. PICK m \in C : \A x \in C : ~(<<x, m>> \in R)
  BY <1>1, <1>3, <1>4, <1>5, SomeUnbeaten
<1>7. QED BY <1>2, <1>6 DEF Unbeaten, C

\* No mean is without weight when the neighbours all have some similarity.
LEMMA NothingRaises ==
  ASSUME Choice!ConstantsOK, Recorded, NEW problem \in Problems,
         NEW near \in SUBSET DOMAIN runHistory, Alike(problem, near)
  PROVE  ~Choice!Raises(problem, near)
<1> SUFFICES ASSUME Choice!Raises(problem, near) PROVE FALSE
  OBVIOUS
<1>1. PICK k \in Choice!Candidates(near) :
        LET scored == Choice!Scored(Choice!OfProtocol(near, ProtocolOrder[k]))
        IN  scored # {} /\ \A i \in scored : Similarity(problem, runHistory[i].run.problem) = 0
  BY DEF Choice!Raises
<1>2. PICK i \in Choice!Scored(Choice!OfProtocol(near, ProtocolOrder[k])) :
        Similarity(problem, runHistory[i].run.problem) = 0
  BY <1>1
<1>3. i \in near
  BY <1>2 DEF Choice!Scored, Choice!OfProtocol
<1>4. QED BY <1>2, <1>3 DEF Alike

\* One protocol is recommended, and none of the others dominates it.
LEMMA RecommendedIsBest ==
  ASSUME Choice!ConstantsOK, Recorded, NEW problem \in Problems, NEW min, NEW topK,
         NEW near, near = Choice!Neighbours(problem, min, topK), near \in SUBSET DOMAIN runHistory
  PROVE  LET best == Choice!Recommend(problem, min, topK)
         IN  /\ Cardinality(best) <= 1
             /\ Alike(problem, near) =>
                  /\ best # {}
                  /\ \A p \in best, q \in Choice!ToSet(ProtocolOrder) \ best : ~Choice!Dominates(near, q, p)
<1> DEFINE best == Choice!Recommend(problem, min, topK)
           C == Choice!Candidates(near)
           U == Unbeaten(problem, near)
<1>1. best = IF C = {} THEN {"round_robin"}
             ELSE IF Choice!Raises(problem, near) THEN {}
             ELSE {ProtocolOrder[k] : k \in U}
  BY RecommendIs
<1>2. \A j, k \in U : j = k
  BY OneUnbeaten
<1>3. \A j \in DOMAIN ProtocolOrder : Choice!OfProtocol(near, ProtocolOrder[j]) # {} => j \in C
  BY DEF Choice!Candidates
<1>4. U \in SUBSET C
  BY DEF Unbeaten
<1>5. Alike(problem, near) => ~Choice!Raises(problem, near) /\ (C # {} => U # {})
  BY NothingRaises, SomeRecommended
<1>6. ASSUME NEW j \in C, NEW k \in U, Alike(problem, near)
      PROVE  ~Choice!Dominates(near, ProtocolOrder[j], ProtocolOrder[k])
  <2>1. ~Outdoes(problem, near, j, k)
    BY DEF Unbeaten
  <2>2. ~Choice!Less(Points(problem, near, k), Points(problem, near, j))
    BY <2>1 DEF Outdoes
  <2>3. QED BY <1>6, <2>2, BetterWins DEF Points
<1> HIDE DEF best, C, U
<1>7. Cardinality(best) <= 1
  <2>1. best = {} \/ \E x : best = {x}
    <3>1. CASE C = {}
      BY <1>1, <3>1
    <3>2. CASE C # {} /\ (U = {} \/ Choice!Raises(problem, near))
      BY <1>1, <3>2
    <3>3. CASE C # {} /\ U # {} /\ ~Choice!Raises(problem, near)
      <4>1. PICK k \in U : TRUE
        BY <3>3
      <4>2. best = {ProtocolOrder[k]}
        BY <1>1, <1>2, <3>3, <4>1
      <4>3. QED BY <4>2
    <3>4. QED BY <3>1, <3>2, <3>3
  <2>2. best = {} => Cardinality(best) = 0
    BY FS_EmptySet
  <2>3. ASSUME NEW x, best = {x} PROVE Cardinality(best) = 1
    BY <2>3, FS_Singleton
  <2>4. Cardinality(best) = 0 \/ Cardinality(best) = 1
    BY <2>1, <2>2, <2>3
  <2>5. QED BY <2>4
<1>8. ASSUME Alike(problem, near) PROVE best # {}
  BY <1>1, <1>5, <1>8
<1>9. ASSUME Alike(problem, near), NEW p \in best, NEW q \in Choice!ToSet(ProtocolOrder) \ best
      PROVE  ~Choice!Dominates(near, q, p)
  <2> SUFFICES ASSUME Choice!Dominates(near, q, p) PROVE FALSE
    OBVIOUS
  <2>1. PICK j \in DOMAIN ProtocolOrder : q = ProtocolOrder[j]
    BY DEF Choice!ToSet
  <2>2. Choice!OfProtocol(near, q) # {}
    BY DEF Choice!Dominates
  <2>3. j \in C /\ C # {}
    BY <1>3, <2>1, <2>2
  <2>4. PICK k \in U : p = ProtocolOrder[k]
    BY <1>1, <1>5, <1>9, <2>3
  <2>5. QED BY <1>6, <1>9, <2>1, <2>3, <2>4
<1>10. QED BY <1>7, <1>8, <1>9 DEF best

\* No more neighbours than were asked for: each has as many before it as its rank says.
LEMMA FewNeighbours ==
  ASSUME Choice!ConstantsOK, Recorded, NEW problem \in Problems, NEW min, NEW topK \in Nat
  PROVE  /\ Choice!Neighbours(problem, min, topK) \in SUBSET DOMAIN runHistory
         /\ Cardinality(Choice!Neighbours(problem, min, topK)) <= topK
<1> DEFINE sim(i) == Similarity(problem, runHistory[i].run.problem)
           similar == {i \in DOMAIN runHistory : sim(i) >= min}
           Before(i, j) == sim(i) > sim(j) \/ (sim(i) = sim(j) /\ i < j)
           Ahead(i) == {j \in similar : Before(j, i)}
           rank == [i \in similar |-> Cardinality(Ahead(i))]
           N == {i \in similar : rank[i] < topK}
<1>1. Choice!Neighbours(problem, min, topK) = N
  <2>1. \A i : Choice!Cardinality({j \in similar : Before(j, i)}) = Cardinality(Ahead(i))
    BY ChoiceCardinality
  <2>2. Choice!Neighbours(problem, min, topK)
          = {i \in similar : Choice!Cardinality({j \in similar : Before(j, i)}) < topK}
    BY Zenon DEF Choice!Neighbours
  <2>3. QED BY <2>1, <2>2
<1>2. similar \in SUBSET DOMAIN runHistory /\ IsFiniteSet(similar) /\ similar \in SUBSET Nat
  BY RowsAre
<1>3. \A i \in similar : sim(i) \in Nat /\ i \in Nat
  BY <1>2, RowsAre
<1>4. ASSUME NEW i \in similar PROVE Ahead(i) \in SUBSET similar /\ IsFiniteSet(Ahead(i)) /\ rank[i] \in Nat
  BY <1>2, FS_Subset, FS_CardinalityType
<1>5. ASSUME NEW i \in similar, NEW j \in similar, Before(j, i) PROVE rank[j] < rank[i]
  <2>1. j \in Ahead(i) /\ ~(j \in Ahead(j)) /\ Ahead(j) \in SUBSET Ahead(i)
    BY <1>3, <1>5
  <2> HIDE DEF Ahead
  <2>2. IsFiniteSet(Ahead(i)) /\ Cardinality(Ahead(i)) \in Nat /\ Cardinality(Ahead(j)) \in Nat
    BY <1>4, FS_CardinalityType
  <2>3. Cardinality(Ahead(j)) <= Cardinality(Ahead(i)) /\ Cardinality(Ahead(j)) # Cardinality(Ahead(i))
    BY <2>1, <2>2, FS_Subset
  <2>4. QED BY <2>2, <2>3
<1>6. ASSUME NEW i \in similar, NEW j \in similar, i # j PROVE rank[i] # rank[j]
  <2>1. Before(i, j) \/ Before(j, i)
    BY <1>3, <1>6
  <2>2. rank[i] \in Nat /\ rank[j] \in Nat
    BY <1>4
  <2> HIDE DEF rank, Before
  <2>3. QED BY <1>5, <2>1, <2>2
<1> HIDE DEF similar, rank
<1>7. N \in SUBSET similar /\ IsFiniteSet(N) /\ Cardinality(N) \in Nat
  BY <1>2, FS_Subset, FS_CardinalityType
<1>8. Cardinality(N) <= topK
  <2> DEFINE f == [i \in N |-> rank[i]]
             T == 0..(topK - 1)
  <2>1. ASSUME NEW i \in N PROVE rank[i] \in T
    <3>1. i \in similar /\ rank[i] < topK
      OBVIOUS
    <3>2. rank[i] \in Nat
      BY <1>4, <3>1
    <3>3. QED BY <3>1, <3>2
  <2> HIDE DEF T, N
  <2>2. f \in [N -> T]
    BY <2>1
  <2>3. IsFiniteSet(T) /\ Cardinality(T) = topK
    BY FS_Interval DEF T
  <2>4. \A x, y \in N : x # y => f[x] # f[y]
    BY <1>6, <1>7
  <2> HIDE DEF f
  <2>5. SUFFICES ASSUME Cardinality(T) < Cardinality(N) PROVE FALSE
    BY <1>7, <2>3
  <2>6. \E x, y \in N : x # y /\ f[x] = f[y]
    BY <1>7, <2>2, <2>3, <2>5, FS_PigeonHole
  <2>7. QED BY <2>4, <2>6
<1>9. N \in SUBSET DOMAIN runHistory
  BY <1>2, <1>7
<1>10. QED BY <1>1, <1>8, <1>9

-----------------------------------------------------------------------------
(* The snapshots *)

Protocols == Choice!ToSet(ProtocolOrder)

\* What the first upTo runs of a history say of a protocol on a day.
RowsIn(h, upTo, day, p) ==
  {i \in 1..upTo : h[i].run.protocol = p /\ h[i].run.score # NoScore /\ h[i].day > day - Window}
MeanIn(h, upTo, day, p) ==
  [n |-> Sum([i \in RowsIn(h, upTo, day, p) |-> h[i].run.score]), d |-> Cardinality(RowsIn(h, upTo, day, p))]
ScoresIn(h, upTo, day) ==
  [p \in {q \in Protocols : RowsIn(h, upTo, day, q) # {}} |-> MeanIn(h, upTo, day, p)]

SnapshotRows ==
  [day : Nat, scores : UNION {[S -> [n : Int, d : Nat]] : S \in SUBSET Protocols},
   regressed : SUBSET Protocols, passed : BOOLEAN, upTo : Nat]

ChoiceTyped ==
  /\ runHistory \in Seq([run : Runs, day : Nat])
  /\ today \in 1..MaxDay
  /\ \A i \in DOMAIN runHistory : runHistory[i].day \in 1..today
  /\ snapshots \in Seq(SnapshotRows)

\* A snapshot has the means of the runs that it saw, and comes after those before it.
Shown ==
  \A k \in DOMAIN snapshots :
    /\ snapshots[k].day \in 1..today /\ snapshots[k].upTo \in 0..Len(runHistory)
    /\ snapshots[k].scores = ScoresIn(runHistory, snapshots[k].upTo, snapshots[k].day)
Dated == \A j, k \in DOMAIN snapshots : j < k => snapshots[j].day < snapshots[k].day
\* It is compared with the one before.
Compared ==
  \A k \in DOMAIN snapshots :
    k > 1 => snapshots[k].regressed \in Choice!Named(snapshots[k - 1].scores, snapshots[k].scores)

ChoiceInv == ChoiceTyped /\ Shown /\ Dated /\ Compared

LEMMA ChoiceInitial == ASSUME Choice!ConstantsOK, Choice!Init PROVE ChoiceInv
<1>1. runHistory = <<>> /\ snapshots = <<>> /\ today = 1 /\ today \in 1..MaxDay
  BY DEF Choice!Init, Choice!ConstantsOK
<1>2. QED BY <1>1 DEF ChoiceInv, ChoiceTyped, Shown, Dated, Compared

LEMMA InvRecorded == ASSUME ChoiceTyped PROVE Recorded
<1> DEFINE R == [run : Runs, day : Nat]
<1>1. runHistory \in Seq(R)
  BY DEF ChoiceTyped
<1>2. \A r \in R : r.run \in Runs /\ r.day \in Int
  OBVIOUS
<1> HIDE DEF R
<1>3. Len(runHistory) \in Nat /\ DOMAIN runHistory = 1..Len(runHistory) /\ \A i \in DOMAIN runHistory : runHistory[i] \in R
  BY <1>1
<1>4. QED BY <1>2, <1>3 DEF Recorded

\* What a longer history says of the runs that were there is the same.
LEMMA SameScores ==
  ASSUME NEW h, NEW g, NEW upTo, NEW day, \A i \in 1..upTo : g[i] = h[i]
  PROVE  ScoresIn(g, upTo, day) = ScoresIn(h, upTo, day)
<1>1. \A p : RowsIn(g, upTo, day, p) = RowsIn(h, upTo, day, p)
  BY DEF RowsIn
<1>2. \A p : RowsIn(h, upTo, day, p) \in SUBSET (1..upTo)
  BY DEF RowsIn
<1>3. ASSUME NEW p PROVE MeanIn(g, upTo, day, p) = MeanIn(h, upTo, day, p)
  <2> DEFINE R == RowsIn(h, upTo, day, p)
  <2>1. [i \in R |-> g[i].run.score] = [i \in R |-> h[i].run.score]
    BY <1>2
  <2>2. MeanIn(g, upTo, day, p) = [n |-> Sum([i \in R |-> g[i].run.score]), d |-> Cardinality(R)]
    BY <1>1 DEF MeanIn
  <2>3. MeanIn(h, upTo, day, p) = [n |-> Sum([i \in R |-> h[i].run.score]), d |-> Cardinality(R)]
    BY DEF MeanIn
  <2>4. QED BY <2>1, <2>2, <2>3
<1>4. QED BY <1>1, <1>3 DEF ScoresIn

\* The means are fractions.
LEMMA MeanBounds ==
  ASSUME Choice!ConstantsOK, Recorded, NEW R \in SUBSET DOMAIN runHistory, R # {},
         \A i \in R : runHistory[i].run.score # NoScore
  PROVE  LET m == [n |-> Sum([i \in R |-> runHistory[i].run.score]), d |-> Cardinality(R)]
         IN  /\ Fraction(m)
             /\ \A c \in Int : /\ (\A i \in R : c <= runHistory[i].run.score) => Above(c, m)
                               /\ (\A i \in R : runHistory[i].run.score <= c) => Under(m, c)
<1> DEFINE F == [i \in R |-> runHistory[i].run.score]
           W == [i \in R |-> 1]
           P == [i \in R |-> F[i] * W[i]]
           N == Sum(F)
           D == Cardinality(R)
<1>1. IsFiniteSet(R) /\ \A i \in R : runHistory[i].run.score \in Int
  BY RowsAre
<1>2. F \in [R -> Int] /\ W \in [R -> Nat] /\ \A i \in R : W[i] = 1 /\ F[i] = runHistory[i].run.score
  BY <1>1
<1>3. P = F
  BY <1>2
<1> HIDE DEF F, W
<1>4. Sum(W) = D
  BY <1>1, <1>2, SumOfOnes
<1>5. ASSUME NEW c \in Int
      PROVE  /\ (\A i \in R : c <= F[i]) => c * D <= N
             /\ (\A i \in R : F[i] <= c) => N <= c * D
             /\ N \in Int
  <2>1. /\ (\A i \in R : c <= F[i]) => c * Sum(W) <= Sum(P)
        /\ (\A i \in R : F[i] <= c) => Sum(P) <= c * Sum(W)
        /\ Sum(P) \in Int
    BY <1>1, <1>2, WeightedSum
  <2>2. QED BY <1>3, <1>4, <2>1
<1>6. D \in Nat \ {0} /\ N \in Int
  BY <1>1, <1>5, FS_CardinalityType, FS_EmptySet
<1> DEFINE m == [n |-> N, d |-> D]
<1> HIDE DEF N, D
<1>7. m.n = N /\ m.d = D
  OBVIOUS
<1> HIDE DEF m
<1>8. Fraction(m)
  BY <1>6, <1>7 DEF Fraction
<1>9. ASSUME NEW c \in Int
      PROVE  /\ (\A i \in R : c <= runHistory[i].run.score) => Above(c, m)
             /\ (\A i \in R : runHistory[i].run.score <= c) => Under(m, c)
  <2>1. /\ Above(c, m) <=> c * D <= N
        /\ Under(m, c) <=> N <= c * D
    BY <1>7, Zenon DEF Above, Under
  <2>2. QED BY <1>2, <1>5, <2>1
<1>10. QED BY <1>8, <1>9 DEF m, N, D, F

\* A fraction in thousandths, that so many of them are added to.
Raised(m, by) == Choice!Ratio(1000 * m.n + by * m.d, m.d)

LEMMA Shifted ==
  ASSUME NEW m, Fraction(m), NEW by \in Int
  PROVE  /\ Fraction(Raised(m, by))
         /\ \A c \in Int : /\ Above(c, m) => Above(1000 * c + by, Raised(m, by))
                           /\ Under(m, c) => Under(Raised(m, by), 1000 * c + by)
<1> DEFINE r == Raised(m, by)
<1>1. r.n = 1000 * m.n + by * m.d /\ r.d = m.d /\ m.n \in Int /\ m.d \in Nat \ {0}
  BY DEF Raised, Choice!Ratio, Fraction
<1> HIDE DEF r
<1>2. Fraction(r)
  BY <1>1, Products DEF Fraction
<1>3. ASSUME NEW c \in Int PROVE /\ Above(c, m) => Above(1000 * c + by, r)
                                 /\ Under(m, c) => Under(r, 1000 * c + by)
  <2>1. (1000 * c + by) * r.d = 1000 * (c * m.d) + by * m.d
    BY <1>1
  <2>2. c * m.d \in Int /\ by * m.d \in Int
    BY <1>1, Products
  <2>3. QED BY <1>1, <2>1, <2>2 DEF Above, Under
<1>4. QED BY <1>2, <1>3 DEF r

LEMMA Thousandths ==
  ASSUME NEW m, Fraction(m)
  PROVE  LET r == Choice!Ratio(1000 * m.n, m.d)
         IN  /\ Fraction(r)
             /\ \A c \in Int : /\ Above(c, m) => Above(1000 * c, r)
                               /\ Under(m, c) => Under(r, 1000 * c)
<1> DEFINE r == Choice!Ratio(1000 * m.n, m.d)
<1>1. r.n = 1000 * m.n /\ r.d = m.d /\ m.n \in Int /\ m.d \in Nat \ {0}
  BY DEF Choice!Ratio, Fraction
<1> HIDE DEF r
<1>2. Fraction(r)
  BY <1>1 DEF Fraction
<1>3. ASSUME NEW c \in Int PROVE /\ Above(c, m) => Above(1000 * c, r)
                                 /\ Under(m, c) => Under(r, 1000 * c)
  <2>1. (1000 * c) * r.d = 1000 * (c * m.d) /\ c * m.d \in Int
    BY <1>1
  <2>2. QED BY <1>1, <2>1 DEF Above, Under
<1>4. QED BY <1>2, <1>3 DEF r

\* A run more does not change what the snapshots saw.
LEMMA FinishKeeps ==
  ASSUME Choice!ConstantsOK, ChoiceInv, NEW run \in Runs, Choice!Finish(run)
  PROVE  ChoiceInv'
<1> DEFINE R == [run : Runs, day : Nat]
           row == [run |-> run, day |-> today]
<1>1. /\ runHistory' = Append(runHistory, row) /\ today' = today /\ snapshots' = snapshots
      /\ runHistory \in Seq(R) /\ today \in 1..MaxDay /\ MaxDay \in Nat
      /\ \A i \in DOMAIN runHistory : runHistory[i].day \in 1..today
  BY DEF Choice!Finish, ChoiceInv, ChoiceTyped, Choice!ConstantsOK
<1>2. row \in R /\ row.day = today /\ today \in 1..today
  BY <1>1
<1> HIDE DEF R, row
<1>3. /\ runHistory' \in Seq(R) /\ Len(runHistory') = Len(runHistory) + 1 /\ Len(runHistory) \in Nat
      /\ DOMAIN runHistory = 1..Len(runHistory) /\ DOMAIN runHistory' = 1..Len(runHistory')
      /\ \A i \in 1..Len(runHistory) : runHistory'[i] = runHistory[i]
      /\ runHistory'[Len(runHistory) + 1] = row
  BY <1>1, <1>2
<1>4. \A i \in DOMAIN runHistory' : runHistory'[i].day \in 1..today'
  BY <1>1, <1>2, <1>3
<1>5. ChoiceTyped'
  BY <1>1, <1>3, <1>4 DEF ChoiceInv, ChoiceTyped, R
<1>6. Shown'
  <2>1. ASSUME NEW k \in DOMAIN snapshots
        PROVE  /\ snapshots[k].day \in 1..today /\ snapshots[k].upTo \in 0..Len(runHistory')
               /\ snapshots[k].scores = ScoresIn(runHistory', snapshots[k].upTo, snapshots[k].day)
    <3>1. /\ snapshots[k].day \in 1..today /\ snapshots[k].upTo \in 0..Len(runHistory)
          /\ snapshots[k].scores = ScoresIn(runHistory, snapshots[k].upTo, snapshots[k].day)
      BY DEF ChoiceInv, Shown
    <3>2. \A i \in 1..snapshots[k].upTo : runHistory'[i] = runHistory[i]
      BY <1>3, <3>1
    <3>3. ScoresIn(runHistory', snapshots[k].upTo, snapshots[k].day)
            = ScoresIn(runHistory, snapshots[k].upTo, snapshots[k].day)
      BY <3>2, SameScores
    <3>4. QED BY <1>3, <3>1, <3>3
  <2>2. QED BY <1>1, <2>1 DEF Shown
<1>7. Dated' /\ Compared'
  BY <1>1 DEF ChoiceInv, Dated, Compared
<1>8. QED BY <1>5, <1>6, <1>7 DEF ChoiceInv

LEMMA NextDayKeeps == ASSUME Choice!ConstantsOK, ChoiceInv, Choice!NextDay PROVE ChoiceInv'
<1>1. /\ today' = today + 1 /\ today < MaxDay /\ runHistory' = runHistory /\ snapshots' = snapshots
      /\ today \in 1..MaxDay /\ MaxDay \in Nat
  BY DEF Choice!NextDay, ChoiceInv, ChoiceTyped, Choice!ConstantsOK
<1>2. today' \in 1..MaxDay /\ 1..today \in SUBSET (1..today')
  BY <1>1
<1>3. ChoiceTyped'
  BY <1>1, <1>2 DEF ChoiceInv, ChoiceTyped
<1>4. Shown'
  BY <1>1, <1>2 DEF ChoiceInv, Shown
<1>5. Dated' /\ Compared'
  BY <1>1 DEF ChoiceInv, Dated, Compared
<1>6. QED BY <1>3, <1>4, <1>5 DEF ChoiceInv

\* The means of a snapshot are those of the whole history.
LEMMA MeansAre ==
  ASSUME Choice!ConstantsOK, ChoiceTyped
  PROVE  /\ Choice!MeanScores = ScoresIn(runHistory, Len(runHistory), today)
         /\ Choice!MeanScores \in UNION {[S -> [n : Int, d : Nat]] : S \in SUBSET Protocols}
<1>1. Recorded
  BY InvRecorded
<1>2. ASSUME NEW p PROVE Choice!Scored(Choice!OfProtocol(Choice!Recent, p)) = RowsIn(runHistory, Len(runHistory), today, p)
  BY <1>1 DEF Choice!Scored, Choice!OfProtocol, Choice!Recent, RowsIn, Recorded
<1>3. ASSUME NEW p
      PROVE  Choice!Ratio(Choice!SumFunction([i \in Choice!Scored(Choice!OfProtocol(Choice!Recent, p)) |-> runHistory[i].run.score]),
                          Choice!Cardinality(Choice!Scored(Choice!OfProtocol(Choice!Recent, p))))
               = MeanIn(runHistory, Len(runHistory), today, p)
  BY <1>2, ChoiceSum, ChoiceCardinality DEF MeanIn, Choice!Ratio
<1>4. Choice!MeanScores = ScoresIn(runHistory, Len(runHistory), today)
  <2> DEFINE scored(p) == Choice!Scored(Choice!OfProtocol(Choice!Recent, p))
  <2>1. Choice!MeanScores = [p \in {q \in Protocols : scored(q) # {}} |->
           Choice!Ratio(Choice!SumFunction([i \in scored(p) |-> runHistory[i].run.score]), Choice!Cardinality(scored(p)))]
    BY DEF Choice!MeanScores, Protocols
  <2>2. \A p : scored(p) = RowsIn(runHistory, Len(runHistory), today, p)
    BY <1>2
  <2>3. {q \in Protocols : scored(q) # {}} = {q \in Protocols : RowsIn(runHistory, Len(runHistory), today, q) # {}}
    BY <2>2
  <2>4. QED BY <1>3, <2>1, <2>3 DEF ScoresIn
<1>5. ASSUME NEW p, RowsIn(runHistory, Len(runHistory), today, p) # {}
      PROVE  MeanIn(runHistory, Len(runHistory), today, p) \in [n : Int, d : Nat]
  <2> DEFINE R == RowsIn(runHistory, Len(runHistory), today, p)
             m == [n |-> Sum([i \in R |-> runHistory[i].run.score]), d |-> Cardinality(R)]
  <2>1. R \in SUBSET DOMAIN runHistory /\ \A i \in R : runHistory[i].run.score # NoScore
    BY <1>1 DEF RowsIn, Recorded
  <2>2. Fraction(m)
    BY <1>1, <1>5, <2>1, MeanBounds
  <2>3. m \in [n : Int, d : Nat]
    BY <2>2 DEF Fraction
  <2>4. QED BY <2>3 DEF MeanIn
<1>6. QED
  <2> DEFINE S == {q \in Protocols : RowsIn(runHistory, Len(runHistory), today, q) # {}}
  <2>1. S \in SUBSET Protocols
    OBVIOUS
  <2>2. ScoresIn(runHistory, Len(runHistory), today) \in [S -> [n : Int, d : Nat]]
    BY <1>5 DEF ScoresIn
  <2>3. QED BY <1>4, <2>1, <2>2

\* The snapshots before today's are all of them, and the last is the one compared with.
LEMMA SnapshotKeeps == ASSUME Choice!ConstantsOK, ChoiceInv, Choice!Snapshot PROVE ChoiceInv'
<1> DEFINE M == Choice!MeanScores
           earlier == {k \in DOMAIN snapshots : snapshots[k].day < today}
           n == Len(snapshots)
<1>0. PICK named \in IF earlier = {} THEN {{}} ELSE Choice!Named(snapshots[Choice!Max(earlier)].scores, M) :
        snapshots' = Append(snapshots, [day |-> today, scores |-> M, regressed |-> named, passed |-> named = {},
                                        upTo |-> Len(runHistory)])
  BY DEF Choice!Snapshot
<1> DEFINE row == [day |-> today, scores |-> M, regressed |-> named, passed |-> named = {}, upTo |-> Len(runHistory)]
<1>1. /\ snapshots' = Append(snapshots, row) /\ runHistory' = runHistory /\ today' = today
      /\ \A k \in DOMAIN snapshots : snapshots[k].day # today
  BY <1>0 DEF Choice!Snapshot
<1>2. ChoiceTyped /\ Shown /\ Dated /\ Compared /\ Recorded
  BY InvRecorded DEF ChoiceInv
<1>3. /\ snapshots \in Seq(SnapshotRows) /\ today \in 1..MaxDay /\ MaxDay \in Nat /\ Len(runHistory) \in Nat
      /\ n \in Nat /\ DOMAIN snapshots = 1..n
  BY <1>2 DEF ChoiceTyped, Choice!ConstantsOK, Recorded
<1>4. M = ScoresIn(runHistory, Len(runHistory), today) /\ M \in UNION {[S -> [n : Int, d : Nat]] : S \in SUBSET Protocols}
  BY <1>2, MeansAre
<1>5. earlier = 1..n
  BY <1>1, <1>2, <1>3 DEF Shown
<1>6. n > 0 => Choice!Max(earlier) = n
  <2> SUFFICES ASSUME n > 0 PROVE Choice!Max(earlier) = n
    OBVIOUS
  <2> HIDE DEF n, earlier
  <2>1. n \in earlier /\ \A y \in earlier : n >= y /\ y \in Nat
    BY <1>3, <1>5
  <2>2. Choice!Max(earlier) \in earlier /\ \A y \in earlier : Choice!Max(earlier) >= y
    BY <2>1 DEF Choice!Max
  <2> DEFINE m == Choice!Max(earlier)
  <2> HIDE DEF m
  <2>3. m \in Nat /\ n >= m /\ m >= n
    BY <2>1, <2>2 DEF m
  <2>4. m = n
    BY <1>3, <2>3
  <2>5. QED BY <2>4 DEF m
<1>7. named \in IF n = 0 THEN {{}} ELSE Choice!Named(snapshots[n].scores, M)
  <2>1. earlier = {} <=> n = 0
    BY <1>3, <1>5
  <2>2. CASE n = 0
    BY <1>0, <2>1, <2>2
  <2>3. CASE n # 0
    <3>1. Choice!Max(earlier) = n
      BY <1>3, <1>6, <2>3
    <3>2. QED BY <1>0, <2>1, <2>3, <3>1
  <2>4. QED BY <2>2, <2>3
<1> HIDE DEF M, earlier
<1>8. named \in SUBSET Protocols
  <2>1. DOMAIN M \in SUBSET Protocols
    BY <1>4 DEF ScoresIn
  <2>2. \A prev : Choice!Named(prev, M) \in SUBSET SUBSET DOMAIN M
    BY DEF Choice!Named, Choice!Regressed
  <2>3. CASE n = 0
    BY <1>7, <2>3
  <2>4. CASE n # 0
    <3>1. named \in Choice!Named(snapshots[n].scores, M)
      BY <1>7, <2>4
    <3>2. QED BY <2>1, <2>2, <3>1
  <2>5. QED BY <2>3, <2>4
<1>9. row \in SnapshotRows /\ row.day = today /\ row.scores = M /\ row.regressed = named /\ row.upTo = Len(runHistory)
  BY <1>3, <1>4, <1>8 DEF SnapshotRows
<1> HIDE DEF row
<1>10. /\ snapshots' \in Seq(SnapshotRows) /\ DOMAIN snapshots' = 1..(n + 1)
       /\ \A k \in 1..n : snapshots'[k] = snapshots[k]
       /\ snapshots'[n + 1] = row
  BY <1>1, <1>3, <1>9
<1> HIDE DEF n
<1>11. ChoiceTyped'
  BY <1>1, <1>2, <1>10 DEF ChoiceTyped
<1>12. Shown'
  <2>1. ASSUME NEW k \in 1..(n + 1)
        PROVE  /\ snapshots'[k].day \in 1..today /\ snapshots'[k].upTo \in 0..Len(runHistory)
               /\ snapshots'[k].scores = ScoresIn(runHistory, snapshots'[k].upTo, snapshots'[k].day)
    <3>1. CASE k \in 1..n
      BY <1>2, <1>3, <1>10, <3>1 DEF Shown
    <3>2. CASE k = n + 1
      <4>1. snapshots'[k] = row
        BY <1>10, <3>2
      <4>2. today \in 1..today /\ Len(runHistory) \in 0..Len(runHistory)
        BY <1>3
      <4>3. QED BY <1>4, <1>9, <4>1, <4>2
    <3>3. QED BY <1>3, <3>1, <3>2
  <2>2. QED BY <1>1, <1>10, <2>1 DEF Shown
<1>13. Dated'
  <2>1. ASSUME NEW j \in 1..(n + 1), NEW k \in 1..(n + 1), j < k PROVE snapshots'[j].day < snapshots'[k].day
    <3>1. j \in 1..n
      BY <1>3, <2>1
    <3>2. CASE k \in 1..n
      BY <1>2, <1>3, <1>10, <2>1, <3>1, <3>2 DEF Dated
    <3>3. CASE k = n + 1
      <4>1. snapshots'[k].day = today /\ snapshots'[j] = snapshots[j]
        BY <1>9, <1>10, <3>1, <3>3
      <4>2. snapshots[j].day \in 1..today /\ snapshots[j].day # today
        BY <1>1, <1>2, <1>3, <3>1 DEF Shown
      <4>3. QED BY <1>3, <4>1, <4>2
    <3>4. QED BY <1>3, <3>2, <3>3
  <2>2. QED BY <1>10, <2>1 DEF Dated
<1>14. Compared'
  <2>1. ASSUME NEW k \in 1..(n + 1), k > 1
        PROVE  snapshots'[k].regressed \in Choice!Named(snapshots'[k - 1].scores, snapshots'[k].scores)
    <3>1. k - 1 \in 1..n /\ snapshots'[k - 1] = snapshots[k - 1] /\ n # 0
      BY <1>3, <1>10, <2>1
    <3>2. CASE k \in 1..n
      BY <1>2, <1>3, <1>10, <2>1, <3>1, <3>2 DEF Compared
    <3>3. CASE k = n + 1
      <4>1. k - 1 = n /\ snapshots'[k] = row
        BY <1>3, <1>10, <3>3
      <4>2. QED BY <1>7, <1>9, <3>1, <4>1
    <3>4. QED BY <1>3, <3>2, <3>3
  <2>2. QED BY <1>10, <2>1 DEF Compared
<1>15. QED BY <1>11, <1>12, <1>13, <1>14 DEF ChoiceInv

LEMMA ChoiceInvHolds == ASSUME Choice!ConstantsOK PROVE Choice!Spec => []ChoiceInv
<1>1. ChoiceInv /\ [Choice!Next]_(Choice!vars) => ChoiceInv'
  <2>1. ChoiceInv /\ UNCHANGED Choice!vars => ChoiceInv'
    BY DEF Choice!vars, ChoiceInv, ChoiceTyped, Shown, Dated, Compared
  <2>2. ChoiceInv /\ Choice!Next => ChoiceInv'
    BY FinishKeeps, NextDayKeeps, SnapshotKeeps DEF Choice!Next
  <2>3. QED BY <2>1, <2>2
<1>2. Choice!Init => ChoiceInv
  BY ChoiceInitial
<1>3. QED BY <1>1, <1>2, PTL DEF Choice!Spec

LEMMA HistoryTyped == ASSUME Choice!ConstantsOK, ChoiceInv PROVE Choice!TypeOK
<1>1. Recorded
  BY InvRecorded DEF ChoiceInv
<1>2. \A i \in DOMAIN runHistory : runHistory[i].run \in Runs /\ runHistory[i].day \in 1..today
  BY <1>1 DEF Recorded, ChoiceInv, ChoiceTyped
<1>3. \A k \in DOMAIN snapshots : snapshots[k].upTo <= Len(runHistory)
  BY <1>1 DEF Recorded, ChoiceInv, Shown
<1>4. QED BY <1>2, <1>3 DEF ChoiceInv, ChoiceTyped, Choice!TypeOK

LEMMA BestIsUndominated ==
  ASSUME Choice!ConstantsOK, ChoiceInv PROVE Choice!RecommendationIsUndominated
<1>1. Recorded
  BY InvRecorded DEF ChoiceInv
<1>2. ASSUME NEW problem \in Problems, NEW min \in MinSimilarities, NEW topK \in TopKs
      PROVE  LET near == Choice!Neighbours(problem, min, topK)
                 best == Choice!Recommend(problem, min, topK)
                 alike == \A i \in near : Similarity(problem, runHistory[i].run.problem) > 0
             IN  /\ Choice!Cardinality(near) <= topK /\ Choice!Cardinality(best) <= 1
                 /\ alike => /\ best # {}
                             /\ near # {} => \A p \in best, q \in Choice!ToSet(ProtocolOrder) \ best :
                                               ~Choice!Dominates(near, q, p)
  <2> DEFINE near == Choice!Neighbours(problem, min, topK)
             best == Choice!Recommend(problem, min, topK)
  <2>1. topK \in Nat
    BY DEF Choice!ConstantsOK
  <2>2. near \in SUBSET DOMAIN runHistory /\ Cardinality(near) <= topK
    BY <1>1, <2>1, FewNeighbours
  <2>3. Choice!Cardinality(near) = Cardinality(near) /\ Choice!Cardinality(best) = Cardinality(best)
    BY ChoiceCardinality
  <2>4. /\ Cardinality(best) <= 1
        /\ Alike(problem, near) =>
             /\ best # {}
             /\ \A p \in best, q \in Choice!ToSet(ProtocolOrder) \ best : ~Choice!Dominates(near, q, p)
    <3> HIDE DEF near
    <3>1. near = Choice!Neighbours(problem, min, topK)
      BY DEF near
    <3>2. QED BY <1>1, <2>2, <3>1, RecommendedIsBest
  <2> HIDE DEF best, near
  <2>5. QED BY <2>2, <2>3, <2>4 DEF Alike, best, near
<1>3. QED BY <1>2 DEF Choice!RecommendationIsUndominated

\* The means of two snapshots are apart when all of their scores are.
LEMMA NamedDeclines == ASSUME Choice!ConstantsOK, ChoiceInv PROVE Choice!DeclineIsNamed
<1>1. ChoiceTyped /\ Shown /\ Dated /\ Compared /\ Recorded
  BY InvRecorded DEF ChoiceInv
<1>2. Len(snapshots) \in Nat /\ DOMAIN snapshots = 1..Len(snapshots)
  BY <1>1 DEF ChoiceTyped
<1>3. ASSUME NEW k \in 2..Len(snapshots), NEW p \in Choice!ToSet(ProtocolOrder)
      PROVE  LET old == Choice!Seen(k - 1, p)
                 new == Choice!Seen(k, p)
             IN  /\ old # {} /\ new # {} /\ (\A a \in old, b \in new : a - b > Threshold)
                      => p \in snapshots[k].regressed
                 /\ p \in snapshots[k].regressed => \E a \in old, b \in new : a - b >= Threshold
  <2> DEFINE RR(j) == RowsIn(runHistory, snapshots[j].upTo, snapshots[j].day, p)
             says(i) == runHistory[i].run.score
             X == RR(k - 1)
             Y == RR(k)
             m == MeanIn(runHistory, snapshots[k - 1].upTo, snapshots[k - 1].day, p)
             n == MeanIn(runHistory, snapshots[k].upTo, snapshots[k].day, p)
             q == Choice!Ratio(1000 * m.n, m.d)
             more == 1000 * Threshold + 2
             less == 1000 * Threshold - 2
             r(by) == Raised(n, by)
  <2>1. k - 1 \in DOMAIN snapshots /\ k \in DOMAIN snapshots /\ k > 1
    BY <1>2
  <2>2. ASSUME NEW j \in DOMAIN snapshots
        PROVE  /\ Choice!Seen(j, p) = {says(i) : i \in RR(j)}
               /\ RR(j) \in SUBSET DOMAIN runHistory
               /\ \A i \in RR(j) : says(i) # NoScore
               /\ p \in DOMAIN snapshots[j].scores <=> RR(j) # {}
               /\ RR(j) # {} => snapshots[j].scores[p] = MeanIn(runHistory, snapshots[j].upTo, snapshots[j].day, p)
    <3>1. /\ snapshots[j].upTo \in 0..Len(runHistory)
          /\ snapshots[j].scores = ScoresIn(runHistory, snapshots[j].upTo, snapshots[j].day)
      BY <1>1 DEF Shown
    <3>2. {i \in 1..snapshots[j].upTo :
             /\ runHistory[i].run.protocol = p /\ runHistory[i].run.score # NoScore
             /\ runHistory[i].day > snapshots[j].day - Window} = RR(j)
      BY DEF RowsIn
    <3>3. Choice!Seen(j, p) = {says(i) : i \in RR(j)}
      BY <3>2 DEF Choice!Seen
    <3>4. RR(j) \in SUBSET DOMAIN runHistory /\ \A i \in RR(j) : says(i) # NoScore
      BY <1>1, <3>1 DEF Recorded, RowsIn
    <3>5. QED BY <3>1, <3>3, <3>4 DEF ScoresIn, Protocols
  <2>3. /\ X \in SUBSET DOMAIN runHistory /\ Y \in SUBSET DOMAIN runHistory
        /\ (\A i \in X : says(i) # NoScore) /\ (\A i \in Y : says(i) # NoScore)
        /\ Choice!Seen(k - 1, p) = {says(i) : i \in X} /\ Choice!Seen(k, p) = {says(i) : i \in Y}
    BY <2>1, <2>2
  <2>4. /\ p \in snapshots[k].regressed => X # {} /\ Y # {} /\ Choice!Less(r(less), q)
        /\ X # {} /\ Y # {} /\ Choice!Less(r(more), q) => p \in snapshots[k].regressed
    <3> DEFINE prev == snapshots[k - 1].scores
               scores == snapshots[k].scores
               named == snapshots[k].regressed
    <3>1. named \in Choice!Named(prev, scores)
      BY <1>1, <2>1 DEF Compared
    <3>2. /\ p \in DOMAIN prev <=> X # {}
          /\ p \in DOMAIN scores <=> Y # {}
          /\ X # {} => prev[p] = m
          /\ Y # {} => scores[p] = n
      BY <2>1, <2>2
    <3> HIDE DEF X, Y, m, n, prev, scores, named
    <3>3. named \subseteq Choice!Regressed(prev, scores, less) /\ Choice!Regressed(prev, scores, more) \subseteq named
      BY <3>1 DEF Choice!Named
    <3> HIDE DEF less, more
    <3>4. \A by : p \in Choice!Regressed(prev, scores, by)
                   <=> X # {} /\ Y # {} /\ Choice!Less(r(by), q)
      BY <3>2 DEF Choice!Regressed, Raised
    <3> USE DEF named
    <3>5. QED BY <3>3, <3>4
  <2>5. /\ m = [n |-> Sum([i \in X |-> runHistory[i].run.score]), d |-> Cardinality(X)]
        /\ n = [n |-> Sum([i \in Y |-> runHistory[i].run.score]), d |-> Cardinality(Y)]
    BY DEF MeanIn
  <2> HIDE DEF RR, X, Y, m, n
  <2>6. CASE X = {} \/ Y = {}
    <3>1. Choice!Seen(k - 1, p) = {} \/ Choice!Seen(k, p) = {}
      BY <2>3, <2>6
    <3>2. ~(p \in snapshots[k].regressed)
      BY <2>4, <2>6
    <3>3. QED BY <3>1, <3>2
  <2>7. CASE X # {} /\ Y # {}
    <3>1. /\ Fraction(m)
          /\ \A c \in Int : (\A i \in X : c <= says(i)) => Above(c, m)
          /\ \A c \in Int : (\A i \in X : says(i) <= c) => Under(m, c)
      BY <1>1, <2>3, <2>5, <2>7, MeanBounds
    <3>2. /\ Fraction(n)
          /\ \A c \in Int : (\A i \in Y : c <= says(i)) => Above(c, n)
          /\ \A c \in Int : (\A i \in Y : says(i) <= c) => Under(n, c)
      BY <1>1, <2>3, <2>5, <2>7, MeanBounds
    <3>3. Threshold \in Int
      BY DEF Choice!ConstantsOK
    <3>4. \A by \in Int : /\ Fraction(r(by))
                          /\ \A c \in Int : Above(c, n) => Above(1000 * c + by, r(by))
                          /\ \A c \in Int : Under(n, c) => Under(r(by), 1000 * c + by)
      BY <3>2, Shifted
    <3>5. /\ Fraction(q)
          /\ \A c \in Int : Above(c, m) => Above(1000 * c, q)
          /\ \A c \in Int : Under(m, c) => Under(q, 1000 * c)
      BY <3>1, Thousandths
    <3>6. IsFiniteSet(X) /\ IsFiniteSet(Y) /\ (\A i \in X \cup Y : says(i) \in Int)
      BY <1>1, <2>3, RowsAre
    <3> DEFINE V == [i \in X \cup Y |-> says(i)]
    <3>7. V \in [X \cup Y -> Int] /\ V \in [Y \cup X -> Int] /\ \A i \in X \cup Y : V[i] = says(i)
      BY <3>6
    <3> HIDE DEF V, r, q, says
    <3>8. ASSUME \A i \in X, j \in Y : says(i) - says(j) > Threshold PROVE Choice!Less(r(more), q)
      <4>1. PICK c, e \in Int : /\ \A i \in X : c <= V[i]
                                /\ \A j \in Y : V[j] <= e
                                /\ c - e > Threshold
        <5> DEFINE F == [i \in X |-> V[i]]
                   G == [j \in Y |-> V[j]]
        <5>1. F \in [X -> Int] /\ G \in [Y -> Int] /\ (\A i \in X : F[i] = V[i]) /\ (\A j \in Y : G[j] = V[j])
          BY <3>7
        <5> HIDE DEF F, G
        <5>2. PICK a \in X : \A i \in X : F[a] <= F[i]
          BY <2>7, <3>6, <5>1, LeastValue
        <5>3. PICK b \in Y : \A j \in Y : G[j] <= G[b]
          BY <2>7, <3>6, <5>1, GreatestValue
        <5>4. V[a] \in Int /\ V[b] \in Int /\ V[a] - V[b] > Threshold
          BY <3>7, <3>8
        <5>5. QED BY <5>1, <5>2, <5>3, <5>4
      <4>2. Above(c, m) /\ Under(n, e) /\ more \in Int
        BY <3>1, <3>2, <3>3, <3>7, <4>1
      <4>3. Fraction(r(more)) /\ Above(1000 * c, q) /\ Under(r(more), 1000 * e + more)
        BY <3>4, <3>5, <4>2
      <4>4. 1000 * e + more \in Int /\ 1000 * c \in Int /\ 1000 * e + more < 1000 * c
        BY <3>3, <4>1
      <4>5. QED BY <3>5, <4>3, <4>4, Apart
    <3>9. ASSUME \A i \in X, j \in Y : ~(says(i) - says(j) >= Threshold) PROVE ~Choice!Less(r(less), q)
      <4>1. PICK c, e \in Int : /\ \A i \in X : V[i] <= c
                                /\ \A j \in Y : e <= V[j]
                                /\ c < e + Threshold
        <5> DEFINE F == [i \in X |-> V[i]]
                   G == [j \in Y |-> V[j]]
        <5>1. F \in [X -> Int] /\ G \in [Y -> Int] /\ (\A i \in X : F[i] = V[i]) /\ (\A j \in Y : G[j] = V[j])
          BY <3>7
        <5> HIDE DEF F, G
        <5>2. PICK a \in X : \A i \in X : F[i] <= F[a]
          BY <2>7, <3>6, <5>1, GreatestValue
        <5>3. PICK b \in Y : \A j \in Y : G[b] <= G[j]
          BY <2>7, <3>6, <5>1, LeastValue
        <5>4. V[a] \in Int /\ V[b] \in Int /\ ~(V[a] - V[b] >= Threshold)
          BY <3>7, <3>9
        <5>5. V[a] < V[b] + Threshold
          BY <3>3, <5>4
        <5>6. QED BY <5>1, <5>2, <5>3, <5>4, <5>5
      <4>2. Under(m, c) /\ Above(e, n) /\ less \in Int
        BY <3>1, <3>2, <3>3, <3>7, <4>1
      <4>3. Fraction(r(less)) /\ Under(q, 1000 * c) /\ Above(1000 * e + less, r(less))
        BY <3>4, <3>5, <4>2
      <4>4. 1000 * e + less \in Int /\ 1000 * c \in Int /\ 1000 * c <= 1000 * e + less
        BY <3>3, <4>1
      <4>5. QED BY <3>5, <4>3, <4>4, Apart
    <3>10. (\A a \in Choice!Seen(k - 1, p), b \in Choice!Seen(k, p) : a - b > Threshold)
              => \A i \in X, j \in Y : says(i) - says(j) > Threshold
      BY <2>3
    <3>11. (\E i \in X, j \in Y : says(i) - says(j) >= Threshold)
             => \E a \in Choice!Seen(k - 1, p), b \in Choice!Seen(k, p) : a - b >= Threshold
      BY <2>3
    <3>12. ASSUME \A i \in X, j \in Y : says(i) - says(j) > Threshold PROVE p \in snapshots[k].regressed
      BY <2>4, <2>7, <3>8, <3>12
    <3>13. ASSUME p \in snapshots[k].regressed PROVE \E i \in X, j \in Y : says(i) - says(j) >= Threshold
      <4>1. Choice!Less(r(less), q)
        BY <2>4, <3>13
      <4>2. QED BY <3>9, <4>1
    <3>14. QED BY <3>10, <3>11, <3>12, <3>13
  <2>8. QED BY <2>6, <2>7
<1>4. QED BY <1>3 DEF Choice!DeclineIsNamed

\* protocol_selector.py:229 and worker.py:767: no better protocol is passed over, and a
\* protocol whose scores have fallen is named, once they have.
THEOREM ChoicesFollowHistory ==
  Choice!Spec => []ChoiceFollowsHistory
<1>1. ChoiceInv => ChoiceFollowsHistory
  BY HistoryTyped, BestIsUndominated, NamedDeclines, DecisionConstants
  DEF ChoiceFollowsHistory, Choice!ChoiceFollowsHistory
<1>2. Choice!Spec => []ChoiceInv
  BY ChoiceInvHolds, DecisionConstants
<1>3. QED BY <1>1, <1>2, PTL

\* What the run of MCDecisions takes in turn: in each of its behaviours every one of
\* the three modules has a behaviour of its own, in which the other two stand still.
THEOREM DecisionsAreSound == DecisionSpec => [](DetectorsAgree /\ ChoiceFollowsHistory /\ VerdictsHold)
<1>1. DecisionInit => Detect!Init /\ Choice!Init /\ Verdict!Init
  BY DEF DecisionInit
<1>2. [DecisionNext]_decisionVars =>
        [Detect!Next]_(Detect!vars) /\ [Choice!Next]_(Choice!vars) /\ [Verdict!Next]_(Verdict!vars)
  BY DEF DecisionNext, decisionVars, traceVars, choiceVars, verdictVars, Detect!vars, Choice!vars, Verdict!vars
<1>3. DecisionSpec => Detect!Spec /\ Choice!Spec /\ Verdict!Spec
  BY <1>1, <1>2, PTL DEF DecisionSpec, Detect!Spec, Choice!Spec, Verdict!Spec
<1>4. QED BY <1>3, DetectorsDoAgree, ChoicesFollowHistory, VerdictsAreSound, PTL

=============================================================================
