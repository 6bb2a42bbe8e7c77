------------------------------ MODULE EvalRuns ------------------------------
(***************************************************************************)
(* otelmind/eval/worker.py: workers claim pending evaluation runs with     *)
(* SELECT ... FOR UPDATE SKIP LOCKED, compare the attached cases and write *)
(* the report to the row, in place of the cases.                           *)
(*                                                                         *)
(* Every API process runs one worker.  The SQL statement for a manual      *)
(* retry, in the docstring of _claim_pending_eval_run(), is an action too. *)
(***************************************************************************)
EXTENDS Naturals, FiniteSets

CONSTANTS
  Worker,
  Run,          \* in the order of created_at: 1, 2, ...
  HasCases,     \* the runs that were posted with cases
  MetaEval,     \* eval_meta_eval_enabled, with a key for the auditor
  MaxErrors,    \* bound: transactions that the database fails, and crashes
  MaxRetries    \* bound: how often an operator runs the retry statement

ASSUME EvalRunsAssumption ==
  /\ Run \subseteq Nat
  /\ HasCases \subseteq Run
  /\ MetaEval \in BOOLEAN
  /\ MaxErrors \in Nat
  /\ MaxRetries \in Nat

VARIABLES
  status,       \* database: status
  details,      \* database: what the details hold
  passed,       \* database: passed
  worker,       \* what each worker does, and with which run
  approved,     \* history: the runs that the comparator has let pass
  retried,      \* history: the runs that an operator set back to pending
  stranded,     \* history: the runs whose worker stopped without an outcome
  errors,
  retries

history == <<approved, retried, stranded, errors, retries>>
vars == <<status, details, passed, worker, approved, retried, stranded, errors, retries>>

\* at: between two runs; a claim is uncommitted; the run is claimed; its cases
\* are compared; the report, or the exception, is to be written; the auditor
\* is to be asked.
Task == [at : {"idle", "claiming", "claimed", "judging", "report", "error", "audit"},
         run : SUBSET Run, passed : BOOLEAN]
Idle == [at |-> "idle", run |-> {}, passed |-> FALSE]

Init ==
  /\ status = [r \in Run |-> "none"]
  /\ details = [r \in Run |-> "none"]
  /\ passed = [r \in Run |-> FALSE]
  /\ worker = [w \in Worker |-> Idle]
  /\ approved = {}
  /\ retried = {}
  /\ stranded = {}
  /\ errors = 0
  /\ retries = 0

\* POST /evals inserts a pending row.
Post(r) ==
  /\ status[r] = "none"
  /\ status' = [status EXCEPT ![r] = "pending"]
  /\ details' = [details EXCEPT ![r] = IF r \in HasCases THEN "cases" ELSE "none"]
  /\ UNCHANGED <<passed, worker, history>>

-----------------------------------------------------------------------------
(* _claim_pending_eval_run() *)

Locked == UNION {worker[w].run : w \in {v \in Worker : worker[v].at = "claiming"}}

\* Mutant of Claim: a plain SELECT, without FOR UPDATE SKIP LOCKED.
ClaimUnlocked(w, r) ==
  /\ worker[w].at = "idle"
  /\ r \in {q \in Run : status[q] = "pending"}
  /\ \A q \in Run : status[q] = "pending" => r <= q
  /\ worker' = [worker EXCEPT ![w].at = "claiming", ![w].run = {r}]
  /\ UNCHANGED <<status, details, passed, history>>

\* The oldest pending row that no other transaction has locked is locked.
Claim(w, r) ==
  LET free == {q \in Run : status[q] = "pending"} \ Locked
  IN  /\ worker[w].at = "idle"
      /\ r \in free
      /\ \A q \in free : r <= q
      /\ worker' = [worker EXCEPT ![w].at = "claiming", ![w].run = {r}]
      /\ UNCHANGED <<status, details, passed, history>>

\* The status flip is committed, and the lock released.
Claimed(w, r) ==
  /\ worker[w].at = "claiming"
  /\ r \in worker[w].run
  /\ status' = [status EXCEPT ![r] = "running"]
  /\ worker' = [worker EXCEPT ![w].at = "claimed"]
  /\ UNCHANGED <<details, passed, history>>

-----------------------------------------------------------------------------
(* _execute_eval_run() *)

\* A row without cases is completed at once, and passes.
CompleteEmpty(w, r) ==
  /\ worker[w].at = "claimed"
  /\ r \in worker[w].run
  /\ details[r] # "cases"
  /\ status' = [status EXCEPT ![r] = "completed"]
  /\ passed' = [passed EXCEPT ![r] = TRUE]
  /\ worker' = [worker EXCEPT ![w] = Idle]
  /\ UNCHANGED <<details, history>>

LoadCases(w, r) ==
  /\ worker[w].at = "claimed"
  /\ r \in worker[w].run
  /\ details[r] = "cases"
  /\ worker' = [worker EXCEPT ![w].at = "judging"]
  /\ UNCHANGED <<status, details, passed, history>>

\* run_regression() and the significance test give a verdict.
Judge(w, r) ==
  /\ worker[w].at = "judging"
  /\ r \in worker[w].run
  /\ \E verdict \in BOOLEAN :
       /\ worker' = [worker EXCEPT ![w].at = "report", ![w].passed = verdict]
       /\ approved' = IF verdict THEN approved \cup {r} ELSE approved
  /\ UNCHANGED <<status, details, passed, retried, stranded, errors, retries>>

\* Mutant of JudgeRaises: an exception of the judge counts as a pass.
JudgeRaisesPasses(w) ==
  /\ worker[w].at = "judging"
  /\ worker' = [worker EXCEPT ![w].at = "report", ![w].passed = TRUE]
  /\ UNCHANGED <<status, details, passed, history>>

\* run_regression() raises.
JudgeRaises(w) ==
  /\ worker[w].at = "judging"
  /\ worker' = [worker EXCEPT ![w].at = "error"]
  /\ UNCHANGED <<status, details, passed, history>>

\* Mutant of WriteError: the exception is only logged.
WriteErrorLogs(w, r) ==
  /\ worker[w].at = "error"
  /\ r \in worker[w].run
  /\ worker' = [worker EXCEPT ![w] = Idle]
  /\ UNCHANGED <<status, details, passed, history>>

\* The row is marked as failed; its cases stay.
WriteError(w, r) ==
  /\ worker[w].at = "error"
  /\ r \in worker[w].run
  /\ status' = [status EXCEPT ![r] = "failed"]
  /\ worker' = [worker EXCEPT ![w] = Idle]
  /\ UNCHANGED <<details, passed, history>>

\* The report replaces the cases and completes the run; then the auditor.
WriteReport(w, r) ==
  /\ worker[w].at = "report"
  /\ r \in worker[w].run
  /\ status' = [status EXCEPT ![r] = "completed"]
  /\ passed' = [passed EXCEPT ![r] = worker[w].passed]
  /\ details' = [details EXCEPT ![r] = "report"]
  /\ worker' = [worker EXCEPT ![w] = IF MetaEval THEN [@ EXCEPT !.at = "audit"] ELSE Idle]
  /\ UNCHANGED history

\* _run_meta_eval() adds its report, or raises, which is logged.
Audit(w, r) ==
  /\ worker[w].at = "audit"
  /\ r \in worker[w].run
  /\ \/ details' = [details EXCEPT ![r] = "audited"]
     \/ UNCHANGED details
  /\ worker' = [worker EXCEPT ![w] = Idle]
  /\ UNCHANGED <<status, passed, history>>

-----------------------------------------------------------------------------

Stop(w) ==
  /\ worker' = [worker EXCEPT ![w] = Idle]
  /\ stranded' = IF worker[w].at \in {"idle", "claiming", "audit"} THEN stranded
                 ELSE stranded \cup worker[w].run
  /\ UNCHANGED <<status, details, passed, approved, retried, retries>>

\* A transaction fails: the loop logs it and goes on.
DatabaseError(w) ==
  /\ errors < MaxErrors
  /\ worker[w].at \in {"claiming", "claimed", "report", "error"}
  /\ errors' = errors + 1
  /\ Stop(w)

\* The process ends; another takes its place.
Crash(w) ==
  /\ errors < MaxErrors
  /\ worker[w].at # "idle"
  /\ errors' = errors + 1
  /\ Stop(w)

\* "update eval_runs set status='pending' where status='running'"
Retry ==
  /\ retries < MaxRetries
  /\ retries' = retries + 1
  /\ status' = [r \in Run |-> IF status[r] = "running" THEN "pending" ELSE status[r]]
  /\ retried' = retried \cup {r \in Run : status[r] = "running"}
  /\ UNCHANGED <<details, passed, worker, approved, stranded, errors>>

Step(w) ==
  \/ JudgeRaises(w)
  \/ \E r \in Run :
       \/ Claim(w, r) \/ Claimed(w, r)
       \/ CompleteEmpty(w, r) \/ LoadCases(w, r) \/ Judge(w, r)
       \/ WriteReport(w, r) \/ WriteError(w, r) \/ Audit(w, r)

Next ==
  \/ \E r \in Run : Post(r)
  \/ \E w \in Worker : Step(w) \/ DatabaseError(w) \/ Crash(w)
  \/ Retry

Spec == Init /\ [][Next]_vars

\* Each worker's loop polls, and the judge and the database answer.
Fairness == \A w \in Worker : WF_vars(Step(w))

FairSpec == Spec /\ Fairness

-----------------------------------------------------------------------------
Executing(w) == IF worker[w].at \in {"idle", "claiming", "audit"} THEN {} ELSE worker[w].run

TypeOK ==
  /\ status \in [Run -> {"none", "pending", "running", "completed", "failed"}]
  /\ details \in [Run -> {"none", "cases", "report", "audited"}]
  /\ passed \in [Run -> BOOLEAN]
  /\ worker \in [Worker -> Task]
  /\ \A w \in Worker : Cardinality(worker[w].run) = IF worker[w].at = "idle" THEN 0 ELSE 1
  /\ approved \subseteq Run
  /\ retried \subseteq Run
  /\ stranded \subseteq Run
  /\ errors \in 0..MaxErrors
  /\ retries \in 0..MaxRetries

\* No two workers execute the same run, unless an operator has retried it
\* (worker.py:64-65, "multiple worker instances never grab the same row").
ClaimedOnce ==
  \A v, w \in Worker : v # w => Executing(v) \cap Executing(w) \subseteq retried

\* What a crash leaves running can be retried: until the outcome is written the
\* cases are still there.
RetryFindsCases ==
  \A r \in HasCases : status[r] \in {"pending", "running", "failed"} => details[r] = "cases"

\* Crashes, errors and retries lead no two workers to one run, and none to a run whose
\* cases are gone.
ClaimsAreSafe == TypeOK /\ ClaimedOnce /\ RetryFindsCases

\* A run with cases passes only by the verdict of the comparator, also when it
\* was retried: worker.py:66-68 says of the statement of Retry that it recovers
\* a run after a failure.
PassedIsApproved == \A r \in HasCases : passed[r] => r \in approved

\* Every posted run gets an outcome, or a worker stopped with it.
PostedIsSettled ==
  \A r \in Run : (status[r] = "pending") ~> (status[r] \in {"completed", "failed"} \/ r \in stranded)

=============================================================================
