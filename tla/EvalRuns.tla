------------------------------ MODULE EvalRuns ------------------------------
(***************************************************************************)
(* The eval runner's two pools: run_evals.py runs every case under every   *)
(* configuration in a directory of its own, and run_triggers.py runs every *)
(* query several times and decides from the runs whether the description   *)
(* of a skill fires.  Workers of a thread pool take the jobs; the runtime  *)
(* they call may fail, hang or be missing, and a job may raise.            *)
(***************************************************************************)
EXTENDS Naturals, FiniteSets

CONSTANTS EvalJobs,     \* case, configuration and repeat, each a job of run_evals.py
          JobDir(_),    \* the directory of a job, from configuration, case id and repeat: two jobs may share one
          TriggerRuns,  \* query and repeat, each a job of run_triggers.py
          Queries, QueryOf(_), ShouldTrigger, \* the queries, and those a skill should fire on
          PoolSize,     \* --workers
          Adapters      \* subset of {"none", "invalid", "ok"}: what find_adapter and load_adapter give

ASSUME EvalAssumption ==
  /\ PoolSize \in Nat /\ IsFiniteSet(EvalJobs) /\ IsFiniteSet(TriggerRuns)
  /\ EvalJobs \cap TriggerRuns = {} /\ \A j \in TriggerRuns : QueryOf(j) \in Queries

VARIABLES program,  \* "evals" or "triggers": which of the two scripts runs
          adapter,  \* the adapter of this run, or none
          pool,     \* job -> [at, status]
          workdir,  \* directory -> what the last job left in it: its timing.json
          transcript, \* trigger run -> what its transcript shows
          results,  \* what the main thread has gathered from as_completed
          summary   \* execution-summary.json and triggers-result.json, NoSummary before

evalVars == <<program, adapter, pool, workdir, transcript, results, summary>>

AllJobs == EvalJobs \cup TriggerRuns
NoSummary == [written |-> FALSE]
Working == {"staged", "called"}
Busy == {j \in AllJobs : pool[j].at \in Working}
JobAt(j, at, status) == pool' = [pool EXCEPT ![j] = [at |-> at, status |-> status]]
HasAdapter == adapter = "ok"

(***************************************************************************)
(* run_evals.py.                                                           *)
(***************************************************************************)
\* run_case stages the case; without an adapter it ends there.
StageCase(j) ==
  /\ program = "evals" /\ pool[j].at = "queued" /\ Cardinality(Busy) < PoolSize
  /\ IF HasAdapter THEN JobAt(j, "staged", "") /\ UNCHANGED workdir
     ELSE JobAt(j, "ended", "skipped") /\ workdir' = [workdir EXCEPT ![JobDir(j)] = [job |-> j, status |-> "skipped"]]
  /\ UNCHANGED <<program, adapter, transcript, results, summary>>

\* subprocess.run: the runtime ends, fails, is killed at the timeout, or is not on PATH.
CallRuntime(j) ==
  /\ pool[j].at = "staged"
  /\ \E status \in {"ok", "error", "timeout", "adapter-missing"} : JobAt(j, "called", status)
  /\ UNCHANGED <<program, adapter, workdir, transcript, results, summary>>

\* The transcript, the accounting and timing.json.
RecordCase(j) ==
  /\ pool[j].at = "called" /\ JobAt(j, "ended", pool[j].status)
  /\ workdir' = [workdir EXCEPT ![JobDir(j)] = [job |-> j, status |-> pool[j].status]]
  /\ UNCHANGED <<program, adapter, transcript, results, summary>>

\* Anything else a job may raise, while it is staged or recorded: the pool keeps it.
CaseRaises(j) ==
  /\ pool[j].at \in Working /\ JobAt(j, "ended", "exception")
  /\ UNCHANGED <<program, adapter, workdir, transcript, results, summary>>

\* as_completed
GatherCase(j) ==
  /\ pool[j].at = "ended" /\ JobAt(j, "gathered", pool[j].status)
  /\ results' = results \cup {[job |-> j, status |-> pool[j].status]}
  /\ UNCHANGED <<program, adapter, workdir, transcript, summary>>

CountOf(statuses) == Cardinality({r \in results : r.status \in statuses})

\* The end of run_evals' main, once the pool has no job left.
SummariseCases ==
  /\ program = "evals" /\ ~summary.written /\ \A j \in EvalJobs : pool[j].at = "gathered"
  /\ summary' = [written |-> TRUE, total |-> Cardinality(EvalJobs),
                 executed |-> CountOf({"ok"}), skipped |-> CountOf({"skipped"}),
                 failures |-> CountOf({"error", "timeout", "exception", "adapter-missing"})]
  /\ UNCHANGED <<program, adapter, pool, workdir, transcript, results>>

(***************************************************************************)
(* run_triggers.py.                                                        *)
(***************************************************************************)
CanRunQueries == program = "triggers" /\ HasAdapter

\* run_one stages a synthetic skill of a unique name and calls the runtime,
\* whose transcript names every skill there is and may use some of them.
RunQuery(j) ==
  /\ CanRunQueries /\ pool[j].at = "queued" /\ Cardinality(Busy) < PoolSize
  /\ \E used \in {"nothing", "another skill", "the skill", "its file"} :
       transcript' = [transcript EXCEPT ![j] = [listed |-> TRUE, used |-> used]]
  /\ JobAt(j, "called", "ok")
  /\ UNCHANGED <<program, adapter, workdir, results, summary>>

\* The runtime is not on PATH, or the run raises.
QueryFails(j) ==
  /\ CanRunQueries /\ pool[j].at = "queued" /\ Cardinality(Busy) < PoolSize
  /\ \E status \in {"adapter-missing", "exception"} : JobAt(j, "ended", status)
  /\ UNCHANGED <<program, adapter, workdir, transcript, results, summary>>

\* detect_load: a call of the skill tool that names it or a read of its file.
DetectLoad(shown) == shown.used \in {"the skill", "its file"}

EndQuery(j) ==
  /\ pool[j].at = "called" /\ JobAt(j, "ended", IF DetectLoad(transcript[j]) THEN "triggered" ELSE "silent")
  /\ UNCHANGED <<program, adapter, workdir, transcript, results, summary>>

\* as_completed: a run that raised is left out, a missing runtime counts as silent.
GatherRun(j) ==
  /\ pool[j].at = "ended" /\ JobAt(j, "gathered", pool[j].status)
  /\ results' = IF pool[j].status = "exception" THEN results ELSE results \cup {[job |-> j, status |-> pool[j].status]}
  /\ UNCHANGED <<program, adapter, workdir, transcript, summary>>

RunsOf(q) == {r \in results : QueryOf(r.job) = q}
FiredRunsOf(q) == {r \in RunsOf(q) : r.status = "triggered"}
\* The default threshold of one half; no run at all is a rate of zero.
Fires(q) == RunsOf(q) # {} /\ 2 * Cardinality(FiredRunsOf(q)) >= Cardinality(RunsOf(q))
QueryPasses(q) == IF q \in ShouldTrigger THEN Fires(q) ELSE ~Fires(q)

\* The end of run_triggers' main.
SummariseTriggers ==
  /\ program = "triggers" /\ ~summary.written
  /\ HasAdapter => \A j \in TriggerRuns : pool[j].at = "gathered"
  /\ LET missing == \E r \in results : r.status = "adapter-missing" IN
     summary' = [written |-> TRUE,
                 status |-> IF ~HasAdapter THEN "skipped" ELSE IF missing THEN "adapter-missing" ELSE "judged",
                 passed |-> IF HasAdapter /\ ~missing THEN {q \in Queries : QueryPasses(q)} ELSE {}]
  /\ UNCHANGED <<program, adapter, pool, workdir, transcript, results>>

EvalInit ==
  /\ program \in {"evals", "triggers"}
  /\ adapter \in Adapters /\ pool = [j \in AllJobs |-> [at |-> "queued", status |-> ""]]
  /\ workdir = [d \in {JobDir(j) : j \in EvalJobs} |-> [job |-> "none", status |-> ""]]
  /\ transcript = [j \in TriggerRuns |-> [listed |-> FALSE, used |-> "nothing"]]
  /\ results = {} /\ summary = NoSummary

EvalNext ==
  \/ \E j \in EvalJobs : StageCase(j) \/ CallRuntime(j) \/ RecordCase(j) \/ CaseRaises(j) \/ GatherCase(j)
  \/ \E j \in TriggerRuns : RunQuery(j) \/ QueryFails(j) \/ EndQuery(j) \/ GatherRun(j)
  \/ SummariseCases \/ SummariseTriggers

EvalSpec == EvalInit /\ [][EvalNext]_evalVars

-----------------------------------------------------------------------------
EvalTypeOK ==
  /\ adapter \in Adapters /\ Cardinality(Busy) <= PoolSize
  /\ \A j \in AllJobs : pool[j].at \in Working \cup {"queued", "ended", "gathered"}

\* Every job is counted once in the summary of run_evals, whatever happened to
\* it, and the directory of a job that did not raise says what became of a case of
\* it that is counted so: of that job where no other case has its id.
SummaryCountsEveryJob ==
  summary.written /\ program = "evals" =>
    /\ summary.executed + summary.skipped + summary.failures = summary.total
    /\ \A r \in results : r.status # "exception" =>
         \E q \in results : JobDir(q.job) = JobDir(r.job) /\ workdir[JobDir(r.job)] = q

\* A query that passes because the skill fired has a run whose transcript uses
\* the skill, whatever other skills it lists or uses.
FiringIsObserved ==
  summary.written /\ program = "triggers" => \A q \in ShouldTrigger \cap summary.passed :
    \E j \in TriggerRuns : QueryOf(j) = q /\ transcript[j].used \in {"the skill", "its file"}
=============================================================================
