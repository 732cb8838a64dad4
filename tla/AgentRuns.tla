------------------------------- MODULE AgentRuns -------------------------------
(***************************************************************************)
(* scripts/agents: the ledger of a run of agent tasks, the orchestrator    *)
(* that invokes a provider for every task that is ready, and the people who *)
(* change a task's state with update-task-state while it waits.  One        *)
(* orchestrator works on a run at a time; it may be killed between any two  *)
(* writes.                                                                  *)
(***************************************************************************)
EXTENDS Naturals, Functions

CONSTANTS
  AgentTasks,       \* task ids of the plan
  Quality,          \* the task of the quality agent
  Deps,             \* dependencies of a task
  MaximumAttempts,  \* of every task
  Permitted,        \* tasks that validateTaskInvocation lets through
  Results,          \* what the provider may answer
  MaxByHand         \* bound: moves made by hand, in all

ASSUME PlanAssumption ==
  /\ Quality \in AgentTasks
  /\ Deps \in [AgentTasks -> SUBSET AgentTasks]
  /\ MaximumAttempts \in Nat \ {0}  \* validateManifest

VARIABLES
  dryRun,       \* run.dryRun
  task,         \* tasks/*.json
  runStatus,    \* run.status
  runVerdict,   \* run.qualityVerdict
  approved,     \* quality.approved is in events.jsonl
  orchestrator, \* what the orchestrator is doing, and the tasks it has listed
  byHand,       \* how often a task was moved by hand
  killed        \* a process was killed between two writes, and no task was updated since

runVars == <<dryRun, task, runStatus, runVerdict, approved, orchestrator, byHand, killed>>

TaskStates == {"PLANNED", "READY", "RUNNING", "VERIFYING", "SUCCEEDED", "SIMULATED",
               "FAILED", "BLOCKED", "ESCALATED", "CANCELLED"}
Verdicts == {"APPROVE", "BLOCK"}
Task == [status : TaskStates, attempt : Nat, verdict : Verdicts \cup {"none"}]
Result == [status : {"succeeded", "simulated", "blocked", "failed"}, dryRun : BOOLEAN, real : BOOLEAN,
           local : BOOLEAN, verdict : Verdicts \cup {"none"}, evidence : BOOLEAN]

ASSUME ResultsAssumption == Results \subseteq Result

\* listed: the tasks still to be executed, with the state they were listed in;
\* looping: in runReadyLoop.
NoWork == [at |-> "idle", task |-> Quality, listed |-> [t \in AgentTasks |-> "none"], looping |-> FALSE]

RunTypeOK ==
  /\ dryRun \in BOOLEAN
  /\ task \in [AgentTasks -> Task]
  /\ runStatus \in {"PLANNED", "RUNNING", "ESCALATED", "BLOCKED", "FAILED", "SIMULATED", "SUCCEEDED"}
  /\ runVerdict \in Verdicts \cup {"none"}
  /\ approved \in BOOLEAN /\ killed \in BOOLEAN
  /\ orchestrator \in [at : {"idle", "pick", "invoke"}, task : AgentTasks,
                       listed : [AgentTasks -> {"READY", "FAILED", "BLOCKED", "none"}], looping : BOOLEAN]
  /\ byHand \in [AgentTasks -> Nat]

\* createRunFromPlan: by create-run, or by orchestrate-run, which makes dry runs
\* only and goes on with the loop at once.
RunInit ==
  /\ dryRun \in BOOLEAN
  /\ task = [t \in AgentTasks |-> [status |-> IF Deps[t] = {} THEN "READY" ELSE "PLANNED",
                                   attempt |-> 0, verdict |-> "none"]]
  /\ runStatus = "PLANNED"
  /\ runVerdict = "none"
  /\ approved = FALSE /\ killed = FALSE
  /\ orchestrator \in {NoWork} \cup (IF dryRun THEN {[NoWork EXCEPT !.at = "pick", !.looping = TRUE]} ELSE {})
  /\ byHand = [t \in AgentTasks |-> 0]

Status(t) == task[t].status

-----------------------------------------------------------------------------
(* lib/state-machine.mjs                                                   *)

TaskTransitions ==
  [PLANNED   |-> {"READY", "CANCELLED", "BLOCKED"},
   READY     |-> {"RUNNING", "CANCELLED", "BLOCKED"},
   RUNNING   |-> {"VERIFYING", "SUCCEEDED", "SIMULATED", "FAILED", "BLOCKED", "ESCALATED", "CANCELLED"},
   VERIFYING |-> {"SUCCEEDED", "SIMULATED", "FAILED", "BLOCKED", "ESCALATED"},
   SUCCEEDED |-> {},
   SIMULATED |-> {},
   FAILED    |-> {"READY", "ESCALATED", "CANCELLED"},
   BLOCKED   |-> {"READY", "ESCALATED", "CANCELLED"},
   ESCALATED |-> {"READY", "CANCELLED", "FAILED"},
   CANCELLED |-> {}]

\* Fault: a retry is not counted against maximumAttempts.
assertTransitionUncounted(from, to, attempt) == from = to \/ to \in TaskTransitions[from]

assertTransition(from, to, attempt) ==
  \/ from = to
  \/ /\ to \in TaskTransitions[from]
     /\ ~ (from = "FAILED" /\ to = "READY" /\ attempt >= MaximumAttempts)

\* Fault: a simulated task unlocks what depends on it in every run.
dependencySatisfiedBySimulation(status) == status \in {"SUCCEEDED", "SIMULATED"}

dependencySatisfied(status) == status = "SUCCEEDED" \/ (dryRun /\ status = "SIMULATED")

-----------------------------------------------------------------------------
(* lib/run-store.mjs: updateTaskState writes the task, then the tasks that  *)
(* are ready with it, then the run.                                        *)

Written(t, next, verdict) ==
  [task EXCEPT ![t].status = next,
               ![t].attempt = IF next = "RUNNING" THEN @ + 1 ELSE @,
               ![t].verdict = IF verdict = "none" THEN @ ELSE verdict]

Unlocked(w) ==
  {u \in AgentTasks : /\ w[u].status = "PLANNED"
                      /\ \A d \in Deps[u] : dependencySatisfied(w[d].status)}

\* Fault: only tasks without dependencies become ready.
promoteReadyTasksNone(w, us) == w

promoteReadyTasks(w, us) ==
  [u \in AgentTasks |-> IF u \in us THEN [w[u] EXCEPT !.status = "READY"] ELSE w[u]]

Active == {"RUNNING", "VERIFYING"}
AnyIn(w, ss) == \E t \in AgentTasks : w[t].status \in ss
AllTerminal(w) == ~ AnyIn(w, Active \cup {"PLANNED", "READY"})

\* Fault: failed and blocked tasks are looked at after the finished ones.
RollupFinishedFirst(w) ==
  IF AnyIn(w, Active) THEN "RUNNING"
  ELSE IF AllTerminal(w) /\ AnyIn(w, {"SUCCEEDED"}) THEN IF dryRun THEN "SIMULATED" ELSE "SUCCEEDED"
  ELSE runStatus

\* updateRunRollup, in the order the code asks.
Rollup(w) ==
  IF AnyIn(w, Active) THEN "RUNNING"
  ELSE IF AnyIn(w, {"ESCALATED"}) THEN "ESCALATED"
  ELSE IF AnyIn(w, {"BLOCKED"}) THEN "BLOCKED"
  ELSE IF AnyIn(w, {"FAILED"}) THEN "FAILED"
  ELSE IF AllTerminal(w) /\ AnyIn(w, {"SIMULATED"})
       THEN IF AnyIn(w, {"SUCCEEDED"}) /\ ~ dryRun THEN "SUCCEEDED" ELSE "SIMULATED"
  ELSE IF \A t \in AgentTasks : w[t].status = "SUCCEEDED" THEN "SUCCEEDED"
  ELSE runStatus

RolledUpVerdict(w) ==
  CASE w[Quality].status = "SUCCEEDED" /\ w[Quality].verdict # "none" -> w[Quality].verdict
    [] w[Quality].status = "SIMULATED" -> "none"
    [] OTHER -> runVerdict

updateTaskState(t, next, verdict) ==
  LET w == Written(t, next, verdict)
      promoted == promoteReadyTasks(w, Unlocked(w))
  IN /\ assertTransition(Status(t), next, task[t].attempt)
     /\ task' = promoted
     /\ runStatus' = Rollup(promoted)
     /\ runVerdict' = RolledUpVerdict(promoted)
     /\ killed' = FALSE

\* The process is killed after the task was written: some of the tasks it makes
\* ready may be, the run is not.
updateTaskStateKilled(t, next, verdict) ==
  LET w == Written(t, next, verdict)
  IN /\ assertTransition(Status(t), next, task[t].attempt)
     /\ \E us \in SUBSET Unlocked(w) : task' = promoteReadyTasks(w, us)
     /\ killed' = TRUE
     /\ UNCHANGED <<runStatus, runVerdict>>

-----------------------------------------------------------------------------
(* lib/quality-gate.mjs                                                    *)

\* local: the provider is mock or local-prompt; real: it says realExecution.
terminalStatusForResult(result) ==
  CASE result.status = "blocked" -> "BLOCKED"
    [] result.status = "failed" -> "FAILED"
    [] result.status = "simulated" \/ (result.status = "succeeded" /\ (dryRun \/ result.dryRun)) -> "SIMULATED"
    [] OTHER -> IF result.local /\ ~ result.real THEN "SIMULATED" ELSE "SUCCEEDED"

evaluateQualityResult(result) ==
  /\ ~ dryRun /\ ~ result.dryRun
  /\ result.status = "succeeded"
  /\ ~ (result.local /\ ~ result.real)
  /\ result.verdict = "APPROVE" /\ result.evidence

-----------------------------------------------------------------------------
(* orchestrate-run.mjs and lib/orchestrator-core.mjs                       *)

ListedIn(states) ==
  [t \in AgentTasks |-> IF Status(t) \in states THEN Status(t) ELSE "none"]

\* Fault: a task that was executed is not taken off the list.
DelistedNone(t) == [orchestrator EXCEPT !.at = "pick"]

Delisted(t) == [orchestrator EXCEPT !.at = "pick", !.listed[t] = "none"]

\* BLOCKED tasks are listed too, and skipped.
resumeRun ==
  /\ orchestrator.at = "idle"
  /\ orchestrator' = [NoWork EXCEPT !.at = "pick", !.listed = ListedIn({"READY", "FAILED"})]
  /\ UNCHANGED <<dryRun, task, runStatus, runVerdict, approved, byHand, killed>>

ByHand(t) ==
  /\ FoldFunction(+, 0, byHand) < MaxByHand
  /\ byHand' = [byHand EXCEPT ![t] = @ + 1]

\* --resume with --task: the one way to resume a blocked task.
resumeTask(t) ==
  /\ orchestrator.at = "idle"
  /\ Status(t) \in {"READY", "FAILED", "BLOCKED"}
  /\ ByHand(t)
  /\ orchestrator' = [NoWork EXCEPT !.at = "pick", !.listed[t] = Status(t)]
  /\ UNCHANGED <<dryRun, task, runStatus, runVerdict, approved, killed>>

retryListed(t) ==
  /\ orchestrator.at = "pick" /\ orchestrator.listed[t] \in {"FAILED", "BLOCKED"}
  /\ \/ updateTaskState(t, "READY", "none") /\ orchestrator' = [orchestrator EXCEPT !.listed[t] = "READY"]
     \/ updateTaskStateKilled(t, "READY", "none") /\ orchestrator' = NoWork
     \/ /\ ~ assertTransition(Status(t), "READY", task[t].attempt)
        /\ orchestrator' = Delisted(t)
        /\ UNCHANGED <<task, runStatus, runVerdict, killed>>
  /\ UNCHANGED <<dryRun, approved, byHand>>

\* resumeRun reads a task again before it executes it.  runReadyLoop does not: a
\* task that left READY since it was listed is invoked without becoming RUNNING.
executeTask(t) ==
  /\ orchestrator.at = "pick" /\ orchestrator.listed[t] = "READY"
  /\ IF ~ orchestrator.looping /\ Status(t) # "READY"
     THEN orchestrator' = Delisted(t) /\ UNCHANGED <<task, runStatus, runVerdict, killed>>
     ELSE IF t \notin Permitted
     THEN IF Status(t) \in {"READY", "RUNNING"}
          THEN \/ updateTaskState(t, "BLOCKED", "none") /\ orchestrator' = Delisted(t)
               \/ updateTaskStateKilled(t, "BLOCKED", "none") /\ orchestrator' = NoWork
          ELSE orchestrator' = Delisted(t) /\ UNCHANGED <<task, runStatus, runVerdict, killed>>
     ELSE IF Status(t) = "READY"
     THEN \/ /\ updateTaskState(t, "RUNNING", "none")
             /\ orchestrator' = [orchestrator EXCEPT !.at = "invoke", !.task = t]
          \/ updateTaskStateKilled(t, "RUNNING", "none") /\ orchestrator' = NoWork
     ELSE /\ orchestrator' = [orchestrator EXCEPT !.at = "invoke", !.task = t]
          /\ UNCHANGED <<task, runStatus, runVerdict, killed>>
  /\ UNCHANGED <<dryRun, approved, byHand>>

\* The answer of the provider.  An update that is refused ends the process.
providerAnswers(result) ==
  LET t    == orchestrator.task
      next == terminalStatusForResult(result)
      verdict == IF next = "SUCCEEDED" THEN result.verdict ELSE "none"
  IN /\ orchestrator.at = "invoke"
     /\ \/ /\ updateTaskState(t, next, verdict)
           /\ \/ /\ orchestrator' = Delisted(t)
                 /\ approved' = (approved \/ (t = Quality /\ evaluateQualityResult(result)))
              \/ orchestrator' = NoWork /\ UNCHANGED approved  \* killed before applyQualityEvents
        \/ updateTaskStateKilled(t, next, verdict) /\ orchestrator' = NoWork /\ UNCHANGED approved
        \/ /\ ~ assertTransition(Status(t), next, task[t].attempt)
           /\ orchestrator' = NoWork
           /\ UNCHANGED <<task, runStatus, runVerdict, approved, killed>>
     /\ UNCHANGED <<dryRun, byHand>>

\* runReadyLoop lists what is ready, until nothing is.
runReadyLoop ==
  /\ orchestrator.at = "pick"
  /\ \A t \in AgentTasks : orchestrator.listed[t] = "none"
  /\ orchestrator' = IF \E t \in AgentTasks : Status(t) = "READY"
                     THEN [orchestrator EXCEPT !.looping = TRUE, !.listed = ListedIn({"READY"})]
                     ELSE NoWork
  /\ UNCHANGED <<dryRun, task, runStatus, runVerdict, approved, byHand, killed>>

KilledWaiting ==
  /\ orchestrator.at = "invoke"
  /\ orchestrator' = NoWork
  /\ UNCHANGED <<dryRun, task, runStatus, runVerdict, approved, byHand, killed>>

\* update-task-state.mjs, while no orchestrator runs or it awaits a provider.
UpdateByHand(t, next) ==
  /\ orchestrator.at \in {"idle", "invoke"}
  /\ ByHand(t)
  /\ \/ updateTaskState(t, next, "none")
     \/ updateTaskStateKilled(t, next, "none")
  /\ UNCHANGED <<dryRun, approved, orchestrator>>

Orchestrate ==
  \/ \E t \in AgentTasks : retryListed(t) \/ executeTask(t)
  \/ \E result \in Results : providerAnswers(result)
  \/ runReadyLoop

RunNext ==
  \/ Orchestrate
  \/ resumeRun
  \/ \E t \in AgentTasks : resumeTask(t)
  \/ \E t \in AgentTasks, next \in TaskStates : UpdateByHand(t, next)
  \/ KilledWaiting

\* A process that nobody kills goes on, and a provider answers or times out.
RunFairness == WF_runVars(Orchestrate)

RunSpec == RunInit /\ [][RunNext]_runVars /\ RunFairness

-----------------------------------------------------------------------------
(* Properties                                                              *)

Touched(t) == byHand[t] > 0

\* Quality approves a run only when every task it depends on was done for real,
\* whatever was retried, killed or resumed on the way: a person who moved the
\* quality task out of PLANNED has taken the decision himself.
ApprovalOfCompletedWork ==
  approved /\ ~ Touched(Quality) => \A d \in Deps[Quality] : Status(d) = "SUCCEEDED"

\* No sequence of resumes and failures starts a task more often than its budget
\* allows; each move by hand is worth one start at most.
RetriesBounded == \A t \in AgentTasks : task[t].attempt <= MaximumAttempts + byHand[t]

\* A dry run yields no verdict, no approval and no success, whatever the provider
\* claims: only a person can say that one of its tasks succeeded.
SimulationIsNotSuccess ==
  dryRun => /\ ~ approved
            /\ runVerdict = "none"
            /\ \A t \in AgentTasks : Status(t) = "SUCCEEDED" => Touched(t)

\* The run that is called a success has no task that failed, is blocked, waits or
\* runs, unless a process was killed before it could say so.
SuccessIsReal ==
  runStatus = "SUCCEEDED" /\ ~ killed =>
    \A t \in AgentTasks : Status(t) \in {"SUCCEEDED", "SIMULATED", "CANCELLED"}

\* What is called a success was one: neither a dry run nor a task that did not end
\* well hides behind it (rollupRunStatus, terminalStatusForResult).
SuccessIsNoPretence == SimulationIsNotSuccess /\ SuccessIsReal

\* Between updates no task is left behind: one whose dependencies are satisfied
\* has been made ready.  Only a process killed between the writes of an update
\* can leave one, and the next update, of any task, makes up for it.
NoneLeftBehind ==
  ~ killed => \A t \in AgentTasks : Status(t) = "PLANNED" =>
                \E d \in Deps[t] : ~ dependencySatisfied(Status(d))

\* Approvals and successes are earned by work that was done; no task is tried too
\* often, none is forgotten.
RunsSound == ApprovalOfCompletedWork /\ SuccessIsNoPretence /\ RetriesBounded /\ NoneLeftBehind

\* Every run of the orchestrator ends, although it lists what is ready again and
\* again, tasks fail and people move them in between.
OrchestrationEnds == orchestrator.at # "idle" ~> orchestrator.at = "idle"
===============================================================================
