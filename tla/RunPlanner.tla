----------------------------- MODULE RunPlanner -----------------------------
(***************************************************************************)
(* scripts/agents/lib/planner.mjs: from the files a change touches to the  *)
(* agents it needs, their tasks, and the order and the groups in which the *)
(* tasks may run; with the permissions a task is checked against before    *)
(* its provider is invoked.                                                *)
(*                                                                         *)
(* A file is the sequence of its path's segments and the kinds of name     *)
(* that patterns and hints ask for ("md", "spec", "auth", ...).            *)
(***************************************************************************)
EXTENDS Integers, SequencesExt

CONSTANTS
  Files,      \* files a change may touch: [path : Seq(STRING), names : SUBSET STRING]
  MaxFiles,   \* bound: files of one change
  SplitFileThreshold

VARIABLES changedFiles, plan

plannerVars == <<changedFiles, plan>>

\* A path is a sequence of segments.
FilesAssumption == Files \subseteq [path : Seq(STRING), names : SUBSET STRING]

ASSUME FilesAssumption

-----------------------------------------------------------------------------
(* lib/glob-match.mjs                                                      *)

\* dir/**, dir/**/name and **/name, and the name of one file.
Within(dir) == [under |-> dir, name |-> "any"]
Named(dir, name) == [under |-> dir, name |-> name]
Exactly(path) == [under |-> path, name |-> "itself"]

matchGlob(pattern, file) ==
  IF pattern.name = "itself" THEN file.path = pattern.under
  ELSE /\ IsStrictPrefix(pattern.under, file.path)
       /\ pattern.name \in file.names \union {"any"}

matchAnyGlob(patterns, file) == \E p \in patterns : matchGlob(p, file)

Src(service) == <<service, "src">>
In(dir, file) == IsStrictPrefix(dir, file.path)
Under(dirs, file) == \E dir \in dirs : In(dir, file)

-----------------------------------------------------------------------------
(* .grok/orchestration/manifest.yaml: patterns that tell the files apart.   *)

Agents == {"orchestrator", "core-api", "experience", "payments", "quality", "database",
           "devops", "security", "testing", "documentation", "performance", "events-iot"}

\* Tasks in the order of their ranks, and of the manifest within a rank.
orderHints == <<"orchestrator", "database", "security", "core-api", "experience", "payments",
                "devops", "documentation", "events-iot", "performance", "testing", "quality">>

Everywhere(names) == {Named(<<>>, n) : n \in names}
Dirs(dirs) == {Within(d) : d \in dirs}

activationPaths(agent) ==
  CASE agent = "orchestrator" -> Dirs({<<>>})
    [] agent = "core-api" -> Dirs({Src("backend"), <<"backend", "docs">>})
    [] agent = "experience" -> Dirs({Src("frontend")})
    [] agent = "payments" -> Dirs({<<"payment-service">>})
    [] agent = "database" -> Dirs({<<"backend", "prisma">>})
    [] agent = "devops" -> Dirs({<<".github", "workflows">>, <<"scripts">>, <<"infra">>})
                           \union Everywhere({"Dockerfile", "env.example"}) \union {Exactly(<<"docker-compose.iot.yml">>)}
    [] agent = "security" -> Dirs({<<"backend", "src", "auth">>}) \union Everywhere({"auth"})
    [] agent = "testing" -> Everywhere({"spec"}) \union Dirs({<<"frontend", "cypress">>})
    [] agent = "documentation" -> Dirs({<<"docs">>, <<".grok">>}) \union Everywhere({"md"})
    [] agent = "performance" -> Everywhere({"cache"})
    [] agent = "events-iot" -> Dirs({<<"backend", "src", "iot">>, <<"iot-edge">>, <<"infra", "mosquitto">>})
                               \union {Named(Src("backend"), "gateway"), Exactly(<<"docker-compose.iot.yml">>)}
    [] OTHER -> {}

pathExclude(agent) ==
  CASE agent = "core-api" -> {Named(Src("backend"), "spec")}
    [] agent = "experience" -> {Named(Src("frontend"), "spec")} \union Dirs({<<"frontend", "cypress">>})
    [] OTHER -> {}

keywords(agent) ==
  CASE agent = "security" -> {"auth"}
    [] agent = "performance" -> {"cache"}
    [] agent = "events-iot" -> {"mqtt", "gateway"}
    [] OTHER -> {}

writePaths(agent) ==
  CASE agent = "orchestrator" -> Dirs({<<".grok", "orchestration">>, <<"scripts", "agents">>})
    [] agent = "core-api" -> Dirs({Src("backend"), <<"backend", "docs">>})
    [] agent = "experience" -> Dirs({Src("frontend")}) \union {Exactly(<<"frontend", ".env.example">>)}
    [] agent = "payments" -> Dirs({<<"payment-service">>})
    [] agent = "quality" -> Dirs({<<".grok", "reports">>})
    [] agent = "database" -> Dirs({<<"backend", "prisma">>})
    [] agent = "devops" -> activationPaths("devops")
    [] agent = "security" -> Dirs({<<"backend", "src", "auth">>}) \union {Named(Src("backend"), "guards")}
    [] agent = "testing" -> Everywhere({"spec"}) \union Dirs({<<"frontend", "cypress">>})
    [] agent = "documentation" -> activationPaths("documentation")
    [] agent = "performance" -> Dirs({Src("backend"), Src("frontend")})
    [] agent = "events-iot" -> Dirs({<<"backend", "src", "events">>, <<"backend", "src", "iot">>,
                                     <<"iot-edge">>, <<"infra", "mosquitto">>})

\* Testing is denied the sources by their extension, its own tests included.
deniedPaths(agent) ==
  CASE agent \in {"orchestrator", "quality", "devops", "testing", "documentation"} ->
         Dirs({Src("backend"), Src("frontend"), Src("payment-service")})
    [] agent = "core-api" -> Dirs({<<"frontend">>, <<"payment-service">>, <<"backend", "prisma">>})
    [] agent = "experience" -> Dirs({<<"backend">>, <<"payment-service">>})
    [] agent = "payments" -> Dirs({Src("backend"), Src("frontend")})
    [] agent = "database" -> Dirs({<<"frontend">>, <<"payment-service">>, Src("backend")})
    [] agent = "security" -> Dirs({<<"payment-service">>, Src("frontend")})
    [] agent = "performance" -> Dirs({<<"backend", "prisma">>, <<"payment-service">>})
    [] agent = "events-iot" -> Dirs({<<"frontend">>, <<"payment-service">>})

-----------------------------------------------------------------------------
(* Which agents a change activates.                                        *)

isTestPath(f) == "spec" \in f.names \/ In(<<"frontend", "cypress">>, f)
isDocsPath(f) == Under({<<"docs">>, <<".grok">>}, f) \/ "md" \in f.names
isProductionPath(f) ==
  /\ Under({Src("backend"), Src("frontend"), Src("payment-service"), <<"iot-edge">>, <<"backend", "prisma">>}, f)
  /\ ~ isTestPath(f)
isInfraPath(f) == Under({<<".github">>, <<"scripts">>}, f) \/ f.names \cap {"compose", "env.example"} # {}

Only(files, Is(_)) == files # {} /\ \A f \in files : Is(f)
docsOnly(files) == Only(files, isDocsPath)
productionChange(files) == \E f \in files : isProductionPath(f)

isKnownPath(f) ==
  \/ isDocsPath(f) \/ isTestPath(f)
  \/ Under({<<s>> : s \in {"backend", "frontend", "payment-service", "iot-edge", "docs", ".grok", ".github", "scripts", "infra"}}, f)
  \/ "compose" \in f.names
  \/ \E agent \in Agents \ {"orchestrator", "quality"} :
       matchAnyGlob(activationPaths(agent) \union writePaths(agent), f)

unknownFiles(files) == {f \in files : ~ isKnownPath(f)}

Activated(agent, f) ==
  \/ matchAnyGlob(activationPaths(agent), f) /\ ~ matchAnyGlob(pathExclude(agent), f)
  \/ keywords(agent) \cap f.names # {}
  \/ agent = "security" /\ f.names \cap {"auth", "env.example"} # {}
  \/ agent = "performance" /\ "cache" \in f.names

applicationWriters == {"core-api", "experience", "payments", "database", "events-iot", "performance"}

activatedIds(files) ==
  LET found == {agent \in Agents : \E f \in files : Activated(agent, f)}
               \union (IF productionChange(files) \/ Only(files, isTestPath) THEN {"testing"} ELSE {})
      kept  == IF docsOnly(files) THEN (found \ (applicationWriters \union {"testing"})) \union {"documentation"}
               ELSE found
  IN kept \union {"orchestrator", "quality"}
          \union (IF Only(files, isInfraPath) THEN {"devops"} ELSE {})

-----------------------------------------------------------------------------
(* Risk and pattern.                                                       *)

services(files) ==
  {s \in {"backend", "frontend", "payment-service", "iot-edge"} : \E f \in files : In(<<s>>, f) /\ ~ isTestPath(f)}

classifyRisk(files, active) ==
  LET automation == \E f \in files : Under({<<".github", "workflows">>, <<"scripts">>}, f)
      infra      == Only(files, isInfraPath) \/ "devops" \in active
  IN IF docsOnly(files) \/ Only(files, isTestPath) THEN "low"
     ELSE IF \/ infra /\ automation
             \/ "security" \in active
             \/ Cardinality(services(files)) >= 3
             \/ Cardinality(files) >= SplitFileThreshold THEN "high"
     ELSE IF \/ infra
             \/ "database" \in active /\ \E f \in files : "schema" \in f.names
             \/ active \cap {"payments", "events-iot"} # {}
             \/ Cardinality(services(files)) = 2 THEN "medium"
     ELSE "low"

selectPattern(files, active) ==
  LET unknown     == unknownFiles(files)
      specialists == active \ {"orchestrator", "quality", "documentation", "testing"}
      writers     == active \ {"orchestrator", "quality", "testing"}
  IN IF /\ unknown # {}
        /\ \/ specialists = {}
           \/ Cardinality(specialists) <= 1 /\ \A f \in files : f \in unknown \/ isDocsPath(f)
     THEN "adaptive-investigation"
     ELSE IF docsOnly(files) \/ (Cardinality(writers) <= 1 /\ unknown = {}) THEN "deterministic-routing"
     ELSE IF Cardinality(writers) >= 2
     THEN IF \/ productionChange(files)
             \/ classifyRisk(files, active) = "high" /\ Cardinality(writers) >= 3
          THEN "hybrid" ELSE "concurrent-read-analysis"
     ELSE IF "testing" \in active THEN "evaluator-optimizer" ELSE "sequential"

-----------------------------------------------------------------------------
(* Tasks: one for each agent, named by it.                                 *)

Implementers(active) == active \ {"orchestrator", "testing", "quality"}

Set(condition, agent) == IF condition THEN {agent} ELSE {}

\* Fault: the tests wait for the plan only.
testingDependenciesNone(active) == {"orchestrator"}

testingDependencies(active) ==
  IF Implementers(active) = {} THEN {"orchestrator"} ELSE Implementers(active)

dependencies(agent, active, files) ==
  CASE agent = "orchestrator" -> {}
    [] agent = "testing" -> testingDependencies(active)
    [] agent = "quality" -> IF "testing" \in active THEN {"testing"} ELSE active \ {"quality"}
    [] OTHER -> {"orchestrator"}
                \union Set(agent = "core-api" /\ "database" \in active, "database")
                \union Set(/\ agent \in {"core-api", "experience"} /\ "security" \in active
                           /\ \E f \in files : "auth" \in f.names, "security")

\* Fault: only equal scopes overlap.
scopesOverlapEqual(a, b) == a.under # <<>> /\ a.under = b.under

\* What follows ** is cut off; what is nothing then overlaps with nothing.
scopesOverlap(a, b) ==
  /\ a.under # <<>> /\ b.under # <<>>
  /\ IsPrefix(a.under, b.under) \/ IsPrefix(b.under, a.under)

writesOverlap(a, b) ==
  /\ {a, b} \cap {"quality", "orchestrator"} = {}
  /\ \E p \in writePaths(a), q \in writePaths(b) : scopesOverlap(p, q)

\* Fault: a task is compared with the first of a group only.
firstFitLoose(groups, task) == {i \in DOMAIN groups : ~ writesOverlap(groups[i][1], task)}

firstFit(groups, task) == {i \in DOMAIN groups : \A j \in DOMAIN groups[i] : ~ writesOverlap(groups[i][j], task)}

\* Each task joins the first group it does not overlap with.
place(groups, task) ==
  LET fits == firstFit(groups, task)
  IN IF fits = {} THEN Append(groups, <<task>>)
     ELSE [groups EXCEPT ![CHOOSE i \in fits : \A j \in fits : i <= j] = Append(@, task)]

\* The groups of the first n tasks, of those that are ready.
partitionParallelSafe(ready) ==
  LET placed[n \in 0 .. Len(orderHints)] ==
        IF n = 0 THEN <<>>
        ELSE IF orderHints[n] \in ready THEN place(placed[n - 1], orderHints[n])
        ELSE placed[n - 1]
  IN placed[Len(orderHints)]

\* One round of the loop: what waits for nothing left, in groups; all the rest in
\* one group should everything wait for something left.
round(active, files, before) ==
  LET remaining == active \ before.done
      ready     == {t \in remaining : dependencies(t, active, files) \subseteq before.done}
  IN IF remaining = {} THEN before
     ELSE IF ready = {} THEN [levels |-> Append(before.levels, SetToSeq(remaining)), done |-> active]
     ELSE [levels |-> before.levels \o partitionParallelSafe(ready), done |-> before.done \union ready]

\* As many rounds as there are tasks: each but those after the last finishes one.
buildOrdering(active, files) ==
  LET after[n \in 0 .. Cardinality(active)] ==
        IF n = 0 THEN [levels |-> <<>>, done |-> {}] ELSE round(active, files, after[n - 1])
  IN after[Cardinality(active)].levels

detectOverlappingWrites(active) ==
  {pair \in SUBSET Implementers(active) : \E a, b \in Implementers(active) : a # b /\ pair = {a, b} /\ writesOverlap(a, b)}

recommendSplit(files) ==
  LET parts == {s \in {<<"frontend">>, <<"payment-service">>, <<"iot-edge">>, <<"backend", "prisma">>} : \E f \in files : In(s, f)}
      api   == {f \in files : In(<<"backend">>, f) /\ ~ In(<<"backend", "prisma">>, f)}
      mqtt  == {f \in files : "mqtt" \in f.names /\ ~ In(<<"iot-edge">>, f)}
      count == Cardinality(parts) + (IF api = {} THEN 0 ELSE 1)
               + (IF mqtt # {} /\ <<"iot-edge">> \notin parts THEN 1 ELSE 0)
  IN Cardinality(files) >= SplitFileThreshold \/ count >= 3

buildVerification(files) ==
  {s \in {"backend", "frontend", "payment-service"} : \E f \in files : In(<<s>>, f)} \union {"scripts/agents"}

-----------------------------------------------------------------------------
(* lib/permissions.mjs and lib/task-invocation.mjs                         *)

assertWriteAllowed(agent, f) ==
  /\ ~ matchAnyGlob(deniedPaths(agent), f)
  /\ matchAnyGlob(writePaths(agent), f)
  /\ "secret" \notin f.names

\* changedFilesInScope; without any, what its paths allow: nothing then.
resolveTaskWriteFiles(agent, files) ==
  IF agent \in {"orchestrator", "quality"} THEN {}
  ELSE {f \in files : matchAnyGlob(writePaths(agent) \union activationPaths(agent), f)}

validateTaskInvocation(agent, files) ==
  \A f \in resolveTaskWriteFiles(agent, files) : assertWriteAllowed(agent, f)

-----------------------------------------------------------------------------
(* planRun                                                                 *)

NoPlan == [tasks |-> {}]

PlannerInit ==
  /\ changedFiles \in {files \in SUBSET Files : Cardinality(files) <= MaxFiles}
  /\ plan = NoPlan

planOf(files) ==
  LET active == activatedIds(files)
  IN [tasks |-> active,
      order |-> buildOrdering(active, files),
      risk |-> classifyRisk(files, active),
      pattern |-> selectPattern(files, active),
      overlaps |-> detectOverlappingWrites(active),
      split |-> recommendSplit(files),
      verification |-> buildVerification(files)]

planRun ==
  /\ plan = NoPlan
  /\ plan' = planOf(changedFiles)
  /\ UNCHANGED changedFiles

PlannerNext == planRun

PlannerSpec == PlannerInit /\ [][PlannerNext]_plannerVars

-----------------------------------------------------------------------------
(* Properties                                                              *)

GroupOf(task) == CHOOSE i \in DOMAIN plan.order : \E j \in DOMAIN plan.order[i] : plan.order[i][j] = task
Before(a, b) == a \in plan.tasks /\ b \in plan.tasks => GroupOf(a) < GroupOf(b)

\* Every task runs once; nobody writes before the plan, the API after the schema,
\* the tests after every writer and quality after everybody, whatever the groups.
StagesInOrder ==
  /\ \A i \in DOMAIN plan.order : \A j \in DOMAIN plan.order[i] : plan.order[i][j] \in plan.tasks
  /\ \A t \in plan.tasks : \E i \in DOMAIN plan.order : \E j \in DOMAIN plan.order[i] :
       \A k \in DOMAIN plan.order : \A l \in DOMAIN plan.order[k] :
         plan.order[k][l] = t <=> k = i /\ l = j
  /\ Before("database", "core-api")
  /\ \A t \in plan.tasks \ {"quality"} : Before(t, "quality")
  /\ \A t \in Implementers(plan.tasks) : Before("orchestrator", t) /\ Before(t, "testing")

\* Two tasks of one group are never both let through with the same changed file to
\* write; the exception is a file one of them owns by its name anywhere (**/name):
\* such a pattern is cut to nothing and overlaps with nothing.
GroupsWriteApart ==
  \A i \in DOMAIN plan.order : \A a, b \in ToSet(plan.order[i]) :
    a # b /\ validateTaskInvocation(a, changedFiles) /\ validateTaskInvocation(b, changedFiles) =>
      \A f \in resolveTaskWriteFiles(a, changedFiles) \cap resolveTaskWriteFiles(b, changedFiles) :
        \E p \in writePaths(a) \union writePaths(b) : p.under = <<>> /\ matchGlob(p, f)

\* Production code that is not secret by its name has an agent that may write it,
\* and is verified; a change with writers of several kinds and production code in it
\* that is not a document is not routed as if it had one.
ProductionOwned ==
  /\ \A f \in changedFiles : isProductionPath(f) /\ ~ docsOnly(changedFiles) =>
       /\ "secret" \notin f.names => \E a \in plan.tasks : assertWriteAllowed(a, f)
       /\ "testing" \in plan.tasks
  /\ /\ \E f \in changedFiles : isProductionPath(f) /\ ~ isDocsPath(f)
     /\ Cardinality(Implementers(plan.tasks)) >= 2
     => plan.pattern = "hybrid"

PlansSound == plan # NoPlan => StagesInOrder /\ GroupsWriteApart /\ ProductionOwned
=============================================================================
