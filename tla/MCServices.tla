------------------------------ MODULE MCServices ------------------------------
(***************************************************************************)
(* The services that share no state with the others, in one run: scene says *)
(* which of them a behaviour is about, the rest of the state stays put.     *)
(***************************************************************************)
EXTENDS AgentRuns, RunPlanner, Worktrees, UsageLimits, Conversations, Accounts, Devices

\* Two tasks without dependencies and the quality task that waits for both; plans
\* for changes of all kinds of files; two trees.
CONSTANTS t1, t2, q

MCDeps == [t \in {t1, t2, q} |-> IF t = q THEN {t1, t2} ELSE {}]

\* What an adapter answers: failed, blocked, a prompt only, the default mock, a
\* success of its own word, and a real execution with each verdict.
Answer(status, dry, real, local, verdict) ==
  [status |-> status, dryRun |-> dry, real |-> real, local |-> local, verdict |-> verdict,
   evidence |-> TRUE]

MCResults ==
  {Answer("failed", TRUE, FALSE, TRUE, "none"),
   Answer("blocked", TRUE, FALSE, FALSE, "none"),
   Answer("simulated", TRUE, FALSE, TRUE, "none"),
   Answer("succeeded", FALSE, FALSE, TRUE, "APPROVE"),
   Answer("succeeded", FALSE, FALSE, FALSE, "none"),
   Answer("succeeded", FALSE, TRUE, TRUE, "APPROVE"),
   Answer("succeeded", FALSE, TRUE, FALSE, "BLOCK")}

\* One file for every pattern that tells files apart.
File(path, names) == [path |-> path, names |-> names]

MCFiles ==
  {File(<<"backend", "src", "bookings", "bookings.service.ts">>, {}),
   File(<<"backend", "src", "auth", "auth.service.ts">>, {"auth"}),
   File(<<"backend", "src", "common", "guards", "roles.guard.ts">>, {"auth", "guards"}),
   File(<<"backend", "src", "slots", "slots.spec.ts">>, {"spec"}),
   File(<<"backend", "src", "iot", "mqtt-bridge.ts">>, {"mqtt"}),
   File(<<"backend", "src", "security", "gateway.ts">>, {"gateway"}),
   File(<<"backend", "prisma", "schema.prisma">>, {"schema"}),
   File(<<"backend", "docs", "API.md">>, {"md"}),
   File(<<"frontend", "src", "App.tsx">>, {}),
   File(<<"frontend", "src", "lib", "cache.ts">>, {"cache"}),
   File(<<"frontend", ".env.example">>, {"env.example"}),
   File(<<"payment-service", "src", "Payment.java">>, {}),
   File(<<"payment-service", "README.md">>, {"md"}),
   File(<<"iot-edge", "src", "index.ts">>, {}),
   File(<<"docker-compose.iot.yml">>, {"compose"}),
   File(<<".github", "workflows", "ci.yml">>, {}),
   File(<<"infra", "mosquitto", "mosquitto.conf">>, {}),
   File(<<"docs", "ROLES.md">>, {"md"}),
   File(<<"tools", "notes.txt">>, {})}

-----------------------------------------------------------------------------

VARIABLE scene

Scenes == {"agents", "plans", "trees", "limits", "conversations", "accounts", "devices"}

MCRoleOf == [p \in People |-> CASE p \in {"owner", "neighbour"} -> "USER"
                                [] p = "guard" -> "SECURITY"
                                [] p \in {"manager", "stranger"} -> "TENANT_ADMIN"]
MCOrganizationOf == [p \in People |-> IF p = "stranger" THEN 2 ELSE 1]

\* What a component may start with is left open only in its own scene.
MCInit ==
  /\ scene \in Scenes
  /\ IF scene = "plans" THEN TRUE ELSE changedFiles = {}
  /\ IF scene = "trees" THEN TRUE ELSE head = CHOOSE b \in Branches : TRUE
  /\ PlannerInit /\ TreesInit
  /\ RunInit /\ UsageInit /\ ConversationInit /\ AccountInit /\ DeviceInit
  /\ scene # "agents" => dryRun /\ orchestrator = NoWork
  /\ scene # "devices" => device.isEnabled

MCNext ==
  /\ \/ scene = "agents" /\ RunNext
        /\ UNCHANGED <<plannerVars, treeVars, usageVars, conversationVars, accountVars, deviceVars>>
     \/ scene = "plans" /\ PlannerNext
        /\ UNCHANGED <<runVars, treeVars, usageVars, conversationVars, accountVars, deviceVars>>
     \/ scene = "trees" /\ TreesNext
        /\ UNCHANGED <<runVars, plannerVars, usageVars, conversationVars, accountVars, deviceVars>>
     \/ scene = "limits" /\ UsageNext
        /\ UNCHANGED <<runVars, plannerVars, treeVars, conversationVars, accountVars, deviceVars>>
     \/ scene = "conversations" /\ ConversationNext
        /\ UNCHANGED <<runVars, plannerVars, treeVars, usageVars, accountVars, deviceVars>>
     \/ scene = "accounts" /\ AccountNext
        /\ UNCHANGED <<runVars, plannerVars, treeVars, usageVars, conversationVars, deviceVars>>
     \/ scene = "devices" /\ DeviceNext
        /\ UNCHANGED <<runVars, plannerVars, treeVars, usageVars, conversationVars, accountVars>>
  /\ UNCHANGED scene

MCSpec ==
  /\ MCInit
  /\ [][MCNext]_<<scene, runVars, plannerVars, treeVars, usageVars, conversationVars, accountVars, deviceVars>>
  /\ RunFairness

===============================================================================
