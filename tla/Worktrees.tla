------------------------------ MODULE Worktrees ------------------------------
(***************************************************************************)
(* scripts/agents/lib/worktree.mjs: a working tree and a branch for every  *)
(* task of a run, the merge of a task's branch into the branch that is     *)
(* checked out, and the removal of a working tree.  The commands are run   *)
(* by hand, one at a time; each looks at the                               *)
(* repository first and changes it later, while agents write and commit in *)
(* their trees and people use the main tree.                               *)
(***************************************************************************)
EXTENDS Naturals

CONSTANTS
  TreeTasks,   \* tasks that work in trees of their own
  Branches,    \* branches of the main tree
  MaxCommits   \* bound: commits of a task, and of others

VARIABLES
  head,        \* the branch that is checked out in the main tree
  mainTree,    \* "clean", "dirty", or "merging" with the result of a merge
  history,     \* per branch: the commits in it
  taskBranch,  \* per task: its branch's commits, or NoBranch
  tree,        \* per task: its working tree
  command,     \* the integration or removal that runs
  switched     \* the main tree was switched or edited while an integration ran

treeVars == <<head, mainTree, history, taskBranch, tree, command, switched>>

Commit == TreeTasks \X (1..MaxCommits)
NoBranch == {<<"no branch", 0>>}
NoTree == "missing"
NoCommand == [task |-> "none"]

TreesTypeOK ==
  /\ head \in Branches
  /\ mainTree \in {"clean", "dirty", "merging"}
  /\ history \in [Branches -> SUBSET Commit]
  /\ \A t \in TreeTasks : taskBranch[t] = NoBranch \/ taskBranch[t] \subseteq Commit
  /\ tree \in [TreeTasks -> {NoTree, "clean", "dirty"}]
  /\ switched \in BOOLEAN

TreesInit ==
  /\ head \in Branches
  /\ mainTree = "clean"
  /\ history = [b \in Branches |-> {}]
  /\ taskBranch = [t \in TreeTasks |-> NoBranch]
  /\ tree = [t \in TreeTasks |-> NoTree]
  /\ command = NoCommand
  /\ switched = FALSE

(***************************************************************************)
(* createTaskWorktree: a branch that exists is taken as it is.             *)
(***************************************************************************)
createTaskWorktree(t) ==
  /\ tree[t] = NoTree
  /\ taskBranch' = [taskBranch EXCEPT ![t] = IF @ = NoBranch THEN history[head] ELSE @]
  /\ tree' = [tree EXCEPT ![t] = "clean"]
  /\ UNCHANGED <<head, mainTree, history, command, switched>>

\* The agent writes, and commits what it wrote.
AgentWrites(t) ==
  /\ tree[t] = "clean"
  /\ tree' = [tree EXCEPT ![t] = "dirty"]
  /\ UNCHANGED <<head, mainTree, history, taskBranch, command, switched>>

AgentCommits(t) ==
  /\ tree[t] = "dirty"
  /\ \E n \in 1..MaxCommits :
       /\ <<t, n>> \notin taskBranch[t]
       /\ taskBranch' = [taskBranch EXCEPT ![t] = @ \union {<<t, n>>}]
  /\ tree' = [tree EXCEPT ![t] = "clean"]
  /\ UNCHANGED <<head, mainTree, history, command, switched>>

(***************************************************************************)
(* cleanupTaskWorktree.                                                    *)
(***************************************************************************)

\* Fault: --force alone is enough for work that was not committed.
refusesDirtyLess(force, allowDirty) == ~ force

refusesDirty(force, allowDirty) == ~ (force /\ allowDirty)

cleanupTaskWorktree(t, force, allowDirty) ==
  /\ command = NoCommand
  /\ tree[t] # NoTree
  /\ ~ (tree[t] = "dirty" /\ refusesDirty(force, allowDirty))
  /\ command' = [at |-> "remove", task |-> t, force |-> force, allowDirty |-> allowDirty, sawDirty |-> tree[t] = "dirty"]
  /\ UNCHANGED <<head, mainTree, history, taskBranch, tree, switched>>

\* Fault: every removal is forced.
flagForced(r) == TRUE

flag(r) == r.force

\* git itself refuses to remove a tree with changes, unless it is told to.
worktreeRemove ==
  /\ command # NoCommand /\ command.at = "remove"
  /\ LET t == command.task
         removed == tree[t] # "dirty" \/ flag(command)
     IN tree' = IF removed THEN [tree EXCEPT ![t] = NoTree] ELSE tree
  /\ command' = NoCommand
  /\ UNCHANGED <<head, mainTree, history, taskBranch, switched>>

(***************************************************************************)
(* integrateTaskResult.                                                    *)
(***************************************************************************)

isAhead(t, branch) == taskBranch[t] \ history[branch] # {}

\* Fault: the named branch need not be the one that is checked out.
onTargetAny(target) == TRUE

onTarget(target) == target \in {head, "any"}

mainIsClean == mainTree = "clean"

integrateTaskResult(t, target) ==
  /\ command = NoCommand
  /\ IF /\ onTarget(target)
        /\ taskBranch[t] # NoBranch /\ tree[t] # NoTree
        /\ mainIsClean
        /\ isAhead(t, IF target = "any" THEN head ELSE target)
     THEN /\ command' = [task |-> t, at |-> "merge", merged |-> {},
                            branch |-> IF target = "any" THEN head ELSE target]
          /\ switched' = FALSE
     ELSE UNCHANGED <<command, switched>>
  /\ UNCHANGED <<head, mainTree, history, taskBranch, tree>>

NotIntegrated ==
  /\ command' = NoCommand
  /\ UNCHANGED history

\* git merge --no-ff --no-commit.  It refuses a tree that is in a merge, may refuse
\* one with changes, and has nothing to do for what is merged; two lines of work
\* may conflict.  It takes what the branch holds by now.
mergeBranch ==
  /\ command # NoCommand /\ command.at = "merge"
  /\ \/ /\ mainTree # "merging" /\ taskBranch[command.task] \ history[head] # {}
        /\ mainTree' = "merging"
        /\ command' = [command EXCEPT !.at = "commit", !.merged = taskBranch[command.task]]
     \/ /\ \/ mainTree # "clean"
           \/ history[head] \ taskBranch[command.task] # {}
           \/ taskBranch[command.task] \subseteq history[head]
        /\ mainTree' \in {mainTree, "merging"}
        /\ command' = [command EXCEPT !.at = "abort"]
  /\ UNCHANGED <<head, history, taskBranch, tree, switched>>

\* Edits made in the main tree meanwhile stay.
MergeOver == IF switched THEN mainTree' \in {"clean", "dirty"} ELSE mainTree' = "clean"

\* Fault: a merge that failed is left as it is.
mergeAbortNot == UNCHANGED mainTree

\* git merge --abort.
mergeAbort == IF mainTree = "merging" THEN MergeOver ELSE UNCHANGED mainTree

\* git commit; a hook may refuse it.
commitMerge ==
  /\ command # NoCommand
  /\ \/ /\ command.at = "commit" /\ mainTree = "merging"
        /\ history' = [history EXCEPT ![head] = @ \union command.merged]
        /\ MergeOver
        /\ command' = NoCommand
     \/ command.at = "commit" /\ mergeAbort /\ NotIntegrated
     \/ command.at = "abort" /\ mergeAbort /\ NotIntegrated
  /\ UNCHANGED <<head, taskBranch, tree, switched>>

(***************************************************************************)
(* The command is killed; people switch branches, edit and tidy up.        *)
(***************************************************************************)
KilledIntegrating ==
  /\ command # NoCommand /\ command.at # "remove"
  /\ command' = NoCommand
  /\ switched' = TRUE
  /\ UNCHANGED <<head, mainTree, history, taskBranch, tree>>

\* What is in the main tree, a merge included, is committed elsewhere or thrown away.
PeopleWork ==
  /\ \/ mainTree # "merging" /\ head' \in Branches \ {head} /\ UNCHANGED <<mainTree, history>>
     \/ mainTree = "clean" /\ mainTree' = "dirty" /\ UNCHANGED <<head, history>>
     \/ mainTree # "clean" /\ command = NoCommand /\ mainTree' = "clean" /\ UNCHANGED <<head, history>>
  /\ switched' = TRUE
  /\ UNCHANGED <<taskBranch, tree, command>>

TreesNext ==
  \/ \E t \in TreeTasks : createTaskWorktree(t) \/ AgentWrites(t) \/ AgentCommits(t)
  \/ \E t \in TreeTasks, force, allowDirty \in BOOLEAN : cleanupTaskWorktree(t, force, allowDirty)
  \/ \E t \in TreeTasks, target \in Branches \union {"any"} : integrateTaskResult(t, target)
  \/ worktreeRemove \/ mergeBranch \/ commitMerge
  \/ KilledIntegrating \/ PeopleWork

TreesSpec == TreesInit /\ [][TreesNext]_treeVars

-----------------------------------------------------------------------------
(* Properties                                                              *)

\* An integration that says ok put what it merged into the branch it names, unless
\* somebody switched or edited the main tree between its checks and its commit.
IntegratedWhereAsked ==
  history' # history /\ ~ switched => command.merged \subseteq history'[command.branch]

\* No integration leaves a merge half done, whatever fails in it, unless it was
\* killed: the next one finds a tree it may merge into.
NothingHalfMerged == mainTree = "merging" /\ command = NoCommand => switched

\* Work that was not committed is removed only by --force, and without
\* --allow-dirty only what was written after the command had looked.
OnlyForcedLoss ==
  \A t \in TreeTasks : tree[t] = "dirty" /\ tree'[t] = NoTree =>
    command.force /\ (command.sawDirty => command.allowDirty)

\* The three promises of the integration and the removal.
TreesSound == [][NothingHalfMerged' /\ IntegratedWhereAsked /\ OnlyForcedLoss]_treeVars
=============================================================================
