--------------------------- MODULE GitWorkspaces ---------------------------
(***************************************************************************)
(* The Git actions of the runs of one process on the worktrees of one      *)
(* clone (internal/gitops, and actionTask and fetchTask of                 *)
(* internal/app/run.go).  A chain is a sequence of steps of a run that     *)
(* work on one branch, one after the other, each from what the last one    *)
(* handed on; chains of one run and of several run at the same time.       *)
(*                                                                         *)
(* Every step has a context, which a cancellation or the step's own        *)
(* timeout ends.  An ended context kills the command that runs and starts  *)
(* no other, but does not take a step out of the queue for a lock.  Git    *)
(* itself is external: a command does its work or fails, and one that is   *)
(* killed may have done all, a part or nothing of it.                      *)
(***************************************************************************)
EXTENDS Naturals, FiniteSets

CONSTANTS
  Chains,
  Branches,
  BranchOf,   \* the branch of each chain
  Paths,
  PathOf,     \* the folder of the worktree of each branch
  Existing,   \* the branches that are there, with one change, and no worktree
  Clone,      \* the project's own checkout
  NoOne,
  Ends,       \* whether the context of a step may end
  Shared,     \* whether two chains may work on one branch at the same time
  MaxBase,    \* how far the default branch of the remote gets, which bounds the model
  MaxEdits    \* how often agents change files, which bounds the model

ASSUME ChainAssumption == BranchOf \in [Chains -> Branches] /\ NoOne \notin Chains \cup Branches
ASSUME PathAssumption == PathOf \in [Branches -> Paths] /\ Clone \notin Paths /\ Existing \subseteq Branches
ASSUME EndsAssumption == Ends \in BOOLEAN /\ Shared \in BOOLEAN
ASSUME BoundAssumption == MaxBase \in Nat \ {0} /\ MaxEdits \in Nat \ {0}

Dirs == {Clone} \cup Paths

Ops == {"fetch", "worktree", "agent", "commit", "rebase", "push", "pullrequest"}

\* The operations that update the refs the worktrees of a clone share.
Locked == {"fetch", "worktree", "push"}

Phases == {"over", "idle", "start", "waiting", "locked", "command", "stopped", "failed"}

\* A branch: the commit of the default branch it grew from, and its own changes.
Commits   == [on : 1..MaxBase, own : 0..MaxEdits]
NoBranch  == [on |-> 0, own |-> 0]

NoTree    == [branch |-> NoOne, dirty |-> 0, whole |-> FALSE, rebasing |-> FALSE, conflict |-> FALSE]
Leftover  == [NoTree EXCEPT !.whole = TRUE]   \* a folder that is no worktree
Trees     == [branch : Branches, dirty : 0..MaxEdits, whole : BOOLEAN, rebasing : BOOLEAN, conflict : BOOLEAN]

VARIABLES
  upstream,   \* the default branch on GitHub
  published,  \* the branches on GitHub
  tracked,    \* the default branch as the clone last fetched it
  tip,        \* the local branches
  tree,       \* the worktree in each folder
  lock,       \* repositoryLocks, by folder
  phase,      \* where each chain is in its step
  op,         \* what that step does
  base,       \* the base revision it resolved
  wanted,     \* whether its context has not ended
  workspace,  \* whether the chain was handed its workspace
  made,       \* history: the changes agents made for each branch
  strayed     \* history: the branches a step was retried for in the middle of a rebase

github   == <<upstream, published>>
clone    == <<tracked, tip, tree>>
steps    == <<phase, op, base, wanted, workspace>>
history  == <<made, strayed>>
vars     == <<github, clone, lock, steps, history>>

TypeOK ==
  /\ upstream \in 1..MaxBase /\ tracked \in 1..MaxBase
  /\ published \in [Branches -> Commits \cup {NoBranch}]
  /\ tip \in [Branches -> Commits \cup {NoBranch}]
  /\ tree \in [Paths -> Trees \cup {NoTree, Leftover}]
  /\ lock \in [Dirs -> Chains \cup {NoOne}]
  /\ phase \in [Chains -> Phases]
  /\ op \in [Chains -> Ops]
  /\ base \in [Chains -> 0..MaxBase]
  /\ wanted \in [Chains -> BOOLEAN]
  /\ workspace \in [Chains -> BOOLEAN]
  /\ made \in [Branches -> 0..MaxEdits]
  /\ strayed \in SUBSET Branches

Init ==
  /\ upstream = 1 /\ tracked = 1
  /\ published = [b \in Branches |-> NoBranch]
  /\ tip = [b \in Branches |-> IF b \in Existing THEN [on |-> 1, own |-> 1] ELSE NoBranch]
  /\ tree = [p \in Paths |-> NoTree]
  /\ lock = [d \in Dirs |-> NoOne]
  /\ phase = [c \in Chains |-> "over"]
  /\ op = [c \in Chains |-> "fetch"]
  /\ base = [c \in Chains |-> 0]
  /\ wanted = [c \in Chains |-> FALSE]
  /\ workspace = [c \in Chains |-> FALSE]
  /\ made = [b \in Branches |-> tip[b].own]
  /\ strayed = {}

-----------------------------------------------------------------------------
Branch(c) == BranchOf[c]
Path(c)   == PathOf[Branch(c)]
Tree(c)   == tree[Path(c)]

At(c, p)      == phase[c] = p
To(c, p)      == phase' = [phase EXCEPT ![c] = p]
Engaged(c)    == phase[c] \notin {"over", "failed"}
HasBranch(b)  == tip[b] # NoBranch

\* Nothing but the chain's place in its step.
StepOnly(c, p) == To(c, p) /\ UNCHANGED <<github, clone, lock, op, base, wanted, workspace, history>>

\* No other chain is at work on the branch of c.
Alone(c) == Shared \/ \A d \in Chains \ {c} : Branch(d) = Branch(c) => ~Engaged(d)

-----------------------------------------------------------------------------
(***************************************************************************)
(* The chain: what a run makes of the steps.  A rerun starts over, with a  *)
(* worktree step; a retry starts the step that failed, and gives it the    *)
(* workspace the recorded run handed on.                                   *)
(***************************************************************************)
StartStep(c, o) ==
  /\ phase' = [phase EXCEPT ![c] = "start"]
  /\ op' = [op EXCEPT ![c] = o]
  /\ base' = [base EXCEPT ![c] = 0]
  /\ wanted' = [wanted EXCEPT ![c] = TRUE]
  /\ UNCHANGED <<github, clone, lock, made>>

Run(c) ==
  /\ phase[c] \in {"over", "failed"}
  /\ Alone(c)
  /\ workspace' = [workspace EXCEPT ![c] = FALSE]
  /\ UNCHANGED strayed
  /\ \E o \in {"fetch", "worktree"} : StartStep(c, o)

Continue(c) ==
  /\ At(c, "idle")
  /\ UNCHANGED <<workspace, strayed>>
  /\ \E o \in IF workspace[c] THEN Ops ELSE {"fetch", "worktree"} : StartStep(c, o)

Retry(c) ==
  /\ At(c, "failed")
  /\ Alone(c)
  /\ strayed' = IF workspace[c] /\ op[c] # "rebase" /\ Tree(c).rebasing
                THEN strayed \cup {Branch(c)} ELSE strayed
  /\ UNCHANGED workspace
  /\ StartStep(c, op[c])

Finish(c) ==
  /\ At(c, "idle")
  /\ To(c, "over")
  /\ op' = [op EXCEPT ![c] = "fetch"]
  /\ workspace' = [workspace EXCEPT ![c] = FALSE]
  /\ UNCHANGED <<github, clone, lock, base, wanted, history>>

\* A cancellation, or the end of the time the step has.
EndContext(c) ==
  /\ Ends
  /\ wanted[c]
  /\ phase[c] \in {"start", "waiting", "locked", "command", "stopped"}
  /\ wanted' = [wanted EXCEPT ![c] = FALSE]
  /\ UNCHANGED <<github, clone, lock, phase, op, base, workspace, history>>

-----------------------------------------------------------------------------
(***************************************************************************)
(* The lock of the clone, under the Git directory its worktrees share.     *)
(***************************************************************************)
MutOwnDir(d) == d
LockKey(d) == IF d \in Paths THEN Clone ELSE d

\* Push locks from the worktree, the others from the project's folder.
Key(c) == LockKey(IF op[c] = "push" THEN Path(c) ELSE Clone)

Acquire(c) ==
  /\ At(c, "waiting")
  /\ lock[Key(c)] = NoOne
  /\ lock' = [lock EXCEPT ![Key(c)] = c]
  /\ To(c, "locked")
  /\ UNCHANGED <<github, clone, op, base, wanted, workspace, history>>

\* The deferred unlock of a step that locked.
MutKept(c) == IF op[c] = "push" THEN [lock EXCEPT ![Key(c)] = NoOne] ELSE lock
Released(c) == IF phase[c] \in {"locked", "command"} /\ op[c] \in Locked THEN [lock EXCEPT ![Key(c)] = NoOne] ELSE lock

\* The step ends: whoever locked unlocks, whether it failed or not.
Leave(c, p) ==
  /\ To(c, p)
  /\ lock' = Released(c)
  /\ base' = [base EXCEPT ![c] = 0]
  /\ wanted' = [wanted EXCEPT ![c] = FALSE]
  /\ UNCHANGED op

Fail(c)    == Leave(c, "failed") /\ UNCHANGED <<workspace, history>>
Succeed(c) == Leave(c, "idle") /\ UNCHANGED <<workspace, history>>

-----------------------------------------------------------------------------
(***************************************************************************)
(* What a step reads before it locks or changes anything: the remote, the  *)
(* base, the state of its worktree.  Push reads nothing.                   *)
(***************************************************************************)
\* Whether what was read lets the step go on.
Ready(c) ==
  /\ wanted[c] \/ op[c] = "push"
  /\ op[c] = "commit" => Tree(c).dirty > 0 \/ Tree(c).conflict
  /\ op[c] = "rebase" => Tree(c).dirty = 0 /\ ~Tree(c).conflict

Prepare(c) ==
  /\ At(c, "start")
  /\ Ready(c)
  /\ base' = [base EXCEPT ![c] = IF op[c] \in {"worktree", "rebase"} THEN tracked ELSE 0]
  /\ To(c, IF op[c] \in Locked THEN "waiting" ELSE "command")
  /\ UNCHANGED <<github, clone, lock, op, wanted, workspace, history>>

\* The step ends with an error before it has a lock to release: what it read
\* does not let it go on, or could not be read.
Refuse(c) ==
  /\ At(c, "start")
  /\ op[c] # "push"
  /\ Leave(c, "failed")
  /\ UNCHANGED <<github, clone, workspace, history>>

-----------------------------------------------------------------------------
(***************************************************************************)
(* CreateWorktree, with the lock: the folder is looked at, then `git       *)
(* worktree add` runs if nothing is there.                                 *)
(***************************************************************************)
MutAnyHead(t, b) == t.branch = b
IsItsWorktree(t, b) == t.branch = b /\ ~t.rebasing

Reuse(c) ==
  /\ At(c, "locked") /\ op[c] = "worktree" /\ wanted[c]
  /\ Tree(c) # NoTree /\ IsItsWorktree(Tree(c), Branch(c))
  /\ workspace' = [workspace EXCEPT ![c] = TRUE]
  /\ Leave(c, "idle")
  /\ UNCHANGED <<github, clone, history>>

\* No command is started for an ended context, and none over another tree.
GiveUp(c) ==
  /\ At(c, "locked")
  /\ \/ ~wanted[c]
     \/ op[c] = "worktree" /\ Tree(c) # NoTree /\ ~IsItsWorktree(Tree(c), Branch(c))
  /\ Fail(c)
  /\ UNCHANGED <<github, clone>>

StartCommand(c) ==
  /\ At(c, "locked") /\ wanted[c]
  /\ op[c] = "worktree" => Tree(c) = NoTree
  /\ StepOnly(c, "command")

MutResetBranch(c) == [on |-> base[c], own |-> 0]
\* A branch that exists is checked out as it is; a new one is cut from the base.
CheckedOut(c) == IF HasBranch(Branch(c)) THEN tip[Branch(c)] ELSE [on |-> base[c], own |-> 0]

\* The branch is there first, then the folder, then the worktree in it.
LeaveInFolder(c, t) ==
  /\ tip' = [tip EXCEPT ![Branch(c)] = CheckedOut(c)]
  /\ tree' = [tree EXCEPT ![Path(c)] = t]
  /\ UNCHANGED <<github, tracked>>

AddWorktree(c, whole) == LeaveInFolder(c, [NoTree EXCEPT !.branch = Branch(c), !.whole = whole])

Created(c) ==
  /\ At(c, "command") /\ op[c] = "worktree"
  /\ AddWorktree(c, TRUE)
  /\ workspace' = [workspace EXCEPT ![c] = TRUE]
  /\ Leave(c, "idle")
  /\ UNCHANGED history

\* Killed with the worktree registered: its files may not all be there.
CreationCut(c) ==
  /\ At(c, "command") /\ op[c] = "worktree" /\ ~wanted[c]
  /\ \E whole \in BOOLEAN : AddWorktree(c, whole)
  /\ Fail(c)

\* Killed before: the next creation finds a branch, or a folder in its way.
CreationBegun(c) ==
  /\ At(c, "command") /\ op[c] = "worktree" /\ ~wanted[c]
  /\ \E left \in {NoTree, Leftover} : LeaveInFolder(c, left)
  /\ Fail(c)

-----------------------------------------------------------------------------
(***************************************************************************)
(* The other commands.  Fetched, Committed, Pushed and Opened are what a   *)
(* command does that goes through.                                         *)
(***************************************************************************)
Fetched(c) ==
  /\ op[c] = "fetch"
  /\ tracked' = upstream
  /\ UNCHANGED <<github, tip, tree>>

\* Commit stages everything; on a detached head no branch has the commit.
Committed(c) ==
  /\ op[c] = "commit"
  /\ tree' = [tree EXCEPT ![Path(c)].dirty = 0, ![Path(c)].conflict = FALSE]
  /\ tip' = IF Tree(c).rebasing THEN tip ELSE [tip EXCEPT ![Branch(c)].own = @ + Tree(c).dirty]
  /\ UNCHANGED <<github, tracked>>

\* What the worktree has checked out; in the middle of a rebase that is the
\* base with none of the branch's own changes on it yet.
Head(c) == IF Tree(c).rebasing THEN [on |-> tip[Branch(c)].on, own |-> 0] ELSE tip[Branch(c)]

FastForward(old, new) == old = NoBranch \/ (old.on = new.on /\ old.own <= new.own)

Pushed(c) ==
  /\ op[c] = "push"
  /\ FastForward(published[Branch(c)], Head(c))
  /\ published' = [published EXCEPT ![Branch(c)] = Head(c)]
  /\ UNCHANGED <<upstream, clone>>

\* gh opens it from what is published; the repository does not change.
Opened(c) ==
  /\ op[c] = "pullrequest"
  /\ published[Branch(c)] # NoBranch
  /\ UNCHANGED <<github, clone>>

Does(c) == Fetched(c) \/ Committed(c) \/ Pushed(c) \/ Opened(c)

Done(c)  == At(c, "command") /\ Does(c) /\ Succeed(c)

\* Killed when it had done its work already: the step fails all the same.
DoneUnseen(c) == At(c, "command") /\ ~wanted[c] /\ Does(c) /\ Fail(c)

\* Refused by Git or GitHub, or killed before it did anything.
Undone(c) ==
  /\ At(c, "command")
  /\ op[c] \notin {"rebase", "agent"}
  /\ Fail(c)
  /\ UNCHANGED <<github, clone>>

-----------------------------------------------------------------------------
(***************************************************************************)
(* Rebase, without the lock.  One that fails, whatever the reason, is to   *)
(* be aborted, by a command of the same context.                           *)
(***************************************************************************)
RebaseCommand(c) == At(c, "command") /\ op[c] = "rebase"

Replay(c) ==
  /\ ~Tree(c).rebasing
  /\ tip' = [tip EXCEPT ![Branch(c)].on = base[c]]
  /\ UNCHANGED <<github, tracked, tree>>

Rebased(c) == RebaseCommand(c) /\ Replay(c) /\ Succeed(c)

RebasedUnseen(c) ==
  /\ RebaseCommand(c) /\ ~wanted[c]
  /\ Replay(c)
  /\ To(c, "stopped")
  /\ UNCHANGED <<lock, op, base, wanted, workspace, history>>

\* Stopped by a conflict, killed, or refused since one is already under way.
RebaseStops(c) ==
  /\ RebaseCommand(c)
  /\ To(c, "stopped")
  /\ \/ UNCHANGED tree
     \/ /\ base[c] # tip[Branch(c)].on /\ tip[Branch(c)].own > 0
        /\ ~Tree(c).rebasing
        /\ \E conflict \in BOOLEAN :
             /\ conflict \/ ~wanted[c]
             /\ tree' = [tree EXCEPT ![Path(c)].rebasing = TRUE, ![Path(c)].conflict = conflict]
  /\ UNCHANGED <<github, tracked, tip, lock, op, base, wanted, workspace, history>>

\* `git rebase --abort` checks the branch out anew: no change in the tree stays.
Restored(t) == IF t.rebasing THEN [t EXCEPT !.rebasing = FALSE, !.conflict = FALSE, !.dirty = 0] ELSE t

Abort(c) ==
  /\ At(c, "stopped") /\ wanted[c]
  /\ tree' = [tree EXCEPT ![Path(c)] = Restored(@)]
  /\ Fail(c)
  /\ UNCHANGED <<github, tracked, tip>>

\* Nothing starts for an ended context, the abort neither.
LeaveAsIs(c) ==
  /\ At(c, "stopped") /\ ~wanted[c]
  /\ Fail(c)
  /\ UNCHANGED <<github, clone>>

-----------------------------------------------------------------------------
(***************************************************************************)
(* An agent or a command block in the workspace, which are Conversation's, *)
(* and what others do on GitHub.                                           *)
(***************************************************************************)
Edit(c) ==
  /\ At(c, "command") /\ op[c] = "agent"
  /\ made[Branch(c)] < MaxEdits
  /\ made' = [made EXCEPT ![Branch(c)] = @ + 1]
  /\ tree' = [tree EXCEPT ![Path(c)].dirty = @ + 1]
  /\ UNCHANGED <<github, tracked, tip, lock, steps, strayed>>

AgentEnds(c) ==
  /\ At(c, "command") /\ op[c] = "agent"
  /\ Succeed(c) \/ Fail(c)
  /\ UNCHANGED <<github, clone>>

Upstream ==
  /\ upstream < MaxBase
  /\ upstream' = upstream + 1
  /\ UNCHANGED <<published, clone, lock, steps, history>>

-----------------------------------------------------------------------------
\* What a step does by itself.
Step(c) ==
  \/ Prepare(c) \/ Refuse(c) \/ Acquire(c)
  \/ Reuse(c) \/ GiveUp(c) \/ StartCommand(c)
  \/ Created(c) \/ CreationCut(c) \/ CreationBegun(c)
  \/ Done(c) \/ DoneUnseen(c) \/ Undone(c)
  \/ Rebased(c) \/ RebasedUnseen(c) \/ RebaseStops(c) \/ Abort(c) \/ LeaveAsIs(c)
  \/ AgentEnds(c)

Next ==
  \/ Upstream
  \/ \E c \in Chains :
       \/ Run(c) \/ Continue(c) \/ Retry(c) \/ Finish(c) \/ EndContext(c)
       \/ Edit(c) \/ Step(c)

(***************************************************************************)
(* A command ends, a failure or the timeout of its step sees to that, and  *)
(* sync.Mutex lets nobody starve.  Nobody need start or retry a run.       *)
(***************************************************************************)
Spec ==
  /\ Init
  /\ [][Next]_vars
  /\ \A c \in Chains : WF_vars(Step(c)) /\ SF_vars(Acquire(c))

-----------------------------------------------------------------------------
(***************************************************************************)
(* lock.go: fetch, worktree creation and push of parallel steps never      *)
(* update the refs of the clone together, though they lock from different  *)
(* folders and wait out of the reach of their contexts.                    *)
(***************************************************************************)
Updating(c) == op[c] \in Locked /\ phase[c] \in {"locked", "command"}

OneUpdateAtATime == \A c, d \in Chains : Updating(c) /\ Updating(d) => c = d

(***************************************************************************)
(* CreateWorktree: "work in progress survives" reruns, retries, and rebases *)
(* that stop or are killed: every change an agent made is in its branch or *)
(* in the branch's worktree, unless a step was retried amid a rebase.      *)
(***************************************************************************)
WorkSurvives ==
  \A b \in Branches \ strayed :
    made[b] = tip[b].own + (IF tree[PathOf[b]].branch = b THEN tree[PathOf[b]].dirty ELSE 0)

(***************************************************************************)
(* A step works in the worktree of the branch its workspace names, with    *)
(* that branch checked out, whatever is in the folder and however the run  *)
(* before ended: only a retry may come to a rebase left in the middle.     *)
(***************************************************************************)
WorksOnItsBranch ==
  \A c \in Chains :
    workspace[c] /\ Engaged(c) /\ op[c] \in {"agent", "commit", "push"} =>
      Tree(c).branch = Branch(c) /\ (Tree(c).rebasing => Branch(c) \in strayed)

(***************************************************************************)
(* What is published as a branch is the branch, with all that was          *)
(* committed to it, never the state of its worktree between two commits    *)
(* of a rebase.                                                            *)
(***************************************************************************)
PublishedIsTheBranch ==
  [][\A b \in Branches \ strayed : published'[b] # published[b] => published'[b] = tip[b]]_published

(***************************************************************************)
(* Every step ends, those that wait for the fetch or push of another too:  *)
(* the lock is given back on every way out of the step that has it.        *)
(***************************************************************************)
StepEnds == \A c \in Chains : phase[c] = "start" ~> phase[c] \in {"idle", "failed"}

(***************************************************************************)
(* worktree.go: "A rebase that stops on conflicts is aborted, so the       *)
(* branch is left exactly as it was."                                      *)
(***************************************************************************)
RebaseLeavesTheBranch ==
  \A c \in Chains : At(c, "failed") /\ op[c] = "rebase" =>
    ~(Tree(c).rebasing /\ Tree(c).conflict)

(***************************************************************************)
(* worktree.go: a workspace is "a prepared worktree": all of its files are *)
(* there when a step is given it.                                          *)
(***************************************************************************)
WorkspaceIsPrepared == \A c \in Chains : workspace[c] /\ Engaged(c) => Tree(c).whole
=============================================================================
