------------------------ MODULE GitWorkspacesProofs ------------------------
(***************************************************************************)
(* The lock of a clone serializes the updates of its refs for any number   *)
(* of chains, branches and folders, however contexts end: the steps that   *)
(* lock all use one key, and whoever is past Acquire is its holder.  From  *)
(* that follows on which branch a step works.                              *)
(***************************************************************************)
EXTENDS GitWorkspaces, TLAPS

LockTyped ==
  /\ lock \in [Dirs -> Chains \cup {NoOne}]
  /\ phase \in [Chains -> Phases]
  /\ op \in [Chains -> Ops]

\* Whoever updates the shared refs has the lock of the clone.
HoldersUpdate == \A c \in Chains : Updating(c) => lock[Clone] = c

LockInv == LockTyped /\ HoldersUpdate

-----------------------------------------------------------------------------
\* Every step that locks, push from its worktree too, locks the clone.
LEMMA OneKey == ASSUME NEW c \in Chains PROVE Key(c) = Clone
BY ChainAssumption, PathAssumption DEF Key, LockKey, Path, Branch

LEMMA LockInit == Init => LockInv
BY ChainAssumption DEF Init, LockInv, LockTyped, HoldersUpdate, Updating, Dirs, Phases, Ops

\* A step that leaves gives the lock back if it had it.
LEMMA LeaveKeeps ==
  ASSUME NEW c \in Chains, NEW p \in {"idle", "failed"}, LockInv, Leave(c, p)
  PROVE  LockInv'
<1>1. Key(c) = Clone
  BY OneKey
<1>2. LockTyped'
  BY <1>1 DEF Leave, To, Released, LockInv, LockTyped, Phases, Dirs
<1>3. ASSUME NEW d \in Chains, Updating(d)' PROVE lock'[Clone] = d
  <2>1. d # c /\ Updating(d)
    BY <1>3 DEF Leave, To, Updating, LockInv, LockTyped
  <2>2. lock[Clone] = d
    BY <2>1 DEF LockInv, HoldersUpdate
  <2>3. ~Updating(c)
    BY <2>1, <2>2 DEF LockInv, HoldersUpdate
  <2>4. lock' = lock
    BY <2>3 DEF Leave, Released, Updating
  <2> QED BY <2>2, <2>4
<1> QED BY <1>2, <1>3 DEF LockInv, HoldersUpdate

\* What neither takes nor gives back the lock keeps it, if no step comes
\* past it on the way.
LEMMA MoveKeeps ==
  ASSUME NEW c \in Chains, LockInv, lock' = lock,
         LockTyped',
         \A d \in Chains : Updating(d)' => Updating(d)
  PROVE  LockInv'
BY DEF LockInv, HoldersUpdate

LEMMA AcquireKeeps ==
  ASSUME NEW c \in Chains, LockInv, Acquire(c) PROVE LockInv'
<1>1. Key(c) = Clone
  BY OneKey
<1>2. LockTyped'
  BY <1>1 DEF Acquire, To, LockInv, LockTyped, Phases, Dirs
<1>3. \A d \in Chains : ~Updating(d)
  BY <1>1, ChainAssumption DEF Acquire, LockInv, HoldersUpdate
<1>4. lock'[Clone] = c
  BY <1>1 DEF Acquire, LockInv, LockTyped, Dirs
<1>5. \A d \in Chains : Updating(d)' => d = c
  BY <1>3 DEF Acquire, To, Updating, LockInv, LockTyped
<1> QED BY <1>2, <1>4, <1>5 DEF LockInv, HoldersUpdate

LEMMA StepKeeps ==
  ASSUME NEW c \in Chains, LockInv, Step(c) PROVE LockInv'
<1>1. CASE Prepare(c)
  <2>1. LockTyped' /\ lock' = lock
    BY <1>1 DEF Prepare, To, LockInv, LockTyped, Phases
  <2>2. \A d \in Chains : Updating(d)' => Updating(d)
    BY <1>1 DEF Prepare, To, Updating, LockInv, LockTyped, Locked
  <2> QED BY <2>1, <2>2, MoveKeeps
<1>2. CASE Acquire(c)
  BY <1>2, AcquireKeeps
<1>3. CASE StartCommand(c)
  <2>1. LockTyped' /\ lock' = lock
    BY <1>3 DEF StartCommand, StepOnly, steps, To, LockInv, LockTyped, Phases
  <2>2. \A d \in Chains : Updating(d)' => Updating(d)
    BY <1>3 DEF StartCommand, StepOnly, At, To, Updating, LockInv, LockTyped
  <2> QED BY <2>1, <2>2, MoveKeeps
<1>4. CASE RebasedUnseen(c) \/ RebaseStops(c)
  <2>1. LockTyped' /\ lock' = lock
    BY <1>4 DEF RebasedUnseen, RebaseStops, To, LockInv, LockTyped, Phases
  <2>2. \A d \in Chains : Updating(d)' => Updating(d)
    BY <1>4 DEF RebasedUnseen, RebaseStops, To, Updating, LockInv, LockTyped
  <2> QED BY <2>1, <2>2, MoveKeeps
<1>5. CASE Refuse(c) \/ Reuse(c) \/ GiveUp(c) \/ Created(c) \/ CreationCut(c) \/ CreationBegun(c)
  BY <1>5, LeaveKeeps DEF Refuse, Reuse, GiveUp, Created, CreationCut, CreationBegun, Fail
<1>6. CASE Done(c) \/ DoneUnseen(c) \/ Undone(c) \/ Rebased(c)
  BY <1>6, LeaveKeeps DEF Done, DoneUnseen, Undone, Rebased, Fail, Succeed
<1>7. CASE Abort(c) \/ LeaveAsIs(c) \/ AgentEnds(c)
  BY <1>7, LeaveKeeps DEF Abort, LeaveAsIs, AgentEnds, Fail, Succeed
<1> QED BY <1>1, <1>2, <1>3, <1>4, <1>5, <1>6, <1>7 DEF Step

\* What a run does with its chains, and a context that ends.
LEMMA ChainKeeps ==
  ASSUME NEW c \in Chains, LockInv,
         Run(c) \/ Continue(c) \/ Retry(c) \/ Finish(c) \/ EndContext(c) \/ Edit(c)
  PROVE  LockInv'
<1>1. CASE \E o \in Ops : StartStep(c, o)
  <2>1. PICK o \in Ops : StartStep(c, o)
    BY <1>1
  <2>2. LockTyped' /\ lock' = lock
    BY <2>1 DEF StartStep, LockInv, LockTyped, Phases
  <2>3. \A d \in Chains : Updating(d)' => Updating(d)
    BY <2>1 DEF StartStep, Updating, LockInv, LockTyped
  <2> QED BY <2>2, <2>3, MoveKeeps
<1>2. CASE Finish(c)
  <2>1. LockTyped' /\ lock' = lock
    BY <1>2 DEF Finish, To, LockInv, LockTyped, Phases, Ops
  <2>2. \A d \in Chains : Updating(d)' => Updating(d)
    BY <1>2 DEF Finish, To, Updating, LockInv, LockTyped
  <2> QED BY <2>1, <2>2, MoveKeeps
<1>3. CASE EndContext(c)
  BY <1>3 DEF EndContext, LockInv, LockTyped, HoldersUpdate, Updating
<1>4. CASE Edit(c)
  BY <1>4 DEF Edit, steps, LockInv, LockTyped, HoldersUpdate, Updating
<1>5. Run(c) \/ Continue(c) \/ Retry(c) => \E o \in Ops : StartStep(c, o)
  BY DEF Run, Continue, Retry, LockInv, LockTyped, Ops
<1> QED BY <1>1, <1>2, <1>3, <1>4, <1>5

LEMMA LockStep == LockInv /\ [Next]_vars => LockInv'
<1> SUFFICES ASSUME LockInv, [Next]_vars PROVE LockInv'
  OBVIOUS
<1>1. CASE Upstream
  BY <1>1 DEF Upstream, steps, LockInv, LockTyped, HoldersUpdate, Updating
<1>2. CASE UNCHANGED vars
  BY <1>2 DEF vars, steps, LockInv, LockTyped, HoldersUpdate, Updating
<1>3. ASSUME NEW c \in Chains,
             \/ Run(c) \/ Continue(c) \/ Retry(c) \/ Finish(c) \/ EndContext(c)
             \/ Edit(c) \/ Step(c)
      PROVE LockInv'
  BY <1>3, StepKeeps, ChainKeeps
<1> QED BY <1>1, <1>2, <1>3 DEF Next

(***************************************************************************)
(* lock.go: however many steps run in parallel, from whichever folders and *)
(* with contexts that end at any moment, one at a time updates the refs of *)
(* the clone.                                                              *)
(***************************************************************************)
THEOREM UpdatesAreSerialized == Spec => []OneUpdateAtATime
<1>1. LockInv => OneUpdateAtATime
  BY DEF LockInv, HoldersUpdate, OneUpdateAtATime
<1> QED BY <1>1, LockInit, LockStep, PTL DEF Spec

-----------------------------------------------------------------------------
(***************************************************************************)
(* Where steps work.  A worktree keeps its branch once it has one, chains  *)
(* on one branch are not at work together, and a rebase is only under way  *)
(* in the step that began it, unless a step was retried amid it.           *)
(***************************************************************************)
AnyTree == [branch : Branches \cup {NoOne}, dirty : Nat, whole : BOOLEAN,
            rebasing : BOOLEAN, conflict : BOOLEAN]

TreesTyped ==
  /\ tree \in [Paths -> AnyTree]
  /\ workspace \in [Chains -> BOOLEAN]

Exclusive ==
  \A c, d \in Chains : c # d /\ Branch(c) = Branch(d) => ~(Engaged(c) /\ Engaged(d))

Handed ==
  \A c \in Chains : /\ workspace[c] => Tree(c).branch = Branch(c)
                    /\ op[c] \notin {"fetch", "worktree"} => workspace[c]

\* Nothing is in the folder for which a worktree is being added.
Vacant == \A c \in Chains : phase[c] = "command" /\ op[c] = "worktree" => Tree(c).branch = NoOne

AmidRebase(c) == op[c] = "rebase" /\ phase[c] \in {"start", "command", "stopped"}

OnItsHead ==
  \A c \in Chains : workspace[c] /\ Engaged(c) /\ Tree(c).rebasing => Branch(c) \in strayed \/ AmidRebase(c)

PlaceInv == LockInv /\ TreesTyped /\ Exclusive /\ Handed /\ Vacant /\ OnItsHead

(***************************************************************************)
(* What a step of chain c does as far as others see it, and what it leaves *)
(* of its own.                                                             *)
(***************************************************************************)
OthersStay(c) ==
  /\ \A d \in Chains \ {c} : phase'[d] = phase[d] /\ op'[d] = op[d] /\ workspace'[d] = workspace[d]
  /\ \A p \in Paths \ {Path(c)} : tree'[p] = tree[p]
  /\ strayed \subseteq strayed'

\* A worktree gets a branch with the lock only, and keeps it; it comes into
\* a rebase by a step that was handed it only.
TreeChange(c) ==
  /\ tree'[Path(c)].branch = tree[Path(c)].branch \/ (Updating(c) /\ tree[Path(c)].branch = NoOne)
  /\ tree'[Path(c)].rebasing => tree[Path(c)].rebasing \/ (Engaged(c) /\ workspace[c])

OwnPlace(c) ==
  /\ workspace'[c] => tree'[Path(c)].branch = Branch(c)
  /\ op'[c] \notin {"fetch", "worktree"} => workspace'[c]
  /\ phase'[c] = "command" /\ op'[c] = "worktree" => tree'[Path(c)].branch = NoOne
  /\ workspace'[c] /\ Engaged(c)' /\ tree'[Path(c)].rebasing => Branch(c) \in strayed' \/ AmidRebase(c)'
  /\ Engaged(c)' => Engaged(c) \/ Alone(c)

LEMMA PathOfChain == ASSUME NEW c \in Chains PROVE Branch(c) \in Branches /\ Path(c) \in Paths /\ Branch(c) # NoOne
BY ChainAssumption, PathAssumption DEF Branch, Path

LEMMA PlaceKeeps ==
  ASSUME NEW c \in Chains, ~Shared, PlaceInv, LockInv', TreesTyped',
         OthersStay(c), TreeChange(c), OwnPlace(c)
  PROVE  PlaceInv'
<1>1. Exclusive'
  <2> SUFFICES ASSUME NEW d \in Chains, NEW e \in Chains, d # e, Branch(d) = Branch(e),
                      Engaged(d)', Engaged(e)'
               PROVE  FALSE
    BY DEF Exclusive, Branch
  <2>1. \A f \in Chains \ {c} : Engaged(f)' = Engaged(f)
    BY DEF OthersStay, Engaged
  <2>2. \A f \in Chains \ {c} : Branch(f) = Branch(c) => ~(Engaged(f) /\ Engaged(c)')
    BY DEF OwnPlace, Alone, PlaceInv, Exclusive
  <2> QED BY <2>1, <2>2 DEF PlaceInv, Exclusive
<1>2. ASSUME NEW d \in Chains \ {c}
      PROVE  /\ workspace'[d] => tree'[Path(d)].branch = Branch(d)
             /\ op'[d] \notin {"fetch", "worktree"} => workspace'[d]
             /\ phase'[d] = "command" /\ op'[d] = "worktree" => tree'[Path(d)].branch = NoOne
             /\ workspace'[d] /\ Engaged(d)' /\ tree'[Path(d)].rebasing =>
                  Branch(d) \in strayed' \/ AmidRebase(d)'
  <2>1. /\ phase'[d] = phase[d] /\ op'[d] = op[d] /\ workspace'[d] = workspace[d]
        /\ Engaged(d)' = Engaged(d) /\ AmidRebase(d)' = AmidRebase(d)
    BY <1>2 DEF OthersStay, Engaged, AmidRebase
  <2>2. /\ workspace[d] => tree[Path(d)].branch = Branch(d)
        /\ op[d] \notin {"fetch", "worktree"} => workspace[d]
        /\ phase[d] = "command" /\ op[d] = "worktree" => tree[Path(d)].branch = NoOne
        /\ workspace[d] /\ Engaged(d) /\ tree[Path(d)].rebasing => Branch(d) \in strayed \/ AmidRebase(d)
    BY <1>2 DEF PlaceInv, Handed, Vacant, OnItsHead, Tree
  <2>3. Branch(d) # NoOne /\ Path(d) \in Paths /\ strayed \subseteq strayed'
    BY <1>2, PathOfChain DEF OthersStay
  <2>4. CASE Path(d) # Path(c)
    <3>1. tree'[Path(d)] = tree[Path(d)]
      BY <2>3, <2>4 DEF OthersStay
    <3> QED BY <2>1, <2>2, <2>3, <3>1
  <2>5. CASE Path(d) = Path(c)
    <3>1. workspace[d] => tree'[Path(d)].branch = Branch(d)
      BY <2>2, <2>3, <2>5 DEF TreeChange
    <3>2. phase[d] = "command" /\ op[d] = "worktree" => tree'[Path(d)].branch = NoOne
      <4>1. phase[d] = "command" /\ op[d] = "worktree" => lock[Clone] = d
        BY <1>2 DEF PlaceInv, LockInv, HoldersUpdate, Updating, Locked
      <4>2. Updating(c) => lock[Clone] = c
        BY DEF PlaceInv, LockInv, HoldersUpdate
      <4> QED BY <1>2, <2>2, <2>5, <4>1, <4>2 DEF TreeChange
    <3>3. workspace[d] /\ Engaged(d) /\ tree'[Path(d)].rebasing => tree[Path(d)].rebasing
      <4>1. workspace[c] => tree[Path(c)].branch = Branch(c)
        BY DEF PlaceInv, Handed, Tree
      <4>2. Branch(c) = Branch(d) => ~(Engaged(c) /\ Engaged(d))
        BY <1>2 DEF PlaceInv, Exclusive
      <4> QED BY <2>2, <2>5, <4>1, <4>2 DEF TreeChange
    <3> QED BY <2>1, <2>2, <2>3, <3>1, <3>2, <3>3
  <2> QED BY <2>4, <2>5
<1>3. \A d \in Chains : Path(d)' = Path(d) /\ Branch(d)' = Branch(d)
  BY DEF Path, Branch
<1>4. Handed' /\ Vacant'
  BY <1>2, <1>3 DEF OwnPlace, Handed, Vacant, Tree
<1>5. OnItsHead'
  BY <1>2, <1>3 DEF OwnPlace, OnItsHead, Tree
<1> QED BY <1>1, <1>4, <1>5 DEF PlaceInv

Place(c) == TreesTyped' /\ OthersStay(c) /\ TreeChange(c) /\ OwnPlace(c)

\* What the invariant says of one chain.
LEMMA PlaceOf ==
  ASSUME NEW c \in Chains, PlaceInv
  PROVE  /\ Branch(c) # NoOne /\ Path(c) \in Paths
         /\ phase \in [Chains -> Phases] /\ op \in [Chains -> Ops]
         /\ workspace \in [Chains -> BOOLEAN]
         /\ tree \in [Paths -> AnyTree]
         /\ workspace[c] => tree[Path(c)].branch = Branch(c)
         /\ op[c] \notin {"fetch", "worktree"} => workspace[c]
         /\ phase[c] = "command" /\ op[c] = "worktree" => tree[Path(c)].branch = NoOne
         /\ workspace[c] /\ Engaged(c) /\ tree[Path(c)].rebasing => Branch(c) \in strayed \/ AmidRebase(c)
BY PathOfChain DEF PlaceInv, LockInv, LockTyped, TreesTyped, Handed, Vacant, OnItsHead, Tree

\* A step that changes no worktree and is handed none.
LEMMA ElsewherePlace ==
  ASSUME NEW c \in Chains, PlaceInv,
         UNCHANGED <<tree, workspace, op, strayed>>,
         NEW p \in Phases, phase' = [phase EXCEPT ![c] = p],
         Engaged(c) \/ ~Engaged(c)',
         p = "command" => op[c] # "worktree" \/ tree[Path(c)].branch = NoOne,
         AmidRebase(c) => p \in {"command", "stopped", "failed"} \/ ~tree[Path(c)].rebasing
  PROVE  Place(c)
<1>1. TreesTyped' /\ OthersStay(c) /\ TreeChange(c)
  BY PlaceOf DEF TreesTyped, OthersStay, TreeChange
<1>2. /\ phase'[c] = p /\ op'[c] = op[c] /\ workspace'[c] = workspace[c]
      /\ tree'[Path(c)] = tree[Path(c)] /\ strayed' = strayed
      /\ Engaged(c)' <=> p \notin {"over", "failed"}
  BY PlaceOf DEF Engaged
<1>3. AmidRebase(c)' <=> op[c] = "rebase" /\ p \in {"start", "command", "stopped"}
  BY <1>2 DEF AmidRebase
<1>4. workspace'[c] /\ Engaged(c)' /\ tree'[Path(c)].rebasing => Branch(c) \in strayed' \/ AmidRebase(c)'
  BY <1>2, <1>3, PlaceOf DEF AmidRebase
<1>5. OwnPlace(c)
  BY <1>2, <1>4, PlaceOf DEF OwnPlace
<1> QED BY <1>1, <1>5 DEF Place

LEMMA StartPlace ==
  ASSUME NEW c \in Chains, PlaceInv, Run(c) \/ Continue(c) \/ Retry(c)
  PROVE  Place(c)
<1>0. PICK o \in Ops : StartStep(c, o)
  BY PlaceOf DEF Run, Continue, Retry, Ops
<1>1. /\ phase' = [phase EXCEPT ![c] = "start"] /\ op' = [op EXCEPT ![c] = o]
      /\ tree' = tree
  BY <1>0 DEF StartStep, clone
<1>2. /\ workspace' = workspace \/ workspace' = [workspace EXCEPT ![c] = FALSE]
      /\ strayed \subseteq strayed'
  BY DEF Run, Continue, Retry
<1>3. TreesTyped' /\ OthersStay(c) /\ TreeChange(c)
  BY <1>1, <1>2, PlaceOf DEF TreesTyped, OthersStay, TreeChange
<1>4. Engaged(c)' /\ phase'[c] = "start" /\ op'[c] = o /\ tree'[Path(c)] = tree[Path(c)]
  BY <1>1, PlaceOf DEF Engaged
<1>5. AmidRebase(c)' <=> o = "rebase"
  BY <1>4 DEF AmidRebase
<1>6. CASE Run(c)
  <2>1. workspace'[c] = FALSE /\ Alone(c) /\ op'[c] \in {"fetch", "worktree"}
    BY <1>4, <1>6, PlaceOf DEF Run, StartStep
  <2> QED BY <1>3, <1>4, <2>1 DEF Place, OwnPlace
<1>7. CASE Continue(c)
  <2>1. /\ workspace' = workspace /\ strayed' = strayed /\ phase[c] = "idle"
        /\ op'[c] \notin {"fetch", "worktree"} => workspace[c]
    BY <1>4, <1>7, PlaceOf DEF Continue, StartStep, At
  <2>2. Engaged(c) /\ ~AmidRebase(c)
    BY <2>1 DEF Engaged, AmidRebase
  <2> QED BY <1>3, <1>4, <2>1, <2>2, PlaceOf DEF Place, OwnPlace
<1>8. CASE Retry(c)
  <2>1. /\ workspace' = workspace /\ Alone(c) /\ op'[c] = op[c]
        /\ workspace[c] /\ op[c] # "rebase" /\ tree[Path(c)].rebasing => Branch(c) \in strayed'
    BY <1>8, PlaceOf DEF Retry, StartStep, Tree
  <2> QED BY <1>3, <1>4, <1>5, <2>1, PlaceOf DEF Place, OwnPlace
<1> QED BY <1>6, <1>7, <1>8

\* A context that ends and a run that is finished.
LEMMA RestPlace ==
  ASSUME NEW c \in Chains, PlaceInv, Finish(c) \/ EndContext(c)
  PROVE  Place(c)
<1>1. CASE Finish(c)
  <2>1. /\ phase' = [phase EXCEPT ![c] = "over"] /\ op' = [op EXCEPT ![c] = "fetch"]
        /\ workspace' = [workspace EXCEPT ![c] = FALSE] /\ tree' = tree /\ strayed' = strayed
    BY <1>1 DEF Finish, To, clone, history
  <2>2. TreesTyped' /\ OthersStay(c) /\ TreeChange(c)
    BY <2>1, PlaceOf DEF TreesTyped, OthersStay, TreeChange
  <2>3. phase'[c] = "over" /\ op'[c] = "fetch" /\ workspace'[c] = FALSE
    BY <2>1, PlaceOf
  <2> QED BY <2>2, <2>3 DEF Place, OwnPlace, Engaged
<1>2. CASE EndContext(c)
  <2>1. UNCHANGED <<phase, op, workspace, tree, strayed>>
    BY <1>2 DEF EndContext, clone, history
  <2>2. TreesTyped' /\ OthersStay(c) /\ TreeChange(c)
    BY <2>1, PlaceOf DEF TreesTyped, OthersStay, TreeChange
  <2>3. (Engaged(c)' <=> Engaged(c)) /\ (AmidRebase(c)' <=> AmidRebase(c))
    BY <2>1 DEF Engaged, AmidRebase
  <2> QED BY <2>1, <2>2, <2>3, PlaceOf DEF Place, OwnPlace
<1> QED BY <1>1, <1>2

\* The steps that leave the worktrees alone.
LEMMA QuietPlace ==
  ASSUME NEW c \in Chains, PlaceInv,
         \/ Prepare(c) \/ Refuse(c) \/ Acquire(c) \/ GiveUp(c) \/ StartCommand(c)
         \/ Undone(c) \/ Rebased(c) \/ RebasedUnseen(c) \/ LeaveAsIs(c) \/ AgentEnds(c)
         \/ (Done(c) \/ DoneUnseen(c)) /\ ~Committed(c)
         \/ RebaseStops(c) /\ tree' = tree
  PROVE  Place(c)
<1>1. CASE Prepare(c)
  <2>1. /\ phase[c] = "start" /\ UNCHANGED <<tree, workspace, op, strayed>>
        /\ phase' = [phase EXCEPT ![c] = IF op[c] \in Locked THEN "waiting" ELSE "command"]
    BY <1>1 DEF Prepare, At, To, clone, history
  <2>2. Engaged(c)
    BY <2>1 DEF Engaged
  <2>3. CASE op[c] \in Locked
    BY <2>1, <2>2, <2>3, ElsewherePlace DEF Locked, AmidRebase, Phases
  <2>4. CASE op[c] \notin Locked
    BY <2>1, <2>2, <2>4, ElsewherePlace DEF Locked, Phases
  <2> QED BY <2>3, <2>4
<1>2. CASE Refuse(c) \/ GiveUp(c) \/ Undone(c) \/ LeaveAsIs(c)
  <2>1. UNCHANGED <<tree, workspace, op, strayed>> /\ phase' = [phase EXCEPT ![c] = "failed"]
    BY <1>2 DEF Refuse, GiveUp, Undone, LeaveAsIs, Fail, Leave, To, clone, history
  <2>2. ~Engaged(c)'
    BY <2>1, PlaceOf DEF Engaged
  <2> QED BY <2>1, <2>2, ElsewherePlace DEF Phases
<1>3. CASE Acquire(c)
  <2>1. /\ phase[c] = "waiting" /\ UNCHANGED <<tree, workspace, op, strayed>>
        /\ phase' = [phase EXCEPT ![c] = "locked"]
    BY <1>3 DEF Acquire, At, To, clone, history
  <2> QED BY <2>1, ElsewherePlace DEF Phases, Engaged, AmidRebase
<1>4. CASE StartCommand(c)
  <2>1. /\ phase[c] = "locked" /\ UNCHANGED <<tree, workspace, op, strayed>>
        /\ phase' = [phase EXCEPT ![c] = "command"]
        /\ op[c] = "worktree" => tree[Path(c)].branch = NoOne
    BY <1>4 DEF StartCommand, StepOnly, At, To, clone, history, Tree, NoTree
  <2> QED BY <2>1, ElsewherePlace DEF Phases, Engaged
<1>5. CASE Rebased(c) \/ RebasedUnseen(c)
  <2>1. PICK p \in {"idle", "stopped"} :
           /\ phase[c] = "command" /\ UNCHANGED <<tree, workspace, op, strayed>>
           /\ phase' = [phase EXCEPT ![c] = p] /\ ~tree[Path(c)].rebasing
    BY <1>5 DEF Rebased, RebasedUnseen, RebaseCommand, Replay, Succeed, Leave, At, To, history, Tree
  <2> QED BY <2>1, ElsewherePlace DEF Phases, Engaged
<1>6. CASE AgentEnds(c)
  <2>1. PICK p \in {"idle", "failed"} :
           /\ phase[c] = "command" /\ op[c] = "agent" /\ UNCHANGED <<tree, workspace, op, strayed>>
           /\ phase' = [phase EXCEPT ![c] = p]
    BY <1>6 DEF AgentEnds, Succeed, Fail, Leave, At, To, clone, history
  <2> QED BY <2>1, ElsewherePlace DEF Phases, Engaged, AmidRebase
<1>7. CASE (Done(c) \/ DoneUnseen(c)) /\ ~Committed(c)
  <2>1. Does(c) /\ UNCHANGED tree /\ op[c] \in {"fetch", "push", "pullrequest"}
    BY <1>7 DEF Done, DoneUnseen, Does, Fetched, Pushed, Opened, clone
  <2>2. PICK p \in {"idle", "failed"} :
           /\ phase[c] = "command" /\ UNCHANGED <<workspace, op, strayed>>
           /\ phase' = [phase EXCEPT ![c] = p]
    BY <1>7 DEF Done, DoneUnseen, Succeed, Fail, Leave, At, To, history
  <2> QED BY <2>1, <2>2, ElsewherePlace DEF Phases, Engaged, AmidRebase
<1>8. CASE RebaseStops(c) /\ tree' = tree
  <2>1. /\ phase[c] = "command" /\ UNCHANGED <<tree, workspace, op, strayed>>
        /\ phase' = [phase EXCEPT ![c] = "stopped"]
    BY <1>8 DEF RebaseStops, RebaseCommand, At, To, history
  <2> QED BY <2>1, ElsewherePlace DEF Phases, Engaged
<1> QED BY <1>1, <1>2, <1>3, <1>4, <1>5, <1>6, <1>7, <1>8

\* A folder without a worktree, there or not.
LEMMA NothingThere ==
  ASSUME NEW left \in {NoTree, Leftover}
  PROVE  left \in AnyTree /\ left.branch = NoOne /\ left.dirty = 0 /\ left.rebasing = FALSE
<1>1. CASE left = NoTree
  BY <1>1 DEF NoTree, AnyTree
<1>2. CASE left = Leftover
  BY <1>2 DEF Leftover, NoTree, AnyTree
<1> QED BY <1>1, <1>2

\* The steps that are given a worktree, or add it.
LEMMA WorktreePlace ==
  ASSUME NEW c \in Chains, PlaceInv,
         Reuse(c) \/ Created(c) \/ CreationCut(c) \/ CreationBegun(c)
  PROVE  Place(c)
<1>1. CASE Reuse(c)
  <2>1. /\ phase[c] = "locked" /\ op[c] = "worktree" /\ UNCHANGED <<tree, op, strayed>>
        /\ tree[Path(c)].branch = Branch(c) /\ ~tree[Path(c)].rebasing
        /\ workspace' = [workspace EXCEPT ![c] = TRUE]
        /\ phase' = [phase EXCEPT ![c] = "idle"]
    BY <1>1 DEF Reuse, At, Leave, To, IsItsWorktree, Tree, clone, history
  <2>2. TreesTyped' /\ OthersStay(c) /\ TreeChange(c)
    BY <2>1, PlaceOf DEF TreesTyped, OthersStay, TreeChange
  <2>3. phase'[c] = "idle" /\ op'[c] = "worktree" /\ workspace'[c] = TRUE /\ Engaged(c)
    BY <2>1, PlaceOf DEF Engaged
  <2> QED BY <2>1, <2>2, <2>3 DEF Place, OwnPlace
<1>2. CASE Created(c) \/ CreationCut(c)
  <2>1. /\ phase[c] = "command" /\ op[c] = "worktree"
        /\ UNCHANGED <<op, strayed>>
        /\ workspace' = [workspace EXCEPT ![c] = TRUE] \/ workspace' = workspace
    BY <1>2 DEF Created, CreationCut, Fail, Leave, At, history
  <2>2. PICK p \in {"idle", "failed"}, whole \in BOOLEAN :
           /\ AddWorktree(c, whole)
           /\ phase' = [phase EXCEPT ![c] = p]
    BY <1>2 DEF Created, CreationCut, Fail, Leave, To
  <2> DEFINE added == [NoTree EXCEPT !.branch = Branch(c), !.whole = whole]
  <2>3. tree' = [tree EXCEPT ![Path(c)] = added]
    BY <2>2 DEF AddWorktree, LeaveInFolder
  <2>4. added \in AnyTree /\ added.branch = Branch(c) /\ added.rebasing = FALSE
    BY PathOfChain DEF AnyTree, NoTree
  <2> HIDE DEF added
  <2>5. tree[Path(c)].branch = NoOne /\ Updating(c) /\ Engaged(c)
    BY <2>1, PlaceOf DEF Updating, Locked, Engaged
  <2>6. tree'[Path(c)] = added
    BY <2>3, PlaceOf
  <2>7. TreesTyped' /\ OthersStay(c)
    BY <2>1, <2>2, <2>3, <2>4, PlaceOf DEF TreesTyped, OthersStay
  <2>8. TreeChange(c)
    BY <2>4, <2>5, <2>6 DEF TreeChange
  <2>9. phase'[c] = p /\ op'[c] = "worktree"
    BY <2>1, <2>2, PlaceOf
  <2> QED BY <2>4, <2>5, <2>6, <2>7, <2>8, <2>9 DEF Place, OwnPlace
<1>3. CASE CreationBegun(c)
  <2>1. /\ phase[c] = "command" /\ op[c] = "worktree"
        /\ UNCHANGED <<op, strayed, workspace>>
        /\ phase' = [phase EXCEPT ![c] = "failed"]
    BY <1>3 DEF CreationBegun, Fail, Leave, To, At, history
  <2>2. PICK left \in {NoTree, Leftover} : tree' = [tree EXCEPT ![Path(c)] = left]
    BY <1>3 DEF CreationBegun, LeaveInFolder
  <2>3. left \in AnyTree /\ left.branch = NoOne /\ left.rebasing = FALSE
    BY NothingThere
  <2>4. tree[Path(c)].branch = NoOne
    BY <2>1, PlaceOf
  <2>5. tree'[Path(c)] = left
    BY <2>2, PlaceOf
  <2>6. TreesTyped' /\ OthersStay(c)
    BY <2>1, <2>2, <2>3, PlaceOf DEF TreesTyped, OthersStay
  <2>7. TreeChange(c)
    BY <2>3, <2>4, <2>5 DEF TreeChange
  <2>8. phase'[c] = "failed" /\ op'[c] = "worktree" /\ workspace'[c] = workspace[c]
    BY <2>1, PlaceOf
  <2>9. ~workspace[c]
    BY <2>4, PlaceOf
  <2> QED BY <2>6, <2>7, <2>8, <2>9 DEF Place, OwnPlace, Engaged
<1> QED BY <1>1, <1>2, <1>3

\* A step that changes its own worktree.
LEMMA MarkedPlace ==
  ASSUME NEW c \in Chains, PlaceInv, Engaged(c),
         UNCHANGED <<workspace, op, strayed>>,
         NEW t \in AnyTree, tree' = [tree EXCEPT ![Path(c)] = t],
         t.branch = tree[Path(c)].branch,
         NEW p \in Phases, phase' = [phase EXCEPT ![c] = p],
         \/ ~t.rebasing /\ p = "failed"
         \/ op[c] \in {"agent", "commit"} /\ t.rebasing = tree[Path(c)].rebasing
         \/ op[c] = "rebase" /\ p = "stopped"
  PROVE  Place(c)
<1>1. /\ tree'[Path(c)] = t /\ phase'[c] = p /\ op'[c] = op[c] /\ workspace'[c] = workspace[c]
      /\ t.rebasing => workspace[c]
  BY PlaceOf
<1>2. TreesTyped' /\ OthersStay(c)
  BY PlaceOf DEF TreesTyped, OthersStay
<1>3. TreeChange(c)
  BY <1>1 DEF TreeChange
<1>4. workspace'[c] /\ Engaged(c)' /\ tree'[Path(c)].rebasing => Branch(c) \in strayed' \/ AmidRebase(c)'
  <2>1. (Engaged(c)' => p # "failed") /\ strayed' = strayed
    BY <1>1 DEF Engaged
  <2>2. op[c] = "rebase" /\ p = "stopped" => AmidRebase(c)'
    BY <1>1 DEF AmidRebase
  <2>3. t.rebasing /\ op[c] \in {"agent", "commit"} => Branch(c) \in strayed
    BY <1>1, PlaceOf DEF AmidRebase
  <2> QED BY <1>1, <2>1, <2>2, <2>3
<1>5. OwnPlace(c)
  BY <1>1, <1>4, PlaceOf DEF OwnPlace
<1> QED BY <1>2, <1>3, <1>5 DEF Place

LEMMA ChangingPlace ==
  ASSUME NEW c \in Chains, PlaceInv,
         \/ (Done(c) \/ DoneUnseen(c)) /\ Committed(c)
         \/ RebaseStops(c) \/ Abort(c) \/ Edit(c)
  PROVE  Place(c)
<1> DEFINE t == tree[Path(c)]
<1>0. t \in AnyTree /\ t.dirty \in Nat /\ t.rebasing \in BOOLEAN /\ t.conflict \in BOOLEAN
  BY PlaceOf DEF AnyTree
<1>1. CASE (Done(c) \/ DoneUnseen(c)) /\ Committed(c)
  <2>1. PICK p \in {"idle", "failed"} :
           /\ phase[c] = "command" /\ op[c] = "commit" /\ UNCHANGED <<workspace, op, strayed>>
           /\ phase' = [phase EXCEPT ![c] = p]
           /\ tree' = [tree EXCEPT ![Path(c)].dirty = 0, ![Path(c)].conflict = FALSE]
    BY <1>1 DEF Done, DoneUnseen, Committed, Succeed, Fail, Leave, At, To, history
  <2> DEFINE u == [t EXCEPT !.dirty = 0, !.conflict = FALSE]
  <2>2. tree' = [tree EXCEPT ![Path(c)] = u]
    BY <2>1, PlaceOf
  <2>3. u \in AnyTree /\ u.branch = t.branch /\ u.rebasing = t.rebasing
    BY <1>0 DEF AnyTree
  <2> HIDE DEF u
  <2> QED BY <2>1, <2>2, <2>3, MarkedPlace DEF Phases, Engaged
<1>2. CASE RebaseStops(c)
  <2>1. /\ phase[c] = "command" /\ op[c] = "rebase" /\ UNCHANGED <<workspace, op, strayed>>
        /\ phase' = [phase EXCEPT ![c] = "stopped"]
    BY <1>2 DEF RebaseStops, RebaseCommand, At, To, history
  <2>2. CASE tree' = tree
    BY <1>2, <2>2, QuietPlace
  <2>3. CASE tree' # tree
    <3>1. PICK conflict \in BOOLEAN :
             tree' = [tree EXCEPT ![Path(c)].rebasing = TRUE, ![Path(c)].conflict = conflict]
      BY <1>2, <2>3 DEF RebaseStops
    <3> DEFINE u == [t EXCEPT !.rebasing = TRUE, !.conflict = conflict]
    <3>2. tree' = [tree EXCEPT ![Path(c)] = u]
      BY <3>1, PlaceOf
    <3>3. u \in AnyTree /\ u.branch = t.branch
      BY <1>0 DEF AnyTree
    <3> HIDE DEF u
    <3>4. Engaged(c) /\ "stopped" \in Phases
      BY <2>1 DEF Phases, Engaged
    <3> QED BY <2>1, <3>2, <3>3, <3>4, MarkedPlace
  <2> QED BY <2>2, <2>3
<1>3. CASE Abort(c)
  <2>1. /\ phase[c] = "stopped" /\ UNCHANGED <<workspace, op, strayed>>
        /\ phase' = [phase EXCEPT ![c] = "failed"]
        /\ tree' = [tree EXCEPT ![Path(c)] = Restored(t)]
    BY <1>3 DEF Abort, Fail, Leave, At, To, history
  <2>2. Restored(t) \in AnyTree /\ Restored(t).branch = t.branch /\ ~Restored(t).rebasing
    BY <1>0 DEF Restored, AnyTree
  <2> QED BY <2>1, <2>2, MarkedPlace DEF Phases, Engaged
<1>4. CASE Edit(c)
  <2>1. /\ phase[c] = "command" /\ op[c] = "agent" /\ UNCHANGED <<phase, workspace, op, strayed>>
        /\ tree' = [tree EXCEPT ![Path(c)].dirty = @ + 1]
    BY <1>4 DEF Edit, At, steps
  <2> DEFINE u == [t EXCEPT !.dirty = @ + 1]
  <2>2. tree' = [tree EXCEPT ![Path(c)] = u] /\ phase' = [phase EXCEPT ![c] = "command"]
    BY <2>1, PlaceOf
  <2>3. u \in AnyTree /\ u.branch = t.branch /\ u.rebasing = t.rebasing
    BY <1>0 DEF AnyTree
  <2> HIDE DEF u
  <2> QED BY <2>1, <2>2, <2>3, MarkedPlace DEF Phases, Engaged
<1> QED BY <1>1, <1>2, <1>3, <1>4

LEMMA PlaceInit == Init => PlaceInv
<1> SUFFICES ASSUME Init PROVE PlaceInv
  OBVIOUS
<1>1. /\ phase = [c \in Chains |-> "over"] /\ op = [c \in Chains |-> "fetch"]
      /\ workspace = [c \in Chains |-> FALSE] /\ tree = [p \in Paths |-> NoTree]
  BY DEF Init
<1>2. NoTree \in AnyTree
  BY DEF NoTree, AnyTree
<1>3. TreesTyped
  BY <1>1, <1>2 DEF TreesTyped
<1>4. Exclusive /\ Handed /\ Vacant /\ OnItsHead
  BY <1>1 DEF Exclusive, Handed, Vacant, OnItsHead, Engaged
<1> QED BY <1>3, <1>4, LockInit DEF PlaceInv

LEMMA PlaceStep == ASSUME ~Shared PROVE PlaceInv /\ [Next]_vars => PlaceInv'
<1> SUFFICES ASSUME PlaceInv, [Next]_vars PROVE PlaceInv'
  OBVIOUS
<1>0. LockInv'
  BY LockStep DEF PlaceInv
<1>1. CASE Upstream \/ UNCHANGED vars
  <2>1. UNCHANGED <<tree, phase, op, workspace, strayed>>
    BY <1>1 DEF Upstream, vars, steps, clone, history
  <2> QED BY <1>0, <2>1
    DEF PlaceInv, TreesTyped, Exclusive, Handed, Vacant, OnItsHead, Engaged, AmidRebase, Tree, Path, Branch
<1>2. ASSUME NEW c \in Chains,
             \/ Run(c) \/ Continue(c) \/ Retry(c) \/ Finish(c) \/ EndContext(c)
             \/ Edit(c) \/ Step(c)
      PROVE PlaceInv'
  <2>1. Place(c)
    BY <1>2, StartPlace, RestPlace, QuietPlace, WorktreePlace, ChangingPlace DEF Step
  <2> QED BY <1>0, <2>1, PlaceKeeps DEF Place
<1> QED BY <1>1, <1>2 DEF Next

(***************************************************************************)
(* An agent, a commit or a push works on the branch its workspace is for,  *)
(* whatever else is in the folder or was left of an earlier run, as long   *)
(* as no two chains work on a branch at the same time; it never meets a    *)
(* rebase under way unless a step was retried in the middle of one.        *)
(***************************************************************************)
THEOREM StepsStayOnTheirBranch == ASSUME ~Shared PROVE Spec => []WorksOnItsBranch
<1>1. PlaceInv => WorksOnItsBranch
  BY DEF PlaceInv, Handed, OnItsHead, AmidRebase, WorksOnItsBranch
<1>2. PlaceInv /\ [Next]_vars => PlaceInv'
  BY PlaceStep
<1> QED BY <1>1, <1>2, PlaceInit, PTL DEF Spec

\* Only a push publishes, and what it has checked out.
LEMMA PushPublishes ==
  ASSUME [Next]_vars, published' # published
  PROVE  \E c \in Chains :
           /\ phase[c] = "command" /\ op[c] = "push"
           /\ published' = [published EXCEPT ![Branch(c)] = Head(c)]
<1>1. PICK c \in Chains : Step(c)
  BY DEF Next, vars, Upstream, Run, Continue, Retry, StartStep, Finish, EndContext, Edit, github
<1>2. Done(c) \/ DoneUnseen(c)
  BY <1>1 DEF Step, github, Prepare, Refuse, Acquire, Reuse, GiveUp, StartCommand, StepOnly,
              Created, CreationCut, CreationBegun, AddWorktree, LeaveInFolder,
              Undone, Rebased, RebasedUnseen, Replay,
              RebaseStops, Abort, LeaveAsIs, AgentEnds
<1>3. Pushed(c) /\ phase[c] = "command"
  BY <1>2 DEF Done, DoneUnseen, Does, Fetched, Committed, Opened, github, At
<1> QED BY <1>3 DEF Pushed

(***************************************************************************)
(* delivery.go pushes what the worktree has checked out: with no step      *)
(* retried amid a rebase that is always the branch itself.                 *)
(***************************************************************************)
THEOREM PushesTheBranch == ASSUME ~Shared PROVE Spec => PublishedIsTheBranch
<1>1. ASSUME PlaceInv, [Next]_vars, NEW b \in Branches \ strayed, published'[b] # published[b]
      PROVE  published'[b] = tip[b]
  <2>1. PICK c \in Chains :
          /\ phase[c] = "command" /\ op[c] = "push"
          /\ published' = [published EXCEPT ![Branch(c)] = Head(c)]
    BY <1>1, PushPublishes
  <2>2. b = Branch(c) /\ published'[b] = Head(c)
    BY <1>1, <2>1
  <2>3. ~tree[Path(c)].rebasing
    BY <1>1, <2>1, <2>2, PlaceOf DEF Engaged, AmidRebase
  <2> QED BY <2>2, <2>3 DEF Head, Tree
<1>2. PlaceInv /\ [Next]_vars =>
        [\A b \in Branches \ strayed : published'[b] # published[b] => published'[b] = tip[b]]_published
  BY <1>1
<1>3. PlaceInv /\ [Next]_vars => PlaceInv'
  BY PlaceStep
<1> QED BY <1>2, <1>3, PlaceInit, PTL DEF Spec, PublishedIsTheBranch

-----------------------------------------------------------------------------
(***************************************************************************)
(* Whose work is where.  A step that rebases found its worktree clean, and *)
(* only it works there, so that what an abort throws away is nothing.      *)
(***************************************************************************)
BaseTyped == upstream \in Nat /\ tracked \in Nat /\ base \in [Chains -> Nat]

WorkTyped ==
  /\ BaseTyped
  /\ tip \in [Branches -> [on : Nat, own : Nat]]
  /\ made \in [Branches -> Nat]

CleanAt(c) ==
  /\ phase[c] \in {"waiting", "locked"} => op[c] \in Locked
  /\ phase[c] = "stopped" => op[c] = "rebase"
  /\ op[c] = "rebase" /\ phase[c] \in {"command", "stopped"} => tree[Path(c)].dirty = 0

\* The changes of a branch that are committed or in its worktree.
Account(b) == tip[b].own + (IF tree[PathOf[b]].branch = b THEN tree[PathOf[b]].dirty ELSE 0)

WorkInv == WorkTyped /\ (\A c \in Chains : CleanAt(c)) /\ WorkSurvives

\* What a step of chain c does to branches and worktrees.
Works(c) ==
  /\ tip' \in [Branches -> [on : Nat, own : Nat]] /\ made' \in [Branches -> Nat]
  /\ \A b \in Branches \ {Branch(c)} : tip'[b] = tip[b] /\ made'[b] = made[b]
  /\ \/ tree'[Path(c)] = tree[Path(c)]
     \/ /\ Engaged(c)
        /\ tree[Path(c)].branch \in {Branch(c), NoOne}
        /\ tree'[Path(c)].branch \in {Branch(c), NoOne}
  /\ CleanAt(c)'
  /\ Branch(c) \notin strayed' /\ made[Branch(c)] = Account(Branch(c)) =>
       made'[Branch(c)] = Account(Branch(c))'

LEMMA BaseStep == BaseTyped /\ [Next]_vars => BaseTyped'
<1> SUFFICES ASSUME BaseTyped, [Next]_vars PROVE BaseTyped'
  OBVIOUS
<1>1. upstream' \in Nat /\ tracked' \in Nat
  <2>1. upstream' \in {upstream, upstream + 1} /\ tracked' \in {tracked, upstream}
    BY DEF Next, vars, github, clone, Upstream, Run, Continue, Retry, StartStep, Finish, EndContext, Edit,
           Step, Prepare, Refuse, Acquire, Reuse, GiveUp, StartCommand, StepOnly,
           Created, CreationCut, CreationBegun, AddWorktree, LeaveInFolder, Done, DoneUnseen, Does, Fetched, Committed, Pushed, Opened,
           Undone, Rebased, RebasedUnseen, Replay, RebaseStops, Abort, LeaveAsIs, AgentEnds
  <2> QED BY <2>1 DEF BaseTyped
<1>2. base' \in [Chains -> Nat]
  <2>1. \/ base' = base
        \/ \E c \in Chains : base' = [base EXCEPT ![c] = 0] \/ base' = [base EXCEPT ![c] = tracked]
    BY DEF Next, vars, steps, Upstream, Run, Continue, Retry, StartStep, Finish, EndContext, Edit,
           Step, Prepare, Refuse, Acquire, Reuse, GiveUp, StartCommand, StepOnly, Leave, Fail, Succeed,
           Created, CreationCut, CreationBegun, Done, DoneUnseen,
           Undone, Rebased, RebasedUnseen, RebaseStops, Abort, LeaveAsIs, AgentEnds
  <2> QED BY <2>1 DEF BaseTyped
<1> QED BY <1>1, <1>2 DEF BaseTyped

LEMMA WorkKeeps ==
  ASSUME NEW c \in Chains, ~Shared, PlaceInv, WorkInv, BaseTyped', OthersStay(c), Works(c)
  PROVE  WorkInv'
<1>1. WorkTyped'
  BY DEF WorkTyped, Works
<1>2. ASSUME NEW d \in Chains PROVE CleanAt(d)'
  <2>1. CASE d = c
    BY <2>1 DEF Works
  <2>2. CASE d # c
    <3>1. phase'[d] = phase[d] /\ op'[d] = op[d] /\ CleanAt(d) /\ Path(d) \in Paths
      BY <2>2, PathOfChain DEF OthersStay, WorkInv
    <3>2. CASE tree'[Path(d)] = tree[Path(d)]
      BY <3>1, <3>2 DEF CleanAt, Path, Branch
    <3>3. CASE tree'[Path(d)] # tree[Path(d)]
      <4>1. /\ Path(d) = Path(c) /\ Engaged(c)
            /\ tree[Path(d)].branch \in {Branch(c), NoOne}
        BY <3>1, <3>3 DEF OthersStay, Works
      <4>2. ~(op[d] = "rebase" /\ phase[d] \in {"command", "stopped"})
        <5> SUFFICES ASSUME op[d] = "rebase", phase[d] \in {"command", "stopped"} PROVE FALSE
          OBVIOUS
        <5>1. tree[Path(d)].branch = Branch(d) /\ Branch(d) # NoOne
          BY PlaceOf
        <5>2. Branch(c) = Branch(d) /\ Engaged(d)
          BY <4>1, <5>1 DEF Engaged
        <5> QED BY <2>2, <4>1, <5>2 DEF PlaceInv, Exclusive
      <4> QED BY <3>1, <4>2 DEF CleanAt
    <3> QED BY <3>2, <3>3
  <2> QED BY <2>1, <2>2
<1>3. WorkSurvives'
  <2> SUFFICES ASSUME NEW b \in Branches \ strayed' PROVE made'[b] = Account(b)'
    BY DEF WorkSurvives, Account
  <2>1. made[b] = Account(b)
    BY DEF WorkInv, WorkSurvives, Account, OthersStay
  <2>2. CASE b = Branch(c)
    BY <2>1, <2>2 DEF Works
  <2>3. CASE b # Branch(c)
    <3>1. tip'[b] = tip[b] /\ made'[b] = made[b]
      BY <2>3 DEF Works
    <3>2. PathOf[b] \in Paths /\ b # NoOne
      BY ChainAssumption, PathAssumption
    <3>3. CASE tree'[PathOf[b]] = tree[PathOf[b]]
      BY <2>1, <3>1, <3>3 DEF Account
    <3>4. CASE tree'[PathOf[b]] # tree[PathOf[b]]
      <4>1. PathOf[b] = Path(c)
        BY <3>2, <3>4 DEF OthersStay
      <4>2. tree[PathOf[b]].branch # b /\ tree'[PathOf[b]].branch # b
        BY <2>3, <3>2, <3>4, <4>1 DEF Works
      <4> QED BY <2>1, <3>1, <4>2 DEF Account
    <3> QED BY <3>3, <3>4
  <2> QED BY <2>2, <2>3
<1> QED BY <1>1, <1>2, <1>3 DEF WorkInv

LEMMA WorkOf ==
  ASSUME NEW c \in Chains, PlaceInv, WorkInv
  PROVE  /\ tip \in [Branches -> [on : Nat, own : Nat]] /\ made \in [Branches -> Nat]
         /\ base[c] \in Nat /\ tracked \in Nat
         /\ CleanAt(c) /\ Branch(c) \in Branches /\ PathOf[Branch(c)] = Path(c)
BY PathOfChain DEF WorkInv, WorkTyped, BaseTyped, Path

\* A step that moves on and changes no file and no branch.
LEMMA StillWorks ==
  ASSUME NEW c \in Chains, PlaceInv, WorkInv, UNCHANGED <<tree, tip, made>>, CleanAt(c)'
  PROVE  Works(c)
BY WorkOf DEF Works, Account

LEMMA MovesWork ==
  ASSUME NEW c \in Chains, PlaceInv, WorkInv,
         \/ Run(c) \/ Continue(c) \/ Retry(c) \/ Finish(c) \/ EndContext(c)
         \/ Prepare(c) \/ Refuse(c) \/ Acquire(c) \/ GiveUp(c) \/ StartCommand(c) \/ Reuse(c)
         \/ Undone(c) \/ LeaveAsIs(c) \/ AgentEnds(c)
         \/ (Done(c) \/ DoneUnseen(c)) /\ ~Committed(c)
  PROVE  Works(c)
<1>0. phase \in [Chains -> Phases]
  BY PlaceOf
<1>1. CASE \/ Run(c) \/ Continue(c) \/ Retry(c) \/ Finish(c) \/ Refuse(c) \/ GiveUp(c) \/ Reuse(c)
           \/ Undone(c) \/ LeaveAsIs(c) \/ AgentEnds(c)
           \/ (Done(c) \/ DoneUnseen(c)) /\ ~Committed(c)
  <2>1. UNCHANGED <<tree, tip, made>>
    BY <1>1 DEF Run, Continue, Retry, StartStep, Finish, Refuse, GiveUp, Reuse, Undone, LeaveAsIs, AgentEnds,
                Done, DoneUnseen, Does, Fetched, Pushed, Opened, Fail, Succeed, clone, history
  <2>2. PICK p \in {"start", "over", "idle", "failed"} : phase' = [phase EXCEPT ![c] = p]
    BY <1>1 DEF Run, Continue, Retry, StartStep, Finish, Refuse, GiveUp, Reuse, Undone, LeaveAsIs, AgentEnds,
                Done, DoneUnseen, Fail, Succeed, Leave, To
  <2>3. phase'[c] \notin {"waiting", "locked", "command", "stopped"}
    BY <1>0, <2>2
  <2> QED BY <2>1, <2>3, StillWorks DEF CleanAt
<1>2. CASE EndContext(c)
  <2>1. UNCHANGED <<tree, tip, made, phase, op>>
    BY <1>2 DEF EndContext, clone, history
  <2>2. CleanAt(c)'
    BY <2>1, WorkOf DEF CleanAt, Path, Branch
  <2> QED BY <2>1, <2>2, StillWorks
<1>3. CASE Prepare(c)
  <2>1. /\ UNCHANGED <<tree, tip, made, op>>
        /\ phase' = [phase EXCEPT ![c] = IF op[c] \in Locked THEN "waiting" ELSE "command"]
        /\ op[c] = "rebase" => tree[Path(c)].dirty = 0
    BY <1>3 DEF Prepare, Ready, To, clone, history, Tree
  <2>2. CleanAt(c)'
    BY <1>0, <2>1 DEF CleanAt, Path, Branch
  <2> QED BY <2>1, <2>2, StillWorks
<1>4. CASE Acquire(c) \/ StartCommand(c)
  <2>1. PICK p \in {"locked", "command"} :
          /\ UNCHANGED <<tree, tip, made, op>> /\ phase' = [phase EXCEPT ![c] = p]
          /\ phase[c] \in {"waiting", "locked"}
    BY <1>4 DEF Acquire, StartCommand, StepOnly, At, To, clone, history
  <2>2. CleanAt(c)'
    BY <1>0, <2>1, WorkOf DEF CleanAt, Locked
  <2> QED BY <2>1, <2>2, StillWorks
<1> QED BY <1>1, <1>2, <1>3, <1>4

\* A branch that has one keeps its commits when it is checked out.
LEMMA AddingWorks ==
  ASSUME NEW c \in Chains, PlaceInv, WorkInv, Created(c) \/ CreationCut(c) \/ CreationBegun(c)
  PROVE  Works(c)
<1> DEFINE b == Branch(c)
<1>1. PICK p \in {"idle", "failed"} :
        /\ phase' = [phase EXCEPT ![c] = p]
        /\ phase[c] = "command" /\ op[c] = "worktree" /\ made' = made
        /\ \/ \E whole \in BOOLEAN : AddWorktree(c, whole)
           \/ \E left \in {NoTree, Leftover} : LeaveInFolder(c, left)
  BY DEF Created, CreationCut, CreationBegun, Fail, Leave, At, To, history
<1>2. CheckedOut(c) \in [on : Nat, own : Nat] /\ CheckedOut(c).own = tip[b].own
  <2>1. CASE HasBranch(b)
    BY <2>1, WorkOf DEF CheckedOut
  <2>2. CASE ~HasBranch(b)
    <3>1. tip[b] = [on |-> 0, own |-> 0]
      BY <2>2 DEF HasBranch, NoBranch
    <3>2. CheckedOut(c) = [on |-> base[c], own |-> 0]
      BY <2>2 DEF CheckedOut
    <3> QED BY <3>1, <3>2, WorkOf
  <2> QED BY <2>1, <2>2
<1>3. tip' = [tip EXCEPT ![b] = CheckedOut(c)]
  BY <1>1 DEF AddWorktree, LeaveInFolder
<1>4. tree'[Path(c)].branch \in {b, NoOne} /\ tree'[Path(c)].dirty = 0
  <2>1. \/ \E whole \in BOOLEAN : tree'[Path(c)] = [NoTree EXCEPT !.branch = b, !.whole = whole]
        \/ tree'[Path(c)] \in {NoTree, Leftover}
    BY <1>1, PlaceOf DEF AddWorktree, LeaveInFolder
  <2>2. ASSUME NEW whole \in BOOLEAN, tree'[Path(c)] = [NoTree EXCEPT !.branch = b, !.whole = whole]
        PROVE  tree'[Path(c)].branch = b /\ tree'[Path(c)].dirty = 0
    BY <2>2 DEF NoTree
  <2> QED BY <2>1, <2>2, NothingThere
<1>5. tree[Path(c)].branch = NoOne /\ b # NoOne /\ Engaged(c)
  BY <1>1, PlaceOf DEF Engaged
<1>6. CleanAt(c)'
  <2>1. phase'[c] = p
    BY <1>1, PlaceOf
  <2> QED BY <2>1 DEF CleanAt
<1>7. tip' \in [Branches -> [on : Nat, own : Nat]] /\ tip'[b].own = tip[b].own
      /\ \A d \in Branches \ {b} : tip'[d] = tip[d]
  BY <1>2, <1>3, WorkOf
<1>8. made[b] = Account(b) => made'[b] = Account(b)'
  <2>1. Account(b) = tip[b].own /\ tip[b].own \in Nat
    BY <1>5, WorkOf DEF Account
  <2>2. Account(b)' = tip'[b].own
    BY <1>4, <1>7, WorkOf DEF Account
  <2> QED BY <1>1, <1>7, <2>1, <2>2
<1> QED BY <1>1, <1>4, <1>5, <1>6, <1>7, <1>8, WorkOf DEF Works

\* A commit moves changes from the worktree to the branch.
LEMMA CommitWorks ==
  ASSUME NEW c \in Chains, PlaceInv, WorkInv, (Done(c) \/ DoneUnseen(c)) /\ Committed(c),
         strayed' = strayed
  PROVE  Works(c)
<1> DEFINE b == Branch(c)
           t == tree[Path(c)]
<1>1. PICK p \in {"idle", "failed"} :
        /\ phase[c] = "command" /\ op[c] = "commit" /\ made' = made
        /\ phase' = [phase EXCEPT ![c] = p]
        /\ tree' = [tree EXCEPT ![Path(c)].dirty = 0, ![Path(c)].conflict = FALSE]
        /\ tip' = IF t.rebasing THEN tip ELSE [tip EXCEPT ![b].own = @ + t.dirty]
  BY DEF Done, DoneUnseen, Committed, Succeed, Fail, Leave, At, To, history, Tree
<1>2. t \in AnyTree /\ t.branch = b /\ Engaged(c) /\ (t.rebasing => b \in strayed)
  BY <1>1, PlaceOf DEF Engaged, AmidRebase
<1>3. tree'[Path(c)].branch = b /\ tree'[Path(c)].dirty = 0
  <2>1. tree'[Path(c)] = [t EXCEPT !.dirty = 0, !.conflict = FALSE]
    BY <1>1, PlaceOf
  <2> QED BY <1>2, <2>1 DEF AnyTree
<1>4. t.dirty \in Nat
  BY <1>2 DEF AnyTree
<1>5. /\ tip' \in [Branches -> [on : Nat, own : Nat]]
      /\ \A d \in Branches \ {b} : tip'[d] = tip[d]
      /\ ~t.rebasing => tip'[b].own = tip[b].own + t.dirty
  <2>1. CASE t.rebasing
    BY <1>1, <2>1, WorkOf
  <2>2. CASE ~t.rebasing
    <3>1. tip' = [tip EXCEPT ![b].own = @ + t.dirty]
      BY <1>1, <2>2
    <3> QED BY <1>4, <3>1, WorkOf
  <2> QED BY <2>1, <2>2
<1>6. CleanAt(c)'
  <2>1. phase'[c] = p
    BY <1>1, PlaceOf
  <2> QED BY <2>1 DEF CleanAt
<1>7. b \notin strayed' /\ made[b] = Account(b) => made'[b] = Account(b)'
  <2>1. Account(b) = tip[b].own + t.dirty
    BY <1>2, WorkOf DEF Account
  <2>2. tip'[b].own \in Nat /\ Account(b)' = tip'[b].own + 0
    BY <1>3, <1>5, WorkOf DEF Account
  <2> QED BY <1>1, <1>2, <1>5, <2>1, <2>2
<1> QED BY <1>1, <1>2, <1>3, <1>5, <1>6, <1>7, WorkOf DEF Works

\* A rebase gives the branch another base, and its changes stay.
LEMMA ReplayWorks ==
  ASSUME NEW c \in Chains, PlaceInv, WorkInv, Rebased(c) \/ RebasedUnseen(c)
  PROVE  Works(c)
<1> DEFINE b == Branch(c)
<1>1. PICK p \in {"idle", "stopped"} :
        /\ phase[c] = "command" /\ op[c] = "rebase" /\ UNCHANGED <<op, tree, made>>
        /\ phase' = [phase EXCEPT ![c] = p]
        /\ tip' = [tip EXCEPT ![b].on = base[c]]
  BY DEF Rebased, RebasedUnseen, RebaseCommand, Replay, Succeed, Leave, At, To, history
<1>2. /\ tip' \in [Branches -> [on : Nat, own : Nat]]
      /\ \A d \in Branches \ {b} : tip'[d] = tip[d]
      /\ tip'[b].own = tip[b].own
  BY <1>1, WorkOf
<1>3. CleanAt(c)'
  <2>1. phase'[c] = p /\ op'[c] = "rebase" /\ tree'[Path(c)].dirty = 0
    BY <1>1, PlaceOf, WorkOf DEF CleanAt
  <2> QED BY <2>1 DEF CleanAt, Path, Branch
<1>4. Account(b)' = Account(b)
  BY <1>1, <1>2 DEF Account
<1> QED BY <1>1, <1>2, <1>3, <1>4, WorkOf DEF Works

\* One that stops changes nothing an agent made, and nothing is lost to the abort.
LEMMA StopsWork ==
  ASSUME NEW c \in Chains, PlaceInv, WorkInv, RebaseStops(c) \/ Abort(c)
  PROVE  Works(c)
<1> DEFINE b == Branch(c)
           t == tree[Path(c)]
<1>1. PICK p \in {"stopped", "failed"} :
        /\ phase[c] \in {"command", "stopped"} /\ op[c] = "rebase" /\ UNCHANGED <<op, tip, made>>
        /\ phase' = [phase EXCEPT ![c] = p]
  BY WorkOf DEF RebaseStops, RebaseCommand, Abort, Fail, Leave, At, To, history, CleanAt
<1>2. t \in AnyTree /\ t.branch = b /\ Engaged(c) /\ t.dirty = 0
  BY <1>1, PlaceOf, WorkOf DEF Engaged, CleanAt
<1>3. tree'[Path(c)].branch = b /\ tree'[Path(c)].dirty = 0
  <2>1. CASE tree' = tree
    BY <1>2, <2>1
  <2>2. CASE Abort(c)
    <3>1. tree'[Path(c)] = Restored(t)
      BY <2>2, PlaceOf DEF Abort
    <3> QED BY <1>2, <3>1 DEF Restored, AnyTree
  <2>3. CASE RebaseStops(c) /\ tree' # tree
    <3>1. PICK conflict \in BOOLEAN :
             tree' = [tree EXCEPT ![Path(c)].rebasing = TRUE, ![Path(c)].conflict = conflict]
      BY <2>3 DEF RebaseStops
    <3>2. tree'[Path(c)] = [t EXCEPT !.rebasing = TRUE, !.conflict = conflict]
      BY <3>1, PlaceOf
    <3> QED BY <1>2, <3>2 DEF AnyTree
  <2> QED BY <2>1, <2>2, <2>3
<1>4. CleanAt(c)'
  <2>1. phase'[c] = p /\ op'[c] = "rebase"
    BY <1>1, PlaceOf
  <2> QED BY <1>3, <2>1 DEF CleanAt, Path, Branch
<1>5. Account(b)' = Account(b)
  BY <1>1, <1>2, <1>3, WorkOf DEF Account
<1> QED BY <1>1, <1>2, <1>3, <1>4, <1>5, WorkOf DEF Works

LEMMA EditWorks ==
  ASSUME NEW c \in Chains, PlaceInv, WorkInv, Edit(c)
  PROVE  Works(c)
<1> DEFINE b == Branch(c)
           t == tree[Path(c)]
<1>1. /\ phase[c] = "command" /\ op[c] = "agent" /\ UNCHANGED <<op, tip, phase>>
      /\ made' = [made EXCEPT ![b] = @ + 1]
      /\ tree' = [tree EXCEPT ![Path(c)].dirty = @ + 1]
  BY DEF Edit, At, clone, steps
<1>2. t \in AnyTree /\ t.branch = b /\ Engaged(c)
  BY <1>1, PlaceOf DEF Engaged
<1>3. tree'[Path(c)].branch = b /\ tree'[Path(c)].dirty = t.dirty + 1 /\ t.dirty \in Nat
  <2>1. tree'[Path(c)] = [t EXCEPT !.dirty = @ + 1]
    BY <1>1, PlaceOf
  <2> QED BY <1>2, <2>1 DEF AnyTree
<1>4. CleanAt(c)'
  BY <1>1 DEF CleanAt
<1>5. /\ made' \in [Branches -> Nat] /\ made'[b] = made[b] + 1
      /\ \A d \in Branches \ {b} : made'[d] = made[d]
  BY <1>1, WorkOf
<1>6. made[b] = Account(b) => made'[b] = Account(b)'
  <2>1. Account(b) = tip[b].own + t.dirty /\ Account(b)' = tip[b].own + (t.dirty + 1)
    BY <1>1, <1>2, <1>3, WorkOf DEF Account
  <2>2. tip[b].own \in Nat
    BY WorkOf
  <2> QED BY <1>3, <1>5, <2>1, <2>2
<1> QED BY <1>1, <1>2, <1>3, <1>4, <1>5, <1>6, WorkOf DEF Works

LEMMA WorkInit == Init => WorkInv
<1> SUFFICES ASSUME Init PROVE WorkInv
  OBVIOUS
<1>1. \A b \in Branches : tip[b] \in [on : Nat, own : Nat]
  BY DEF Init, NoBranch
<1>2. WorkTyped
  <2>1. tip \in [Branches -> [on : Nat, own : Nat]]
    BY <1>1 DEF Init
  <2>2. made = [b \in Branches |-> tip[b].own]
    BY DEF Init
  <2>3. made \in [Branches -> Nat]
    BY <1>1, <2>2
  <2> QED BY <2>1, <2>3 DEF Init, WorkTyped, BaseTyped
<1>3. \A c \in Chains : CleanAt(c)
  BY DEF Init, CleanAt
<1>4. WorkSurvives
  <2> SUFFICES ASSUME NEW b \in Branches
               PROVE  made[b] = tip[b].own + (IF tree[PathOf[b]].branch = b THEN tree[PathOf[b]].dirty ELSE 0)
    BY DEF WorkSurvives
  <2>1. tree[PathOf[b]].branch = NoOne /\ b # NoOne
    BY ChainAssumption, PathAssumption DEF Init, NoTree
  <2>2. made[b] = tip[b].own /\ tip[b].own \in Nat
    BY <1>1 DEF Init
  <2> QED BY <2>1, <2>2
<1> QED BY <1>2, <1>3, <1>4 DEF WorkInv

LEMMA WorkStep == ASSUME ~Shared PROVE PlaceInv /\ WorkInv /\ [Next]_vars => WorkInv'
<1> SUFFICES ASSUME PlaceInv, WorkInv, [Next]_vars PROVE WorkInv'
  OBVIOUS
<1>0. BaseTyped'
  BY BaseStep DEF WorkInv, WorkTyped
<1>1. CASE Upstream \/ UNCHANGED vars
  <2>1. UNCHANGED <<tree, phase, op, tip, made, strayed>>
    BY <1>1 DEF Upstream, vars, steps, clone, history
  <2> QED BY <1>0, <2>1 DEF WorkInv, WorkTyped, CleanAt, WorkSurvives, Path, Branch
<1>2. ASSUME NEW c \in Chains,
             \/ Run(c) \/ Continue(c) \/ Retry(c) \/ Finish(c) \/ EndContext(c)
             \/ Edit(c) \/ Step(c)
      PROVE WorkInv'
  <2>1. OthersStay(c)
    BY <1>2, StartPlace, RestPlace, QuietPlace, WorktreePlace, ChangingPlace DEF Step, Place
  <2>2. Works(c)
    <3>1. Done(c) \/ DoneUnseen(c) => strayed' = strayed
      BY DEF Done, DoneUnseen, Succeed, Fail, history
    <3> QED BY <1>2, <3>1, MovesWork, AddingWorks, CommitWorks, ReplayWorks, StopsWork, EditWorks DEF Step
  <2> QED BY <1>0, <2>1, <2>2, WorkKeeps
<1> QED BY <1>1, <1>2 DEF Next

(***************************************************************************)
(* Every change an agent made is committed to its branch or in the         *)
(* worktree of that branch, whichever commands were killed and whatever    *)
(* was rerun or retried; an abort finds nothing to throw away.             *)
(***************************************************************************)
THEOREM WorkIsNeverLost == ASSUME ~Shared PROVE Spec => []WorkSurvives
<1>1. WorkInv => WorkSurvives
  BY DEF WorkInv
<1>2. PlaceInv /\ [Next]_vars => PlaceInv'
  BY PlaceStep
<1>3. PlaceInv /\ WorkInv /\ [Next]_vars => WorkInv'
  BY WorkStep
<1> QED BY <1>1, <1>2, <1>3, PlaceInit, WorkInit, PTL DEF Spec
=============================================================================
