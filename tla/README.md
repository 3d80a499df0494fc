# A verification of Mega-Agents

Mega-Agents (`src/`) runs workflows of coding agents. Somebody draws a graph of
blocks (agents, commands, Git actions, routers, loops) in a web editor; a Go
server, or a command line, turns the graph into a plan of tasks and executes it
with bounded parallelism, breakpoints, cancellation, retries and schedules, and
keeps a record of every run on disk.

This directory holds TLA+ modules that model the parts of the program whose
correctness depends on order, concurrency and failure, the TLC configurations
that check them on small instances, and TLAPS proofs of the most important
results for every value of the constants.

Every definition is translated from the source. `PROJECT.json` says for each
one which lines it stands for.

## The system

### Components

| component | state | operations | how it meets the others |
|---|---|---|---|
| workflow engine (`internal/engine`) | steps and outputs of the run, who is paused, the count of running tasks, two channels, the grace timer | `Execute`'s passes, `start`, `complete`, `pause`, `next`, `settle`; the goroutine of each task and of each breakpoint; a loop's runner, which executes its body as a run of its own | called by a run with a plan; shows every change through `Observe`; asks `Pause` at breakpoints |
| breakpoint registry (`app/breakpoint_run.go`) | a map from paused blocks to channels, behind a mutex | `Wait`, `Resume`, `forget` | the engine's pauses wait in it; HTTP requests and the terminal answer |
| run lifecycle and store (`app/run.go`, `runs/store.go`) | `run.json` of each run, the table of cancel functions, process numbers | `Create`, `Save`, `Load`, `List`, `start`, `execute`, `Retry`, cancel | several processes (a server and command lines) share one folder |
| run planner (`app/run.go`, `loop_run.go`, `agent_run.go`, `router_run.go`, `schema_block_run.go`, `template.go`, `problems.go`) | none: a function of the graph | what a start leads to, needs and ports, loops' bodies, checks of placeholders, the list of problems | yields the engine's tasks; a retry replaces some of them by recorded outputs |
| scheduler and workflow store (`app/scheduler.go`, `workflow_store.go`) | the YAML file of each workflow; the window last looked at | the ticks, `List`, `Load`, `Save`, `SetSchedule` | starts runs; the editor and the schedules page write the same files |
| cron expressions (`cron/cron.go`, `app/schedule.go`) | none | `Parse`, `Matches`, `Next`, the preview | the scheduler asks `Matches`, the page shows `Next` |
| workflow documents (`app/workflow.go`, `workflow_import.go`) | none: functions between a graph and a file | graph to YAML and back, identifiers of blocks made from their names | the editor, the store, the scheduler and a run read and write them; a run's placeholders and records use the identifiers |
| agent conversations (`agents/talk.go`, `runner.go`, `app/agent_run.go`) | the session, attempts and cost of one agent's step; the CLI's process group; what a loop keeps of its last repeat | turns that start, continue or fork a session, retries against a schema, the budget, the kill of the group | one task of the engine; sessions are handed on between blocks and between repeats |
| command blocks (`app/command_run.go`) | a process group and its deadline | run, read the output, wait, classify the exit | one task of the engine; the gate of a loop |
| Git workspaces (`gitops/`) | a clone, its branches and worktrees, a lock per repository | fetch, create or reuse a worktree, rebase and its abort, commit, push, pull request | tasks of the engine, of several runs, that share a clone |
| agent health (`agents/health.go`, `app/agent_health.go`) | the last probe | probe, at most one at a time | shown in the editor |
| routers, reply schemas | none | compare a value, validate a value | blocks of a plan |
| command line, HTTP server | none of their own | routing, printing, reading answers | call the components above |
| editor (`frontend/`) | the open document, its undo history, the polled runs | edit, save, run | HTTP |
| agent evaluation, build | none at run time | - | - |

### What is hard

* **Interleavings.** One scheduler goroutine owns a run; task goroutines and
  goroutines that wait at breakpoints report to it on two channels while the
  context may be cancelled. `select` takes any ready case.
* **A scheduler that sends to itself.** Settling a skipped breakpoint puts a
  report in the channel that only the scheduler empties.
* **Locks around channels.** `Resume` sends while it holds the mutex of every
  breakpoint of the server.
* **Several processes over one folder**, any of which may die between two
  writes, and process numbers that mean a life.
* **Read, then write** without a lock: a schedule set while a graph is saved.
* **Programs that are killed**: a Git command cut between two of its effects, a
  clean-up that runs under the context that has just ended, a CLI whose tools
  hold its output open, an exit that races the timeout.
* **State that outlives a step**: sessions that a correction, a repeat or another
  agent goes on with; worktrees that a retry finds as the failure left them;
  identifiers that every save makes anew from names.
* **Clocks**: timers, restarts, a clock that is set back, an hour the zone skips.
* **Decisions made before the run about what will come during it**: which
  placeholders will have a value, which blocks pass a workspace on.

### What makes each component correct

* *engine*: a task runs only with what it needs; at most `limit` work at once;
  no outcome changes once it is shown as settled; nothing blocks, nothing gets
  stuck; a cancelled run ends whatever its tasks do, and at most one task starts
  after the cancellation; a run that is called a success ran all it could.
* *loop*: repeats do not overlap; what is shown is what the body did.
* *breakpoints*: an answer reaches the pause it was meant for; a pause that
  waits can be answered; nobody blocks with the mutex.
* *records*: a run reported in progress has a living process at it; a run
  reported as over stays so; a retry starts only of a run that is over and does
  not run again what succeeded; an accepted cancellation is heard.
* *scheduler*: every due workflow starts once in its window and none is missed.
* *cron*: an expression is due when it says, and the preview shows what happens.
* *planner*: a graph is refused for a problem or run; the plan has exactly the
  blocks a start leads to and the engine can finish it; blocks are skipped only
  because of their arrows; placeholders have values; a retry gives back what was
  recorded.
* *Git workspaces*: the refs of a clone are updated by one step at a time; what an
  agent changed is never lost to a rerun, a retry, a rebase or a killed command; a
  step works on its own branch; a step whose context ended does not keep the others from the lock.
* *conversations and commands*: a step ends soon after its context, and answers
  or fails for a program that came to its end; a correction goes to the session that holds what
  was rejected; a continued session is only ever the agent's own.
* *documents*: a file reads back as the drawing it was saved from, and saving what
  was read changes nothing.

## The modules

```
  TaskPlan ─┬─ Workflow ──────────┐
            └─ Engine ─┬─ EngineRefinement ─┬─ MCEngine
                       │                    └─ EngineProofs
                       └─ LoopRun ─┬─ MCLoopRun   │
                                   └──────────────┘
  StepTask ── StepProcess ── Conversation ─┬─ MCConversation
                                           └─ ConversationProofs
  Breakpoints   ─┬─ MCBreakpoints        RunRecords ─┬─ MCRunRecords
                 └─ BreakpointsProofs                └─ RunRecordsProofs
  GitWorkspaces ─┬─ MCGitWorkspaces      Schedules  ─┬─ MCSchedules
                 └─ GitWorkspacesProofs              └─ SchedulesProofs
  Planner ── PlannedRun ─┬─ MCPlanner
                         └─ PlannedRunProofs
  Cron ─────────────┬─ MCCron
                    ├───────────────────── ReadingProofs
  WorkflowDocument ─┴─ MCWorkflowDocument
```

**TaskPlan** is the data the engine works on: the needs of each task, the ports
they carry, who waits for any of its sources, names, breakpoints, the limit; and
when a plan has no cycle, which is what `Validate` accepts.

**Engine** is one execution, with all its goroutines. `pc` is where the
scheduler is: in a pass over the tasks, launching one it looked at, resuming one
after a pause, waiting in `next`, settling the rest, ended. A pass is split
where another goroutine can come in between (the check of the context and the
launch are two steps). `work[i]` is the goroutine of task `i`: working, asking
at a breakpoint, holding an answer, reported, dropped. `finished` is the buffered channel of reports;
`progress` is unbuffered, so a report on it is one step of both sides. The grace
after a cancellation is a timer that may fire at any time once armed. Outputs are
the ports they come out of, and errors the kind of reason.

**Workflow** says what an execution promises without scheduler, channel or
goroutine: tasks begin when what they need has settled, end, are skipped for
what is missing, and are abandoned when the run is cancelled.
**EngineRefinement** instantiates it with Engine's state; `KeepsPromise` is
Workflow's specification under that mapping.

**LoopRun** extends Engine: its variables are those of the body's execution in
the present repeat, beside the runner of `loop.go` and the outer run's view of
the loop, which may stop waiting for it.

**Breakpoints** models the registry: registering, waiting for an answer or the
cancellation, `forget`, and requests with and without `nodeId`, in several runs.
The record that requests read is kept apart from the map, since they change at
different moments.

**RunRecords** has processes that boot and die, runs whose lifecycle is cut at
every save, the status a reader is told (`Reported`, which makes a run of a dead
process interrupted), cancellation through the table of cancel functions or
Ctrl-C, and retries. A save may fail. The steps of a run settle one at a time
in any order their needs allow; what the engine does inside is Engine's.

**Schedules** has the clock, the timer, the files, the two halves of
`SetSchedule`, saves from the editor and from the API, and the tick cut where
requests come in between: the listing, then one start at a time.

**Cron** evaluates an expression as `Parse`, `Matches` and `Next` do over a small
calendar: how long hours, days and weeks are is given by constants, and so is the calendar,
as the dates of its cycle in their order (`Dates`); the zone changes its offset once.

**Planner** computes the plan of a graph: containment, what a start leads to,
the arrows into a block and their ports, who passes a workspace on, the needs of
each task, loops and their bodies, the checks of placeholders, and what
`Validate` refuses. **PlannedRun** takes graphs through it and runs what is
accepted: every block settles with the outputs its kind can put out, loops repeat,
and when it is over it may be retried with recorded outputs. Cancellation,
breakpoints and the limit are left to Engine, so a block settles in one step there.

**StepTask** is what the engine may expect of a task that runs a program:
it ends soon after its context, says it was stopped only if its context ended, and
otherwise answers, or fails, for a program that came to its end by itself. Only a step that is
`excused` may, once it is cancelled, take a program that was killed for one that ended.
**StepProcess** is that task in the code: the leader of a process group, the tools
it started in it (`tools`), which hold the output open, the watcher that kills the
group when the context ends, the reading of the output and the wait (`Collect`), and
the verdict on what is left (`Judge`). A turn (`VerdictOnTurn`) looks at its context first. A command
(`VerdictOnCommand`) looks for its deadline only, then fails if the wait did, and then goes by
the exit status, which is -1 for a program that was killed: any but 0 is an output where something
handles the command's failure (kind `gate`), and fails it where nothing does (kind `command`,
command_run.go:114-116). Commands are the steps that are excused. A tool may leave the group if
`Leaves`. Conversation checks that it implements StepTask.

**Conversation** extends StepProcess by the blocks of a loop's body, one after the
other over the repeats: an agent's turns until its reply satisfies its schema, the
budget, which session a turn starts, continues or forks, what an agent put out in
this repeat and the last, the command that ends the loop (`Until`), and commands whose failure
an arrow takes (`Caught`) or nothing does. What a session is worth
is which turns it `remembers`; `owner` is who started it.

**GitWorkspaces** has chains of steps (of one run or of several) that share a clone:
fetch, worktree, agent, commit, rebase, push, pull request. A step reads, waits for
the lock of the clone if its operation takes it, looks at its context, runs its
command and leaves. The context may end at any of these points, and a command that
is killed may have done all, part or nothing of its work (`DoneUnseen`,
`CreationCut`, `CreationBegun`, `RebasedUnseen`, `RebaseStops`): of a creation, the branch alone, a
folder that is no worktree, which is in the way of all that follow, or a worktree without all of its files. A branch is how many of its own
changes it has and on which commit of the default branch they stand. A rerun begins
with a worktree or a fetch; a retry begins with the step that failed.

**WorkflowDocument** computes the identifiers of a graph and the entries of its file,
reads the file back, and goes round: the editor saves and opens, `SetSchedule` and the
scheduler read and write. A slug is its words and the numbers after them, "agent-2" is "agent" and 2,
so that it may end in a number of its own; no element of `Words` ends in one. The file is
written by taking the blocks that are still to be written one after the other, each followed by
what is inside it, which is the order in which `emitNode` calls itself. `canConnect` makes arrows between
blocks of one level, out of a GitHub block or an agent and into a GitHub block; as it says itself, levels
are looked at then only, and blocks are moved in and out of containers afterwards with the arrows they
have (`attachToContainer`, `detachNode`). So a drawing has arrows between any two blocks (`Joining`). The block that
ends a loop is likewise any other (`Ending`): one in the loop, the check of an agent in it, or one taken out of it since.

## The runs

| run | configuration | what it shows |
|---|---|---|
| `engine` | MCEngine.cfg | 25 plans of three tasks (independent, a chain declared backwards, branches, joins for all and for any, a need from outside) under two limits and two sets of breakpoints: `LimitRespected`, `NeverStuck`, `ReportsNeverBlock`, `RanWithItsNeeds`, `SucceededRanEverything`, `OneLateLaunch`, `SettledIsFinal`, the refinement `KeepsPromise`, and the liveness of `CancelEnds` and `RunEnds` |
| `engine_names` | MCEngineNames.cfg | finding: a block that waits for any arrow is skipped though one arrived, when the other source has the same name |
| `loop` | MCLoopRun.cfg | loops of two blocks, two repeats, with breakpoints and cancellation: `LoopSaysWhatItsBodyDid`, `OneRepeatAtATime`, `CancelEndsLoop` |
| `breakpoints` | MCBreakpoints.cfg | two runs of two blocks, three pauses: `ResumeNeverBlocks`, `WaitingCanBeAnswered`, `ReturnsItsAnswer`, `GoesOn` |
| `talk` | MCConversation.cfg | three repeats of a fixer that goes on with an outside coder's conversation, a reviewer that goes on with the fixer's, a command whose failure nothing handles and the one that ends the loop, with rejected replies, a budget, timeouts and a cancellation: `RepairsWhatWasRejected`, `OthersAreUntouched`, `RemembersLastRepeat`, and the refinement `KeepsPromise` of StepTask, its liveness included |
| `git` | MCGitWorkspaces.cfg | two chains whose branches have one folder, one of them with a branch from before, and commands killed half-way: `OneUpdateAtATime`, `WorkSurvives`, `WorksOnItsBranch`, and the liveness of `StepEnds` |
| `git_rebase` | MCGitWorkspacesRebase.cfg | finding: a rebase that stopped on a conflict is not aborted when the step's context ends first |
| `documents` | MCWorkflowDocument.cfg | every drawing of three blocks, nested or not, of three names, with two arrows and ends of loops together, within a level or across, through saves, opens and schedules: `ReadsAsDrawn`, `Settles` |
| `records` | MCRunRecords.cfg | two runs of two steps in two processes, and a save that may fail: `InProgressIsTrue`, `RetriedIsOver`, `NothingRedone`, `FinishedIsFinal` |
| `schedules` | MCSchedules.cfg | two workflows, a restart or a clock set back by less than a window: `OnceInAWindow`, `NoneIsMissed` |
| `cron` | MCCron.cfg | every form of entry over months of different lengths: `ShownIsWhatHappens`, `RunsWhenItSays` |
| `planner` | MCPlanner.cfg | 2240 graphs in four shapes, run and retried: `PlannedIsValid`, `ReachedIsPlanned`, `SkippedForItsArrows`, `PlaceholdersHaveValues`, `ReusedGiveBack` |

MCRunRecordsCancel.cfg is kept beside these: with it TLC finds that `CancelIsHeard`
holds with one process and a save that fails. Each module states its type invariant as
`TypeOK`; the listed runs leave it out: those of Engine, LoopRun, Breakpoints,
RunRecords, Schedules and PlannedRun are parts of the invariants proved below, and the others
say nothing about the program.

For each property of a passing run there is a mutant: a change of a definition that a
plausible bug of the code would make, under which TLC finds the property
violated. The `Mut...` operators beside the definitions are those changes.

### Disagreements

Two runs end in an expected counterexample; `PROJECT.json` quotes the lines they
disagree with. The following configurations show more of them. They are kept beside the
listed runs and are run the same way (`tlc -config X.cfg M`). Every property listed is
violated by itself; where a configuration names several, TLC shows the first.

| configuration | module | property | what happens |
|---|---|---|---|
| MCEnginePauses.cfg | MCEngine | `OnlyThatBlockWaits` | a paused block keeps its place of the limit, so four of them hold back a fifth (README.md:226-227) |
| MCLoopGaps.cfg | MCLoopRun | `ExhaustedByFullRepeats` | a cancellation during the last repeat makes the loop succeed as exhausted (README.md:207-208) |
| MCLoopGaps.cfg | MCLoopRun | `StepStopsBeforeTheNext` | a step at the last block of a repeat is forgotten (README.md:253-254) |
| MCBreakpointsOnly.cfg | MCBreakpoints | `OnlyBlockIsMeant` | a resume without `nodeId` is taken while two blocks are shown as paused, one of them not yet registered (README.md:259-261) |
| MCRunRecordsGaps.cfg | MCRunRecords | `ExecutingCanBeCancelled` | a scheduled run is in no table of cancel functions (README.md:133-134) |
| MCRunRecordsGaps.cfg | MCRunRecords | `ToldIsRecorded` | a cancellation accepted after the run looked at its context is not recorded (README.md:133-136) |
| MCRunRecordsPids.cfg | MCRunRecords | `InProgressIsTrue` | with `Recycles`, a process that gets a dead one's number makes its runs look alive (store.go:145-146) |
| MCRunRecordsGaps.cfg | MCRunRecords | `RanOnceInItsChain` | the retry of a cancelled retry runs again what succeeded in the first run (README.md:136-139) |
| MCSchedulesGaps.cfg | MCSchedules | `LeavesGraphAlone` | a graph saved between the load and the save of `SetSchedule` is lost (workflow_store.go:170-171) |
| MCSchedulesGaps.cfg | MCSchedules | `OnceInAWindow` | a clock set back over more than a window makes served windows due again (scheduler.go:23-24) |
| MCSchedulesGaps.cfg | MCSchedules | `SavingKeepsTheSchedule` | saving a graph in the editor drops its schedule (README.md:84-86) |
| MCCronShift.cfg | MCCron | `ShownIsWhatHappens` | in an hour the zone skips or repeats, the preview and the scheduler differ (README.md:82-83) |
| MCPlannerGaps.cfg | MCPlanner | `ProblemsAreAll` | a cycle is in no list of problems, and is refused at the start (problems.go:40) |
| MCPlannerGaps.cfg | MCPlanner | `IncludedIsExecuted` | a block inside a loop that an arrow from outside reaches, while nothing reaches the loop, is included and neither run nor warned of (run.go:273) |
| MCPlannerGaps.cfg | MCPlanner | `NothingIsBlank` | with "any arrow", `{{workspace.*}}` or a named result is accepted and comes out blank (template.go:50) |
| MCPlannerGaps.cfg | MCPlanner | `PassingPutsOut` | a block that waits for any arrow is taken to pass a workspace on that it may not have received (run.go:616) |
| MCPlannerGaps.cfg | MCPlanner | `RunsOnAnArrow` | a block that waits for any arrow and continues an agent from which no arrow comes runs for that session, though none of its arrows arrived (workflow.go:75-76) |
| MCConversationGaps.cfg | MCConversation | `OwnConversationContinues` | an agent skipped in one repeat forks the outside conversation again in the next (agent_run.go:122-123) |
| MCConversationGaps.cfg | MCConversation | `AnswersForItsProgram` | a command whose run is cancelled answers with the exit of the program that was killed or, where nothing handles its failure, fails as if the program had exited with -1 (command_run.go:98-116) |
| MCConversationGaps.cfg | MCConversation | `LoopIsOver` | a tool that leaves the group with the output open holds the step for ever (runner.go:65) |
| MCGitWorkspacesGaps.cfg | MCGitWorkspaces | `WorkSurvives` | two chains work in one worktree at the same time, and one loses what the other changed |
| MCGitWorkspacesGaps.cfg | MCGitWorkspaces | `WorkspaceIsPrepared` | a worktree whose creation was killed is taken as it is by the next run (worktree.go:152) |
| MCWorkflowDocumentGaps.cfg | MCWorkflowDocument | `SuffixesNeverCollide` | "Agent", "Agent 2" and "Agent" give two blocks one identifier (workflow.go:142-143) |
| MCWorkflowDocument.cfg with `Names <- MCUnnamed` | MCWorkflowDocument | `ReadsAsDrawn` | two unnamed blocks and one named "Node": the last is read back as "Node" under the identifier node-3, while the first two were given the names "node" and "node-2"; saved again they are node, node-2 and node-2 (workflow.go:142-143) |
| MCWorkflowDocumentGaps.cfg | MCWorkflowDocument | `KeepsIdentifiers` | the first save of a graph that was read renumbers identifiers (workflow_store.go:173) |

### Bounds, and why they are enough

* `engine`: three tasks are enough for a task, one before it and one beside it:
  with a limit of 1 or 2 every full, not full and just freed state occurs, and
  every join with one source of each outcome. The theorems drop the bound.
* `loop`: two blocks and two repeats give a repeat that follows another, and one
  that is the last.
* `breakpoints`: three pauses (`MaxPauses`) let one block pause again while
  another waits, in the same run or in the other; what is shared is one map.
  The theorems drop the bound.
* `records`: `MaxRuns` 2 gives a run and its retry; two processes give one that
  dies and one that reads and retries; two dependent steps give one that was made and
  one that was not. `MaxFailures` 1 is how many saves fail; `MCFailsAlone` follows a
  failed save up with one process alive and without a cancellation, which
  MCRunRecordsCancel.cfg adds.
* `schedules`: `Windows` 2 gives a window before, at and after an upset; `Size` 2 a
  moment that is at a boundary and one that is not; `MaxUpsets` 1 (a restart or a
  clock set back).
* `talk`: `Retries` 2 gives a correction of a correction; `Budget` 2 with prices 1 and 2
  is met exactly and exceeded; `MaxRepeats` 3 gives a repeat whose `previous` is itself a
  continued one. The theorems drop all three and the body's shape.
  One command whose failure nothing handles and one whose failure the loop does are the two
  verdicts; `Caught` is empty since such a command's is the second.
* `git`: two chains of different branches are what the lock is for; that both have one
  folder (feature/a and feature-a do) adds a worktree that is another's. `MaxBase` 2 gives a
  branch that is behind, `MaxEdits` 2 a change that is committed and one that is not.
* `documents`: `MaxBlocks` 3 gives two blocks of one name and a third, a block in a loop and
  one outside; `MaxLinks` 2 two arrows out of or into one block, or one arrow beside a loop's end. Any two
  blocks may be joined, so that the arrow from an action in a GitHub block to an agent beside it, and the one
  back into such a block, are among them. The names are one that ends in a number, one written like
  its slug, and none. The theorems drop the bounds.
* `cron`: an hour of two minutes, a day of three hours, a week of two days and
  months of different lengths keep every jump of the search (month, day, hour,
  minute) and every carry between them; `Count` 3 is the code's own. `SearchDays` 12 is
  more than the ten days of the cycle, as the code's 5 * 366 is for all dates but one (below).
* `planner`: `MaxTries` 2 is a run and its retry. Each shape has every subset of
  its optional arrows that `canConnect` lets somebody draw (a pair of blocks
  is connected once), so that cycles, unreached blocks and missing
  sources all occur. `Crossing` says whether arrows across a loop's edge are
  among them. One agent holds a command, which the editor lets somebody draw and which
  include does not bring along with the agent.

Four hypotheses in planner properties are needed; MCPlannerGaps.cfg shows what
happens without them: `OneLevel` and `NoCycle` (no arrow across a loop's edge, no block that
leads to itself), `JoinsAgree` (a
block that waits for any arrow receives a workspace from all of its sources or
none) and `SessionsComeAlong` (such a block continues only an agent that an arrow comes from).

`CHECK_DEADLOCK FALSE` stands in the configurations because all of these systems may stop: a
run ends, the process dies, the bounded clock reaches its end. That they stop
nowhere else is what `NeverStuck`, `CancelEnds`, `RunEnds`, `GoesOn`,
`StepEnds` and Conversation's `KeepsPromise` say.

### Fairness

* Engine: weak fairness of the scheduler's steps and of a late report being
  dropped. The scheduler is a goroutine with something to do, and a goroutine
  whose `select` has `done` closed runs. Nothing is assumed of tasks
  or people for `CancelEnds`. The grace timer is a step of
  the scheduler's `select`: once armed, it fires unless everything has reported.
  `RunEnds` states its hypothesis itself: tasks end and breakpoints are answered.
* LoopRun: the runner, the scheduler of the body, and the outer scheduler taking
  the loop's report. None of the tasks.
* Breakpoints: the goroutines of pauses, and the scheduler taking an answered
  pause on. None of whoever answers.
* RunRecords: the goroutine of a run in a living process, and the engine's steps
  of a cancelled run, which is Engine's `CancelEnds`. None of tasks, boots or deaths.
* Conversation: the watcher of the context, the kill, the reading of the output and the
  verdict go on, and so does the loop. None of programs or their tools, which need never end.
* GitWorkspaces: weak fairness of a step's own next action, as a command ends by
  itself or by the timeout of its step; strong fairness of taking the lock, as
  `sync.Mutex` hands it to a waiter that has waited long. None of whoever starts or retries runs.
* Schedules, Cron, WorkflowDocument and PlannedRun are checked for safety; `NoneIsMissed` counts a
  window only once it has gone by with the server up and in time (`Outlives`
  FALSE: a tick ends within its window), which is where the code's promise ends.
  Every step of PlannedRun settles a block, begins a repeat or a try, all of which
  are bounded, so its runs end.

## The proofs

TLAPS checks forty-two theorems, for every number of tasks, every plan `Validate`
accepts, every set of runs, blocks and answers, every loop body, every set of chains,
branches and folders, every set of processes, records and needs, every schedule, every
graph, every drawing and every calendar.

**EngineProofs.** The inductive invariant is

    IInv == TypeOK /\ Goroutines /\ Counts /\ OnChannel

`TypeOK` alone is not inductive: that `remaining` does not fall below zero needs
`Counts` (`running` and `remaining` are the cardinalities of the sets they stand
for), which needs `Goroutines` (which tasks have a goroutine at which
`pc`), which needs `OnChannel` (a task is reported at most once, by a goroutine
that is done). Each action has a lemma; `NextKeepsIInv` combines them.

* `TypeCorrect`: `Spec => []TypeOK`.
* `LimitHolds`: `LimitRespected`. Those who work are among the counted while the run is
  scheduled, and only become fewer once it is abandoned.
* `StuckIsUnreachable`: `NeverStuck`. `Unmoved` says that a pass that has made no
  progress still looks from its first task on; `SomethingIsReady` that an acyclic
  plan with something left has a task whose needs have all settled. Together they
  contradict the branch of engine.go:238-243.
* `ReportsHaveRoom`: `ReportsNeverBlock`. The channel is an injection into the tasks
  other than one that is still at work, so one of its N places is free.
* `SettledOutcomesAreFinal`: the action property `SettledIsFinal`.
* `NeedsComeFirst`: `RanWithItsNeeds`, by `Flow`: what was chosen had all it needs,
  and by finality still has.
* `AtMostOneLateLaunch`: `OneLateLaunch`, by `Lateness`: while a launch is in hand
  nothing has been launched late, and a cancelled run takes no other in hand.
* `SuccessIsComplete`: `SucceededRanEverything`, by `Tracks`: a task that was skipped for
  its needs did not get them (`Starving`), and the verdict is that of the steps (`Ending`).
* `EngineImplementsWorkflow`: `KeepsPromise`. `StepIsSeen` says of each action which step
  of Workflow it is, or that Workflow sees nothing of it; IInv, `Flow`, `Lateness` and
  `Tracks` are what makes the guards of Workflow's steps true.

The last two need `NamesTellApart`: what a task that waits for any arrow needs comes from
tasks of different names. MCEngineNames.cfg shows what happens otherwise.

Its second half is about LoopRun. The inductive invariant joins `LoopTypeOK`, what the
first half showed of one execution, which holds of the body's in every repeat (`Body`), and

* `Idle`: a repeat that ended before any cancellation leaves no goroutine behind;
* `GoingOn`: the runner begins a repeat only after one that neither failed nor ended the loop;
* `Told` and `Watched`: a success is told of the body as it is when the runner is done, and
  the outer run shows the body as it is until it gives the loop up.

`LoopTellsTheTruth` is `LoopSaysWhatItsBodyDid`; `RepeatsDoNotOverlap` is the action
property `OneRepeatAtATime`, by `Idle`; `LoopTypeCorrect` is `LoopTypeOK`.

**BreakpointsProofs.** The inductive invariant joins the type invariant, the
three properties and `Delivered` (an answer in a channel is the one that was
accepted), `TakenOut` (a pause that took its answer is no longer in the map),
`NothingLeftBehind` (what is in the map waits, or is about to take itself out) and
`NotYetReturned`.

* `NoSendBlocks`: `ResumeNeverBlocks`.
* `NobodyIsForgotten`: `WaitingCanBeAnswered`.
* `AnswersReachTheirPause`: `ReturnsItsAnswer`.

**ConversationProofs.** The inductive invariant is

    IInv == Kept /\ Placed /\ Talks /\ Corrects

`Kept` says which sessions exist, `Placed` that what the loop holds of an agent, of this
repeat and of the last, is a session that agent started, `Talks` that the turn under way
is in a session of its own agent which holds the turn, and is the one of the last repeat
if there is one, `Corrects` that the last rejected turn is in it. The three properties say what
is true of one turn; none is inductive, since the session a turn begins with was
put away a repeat ago. `TurnKeeps` is the lemma about the CLI: no session changes
hands or forgets.

* `CorrectsWhatWasRejected`: `RepairsWhatWasRejected`.
* `LeavesOthersUntouched`: `OthersAreUntouched`.
* `KeepsItsConversation`: `RemembersLastRepeat`.
* `StepsKeepThePromise`: the initial states and the steps of Conversation are those of
  StepTask (`KeepsPromise` without its liveness), whatever `Until` and `Caught` are. `ProgramInv` says that a
  leader runs, has exited or was killed while the step waits for it, and was killed only if the
  context of the step ended.

**GitWorkspacesProofs.** Three invariants, each of which rests on the one before:

* `LockInv`: whoever updates the shared refs holds the lock of the clone. `OneKey` says that
  push, which locks from its worktree, and the others, which lock from the project's
  folder, lock under one key. `UpdatesAreSerialized` is `OneUpdateAtATime`.
* `PlaceInv`: a chain that was handed a workspace finds its branch there (`Handed`),
  a folder in which a worktree is being added is empty (`Vacant`, by the lock), chains of one branch
  are not at work together (`Exclusive`), and a rebase is under way only
  in the step that began it or where one was retried amid it (`OnItsHead`). A
  step of chain `c` is shown to be a `Place(c)`, which `PlaceKeeps` takes over to all chains.
  `StepsStayOnTheirBranch` is `WorksOnItsBranch`; `PushesTheBranch` is the action property
  `PublishedIsTheBranch`, which no run lists.
* `WorkInv`: a step that rebases found its worktree clean and nobody else works there
  (`CleanAt`), so that an abort, which restores the files, throws nothing away. Each step is
  a `Works(c)`, which balances what was made with what is committed or in the worktree.
  `WorkIsNeverLost` is `WorkSurvives`.

The last two need `~Shared`, that no two chains work on a branch at the same time;
MCGitWorkspacesGaps.cfg shows what happens otherwise.

**RunRecordsProofs.** The inductive invariant is

    IInv == TypeOK /\ PidsAreOwn /\ \A r \in Runs : Holds(r)

`PidsAreOwn` says that no two processes have one number, dead ones included, unless the
system recycles them; `Holds(r)` says that a run's records bear the number of its process
(`Placed`), how far it is by what its file and its process say (`Agrees`: on disk it is in progress until
its last save, which is all that a failing one leaves behind), that a retry is of a settled run
and gives back what that recorded (`RetriesSettled`), and that what is given back does not run
(`RanFresh`). None of the properties is inductive, since each speaks of what a
reader is told, and that depends on who lives.

* `TypeCorrect`: `TypeOK`.
* `ProgressIsReal`: `InProgressIsTrue`, and `OverStaysOver`: the action property
  `FinishedIsFinal`. Both need `~Recycles`: no process is given the number of a dead
  one (MCRunRecordsPids.cfg).
* `RetriesFollow`: `RetriedIsOver`. `RetriesReuse`: `NothingRedone`.

**SchedulesProofs.** `Sound` joins the type invariant and `Timing` (the clock, the
last window looked at and the boot are within the furthest window reached, and a tick is of its moment). On it rest

* `AtMostOnce`: `OnceInAWindow`, by `Unique`: whatever was started is behind the next window
  the scheduler looks at. It needs `FewUpsets`: the clock is never set back (however often the
  server is restarted), or it is once, by at most a window, without a restart. The proof showed that
  the run's bound is no accident: TLC finds a second start with two set-backs
  of one instant, and with one of them before a restart (`MaxUpsets` 2, `SetBack` 1).
* `NoneMissed`: `NoneIsMissed`, by `Served`: up to some window every workflow was started in those
  it was due in, and the scheduler has yet to look at the rest. It needs `FewUpsets` and
  `~Outlives`: a tick that outlives its window misses the next (scheduler.go:51).
* `StartsAfreshAlways`: the action property `NothingCaughtUp`, which no run lists.
* `TypeCorrect`: `TypeOK`.

**PlannedRunProofs.** First come lemmas about Planner's operators, for every graph: `include`'s walk
ends within its bound, and what it included is what a start leads to (`WalkEnds`,
`ReachedAreIncluded`); what is taken to pass a workspace on does so by itself or receives one
(`PassingBlocks`); the plan of a graph has its loops' bodies, needs that follow its arrows
(`PlansAreShaped`, `NeedsFollowArrows`), and passes Validate (`PlansAreValid`). The walk and
the search for who passes a workspace on are folds over numbers. The library's
induction rule is of no use to these provers; their inductions go by the least number at which a claim
fails (`Smallest`, `UpTo`). That the walk ends goes by a measure
(`Ahead`): each visit comes to a block it had not been to.
Then the invariant of a run,

    RunInv == Shape /\ (\A i \in Tasks : Sound(i)) /\ (\A i \in DOMAIN recorded : Kept(i))
              /\ Counted /\ (phase = "over" => \A i \in plan.top : Settled(i))

where `Sound` says of a task what its outcome means for its needs (only what has all it waits
for began or was skipped, what ran had it arrive, what passes a workspace on put one out) and
`Kept` that a recorded step would arrive again.

* `ProblemsExplainRefusals`: `PlannedIsValid`. `StepsAreReached`: `ReachedIsPlanned`.
* `SkipsAreExplained`: `SkippedForItsArrows`. `PromisedArrives`: `PlaceholdersHaveValues`.
* `NothingIsLost`: `ReusedGiveBack`. `TypeCorrect`: `TypeOK`.

**ReadingProofs** is about what a workflow on a schedule is read from, its cron expression and
its file.

`DueWhenItSays` is `RunsWhenItSays`, for any calendar, any zone and any
expression. The code fills a set of the values a field has by counting with the step of each
entry; the property asks for a number of steps from the entry's first value, and
`Multiples`, `EntryDenotes` and `FieldDenotes` say that the two are the same, the last weekday that
is the first again included (`WeekdayDenotes`).

`PreviewIsKept` is `ShownIsWhatHappens`. What a search finds is the first minute that matches
(`FoundIsNext`), though the search starts at the beginning of a day and takes days as
they come; if it finds nothing, no minute matches, ever (`NothingToFind`), which goes by the
date of a day being that of the same day in the cycle (`ComesAgain`). A preview is then a sequence
of such first minutes, in their order and without a gap (`Foreseen`), which each
search goes on with (`FurtherForesees`, `PreviewForesees`), and what happened up to `now` are
all the minutes that match. The theorem has two hypotheses:

* `Before = After`, that the zone keeps its offset; MCCronShift.cfg shows what happens otherwise;
* `ComesRound`, that from every day of the cycle a date that ever comes does so within the days
  that are searched. TLC evaluates it for MCCron's calendars. Of the code's it is true but for one date: its 1830 days
  (cron.go:224) span every gap of the Gregorian calendar except the eight years from 29 February
  2096 to 29 February 2104. In between, an expression that names 29 February alone is shown as never
  coming round, against what cron.go:229-230 says of such an expression, until less
  than 1830 days are left.

`WhatIsSavedReadsAsDrawn` is `ReadsAsDrawn` and `SavingSettles` is `Settles`, for any number of
blocks, arrows between any of them, any nesting and any names that fit: no name is another's with a number after
it, nor what unnamed blocks are called (`SuffixesAreFree`, the hypothesis of both; MCWorkflowDocumentGaps.cfg
shows what happens otherwise). The code walks over the blocks with loops and calls itself; the model has a function
of how many blocks were written, and the proofs go from each number to the next (`UpTo`):

* the identifiers are one for each block (`IdentifiersFit`): whoever has a slug first gets it, and the
  others a number that grows with every one of them (`GivenTo`);
* every block is written once (`FileHasEveryBlock`): the blocks that were written and what they still
  lead to are always all those whose container is one of them, as no block is inside itself (`Reaches`);
* the arrows into a block are read as they were written, in their order (`NeedsAreInto`);
* so what is read is drawable again, its names fit (`ReadIsDrawable`, `ReadNamesFit`), and it is the same
  drawing (`ReadIsSame`). `Kept` says so of the graph and of what is in the file.

For `Settles`, what was read is written in the order it has (`FileKeepsOrder`): what is inside a block keeps
its order when the file is written (`FileInOrder`), and a list in order is the only one of its blocks
(`OneRisingList`). Identifiers go by names and order alone (`NamesOnly`), so a graph that was read is given the
identifiers it has (`KeepsItsIdentifiers`) and its file is the one it came from (`WrittenAgain`). A drawing
therefore has three readings at most, of which the last two are one file (`SettlesOn`).

**Attempts that failed for a reason**, and the models are the better for them. `ReachedIsPlanned`
did not hold of a block that an agent holds and that is not its schema check: include does not bring
it along, and what `ClosedUnder` asks was changed to what the code does. `SkippedForItsArrows` did not
hold of a block that waits for any arrow and continues an agent that no arrow comes from: hence
`SessionsComeAlong`, and `RunsOnAnArrow` in MCPlannerGaps.cfg. `RunsWhenItSays` was stated with a
CASE whose arms overlapped, which TLC reads from the top and TLA+ does not; they no longer do.
`ReadsAsDrawn` does not hold of unnamed blocks beside one that is named "Node", which its
comment left open.

The assumptions are the named ones of the modules: plans are finite, acyclic and
have a limit of at least 1 (`Validate`, and the default in `Execute`); a loop has at least one repeat, and
its Until is a task of its body with that port (`validateLoop`); the loop Conversation repeats ends with
a command; the clone's own folder is no
worktree's and "no one" neither a chain nor a branch; nothing is assumed of names,
ports or breakpoints; "no block" is not a block and "no answer" not an answer, "no process" not
a process; a window lasts at least one instant. A graph's blocks and arrows are numbered by their
place in it, only agents, commands and actions have texts with placeholders, only actions are of
an action's kind (`GraphsAssumption`). A calendar has at least one date, hours, days and weeks have
a length; entries have one of the three forms and natural numbers, as the parser makes them; offsets
are integers. The words of names are a set that has "node", "uuid" and the empty one, and a name that
is not blank has a slug (`WordsAssumption`, `NamesAssumption`). The bounds (`MaxRuns`, `MaxTries`, `MaxPauses`, `Windows`) are any numbers.

**Only model-checked**, and why:

* everything with fairness (`CancelEnds`, `RunEnds`, `CancelEndsLoop`, `GoesOn`, `StepEnds`,
  `CancelIsHeard`, and the liveness in Conversation's `KeepsPromise`): the prover does not reach it.

Every other property of a passing run is a theorem.

## What is not modelled

* *Texts*: logs, the words of errors, rendered templates, YAML syntax, the syntax
  of cron expressions (they are the sets they denote).
* *Values*: an output is its port. A router's comparison and a schema's validation
  choose a branch freely.
* *Pure I/O*: routing of requests, static files, built-in templates, the home
  folder, the terminal.
* *Drawing*: geometry, layout and completion in the editor.
* *The formats of the agents' CLIs* (`agents/backends.go`): how each is called and how its
  stream is read. Conversation has one CLI, which does what they have in common; that a CLI
  loses a session it was told to go on with is left out.
* *Agent health* (`agents/health.go`): a probe under one mutex whose result
  is shown and decides nothing.
* *Routers and reply schemas*: pure functions of a value; what they answer is a choice.
* *Evaluating agents and the build*: not part of the running program.
* *The editor's undo history and layout*; its saves and opens are in
  Schedules and WorkflowDocument.

## What is left

In order; the most important first.

1. **Editor store** (`graph.svelte.ts`): the open document and the runs it polls, whose answers
   may arrive out of order.
2. **Composition**: a run's tasks as GitWorkspaces' and Conversation's steps in one module
   with Engine, in place of the abstract tasks that each is checked against alone.
