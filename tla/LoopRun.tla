------------------------------ MODULE LoopRun -------------------------------
(***************************************************************************)
(* A loop task (internal/engine/loop.go): a runner on the task's goroutine *)
(* that executes the body plan repeat by repeat, each time as an execution *)
(* of its own with its own scheduler, and the run around it, which shows   *)
(* the body's steps and may stop waiting for the loop.                     *)
(*                                                                         *)
(* The variables of Engine are those of the execution of the body in the   *)
(* present repeat; all of them but the cancelled context start afresh in   *)
(* the next.  Of the outer execution only the loop task is kept.           *)
(***************************************************************************)
EXTENDS Engine

CONSTANTS
  MaxIterations,
  Until, UntilPort,   \* the body task and port that end the loop
  HandlesExhausted    \* some arrow leaves the loop on exhausted

ASSUME LoopAssumption == /\ MaxIterations \in Nat \ {0}
                         /\ Until \in Tasks
                         /\ UntilPort \in Ports
                         /\ HandlesExhausted \in BOOLEAN

VARIABLES
  loop,       \* where the runner is: "top" of the for, in a "repeat", "done"
  iterations, \* outcome.Iterations
  outcome,    \* what the runner reports for the loop task
  outer,      \* the outer run's step of the loop: "running" until it settles
  shown,      \* the outer run's steps of the body
  stepped     \* history: someone asked to step and no block paused since

nested == <<plan, run, scheduler, channel, work, late>>
runner == <<loop, iterations, outcome>>
view   == <<outer, shown>>
loopVars == <<nested, cancelled, runner, view, stepped>>

Results == {"none", "done", "exhausted", "not ended", "body failed", "cancelled"}
Succeeds == {"done", "exhausted"}

LoopTypeOK ==
  /\ TypeOK
  /\ loop \in {"top", "repeat", "done"}
  /\ iterations \in 0..MaxIterations
  /\ outcome \in Results
  /\ outer \in {"running"} \cup Results
  /\ shown \in [Tasks -> Outcome]
  /\ stepped \in BOOLEAN

LoopInit ==
  /\ Init
  /\ loop = "top"
  /\ iterations = 0
  /\ outcome = "none"
  /\ outer = "running"
  /\ shown = [i \in Tasks |-> NoOutcome]
  /\ stepped = FALSE

-----------------------------------------------------------------------------
(***************************************************************************)
(* The runner.                                                             *)
(***************************************************************************)
\* Execute is called again on the body; the context is the run's.
FreshExecution ==
  /\ UNCHANGED plan
  /\ step' = [i \in Tasks |-> NoOutcome]
  /\ started' = {}
  /\ settled' = {}
  /\ paused' = {}
  /\ stepping' = FALSE
  /\ verdict' = "running"
  /\ pc' = "pass"
  /\ cursor' = 1
  /\ progressed' = FALSE
  /\ running' = 0
  /\ remaining' = N
  /\ armed' = FALSE
  /\ finished' = <<>>
  /\ result' = [i \in Tasks |-> NoOutcome]
  /\ work' = [i \in Tasks |-> "none"]
  /\ late' = {}

\* An execution's observer reaches the outer run only until that has ended.
Show(steps) == shown' = IF outer = "running" THEN steps ELSE shown

Reports(what) == loop' = "done" /\ outcome' = what

MutStopNever == FALSE
StopCancelled ==
  /\ loop = "top"
  /\ iterations < MaxIterations
  /\ cancelled
  /\ Reports("cancelled")
  /\ UNCHANGED <<nested, cancelled, iterations, view, stepped>>

MutRepeatsCancelled == loop = "top" /\ iterations < MaxIterations
MayRepeat == /\ loop = "top"
             /\ iterations < MaxIterations
             /\ ~cancelled

Repeat ==
  /\ MayRepeat
  /\ iterations' = iterations + 1
  /\ loop' = "repeat"
  /\ FreshExecution
  /\ Show([i \in Tasks |-> NoOutcome])
  /\ UNCHANGED <<cancelled, outcome, outer, stepped>>

\* The last repeat is over and did not end the loop: Finish decides.
Exhaust ==
  /\ loop = "top"
  /\ iterations = MaxIterations
  /\ Reports(IF HandlesExhausted THEN "exhausted" ELSE "not ended")
  /\ UNCHANGED <<nested, cancelled, iterations, view, stepped>>

MutOtherTasks == \E i \in Tasks \ {Until} : step[i].status = "failed"
BodyFailed == \E i \in Tasks : step[i].status = "failed"
Ended      == UntilPort \in step[Until].outputs

\* What the runner makes of the repeat that is over.
RepeatOver ==
  /\ loop = "repeat"
  /\ pc = "ended"
  /\ CASE BodyFailed           -> Reports("body failed")
       [] ~BodyFailed /\ Ended -> Reports("done")
       [] OTHER                -> loop' = "top" /\ UNCHANGED outcome
  /\ UNCHANGED <<nested, cancelled, iterations, view, stepped>>

(***************************************************************************)
(* The execution of the body, and what it shows the outer run.             *)
(***************************************************************************)
BodySchedules ==
  /\ loop = "repeat"
  /\ Schedule
  /\ Show(step')
  /\ stepped' = CASE \E i \in Tasks : PauseBefore(i) -> FALSE
                  [] \E i \in Tasks : UnpauseRuns(i) /\ work[i] = "step" -> TRUE
                  [] OTHER -> stepped
  /\ UNCHANGED <<runner, outer>>

BodyWorks ==
  /\ \E i \in Tasks : TaskEnds(i) \/ Answer(i) \/ Drop(i)
  /\ UNCHANGED <<runner, view, stepped>>

(***************************************************************************)
(* The run around the loop.  Once it has ended nothing changes it.         *)
(***************************************************************************)
OuterTakes ==
  /\ outer = "running"
  /\ loop = "done"
  /\ outer' = outcome
  /\ UNCHANGED <<nested, cancelled, runner, shown, stepped>>

\* settleStep ends a loop the run no longer waits for, and its body with it.
OuterAbandons ==
  /\ outer = "running"
  /\ cancelled
  /\ loop # "done"
  /\ outer' = "cancelled"
  /\ shown' = [i \in Tasks |-> IF shown[i].status \in {"succeeded", "failed"}
                               THEN shown[i] ELSE Bare("skipped", "cancelled")]
  /\ UNCHANGED <<nested, cancelled, runner, stepped>>

CancelRun ==
  /\ ~cancelled
  /\ outer = "running"
  /\ cancelled' = TRUE
  /\ UNCHANGED <<nested, runner, view, stepped>>

RunnerNext == StopCancelled \/ Repeat \/ Exhaust \/ RepeatOver

LoopNext == RunnerNext \/ BodySchedules \/ BodyWorks
            \/ OuterTakes \/ OuterAbandons \/ CancelRun

(***************************************************************************)
(* The runner and the scheduler of its body are always runnable; the tasks *)
(* of the body and the people at its breakpoints need not react.           *)
(***************************************************************************)
LoopSpec == /\ LoopInit
            /\ [][LoopNext]_loopVars
            /\ WF_loopVars(RunnerNext)
            /\ WF_loopVars(BodySchedules)
            /\ WF_loopVars(OuterTakes)

-----------------------------------------------------------------------------
(***************************************************************************)
(* No goroutine of a repeat is left when the next one starts, so two       *)
(* repeats of a block never work in the same workspace at once.            *)
(***************************************************************************)
OneRepeatAtATime ==
  [][iterations' # iterations =>
       \A i \in Tasks : work[i] \in {"none", "reported"}]_loopVars

(***************************************************************************)
(* A loop that succeeded shows a body without failures; it took `done' in  *)
(* the repeat whose Until task put the port out, and `exhausted' only      *)
(* after every repeat.                                                     *)
(***************************************************************************)
LoopSaysWhatItsBodyDid ==
  outer \in Succeeds =>
    /\ \A i \in Tasks : shown[i].status \in {"succeeded", "skipped"}
    /\ (outer = "done") <=> (UntilPort \in shown[Until].outputs)
    /\ outer = "exhausted" => iterations = MaxIterations

(***************************************************************************)
(* A cancelled loop ends, though its body's tasks and breakpoints do not   *)
(* react: the repeat in progress is abandoned and no other one starts.     *)
(***************************************************************************)
CancelEndsLoop == cancelled ~> loop = "done"

(***************************************************************************)
(* README: the loop sends "the last value on exhausted", after repeating   *)
(* its blocks at most MaxIterations times: the repeat it is exhausted by   *)
(* was not cut short by a cancellation.                                    *)
(***************************************************************************)
ExhaustedByFullRepeats ==
  outer = "exhausted" => \A i \in Tasks : shown[i].reason # "cancelled"

(***************************************************************************)
(* README: "`step' runs it and stops before the next block": after a step  *)
(* no block starts without the run pausing before one.                     *)
(***************************************************************************)
StepStopsBeforeTheNext ==
  [][stepped /\ loop = "repeat" => ~\E i \in Tasks : Choose(i)]_loopVars
=============================================================================
