------------------------------- MODULE Engine -------------------------------
(***************************************************************************)
(* One execution of a plan (internal/engine): the scheduler goroutine that *)
(* runs Execute, the goroutine of every task it starts, the goroutine that *)
(* asks what to do at a breakpoint, and the context whoever watches may    *)
(* cancel.                                                                 *)
(*                                                                         *)
(* Only the scheduler changes the run.  A task reports on the buffered     *)
(* channel `finished'; an answered breakpoint meets the scheduler on the   *)
(* unbuffered channel `progress', so reporting it is a step of both.       *)
(* Clocks, logs, values and texts are left out: an output is the port it   *)
(* was put out on, and a step's error is the kind of reason it gives.      *)
(***************************************************************************)
EXTENDS TaskPlan

CONSTANT Plans   \* the plans to execute, all of which Validate accepted

ASSUME PlanAssumption == Plans \subseteq {p \in Plan : Acyclic(p.needs)}

Answers == {"continue", "step", "skip"}

VARIABLES
  plan,
  step,       \* run.Steps and execution.outputs: the outcome shown so far
  started, settled,
  paused,     \* run.Paused
  stepping,
  verdict,    \* run.Status
  pc,         \* where the scheduler is in Execute
  cursor,     \* the task its pass looks at, or the one it is launching
  progressed, running, remaining,
  armed,      \* next's grace timer runs
  cancelled,  \* ctx.Err() # nil
  finished,   \* the channel of tasks that reported
  result,     \* execution.results
  work,       \* what each task's goroutine does
  late        \* history: the tasks launched after the cancellation

run == <<step, started, settled, paused, stepping, verdict>>
scheduler == <<pc, cursor, progressed, running, remaining, armed>>
channel == <<finished, result>>
vars == <<plan, run, scheduler, channel, cancelled, work, late>>

TypeOK ==
  /\ plan \in Plans
  /\ step \in [Tasks -> Outcome]
  /\ started \in SUBSET Tasks
  /\ settled \in SUBSET Tasks
  /\ paused \in SUBSET Tasks
  /\ stepping \in BOOLEAN
  /\ verdict \in {"running", "succeeded", "failed"}
  /\ pc \in {"pass", "launch", "resume", "wait", "abandon", "ended"}
  /\ cursor \in 1..(N + 1)
  /\ progressed \in BOOLEAN
  /\ running \in 0..N
  /\ remaining \in 0..N
  /\ armed \in BOOLEAN
  /\ cancelled \in BOOLEAN
  /\ finished \in Seq(Tasks)
  /\ result \in [Tasks -> Outcome]
  /\ work \in [Tasks -> {"none", "asking", "working", "reported", "dropped"} \cup Answers]
  /\ late \in SUBSET Tasks

Init ==
  /\ plan \in Plans
  /\ step = [i \in Tasks |-> NoOutcome]
  /\ started = {}
  /\ settled = {}
  /\ paused = {}
  /\ stepping = FALSE
  /\ verdict = "running"
  /\ pc = "pass"
  /\ cursor = 1
  /\ progressed = FALSE
  /\ running = 0
  /\ remaining = N
  /\ armed = FALSE
  /\ cancelled = FALSE
  /\ finished = <<>>
  /\ result = [i \in Tasks |-> NoOutcome]
  /\ work = [i \in Tasks |-> "none"]
  /\ late = {}

-----------------------------------------------------------------------------
(***************************************************************************)
(* What reaches a task: ready, blocked and gather.  A task waiting for any *)
(* arrow drops every input that comes from a NAME something is missing     *)
(* from, as the code does: it compares names, not tasks.                   *)
(***************************************************************************)
MutReadyIgnoresGiven(i) == \A n \in plan.needs[i] : n.task \in settled
Ready(i) == \A n \in plan.needs[i] : n.task \in Tasks => n.task \in settled

NameOf(t)  == IF t \in Outside THEN t ELSE plan.name[t]
Missing(n) == Lacking(step, n)

MissingNames(i) == {NameOf(n.task) : n \in {m \in plan.needs[i] : Missing(m)}}

MutInputsInPart(i) == {n \in plan.needs[i] : n.port # NoPort /\ ~Missing(n)}
Inputs(i) == {n \in plan.needs[i] :
                /\ n.port # NoPort
                /\ ~Missing(n)
                /\ i \in plan.any => NameOf(n.task) \notin MissingNames(i)}

Starved(i) == /\ MissingNames(i) # {}
              /\ i \in plan.any => Inputs(i) = {}

Candidates == {i \in cursor..N : i \notin started /\ Ready(i)}
Candidate(i) == i \in Candidates /\ \A j \in Candidates : i <= j

MutFullLate  == running > plan.limit
MutFullEarly == running + 1 >= plan.limit
Full == running = plan.limit

Pausing(i) == plan.asks /\ (i \in plan.breakpoint \/ stepping)

-----------------------------------------------------------------------------
(***************************************************************************)
(* The pass Execute makes over the tasks.  blocked reads the context       *)
(* before the task is launched, so a cancellation may fall between the     *)
(* two: SkipBlocked and Choose read it, Launch does not look again.        *)
(***************************************************************************)
SkipBlocked(i) ==
  /\ pc = "pass"
  /\ Candidate(i)
  /\ Starved(i) \/ cancelled
  /\ step' = [step EXCEPT ![i] = Bare("skipped", IF Starved(i) THEN "upstream" ELSE "cancelled")]
  /\ started' = started \cup {i}
  /\ settled' = settled \cup {i}
  /\ remaining' = remaining - 1
  /\ progressed' = TRUE
  /\ cursor' = i + 1
  /\ UNCHANGED <<plan, paused, stepping, verdict, pc, running, armed, channel, cancelled, work, late>>

\* The task may start: a slot is free and everything it needs has arrived.
MutStartableCancelled(i) == pc = "pass" /\ Candidate(i) /\ ~Starved(i) /\ ~Full
Startable(i) ==
  /\ pc = "pass"
  /\ Candidate(i)
  /\ ~Starved(i)
  /\ ~cancelled
  /\ ~Full

Choose(i) ==
  /\ Startable(i)
  /\ ~Pausing(i)
  /\ started' = started \cup {i}
  /\ running' = running + 1
  /\ progressed' = TRUE
  /\ pc' = "launch"
  /\ cursor' = i
  /\ UNCHANGED <<plan, step, settled, paused, stepping, verdict, remaining, armed,
                 channel, cancelled, work, late>>

PauseBefore(i) ==
  /\ Startable(i)
  /\ Pausing(i)
  /\ started' = started \cup {i}
  /\ running' = running + 1
  /\ progressed' = TRUE
  /\ cursor' = i + 1
  /\ stepping' = FALSE
  /\ step' = [step EXCEPT ![i] = Bare("paused", "none")]
  /\ paused' = paused \cup {i}
  /\ work' = [work EXCEPT ![i] = "asking"]
  /\ UNCHANGED <<plan, settled, verdict, pc, remaining, armed, channel, cancelled, late>>

\* begin and launch, from a pass or from a breakpoint that was answered.
Launch(i) ==
  /\ pc \in {"launch", "resume"}
  /\ i = cursor
  /\ step' = [step EXCEPT ![i] = Bare("running", "none")]
  /\ work' = [work EXCEPT ![i] = "working"]
  /\ late' = IF cancelled THEN late \cup {i} ELSE late
  /\ pc' = IF pc = "launch" THEN "pass" ELSE "wait"
  /\ cursor' = i + 1
  /\ UNCHANGED <<plan, started, settled, paused, stepping, verdict, progressed, running,
                 remaining, armed, channel, cancelled>>

\* Nothing is left to look at, or a task that may run finds no slot free.
PassOver ==
  /\ pc = "pass"
  /\ \/ Candidates = {}
     \/ Full /\ \E i \in Tasks : Candidate(i) /\ ~Starved(i) /\ ~cancelled

End ==
  /\ PassOver
  /\ remaining = 0
  /\ pc' = "ended"
  /\ verdict' = Verdict(step)
  /\ UNCHANGED <<plan, step, started, settled, paused, stepping, cursor, progressed,
                 running, remaining, armed, channel, cancelled, work, late>>

PassAgain ==
  /\ PassOver
  /\ remaining # 0
  /\ running = 0
  /\ progressed
  /\ cursor' = 1
  /\ progressed' = FALSE
  /\ UNCHANGED <<plan, run, pc, running, remaining, armed, channel, cancelled, work, late>>

(***************************************************************************)
(* The pass that settled and started nothing, with nothing running, is     *)
(* where Execute would fail the rest of the plan.  No action follows it:   *)
(* EngineProofs shows that a plan Validate accepted never gets there.      *)
(***************************************************************************)
Stuck ==
  /\ PassOver
  /\ remaining # 0
  /\ running = 0
  /\ ~progressed

Wait ==
  /\ PassOver
  /\ remaining # 0
  /\ running # 0
  /\ pc' = "wait"
  /\ armed' = FALSE
  /\ UNCHANGED <<plan, run, cursor, progressed, running, remaining, channel,
                 cancelled, work, late>>

-----------------------------------------------------------------------------
(***************************************************************************)
(* next: the scheduler waits for a task that reported, an answered         *)
(* breakpoint, the cancellation and then the end of its grace.             *)
(***************************************************************************)
\* The scheduler receives only inside next.
Listening == pc = "wait"

\* complete: what task i reported becomes its step.
Complete(i) ==
  /\ step' = [step EXCEPT ![i] = result[i]]
  /\ result' = [result EXCEPT ![i] = NoOutcome]
  /\ settled' = settled \cup {i}
  /\ finished' = Tail(finished)

Take ==
  /\ Listening
  /\ finished # <<>>
  /\ Complete(Head(finished))
  /\ running' = running - 1
  /\ remaining' = remaining - 1
  /\ pc' = "pass"
  /\ cursor' = 1
  /\ progressed' = FALSE
  /\ UNCHANGED <<plan, started, paused, stepping, verdict, armed, cancelled, work, late>>

\* The places of the channel `finished'.
MutOnePlace == 1
Capacity == N

\* finish: store the result, then send on the channel.
Finish(i, outcome) ==
  /\ Len(finished) < Capacity
  /\ result' = [result EXCEPT ![i] = outcome]
  /\ finished' = Append(finished, i)
  /\ work' = [work EXCEPT ![i] = "reported"]

\* unpause settles the block of a cancelled run, or the one that was skipped.
UnpauseSettles(i) ==
  /\ Listening
  /\ work[i] \in Answers
  /\ \/ cancelled /\ Finish(i, Bare("skipped", "cancelled"))
     \/ ~cancelled /\ work[i] = "skip" /\ Finish(i, Bare("skipped", "breakpoint"))
  /\ paused' = paused \ {i}
  /\ UNCHANGED <<plan, step, started, settled, stepping, verdict, scheduler, cancelled, late>>

UnpauseRuns(i) ==
  /\ Listening
  /\ work[i] \in Answers \ {"skip"}
  /\ ~cancelled
  /\ paused' = paused \ {i}
  /\ stepping' = (stepping \/ work[i] = "step")
  /\ pc' = "resume"
  /\ cursor' = i
  /\ UNCHANGED <<plan, step, started, settled, verdict, progressed, running, remaining,
                 armed, channel, cancelled, work, late>>

MutNoGrace == FALSE
ArmGrace ==
  /\ pc = "wait"
  /\ cancelled
  /\ ~armed
  /\ armed' = TRUE
  /\ UNCHANGED <<plan, run, pc, cursor, progressed, running, remaining, channel,
                 cancelled, work, late>>

Expire ==
  /\ pc = "wait"
  /\ armed
  /\ pc' = "abandon"
  /\ UNCHANGED <<plan, run, cursor, progressed, running, remaining, armed, channel,
                 cancelled, work, late>>

(***************************************************************************)
(* settle: complete the tasks that already reported, then record every     *)
(* task that is still unsettled, and end the run.                          *)
(***************************************************************************)
Drain ==
  /\ pc = "abandon"
  /\ finished # <<>>
  /\ Complete(Head(finished))
  /\ UNCHANGED <<plan, started, paused, stepping, verdict, scheduler, cancelled, work, late>>

Abandoned == Bare("skipped", "cancelled")

MutAllAbandoned == [i \in Tasks |-> Abandoned]
Rest == [i \in Tasks |-> IF i \in settled THEN step[i] ELSE Abandoned]

SettleRest ==
  /\ pc = "abandon"
  /\ finished = <<>>
  /\ paused' = {}
  /\ step' = Rest
  /\ started' = Tasks
  /\ settled' = Tasks
  /\ verdict' = Verdict(Rest)
  /\ pc' = "ended"
  /\ UNCHANGED <<plan, stepping, cursor, progressed, running, remaining, armed, channel,
                 cancelled, work, late>>

-----------------------------------------------------------------------------
(***************************************************************************)
(* The other goroutines.                                                   *)
(***************************************************************************)
\* A task ends, whether or not it noticed a cancellation or the run's end.
TaskEnds(i) ==
  /\ work[i] = "working"
  /\ \/ Finish(i, Bare("failed", "error"))
     \/ \E outputs \in SUBSET Ports : Finish(i, [Bare("succeeded", "none") EXCEPT !.outputs = outputs])
  /\ UNCHANGED <<plan, run, scheduler, cancelled, late>>

\* Options.Pause returns: someone answered, or the cancellation ended it.
Answer(i) ==
  /\ work[i] = "asking"
  /\ \E answer \in Answers : work' = [work EXCEPT ![i] = answer]
  /\ UNCHANGED <<plan, run, scheduler, channel, cancelled, late>>

\* report after the run's end: done is closed, so the answer is dropped.
Drop(i) ==
  /\ pc = "ended"
  /\ work[i] \in Answers
  /\ work' = [work EXCEPT ![i] = "dropped"]
  /\ UNCHANGED <<plan, run, scheduler, channel, cancelled, late>>

Cancel ==
  /\ ~cancelled
  /\ pc # "ended"
  /\ cancelled' = TRUE
  /\ UNCHANGED <<plan, run, scheduler, channel, work, late>>

Pass == \/ \E i \in Tasks : SkipBlocked(i) \/ Choose(i) \/ PauseBefore(i) \/ Launch(i)
        \/ End
        \/ PassAgain
        \/ Wait

NextReport == \/ Take
              \/ \E i \in Tasks : UnpauseSettles(i) \/ UnpauseRuns(i)
              \/ ArmGrace
              \/ Expire

Settle == Drain \/ SettleRest

Schedule == Pass \/ NextReport \/ Settle

Next == \/ Schedule
        \/ \E i \in Tasks : TaskEnds(i) \/ Answer(i) \/ Drop(i)
        \/ Cancel

(***************************************************************************)
(* The scheduler is a goroutine that is always runnable, and a report      *)
(* nobody will read any more is dropped; nothing is assumed of the tasks   *)
(* or of the people who answer.                                            *)
(***************************************************************************)
Spec == /\ Init
        /\ [][Next]_vars
        /\ WF_vars(Schedule)
        /\ \A i \in Tasks : WF_vars(Drop(i))

TasksEnd  == \A i \in Tasks : WF_vars(TaskEnds(i))
Answered  == \A i \in Tasks : WF_vars(Answer(i))

\* Every task ends, but nobody needs to answer a breakpoint.
TaskFairSpec == Spec /\ TasksEnd

-----------------------------------------------------------------------------
(***************************************************************************)
(* What the execution promises.                                            *)
(***************************************************************************)
Arrived(i) == Arrives(plan, step, i)

Ran(i) == step[i].status \in {"running", "succeeded"} \/ step[i].reason = "error"

(***************************************************************************)
(* At most `limit' tasks work at once, whatever is resumed, cancelled or   *)
(* abandoned meanwhile.                                                    *)
(***************************************************************************)
LimitRespected == Cardinality({i \in Tasks : work[i] = "working"}) <= plan.limit

(***************************************************************************)
(* A plan Validate accepted never leaves Execute with nothing to run and   *)
(* something left: "nothing left in the flow can run" is dead code.        *)
(***************************************************************************)
NeverStuck == ~Stuck

(***************************************************************************)
(* The channel has room for whoever may still report, so neither a task    *)
(* that outlives the run nor the scheduler itself, which settles a skipped *)
(* breakpoint by sending to its own channel, ever blocks on it.            *)
(***************************************************************************)
ReportsNeverBlock ==
  (\E i \in Tasks : work[i] \in {"working", "asking"} \cup Answers) => Len(finished) < Capacity

(***************************************************************************)
(* A task that ran had every need, or, when it waits for any arrow, one    *)
(* arrow with every output it carries.                                     *)
(***************************************************************************)
RanWithItsNeeds == \A i \in Tasks : Ran(i) => Arrived(i)

(***************************************************************************)
(* README, "Run when any arrow arrives": the block runs if any arrow       *)
(* arrived, instead of being skipped because a branch was not taken.       *)
(***************************************************************************)
AnyArrowIsEnough ==
  ~cancelled => \A i \in plan.any : step[i].reason = "upstream" => ~Arrived(i)

(***************************************************************************)
(* A run called succeeded ran every task whose needs arrived, but for the  *)
(* ones someone skipped at a breakpoint: no cancellation, late report or   *)
(* pass order makes it lose one.                                           *)
(***************************************************************************)
SucceededRanEverything ==
  verdict = "succeeded" =>
    \A i \in Tasks : \/ step[i].status = "succeeded"
                     \/ step[i].status = "skipped" /\ step[i].reason = "breakpoint"
                     \/ step[i].status = "skipped" /\ ~Arrived(i)

(***************************************************************************)
(* A cancellation that falls between the check and the launch lets one     *)
(* task start on a cancelled context, and never a second one.              *)
(***************************************************************************)
OneLateLaunch == Cardinality(late) <= 1

(***************************************************************************)
(* The outcome of a settled task never changes: not when the rest of a     *)
(* cancelled run is settled, not when a late report arrives.               *)
(***************************************************************************)
SettledIsFinal == [][\A i \in settled : step'[i] = step[i]]_vars

(***************************************************************************)
(* A cancelled run ends, though no task and nobody at a breakpoint reacts. *)
(***************************************************************************)
CancelEnds == cancelled ~> pc = "ended"

(***************************************************************************)
(* The goroutine of a breakpoint answered too late does not stay blocked.  *)
(***************************************************************************)
LateAnswerIsDropped ==
  \A i \in Tasks : (pc = "ended" /\ work[i] \in Answers) ~> work[i] = "dropped"

(***************************************************************************)
(* When tasks end and breakpoints are answered, the run ends.              *)
(***************************************************************************)
RunEnds == TasksEnd /\ Answered => <>(pc = "ended")

(***************************************************************************)
(* README: "Only that block waits", and blocks that do not depend on it    *)
(* still start: a task with all it needs starts, or is skipped, though     *)
(* nobody ever answers a breakpoint.                                       *)
(***************************************************************************)
OnlyThatBlockWaits == \A i \in Tasks : Ready(i) ~> i \in started
=============================================================================
