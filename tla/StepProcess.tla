---------------------------- MODULE StepProcess ----------------------------
(***************************************************************************)
(* The program a step runs, in a process group of its own: an agent's CLI  *)
(* for one turn (Runner.Run in internal/agents/runner.go) or the shell of  *)
(* a command block (runShell in internal/app/command_run.go).              *)
(*                                                                         *)
(* The step reads the output to its end, which is when the program and     *)
(* every tool it started have closed it; a goroutine beside it kills the   *)
(* group when the context ends.  A tool may hold the output, may hold      *)
(* nothing, and may leave the group.                                       *)
(***************************************************************************)
EXTENDS Naturals

CONSTANT Leaves   \* whether a tool may leave the group with the output open

ASSUME LeavesAssumption == Leaves \in BOOLEAN

VARIABLES
  kind,      \* "turn", "command", or "gate": a command whose failure is handled
  stage,     \* where the step is in its program
  leader,    \* the program
  exit,      \* how it ended by itself
  tools,     \* what it started and still runs
  watching,  \* whether the goroutine that kills still waits
  ctx        \* the context of the step

process == <<kind, stage, leader, exit, tools, watching, ctx>>

Ended == {"answered", "failed", "stopped"}

ProcessTypeOK ==
  /\ kind \in {"turn", "command", "gate"}
  /\ stage \in {"off", "running", "collected"} \cup Ended
  /\ leader \in {"none", "running", "exited", "killed"}
  /\ exit \in {"none", "zero", "nonzero"}
  /\ tools \in SUBSET {"holding", "quiet", "gone"}
  /\ watching \in BOOLEAN
  /\ ctx \in {"live", "cancelled", "expired"}

ProcessInit ==
  /\ kind = "turn" /\ stage = "off"
  /\ leader = "none" /\ exit = "none" /\ tools = {}
  /\ watching = FALSE
  /\ ctx = "live"

\* The step starts its program, which may not be installed.
Launch(k, c) ==
  /\ kind' = k
  /\ ctx' = c
  /\ exit' = "none"
  /\ tools' = {}
  /\ \/ stage' = "running" /\ leader' = "running" /\ watching' = TRUE
     \/ stage' = "failed"  /\ leader' = "none"    /\ watching' = FALSE

-----------------------------------------------------------------------------
\* The program and its tools.
Exits ==
  /\ leader = "running"
  /\ leader' = "exited"
  /\ exit' \in {"zero", "nonzero"}
  /\ UNCHANGED <<kind, stage, tools, watching, ctx>>

StartsTool ==
  /\ leader = "running"
  /\ \E t \in {"holding", "quiet"} \ tools : tools' = tools \cup {t}
  /\ UNCHANGED <<kind, stage, leader, exit, watching, ctx>>

ToolLeaves ==
  /\ Leaves
  /\ "holding" \in tools
  /\ tools' = (tools \ {"holding"}) \cup {"gone"}
  /\ UNCHANGED <<kind, stage, leader, exit, watching, ctx>>

ToolEnds ==
  /\ \E t \in tools : tools' = tools \ {t}
  /\ UNCHANGED <<kind, stage, leader, exit, watching, ctx>>

-----------------------------------------------------------------------------
\* The context: the step's own timeout, or the cancellation of its run.
Expire ==
  /\ stage \in {"running", "collected"}
  /\ ctx = "live"
  /\ ctx' = "expired"
  /\ UNCHANGED <<kind, stage, leader, exit, tools, watching>>

\* The goroutine beside the step.
MutLeaderOnly(ts) == ts
Survivors(ts) == ts \cap {"gone"}

Kill ==
  /\ watching
  /\ ctx # "live" \/ stage \in Ended   \* the step's context ends with it
  /\ leader' = IF leader = "running" THEN "killed" ELSE leader
  /\ tools' = Survivors(tools)
  /\ watching' = FALSE
  /\ UNCHANGED <<kind, stage, exit, ctx>>

Unwatch ==
  /\ watching
  /\ stage \notin {"off", "running"}
  /\ watching' = FALSE
  /\ UNCHANGED <<kind, stage, leader, exit, tools, ctx>>

-----------------------------------------------------------------------------
\* The step has read to the end of the output and waited for the program.
Collect ==
  /\ stage = "running"
  /\ leader # "running"
  /\ tools \cap {"holding", "gone"} = {}
  /\ stage' = "collected"
  /\ UNCHANGED <<kind, leader, exit, tools, watching, ctx>>

\* A turn looks at its context first, whatever the CLI said.
VerdictOnTurn ==
  IF ctx # "live" THEN {"stopped"}
  ELSE IF exit = "zero" THEN {"answered", "failed"} ELSE {"failed"}

\* A command looks for its deadline only.  Then it fails if the wait did, and
\* else goes by the exit status, which is -1 for a program that was killed:
\* any but 0 fails a command unless something handles its failure.
VerdictOnCommand ==
  IF ctx = "expired" THEN {"stopped"}
  ELSE {"failed"} \cup (IF exit = "zero" \/ kind = "gate" THEN {"answered"} ELSE {})

Verdict == IF kind = "turn" THEN VerdictOnTurn ELSE VerdictOnCommand

Judge ==
  /\ stage = "collected"
  /\ stage' \in Verdict
  /\ UNCHANGED <<kind, leader, exit, tools, watching, ctx>>

ProcessStep == Exits \/ StartsTool \/ ToolLeaves \/ ToolEnds \/ Expire \/ Kill \/ Unwatch \/ Collect \/ Judge

\* Goroutines go on, and the timer of the context fires; a program and its
\* tools need not end by themselves.
ProcessFairness == WF_process(Expire) /\ WF_process(Kill) /\ WF_process(Collect) /\ WF_process(Judge)

-----------------------------------------------------------------------------
\* The step as the engine sees it, with and without the exception.
EndsAs == IF stage = "collected" THEN "running" ELSE stage
Promise       == INSTANCE StepTask WITH excused <- (kind # "turn"), task <- EndsAs, own <- exit
StrictPromise == INSTANCE StepTask WITH excused <- FALSE, task <- EndsAs, own <- exit
=============================================================================
