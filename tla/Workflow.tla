------------------------------ MODULE Workflow ------------------------------
(***************************************************************************)
(* What the engine promises about a run (the package comment of            *)
(* internal/engine and the README's "Run it"): tasks run after the tasks   *)
(* they need and with what those put out, a failure or a branch not taken  *)
(* skips what is downstream of it and nothing else, a bounded number run   *)
(* at once, and a cancelled run settles what it did not get to.  There is  *)
(* no scheduler, channel or goroutine here: Engine implements it.          *)
(***************************************************************************)
EXTENDS TaskPlan

CONSTANT Plans

VARIABLES
  plan,
  step,       \* the outcome of each task; "pending" until it begins
  cancelled,
  late,       \* whether a task began after the cancellation
  verdict     \* "running" until the run is over

vars == <<plan, step, cancelled, late, verdict>>

Pending(i) == step[i].status = "pending"
Running(i) == step[i].status = "running"
Settled(i) == ~Pending(i) /\ ~Running(i)
Ready(i)   == \A n \in plan.needs[i] : n.task \in Tasks => Settled(n.task)
Over       == verdict # "running"

Init ==
  /\ plan \in Plans
  /\ step = [i \in Tasks |-> NoOutcome]
  /\ cancelled = FALSE
  /\ late = FALSE
  /\ verdict = "running"

Becomes(i, outcome) ==
  /\ step' = [step EXCEPT ![i] = outcome]
  /\ UNCHANGED <<plan, cancelled, verdict>>

\* A task begins with what it needs; one may begin as the run is cancelled.
Begin(i) ==
  /\ ~Over
  /\ Pending(i)
  /\ Ready(i)
  /\ Arrives(plan, step, i)
  /\ Cardinality({j \in Tasks : Running(j)}) < plan.limit
  /\ ~(cancelled /\ late)
  /\ Becomes(i, Bare("running", "none"))
  /\ late' = cancelled

Succeed(i) ==
  /\ ~Over
  /\ Running(i)
  /\ \E outputs \in SUBSET Ports :
       Becomes(i, [status |-> "succeeded", reason |-> "none", outputs |-> outputs])
  /\ UNCHANGED late

Fail(i) ==
  /\ ~Over
  /\ Running(i)
  /\ Becomes(i, Bare("failed", "error"))
  /\ UNCHANGED late

\* What is upstream, the cancellation or someone at a breakpoint skips it.
Skip(i, reason) ==
  /\ ~Over
  /\ Pending(i)
  /\ Ready(i)
  /\ CASE reason = "upstream"   -> ~Arrives(plan, step, i)
       [] reason = "cancelled"  -> cancelled
       [] reason = "breakpoint" -> plan.asks /\ Arrives(plan, step, i)
  /\ Becomes(i, Bare("skipped", reason))
  /\ UNCHANGED late

Cancel ==
  /\ ~Over
  /\ cancelled' = TRUE
  /\ UNCHANGED <<plan, step, late, verdict>>

\* A cancelled run stops waiting for the tasks that have not reported.
Abandon ==
  /\ ~Over
  /\ cancelled
  /\ \E i \in Tasks : ~Settled(i)
  /\ step' = [i \in Tasks |-> IF Settled(i) THEN step[i] ELSE Bare("skipped", "cancelled")]
  /\ verdict' = "failed"
  /\ UNCHANGED <<plan, cancelled, late>>

Finish ==
  /\ ~Over
  /\ \A i \in Tasks : Settled(i)
  /\ verdict' = Verdict(step)
  /\ UNCHANGED <<plan, step, cancelled, late>>

Next == \/ \E i \in Tasks : \/ Begin(i) \/ Succeed(i) \/ Fail(i)
                            \/ \E reason \in {"upstream", "cancelled", "breakpoint"} : Skip(i, reason)
        \/ Cancel
        \/ Abandon
        \/ Finish

Spec == Init /\ [][Next]_vars
=============================================================================
