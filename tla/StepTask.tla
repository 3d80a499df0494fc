------------------------------ MODULE StepTask ------------------------------
(***************************************************************************)
(* What the engine may expect of a step that runs a program for it, an     *)
(* agent's turn or a command block (Task.Run in internal/engine): it ends  *)
(* soon after its context, it says it was stopped only if its context      *)
(* ended, and any other answer is about a program that came to its end.    *)
(***************************************************************************)
VARIABLES
  excused,  \* whether the step takes a program that its cancellation killed for one that ended
  task,     \* "off", "running", or how it ended
  own,      \* how the program ended by itself: "none", "zero" or "nonzero"
  ctx       \* "live", "cancelled" or "expired"

vars == <<excused, task, own, ctx>>

Init == excused \in BOOLEAN /\ task = "off" /\ own = "none" /\ ctx = "live"

Begin ==
  /\ task # "running"
  /\ excused' \in BOOLEAN
  /\ task' \in {"running", "failed"}
  /\ own' = "none"
  /\ ctx' \in {"live", ctx}

ProgramEnds ==
  /\ task = "running" /\ own = "none"
  /\ own' \in {"zero", "nonzero"}
  /\ UNCHANGED <<excused, task, ctx>>

ContextEnds ==
  /\ task = "running" => ctx = "live"
  /\ ctx' \in {"cancelled", "expired"} \ {ctx}
  /\ UNCHANGED <<excused, task, own>>

\* That of its program, or of one that was killed.
HasAnExit == own # "none" \/ (excused /\ ctx = "cancelled")

Answer ==
  /\ task = "running" /\ HasAnExit
  /\ task' = "answered"
  /\ UNCHANGED <<excused, own, ctx>>

Fail ==
  /\ task = "running" /\ HasAnExit
  /\ task' = "failed"
  /\ UNCHANGED <<excused, own, ctx>>

Stop ==
  /\ task = "running"
  /\ ctx # "live"
  /\ task' = "stopped"
  /\ UNCHANGED <<excused, own, ctx>>

Next == Begin \/ ProgramEnds \/ ContextEnds \/ Answer \/ Fail \/ Stop

Spec == Init /\ [][Next]_vars /\ WF_vars(Answer \/ Fail \/ Stop)
=============================================================================
