------------------------------ MODULE TaskPlan ------------------------------
(***************************************************************************)
(* A plan of tasks as the engine is given it, the outcome of a task, and   *)
(* what it means that what a task needs has arrived.  Names, outputs and   *)
(* reasons are kept as far as they decide which tasks run.                 *)
(***************************************************************************)
EXTENDS Integers, FiniteSets, Sequences

CONSTANTS
  N,        \* how many tasks a plan has; a task is its place in the plan
  Ports,    \* the ports a task may put an output on
  NoPort,   \* the empty port, of a need that only orders two tasks
  Names,    \* the names tasks may carry
  Given     \* the ports given by each task outside the plan (Options.Given)

Tasks   == 1..N
Outside == DOMAIN Given

ASSUME SizeAssumption  == N \in Nat \ {0}
ASSUME PortAssumption  == NoPort \notin Ports
ASSUME GivenAssumption == /\ Given \in [Outside -> SUBSET Ports]
                          /\ Outside \cap Tasks = {}

Need == [task : Tasks \cup Outside, port : Ports \cup {NoPort}]

Plan == [needs      : [Tasks -> SUBSET Need],
         any        : SUBSET Tasks,      \* the tasks with WaitForAny
         name       : [Tasks -> Names],
         breakpoint : SUBSET Tasks,
         limit      : Nat \ {0},         \* Options.Parallelism
         asks       : BOOLEAN]           \* Options.Pause is set

(***************************************************************************)
(* What Validate accepts: no set of tasks in which each waits for another. *)
(***************************************************************************)
Acyclic(needs) ==
  \A S \in (SUBSET Tasks) \ {{}} :
    \E i \in S : \A n \in needs[i] : n.task \notin S

-----------------------------------------------------------------------------
Statuses == {"pending", "running", "paused", "succeeded", "failed", "skipped"}
Reasons  == {"none", "error", "upstream", "breakpoint", "cancelled"}
Outcome  == [status : Statuses, reason : Reasons, outputs : SUBSET Ports]

\* The outcome of a step that has put nothing out.
Bare(status, reason) == [status |-> status, reason |-> reason, outputs |-> {}]
NoOutcome == Bare("pending", "none")

(***************************************************************************)
(* Need n is lacking in a run that shows the outcomes s: the task it names *)
(* failed or was skipped, or did not put out the port it names.            *)
(***************************************************************************)
Emitted(s, t) == IF t \in Outside THEN Given[t] ELSE s[t].outputs
Gone(s, t)    == t \notin Outside /\ s[t].status \in {"failed", "skipped"}

Lacking(s, n) == \/ Gone(s, n.task)
                 \/ n.port # NoPort /\ n.port \notin Emitted(s, n.task)

(***************************************************************************)
(* What task i needs has arrived: all of it or, when it waits for any      *)
(* arrow, one arrow with every output it carries.                          *)
(***************************************************************************)
Delivers(p, s, i, t) == \A n \in p.needs[i] : n.task = t => ~Lacking(s, n)

Arrives(p, s, i) ==
  \/ \A n \in p.needs[i] : ~Lacking(s, n)
  \/ i \in p.any /\ \E n \in p.needs[i] : n.port # NoPort /\ Delivers(p, s, i, n.task)

\* How a run ends: failed when a task failed or the cancellation cost one.
MutVerdictOfFailures(s) ==
  IF \E i \in Tasks : s[i].status = "failed" THEN "failed" ELSE "succeeded"
Verdict(s) ==
  IF \E i \in Tasks : \/ s[i].status = "failed"
                      \/ s[i].status = "skipped" /\ s[i].reason = "cancelled"
  THEN "failed" ELSE "succeeded"
=============================================================================
