-------------------------- MODULE EngineRefinement --------------------------
(***************************************************************************)
(* The execution implements the promise of Workflow.  A task paused at a   *)
(* breakpoint has not begun, so the promise sees it as pending; a verdict  *)
(* and the steps it is about become visible together.                      *)
(***************************************************************************)
EXTENDS Engine

Shown == [i \in Tasks |-> IF step[i].status = "paused" THEN NoOutcome ELSE step[i]]

Promise == INSTANCE Workflow WITH step <- Shown, late <- late # {}

(***************************************************************************)
(* Every step of the scheduler, of a task, of whoever answers a breakpoint *)
(* or cancels, is a step the promise allows or one it does not see.        *)
(***************************************************************************)
KeepsPromise == Promise!Spec
=============================================================================
