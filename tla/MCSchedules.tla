---------------------------- MODULE MCSchedules ----------------------------
(***************************************************************************)
(* Two workflows and two graphs, one of which cannot run; an expression    *)
(* that is due in every window and one that is due in every second.        *)
(***************************************************************************)
EXTENDS Schedules, TLC

CONSTANTS Always, Alternate

MCDue == [e \in Expressions |-> IF e = Always THEN 0..Windows ELSE {w \in 0..Windows : w % 2 = 0}]

MCSymmetry == Permutations(Workflows)
=============================================================================
