----------------------------- MODULE MCLoopRun ------------------------------
(***************************************************************************)
(* Loops over two blocks: a gate that may send its failure to a fixer, and *)
(* two blocks that do not need each other, with and without breakpoints.   *)
(***************************************************************************)
EXTENDS LoopRun

MCPorts == {"passed", "failed"}
MCNames == {"gate", "fixer"}
MCGiven == [t \in {} |-> {}]

MCPlan(needs, breakpoint) ==
  [needs |-> needs, any |-> {}, name |-> <<"gate", "fixer">>,
   breakpoint |-> breakpoint, limit |-> 2, asks |-> TRUE]

GateAndFixer == <<{}, {[task |-> 1, port |-> "failed"]}>>
Beside       == <<{}, {}>>
FixThenGate  == <<{[task |-> 2, port |-> NoPort]}, {}>>

MCPlans == {MCPlan(GateAndFixer, {}), MCPlan(GateAndFixer, {2}),
            MCPlan(Beside, {1}), MCPlan(FixThenGate, {})}

\* The gate alone carries a breakpoint, which the second repeat meets too.
MCStepPlans == {MCPlan(GateAndFixer, {2})}
=============================================================================
