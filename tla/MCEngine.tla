------------------------------ MODULE MCEngine ------------------------------
(***************************************************************************)
(* Plans of three tasks for Engine: independent tasks, a chain declared    *)
(* backwards, a branch, joins that wait for all or for any of their        *)
(* arrows, and a body that needs what a loop gives it, each under several  *)
(* limits and breakpoints.                                                 *)
(***************************************************************************)
EXTENDS EngineRefinement

CONSTANTS outer   \* a task outside the plan, as a loop's upstream is

MCPorts == {"p", "q"}
MCPort  == {"p"}
MCNames == {"a", "b", "c"}
MCGiven == [t \in {outer} |-> {"p"}]

After(t)   == [task |-> t, port |-> NoPort]
From(t, p) == [task |-> t, port |-> p]

Shape(needs, any) == [needs |-> needs, any |-> any]

Shapes == {
  Shape(<<{}, {}, {}>>, {}),
  Shape(<<{From(2, "p")}, {From(3, "p")}, {}>>, {}),
  Shape(<<{}, {From(1, "p")}, {From(1, "q"), After(2)}>>, {3}),
  Shape(<<{}, {}, {From(1, "p"), From(1, "q"), From(2, "p")}>>, {3}),
  Shape(<<{From(2, "p"), After(3)}, {From(outer, "p")}, {From(outer, "q")}>>, {1})}

PlanOf(shape, names, breakpoint, limit, asks) ==
  [needs |-> shape.needs, any |-> shape.any, name |-> names,
   breakpoint |-> breakpoint, limit |-> limit, asks |-> asks]

\* Names that tell the tasks apart.
Distinct == <<"a", "b", "c">>

MCPlans ==
  {PlanOf(shape, Distinct, breakpoint, limit, TRUE) :
     shape \in Shapes, breakpoint \in {{1}, {2, 3}}, limit \in {1, 2}}
  \cup {PlanOf(shape, Distinct, {1}, 2, FALSE) : shape \in Shapes}

\* Four blocks with a breakpoint beside one without, under the default limit.
MCPausePlans ==
  {PlanOf(Shape([i \in Tasks |-> {}], {}), [i \in Tasks |-> "a"], 1..(N - 1), N - 1, TRUE)}

\* Two branches of one name that join at a block waiting for any arrow.
MCSameNamePlans ==
  {PlanOf(Shape(<<{}, {}, {From(1, "p"), From(2, "p")}>>, {3}), <<"a", "a", "b">>, {}, 2, FALSE)}
=============================================================================
