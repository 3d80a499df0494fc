------------------------------- MODULE MCPlanner -------------------------------
(***************************************************************************)
(* Four shapes of workflow, each with every choice of its arrows and a few *)
(* of its settings: a chain of Git actions, an agent and a gate; a loop of *)
(* a gate and its fixer between two agents; a router whose routes join     *)
(* again behind a checked agent; an issue and a worktree that join.        *)
(***************************************************************************)
EXTENDS PlannedRun

CONSTANT Crossing    \* whether arrows may cross the edge of a loop

Block(type, parent) ==
  [type |-> type, parent |-> parent, start |-> FALSE, name |-> "", filled |-> TRUE,
   any |-> FALSE, uses |-> {}, action |-> "", until |-> None, untilPort |-> NoPort,
   repeats |-> 1, cases |-> {}, continues |-> FALSE, backend |-> "claude"]

Named(block, name)    == [block EXCEPT !.name = name]
Using(block, uses)    == [block EXCEPT !.uses = uses]
Starting(block)       == [block EXCEPT !.start = TRUE]
Action(kind, parent)  == [Block("action", parent) EXCEPT !.action = kind]

Arrow(from, to, port) == [id |-> 10 * from + to, from |-> from, to |-> to, port |-> port]

InOrderOfIds(S) ==
  [k \in 1..Cardinality(S) |-> CHOOSE a \in S : Cardinality({b \in S : b.id < a.id}) = k - 1]

\* canConnect (graph.svelte.ts): a pair is connected at most once, either way.
Drawable(arrows) ==
  \A a \in arrows, b \in arrows : {a.from, a.to} = {b.from, b.to} => a = b

Choosing(required, optional) ==
  {InOrderOfIds(required \cup arrows) : arrows \in {S \in SUBSET optional : Drawable(S)}}

Drawn(nodes, edges) == {[nodes |-> n, edges |-> e] : n \in nodes, e \in edges}

-----------------------------------------------------------------------------
\* A worktree, an agent and a gate in any order, and a commit after them.
ChainBlocks ==
  {<< Block("project", 0),
      Starting(Block("github", 1)),
      Starting(Action("worktree", 2)),
      [Named(Using(Block("agent", 1), uses), "coder") EXCEPT !.any = any],
      Named(Block("command", 1), "gate"),
      Action("commit", 2),
      [Named(Using(Block("agent", 1), {"result"}), "fixer") EXCEPT !.continues = TRUE] >>
   : uses \in {{}, {"workspace"}, {"gate"}}, any \in BOOLEAN}

ChainArrows ==
  Choosing({Arrow(3, 4, NoPort)},
           {Arrow(3, 5, NoPort), Arrow(4, 5, NoPort), Arrow(5, 4, "passed"), Arrow(5, 6, "passed"),
            Arrow(4, 6, NoPort), Arrow(5, 7, "failed"), Arrow(4, 7, NoPort), Arrow(7, 4, NoPort)})

-----------------------------------------------------------------------------
\* A loop in which a gate sends what failed to a fixer.
LoopBlocks ==
  {<< Block("project", 0),
      Named(Starting(Block("agent", 1)), "coder"),
      [Block("loop", 1) EXCEPT !.until = 4, !.untilPort = "passed", !.repeats = 2, !.any = any],
      Named(Block("command", 3), "gate"),
      [Named(Using(Block("agent", 3), {"gate"}), "fixer")
         EXCEPT !.continues = continues, !.any = takesAny],
      Block("jsonschema", 5),
      Named(Using(Block("agent", 1), uses), "after") >>
   : any \in BOOLEAN, continues \in BOOLEAN, takesAny \in BOOLEAN, uses \in {{}, {"result"}}}

LoopArrows ==
  Choosing({},
           {Arrow(2, 3, NoPort), Arrow(4, 5, "failed"), Arrow(5, 4, NoPort), Arrow(6, 4, "valid"), Arrow(3, 7, "done"),
            [Arrow(3, 7, "exhausted") EXCEPT !.id = 137], Arrow(2, 7, NoPort)}
           \cup IF Crossing THEN {Arrow(2, 5, NoPort), Arrow(4, 7, "failed")} ELSE {})

-----------------------------------------------------------------------------
\* A router's two routes and a block they both lead to.
JoinBlocks ==
  {<< Block("project", 0),
      Named(Starting(Block("agent", 1)), "reviewer"),
      Block("jsonschema", 2),
      [Named(Block("router", 1), "verdict") EXCEPT !.cases = {"approve"}],
      Named(Block("agent", 1), "writer"),
      Named(Block("agent", 1), name),
      [Named(Using(Block("agent", 1), {"result"}), "join") EXCEPT !.any = any],
      Block("project", 0),
      [Block("github", 8) EXCEPT !.start = any /\ name = "tester"],
      Named(Block("command", 2), "inner") >>
   : name \in {"writer", "tester"}, any \in BOOLEAN}

JoinArrows ==
  Choosing({Arrow(3, 4, "valid"), Arrow(4, 5, "approve")},
           {Arrow(4, 6, "default"), Arrow(5, 7, NoPort), Arrow(6, 7, NoPort),
            Arrow(3, 5, "invalid"), Arrow(4, 7, "default")})

-----------------------------------------------------------------------------
\* An agent on an issue and a gate in a worktree, and a block after both.
IssueBlocks ==
  {<< Block("project", 0),
      Starting(Block("github", 1)),
      Starting(Action("worktree", 2)),
      Action("issue", 2),
      Named(Block("agent", 1), "reader"),
      Named(Block("command", 1), "gate"),
      [Named(Using(Block("agent", 1), uses), "join") EXCEPT !.any = any],
      Using(Action("push", 2), {"result"}) >>
   : uses \in {{}, {"workspace"}, {"result"}}, any \in BOOLEAN}

IssueArrows ==
  Choosing({Arrow(3, 4, NoPort), Arrow(4, 5, NoPort)},
           {Arrow(3, 6, NoPort), Arrow(5, 7, NoPort), Arrow(6, 7, "passed"), Arrow(7, 8, NoPort)})

-----------------------------------------------------------------------------
MCGraphs == Drawn(ChainBlocks, ChainArrows) \cup Drawn(LoopBlocks, LoopArrows)
            \cup Drawn(JoinBlocks, JoinArrows) \cup Drawn(IssueBlocks, IssueArrows)
=============================================================================
