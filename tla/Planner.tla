-------------------------------- MODULE Planner --------------------------------
(***************************************************************************)
(* How a workflow's graph becomes a plan of tasks (internal/app: plan and  *)
(* its blocks in run.go, loop_run.go, agent_run.go, command_run.go,        *)
(* router_run.go, schema_block_run.go and template.go) and what the engine *)
(* accepts of it (Validate in internal/engine).  Everything here is a      *)
(* function of the graph; PlannedRun is what happens to the plan.          *)
(*                                                                         *)
(* A block is its place in the graph.  What a block holds beside what it   *)
(* is connected to (prompts, commands, schemas, expressions, limits) is    *)
(* `filled' or not; a text is the set of placeholders it uses.             *)
(***************************************************************************)
EXTENDS Integers, Sequences, FiniteSets

None    == 0       \* no block; also the graph as a whole, in a failure
NoPort  == ""      \* an arrow that only orders two blocks, or names no output
BadPort == "?"     \* an output its source does not have

Blocks(g) == DOMAIN g.nodes
Arrows(g) == {g.edges[k] : k \in DOMAIN g.edges}

Type(g, i)   == IF i \in Blocks(g) THEN g.nodes[i].type ELSE "none"
Parent(g, i) == IF i \in Blocks(g) THEN g.nodes[i].parent ELSE None

Children(g, i, type) == {c \in Blocks(g) : Parent(g, c) = i /\ Type(g, c) = type}

-----------------------------------------------------------------------------
(***************************************************************************)
(* validateGraph: every arrow joins two blocks of the graph and every      *)
(* block sits where the containment matrix lets it.                        *)
(***************************************************************************)
Holders == [agent      |-> {"project", "agent", "loop"},
            project    |-> {"root", "project"},
            github     |-> {"project"},
            gitlab     |-> {"project"},
            githubapp  |-> {"github"},
            action     |-> {"github"},
            jsonschema |-> {"agent"},
            router     |-> {"project", "agent", "loop"},
            command    |-> {"project", "agent", "loop"},
            loop       |-> {"project"}]

Holder(g, i) == IF Parent(g, i) = None THEN "root" ELSE Type(g, Parent(g, i))

ValidGraph(g) ==
  /\ Blocks(g) # {}
  /\ \A a \in Arrows(g) : {a.from, a.to} \subseteq Blocks(g)
  /\ \A i \in Blocks(g) : Holder(g, i) \in Holders[Type(g, i)]

-----------------------------------------------------------------------------
(***************************************************************************)
(* Where a block belongs and what leads into it.  A schema block takes the *)
(* reply of the agent it sits in.  A block of a loop that nothing beside   *)
(* it feeds receives the arrows into the loop.                             *)
(***************************************************************************)
CheckedAgent(g, i) ==
  IF Type(g, i) = "jsonschema" /\ Type(g, Parent(g, i)) = "agent" THEN Parent(g, i) ELSE None

LoopOf(g, i) ==
  LET block == IF CheckedAgent(g, i) # None THEN CheckedAgent(g, i) ELSE i
  IN  IF Type(g, Parent(g, block)) = "loop" THEN Parent(g, block) ELSE None

ArrowsTo(g, i) == {a \in Arrows(g) : a.to = i}

ArrowsInto(g, i) ==
  CASE CheckedAgent(g, i) # None ->
         {[id |-> 0, from |-> CheckedAgent(g, i), to |-> i, port |-> NoPort]}
    [] CheckedAgent(g, i) = None /\ ArrowsTo(g, i) = {} /\ LoopOf(g, i) # None ->
         ArrowsTo(g, LoopOf(g, i))
    [] OTHER -> ArrowsTo(g, i)

(***************************************************************************)
(* The output an arrow carries.                                            *)
(***************************************************************************)
WorksIn == {"rebase", "commit", "push", "pullrequest"}   \* needsWorkspace

Choices(g, i) ==
  CASE Type(g, i) = "jsonschema" -> {"valid", "invalid"}
    [] Type(g, i) = "command"    -> {"passed", "failed"}
    [] Type(g, i) = "loop"       -> {"done", "exhausted"}
    [] Type(g, i) = "router"     -> g.nodes[i].cases \cup {"default"}
    [] OTHER                     -> {}

FirstChoice == [jsonschema |-> "valid", command |-> "passed", loop |-> "done", router |-> BadPort]

SourcePort(g, a) ==
  LET type == Type(g, a.from)
  IN  CASE type = "agent" -> "result"
        [] type = "action" ->
             (CASE g.nodes[a.from].action = "pullrequest" -> "pullRequest"
                [] g.nodes[a.from].action = "issue"       -> "issue"
                [] g.nodes[a.from].action = "fetch"       -> NoPort
                [] OTHER                                  -> "workspace")
        [] type \in DOMAIN FirstChoice ->
             (CASE a.port = NoPort             -> FirstChoice[type]
                [] a.port \in Choices(g, a.from) -> a.port
                [] OTHER                       -> BadPort)
        [] OTHER -> NoPort

-----------------------------------------------------------------------------
(***************************************************************************)
(* Where a run starts: agents flagged so, and the flagged action of a      *)
(* GitHub block, which just fetches when it holds none.                    *)
(***************************************************************************)
Executable == {"action", "agent", "jsonschema", "router", "command", "loop"}

Flagged(g, i, type) == Type(g, i) = type /\ g.nodes[i].start /\ LoopOf(g, i) = None
FlaggedActions(g, i) == {c \in Children(g, i, "action") : g.nodes[c].start}

StartFailures(g) ==
  {i \in Blocks(g) : g.nodes[i].start /\ LoopOf(g, i) # None}
  \cup {i \in Blocks(g) : /\ Flagged(g, i, "github")
                          /\ Children(g, i, "action") # {}
                          /\ FlaggedActions(g, i) = {}}

PlainFetches(g) == {i \in Blocks(g) : Flagged(g, i, "github") /\ Children(g, i, "action") = {}}

Earliest(S) == CHOOSE i \in S : \A j \in S : i <= j

\* Where the walk starts when it comes to a block of the graph, None if nowhere.
Starts(g) ==
  [i \in Blocks(g) |->
     CASE Flagged(g, i, "agent")                                      -> i
       [] Flagged(g, i, "github") /\ FlaggedActions(g, i) # {} -> Earliest(FlaggedActions(g, i))
       [] OTHER                                                       -> None]

(***************************************************************************)
(* include: a walk along the arrows from each start in turn, depth first.  *)
(* A loop brings the blocks inside it with it; their own arrows are not    *)
(* followed unless the walk came to them before.                           *)
(***************************************************************************)
LoopBody(g, l) == {i \in Blocks(g) : LoopOf(g, i) = l /\ Type(g, i) \in Executable}

MutLeadsAlongArrows(g, i) ==
  [k \in DOMAIN g.edges |-> IF g.edges[k].from = i THEN g.edges[k].to ELSE None]
\* For each block its check, and for each arrow where it ends, None if not this block's.
LeadsTo(g, i) ==
  [c \in Blocks(g) |-> IF CheckedAgent(g, c) = i THEN c ELSE None] \o
  [k \in DOMAIN g.edges |-> IF g.edges[k].from = i THEN g.edges[k].to ELSE None]

Inside(g, i) == IF Type(g, i) = "loop" THEN LoopBody(g, i) ELSE {}

\* Where on its list the walk comes to a block that it has not been to.
Fresh(g, walk) == {k \in DOMAIN walk.todo : /\ Type(g, walk.todo[k]) \in Executable
                                            /\ walk.todo[k] \notin walk.included}

Visit(g, walk) ==
  LET k == Earliest(Fresh(g, walk))
      i == walk.todo[k]
  IN  IF Fresh(g, walk) = {} THEN walk
      ELSE [todo     |-> LeadsTo(g, i) \o SubSeq(walk.todo, k + 1, Len(walk.todo)),
            included |-> walk.included \cup {i} \cup Inside(g, i)]

\* No walk takes more steps: each comes to another block.
LongestWalk(g) == Len(g.nodes)

Walk(g) ==
  LET walk[k \in 0..LongestWalk(g)] ==
        IF k = 0 THEN [todo |-> Starts(g), included |-> {}] ELSE Visit(g, walk[k - 1])
  IN  walk

Included(g) == Walk(g)[LongestWalk(g)].included

(***************************************************************************)
(* passesWorkspace: the blocks that put a workspace out, which blocks that *)
(* receive one pass on.                                                    *)
(***************************************************************************)
Makers(g)  == {i \in Blocks(g) : Type(g, i) = "action" /\ g.nodes[i].action \in WorksIn \cup {"worktree"}}
PassingTypes == {"agent", "command", "loop", "router"}

Receives(g, included, i, S) ==
  Type(g, i) \in PassingTypes /\ \E a \in ArrowsInto(g, i) : a.from \in included \cap S

Further(g, included, S) == S \cup {i \in Blocks(g) : Receives(g, included, i, S)}

Passes(g, included) ==
  LET passes[k \in 0..Len(g.nodes)] ==
        IF k = 0 THEN Makers(g) ELSE Further(g, included, passes[k - 1])
  IN  passes

PassesWorkspace(g, included) == Passes(g, included)[Len(g.nodes)]

\* A runPlanner: the graph, the blocks of the run and those that pass a workspace on.
PlannerOf(g) ==
  LET included == Included(g)
  IN  [graph |-> g, included |-> included, passing |-> PassesWorkspace(g, included)]

-----------------------------------------------------------------------------
(***************************************************************************)
(* What a block needs, and what may be wrong with it.                      *)
(***************************************************************************)
Node(p, i) == p.graph.nodes[i]

MutReceivedFromAll(p, i) == ArrowsInto(p.graph, i)
Received(p, i) == {a \in ArrowsInto(p.graph, i) : a.from \in p.included}

IncomingNeeds(p, i) ==
  {[task |-> a.from, port |-> SourcePort(p.graph, a)] : a \in Received(p, i)}
  \cup {[task |-> a.from, port |-> "workspace"] : a \in {b \in Received(p, i) : b.from \in p.passing}}

BadArrows(p, i)  == \E a \in Received(p, i) : SourcePort(p.graph, a) = BadPort
BadOutputs(p, i) == \E a \in Arrows(p.graph) : a.from = i /\ SourcePort(p.graph, a) = BadPort

\* valueNeeds: exactly one arrow brings a value.
TakesOneValue(p, i) ==
  \E a \in Received(p, i) :
    /\ SourcePort(p.graph, a) # NoPort
    /\ {b \in Received(p, i) : SourcePort(p.graph, b) # "workspace"} = {a}

WaitsForAny(p, i) ==
  \/ Node(p, i).any
  \/ /\ LoopOf(p.graph, i) # None
     /\ Node(p, LoopOf(p.graph, i)).any
     /\ ArrowsTo(p.graph, i) = {}

(***************************************************************************)
(* checkTemplate.  The results a text may name are kept by the blocks'     *)
(* names, so two blocks of one name are one result.                        *)
(***************************************************************************)
ResultNames(p, i) ==
  {Node(p, n.task).name : n \in {m \in IncomingNeeds(p, i) : m.port \notin {NoPort, "workspace", "session"}}}

ReceivesWorkspace(p, i) == \E n \in IncomingNeeds(p, i) : n.port = "workspace"

MutFitsAnyBlock(p, i, anyOne) ==
  \A use \in Node(p, i).uses :
    CASE use = "workspace" -> ReceivesWorkspace(p, i)
      [] use = "result"    -> ResultNames(p, i) # {}
      [] OTHER             -> \E j \in p.included : Node(p, j).name = use
FitsTemplate(p, i, anyOne) ==
  \A use \in Node(p, i).uses :
    CASE use = "workspace" -> ReceivesWorkspace(p, i)
      [] use = "result"    -> \/ Cardinality(ResultNames(p, i)) = 1
                              \/ anyOne /\ ResultNames(p, i) # {}
      [] OTHER             -> use \in ResultNames(p, i)

(***************************************************************************)
(* The agent whose conversation a block continues: one connected to it, or *)
(* to the loop it is in when none is; in a loop it may also be its own.    *)
(***************************************************************************)
AgentArrows(p, i) ==
  {a \in ArrowsTo(p.graph, i) : a.from \in p.included /\ Type(p.graph, a.from) = "agent"}

AgentsBefore(p, i) ==
  IF AgentArrows(p, i) = {} /\ LoopOf(p.graph, i) # None
  THEN AgentArrows(p, LoopOf(p.graph, i))
  ELSE AgentArrows(p, i)

MayContinue(p, i) ==
  \/ AgentsBefore(p, i) = {} /\ LoopOf(p.graph, i) # None
  \/ \E a \in AgentsBefore(p, i) : /\ AgentsBefore(p, i) = {a}
                                   /\ Node(p, a.from).backend = Node(p, i).backend

ContinuedNeeds(p, i) ==
  IF Type(p.graph, i) = "agent" /\ Node(p, i).continues
  THEN {[task |-> a.from, port |-> "session"] : a \in AgentsBefore(p, i)}
  ELSE {}

(***************************************************************************)
(* Whether the failing side of a block is taken by somebody: by an arrow   *)
(* or, of the block that ends a loop, by the next repeat.                  *)
(***************************************************************************)
Unhappy == {"failed", "invalid", "exhausted"}

Handles(p, i) ==
  \/ \E a \in Arrows(p.graph) : a.from = i /\ SourcePort(p.graph, a) \in Unhappy
  \/ LoopOf(p.graph, i) # None /\ Node(p, LoopOf(p.graph, i)).until = i

-----------------------------------------------------------------------------
(***************************************************************************)
(* agentTask, commandTask, routerTask, schemaTask, actionTask and loopTask *)
(* refuse a block.                                                         *)
(***************************************************************************)
AgentFails(p, i) ==
  \/ ~Node(p, i).filled
  \/ BadArrows(p, i)
  \/ ~FitsTemplate(p, i, WaitsForAny(p, i))
  \/ Node(p, i).continues /\ ~MayContinue(p, i)

CommandFails(p, i) ==
  \/ ~Node(p, i).filled
  \/ BadArrows(p, i)
  \/ ~FitsTemplate(p, i, WaitsForAny(p, i))
  \/ BadOutputs(p, i)

RouterFails(p, i) == ~Node(p, i).filled \/ BadArrows(p, i) \/ ~TakesOneValue(p, i)

SchemaFails(p, i) ==
  \/ ArrowsTo(p.graph, i) # {}
  \/ ~Node(p, i).filled
  \/ BadArrows(p, i)
  \/ ~TakesOneValue(p, i)
  \/ BadOutputs(p, i)

ActionFails(p, i) ==
  \/ BadArrows(p, i)
  \/ Node(p, i).action \in WorksIn /\ ~ReceivesWorkspace(p, i)
  \/ ~FitsTemplate(p, i, FALSE)
  \/ Node(p, i).action = "issue" /\ ~Node(p, i).filled

LoopFails(p, l) ==
  \/ LoopBody(p.graph, l) = {}
  \/ ~Node(p, l).filled
  \/ LoopOf(p.graph, Node(p, l).until) # l
  \/ Node(p, l).untilPort \notin Choices(p.graph, Node(p, l).until)
  \/ BadArrows(p, l)

BlockFails(p, i) ==
  CASE Type(p.graph, i) = "agent"      -> AgentFails(p, i)
    [] Type(p.graph, i) = "command"    -> CommandFails(p, i)
    [] Type(p.graph, i) = "router"     -> RouterFails(p, i)
    [] Type(p.graph, i) = "jsonschema" -> SchemaFails(p, i)
    [] Type(p.graph, i) = "action"     -> ActionFails(p, i)
    [] Type(p.graph, i) = "loop"       -> LoopFails(p, i)

(***************************************************************************)
(* plan.  A loop that is refused keeps quiet about the blocks inside it.   *)
(***************************************************************************)
TopLevel(p)  == {i \in p.included : LoopOf(p.graph, i) = None}
TopTasks(p)  == PlainFetches(p.graph) \cup TopLevel(p)
Loops(p)     == {l \in TopLevel(p) : Type(p.graph, l) = "loop"}

BlockFailures(p) ==
  {i \in TopLevel(p) : BlockFails(p, i)}
  \cup {i \in Blocks(p.graph) : /\ LoopOf(p.graph, i) \in {l \in Loops(p) : ~LoopFails(p, l)}
                                /\ i \in LoopBody(p.graph, LoopOf(p.graph, i))
                                /\ BlockFails(p, i)}

PlanFailures(g) ==
  IF ~ValidGraph(g) THEN {None}
  ELSE LET p        == PlannerOf(g)
           failures == StartFailures(g) \cup BlockFailures(p)
       IN  IF PlainFetches(g) = {} /\ p.included = {} /\ failures = {} THEN {None} ELSE failures

Steps(p) == TopTasks(p) \cup UNION {LoopBody(p.graph, l) : l \in Loops(p)}

NeedsOf(p, i) ==
  IF i \in PlainFetches(p.graph) THEN {}
  ELSE {n \in IncomingNeeds(p, i) : Type(p.graph, i) = "jsonschema" => n.port # "workspace"}
       \cup ContinuedNeeds(p, i)

PlanOf(g) ==
  LET p == PlannerOf(g)
  IN  [planner |-> p,
       top     |-> TopTasks(p),
       body    |-> [l \in Loops(p) |-> LoopBody(g, l)],
       needs   |-> [i \in Steps(p) |-> NeedsOf(p, i)],
       any     |-> {i \in Steps(p) : \/ Type(g, i) \in {"agent", "command"} /\ WaitsForAny(p, i)
                                     \/ Type(g, i) = "loop" /\ Node(p, i).any},
       handles |-> {i \in Steps(p) : Handles(p, i)}]

-----------------------------------------------------------------------------
(***************************************************************************)
(* Validate: every need is a task of the plan or, in a loop, of what the   *)
(* loop needs, a loop ends inside its body, and nothing waits for itself.  *)
(***************************************************************************)
AcyclicIn(tasks, needs) ==
  \A S \in (SUBSET tasks) \ {{}} : \E i \in S : \A n \in needs[i] : n.task \notin S

Known(tasks, needs, given) == \A i \in tasks : \A n \in needs[i] : n.task \in tasks \cup given

ValidLoop(plan, l, until) ==
  /\ plan.body[l] # {}
  /\ until \in plan.body[l]
  /\ Known(plan.body[l], plan.needs, {n.task : n \in plan.needs[l]})
  /\ AcyclicIn(plan.body[l], plan.needs)

Validate(g, plan) ==
  /\ plan.top # {}
  /\ Known(plan.top, plan.needs, {})
  /\ \A l \in DOMAIN plan.body : ValidLoop(plan, l, g.nodes[l].until)
  /\ AcyclicIn(plan.top, plan.needs)
=============================================================================
