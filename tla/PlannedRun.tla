------------------------------- MODULE PlannedRun -------------------------------
(***************************************************************************)
(* A workflow from its graph to the end of its run and of its retry        *)
(* (internal/app: start, reuseSucceededSteps and what each kind of block   *)
(* puts out; internal/engine: gather, loop).  The scheduler, cancellation  *)
(* and breakpoints are Engine's: here a block settles in one step once     *)
(* what it needs has settled, so that graphs of every kind of block fit.   *)
(***************************************************************************)
EXTENDS Planner

CONSTANTS
  Graphs,     \* the graphs a run may be asked for
  MaxTries    \* bound: how often one workflow is run, retries included

\* A block is its place in the graph and knows its own fields; only texts use placeholders.
ASSUME GraphsAssumption ==
  \A g \in Graphs :
    /\ Blocks(g) = 1..Len(g.nodes)
    /\ DOMAIN g.edges = 1..Len(g.edges)
    /\ Len(g.nodes) \in Nat /\ Len(g.edges) \in Nat
    /\ \A i \in Blocks(g) :
         /\ g.nodes[i].uses # {} => Type(g, i) \in {"agent", "command", "action"}
         /\ g.nodes[i].action \in WorksIn => Type(g, i) = "action"
         /\ g.nodes[i].repeats \in Nat \ {0}

ASSUME TriesAssumption == MaxTries \in Nat \ {0}

VARIABLES
  graph,
  phase,      \* "asked", "refused", "running" or "over"
  plan,       \* the tasks of an accepted graph
  step,       \* what became of each task of this run
  repeat,     \* which repeat a running loop is on
  recorded,   \* the outputs that this run reuses, by step
  tries

vars == <<graph, phase, plan, step, repeat, recorded, tries>>

NoPlan    == [planner |-> None, top |-> {}, body |-> <<>>, needs |-> <<>>, any |-> {}, handles |-> {}]
NoOutcome == [status |-> "pending", outputs |-> {}]
Bare(status) == [status |-> status, outputs |-> {}]
Done(outputs) == [status |-> "succeeded", outputs |-> outputs]

Init ==
  /\ graph \in Graphs
  /\ phase = "asked"
  /\ plan = NoPlan
  /\ step = <<>>
  /\ repeat = <<>>
  /\ recorded = <<>>
  /\ tries = 0

-----------------------------------------------------------------------------
(***************************************************************************)
(* What has arrived at a task.  The engine runs a loop's body as a plan of *)
(* its own, to which what the loop needs is given.                         *)
(***************************************************************************)
Peers(i) == IF LoopOf(graph, i) = None THEN plan.top ELSE plan.body[LoopOf(graph, i)]

Status(i)   == step[i].status
Settled(i)  == Status(i) \in {"succeeded", "failed", "skipped"}
Gone(i)     == Status(i) \in {"failed", "skipped"}

Lacking(i, n) == \/ n.task \in Peers(i) /\ Gone(n.task)
                 \/ n.port # NoPort /\ n.port \notin step[n.task].outputs

Missing(i) == {n.task : n \in {m \in plan.needs[i] : Lacking(i, m)}}

\* nameOf: two named tasks of one plan are told apart by their names only.
SameName(i, t, u) ==
  t = u \/ /\ {t, u} \subseteq Peers(i)
           /\ graph.nodes[t].name = graph.nodes[u].name
           /\ graph.nodes[t].name # ""

Inputs(i) ==
  {n \in plan.needs[i] :
     /\ n.port # NoPort
     /\ ~Lacking(i, n)
     /\ i \in plan.any => \A t \in Missing(i) : ~SameName(i, t, n.task)}

Arrives(i) == Missing(i) = {} \/ (i \in plan.any /\ Inputs(i) # {})

Ready(i) ==
  /\ phase = "running"
  /\ Status(i) = "pending"
  /\ LoopOf(graph, i) # None => Status(LoopOf(graph, i)) = "running"
  /\ \A n \in plan.needs[i] : n.task \in Peers(i) => Settled(n.task)

-----------------------------------------------------------------------------
(***************************************************************************)
(* What a block may put out.  A workspace that arrived goes on beside it.  *)
(***************************************************************************)
MutNothingAlong(i) == {}
Along(i) == IF \E n \in Inputs(i) : n.port = "workspace" THEN {"workspace"} ELSE {}

ActionOutputs ==
  [fetch |-> {}, issue |-> {"issue"}, worktree |-> {"workspace"}, rebase |-> {"workspace"},
   commit |-> {"workspace"}, push |-> {"workspace"}, pullrequest |-> {"workspace", "pullRequest"}]

Puts(i) ==
  LET type == Type(graph, i)
  IN  CASE type = "agent"      -> {{"result"} \cup Along(i) \cup s : s \in {{}, {"session"}}}
        [] type = "command"    -> {{o} \cup Along(i) : o \in Choices(graph, i)}
        [] type = "jsonschema" -> {{o} : o \in Choices(graph, i)}
        [] type = "router"     -> {{o} \cup Along(i) : o \in Choices(graph, i)}
        [] type = "action"     -> {ActionOutputs[graph.nodes[i].action]}
        [] OTHER               -> {{}}

\* A gate's unhappy output that nobody takes fails the gate.
Taken(i, outputs) == i \in plan.handles \/ outputs \cap {"failed", "invalid"} = {}

-----------------------------------------------------------------------------
(***************************************************************************)
(* start: plan the graph, validate the plan, record every step pending.    *)
(***************************************************************************)
Accepted(g) == PlanFailures(g) = {} /\ Validate(g, PlanOf(g))

Pending(tasks) == [i \in tasks |-> NoOutcome]
StepsOf(p, reused) == p.top \cup UNION {p.body[l] : l \in DOMAIN p.body \ reused}

Accept ==
  /\ plan' = PlanOf(graph)
  /\ step' = Pending(StepsOf(plan', {}))
  /\ repeat' = [l \in DOMAIN plan'.body |-> 0]
  /\ phase' = "running"
  /\ tries' = 1
  /\ UNCHANGED <<graph, recorded>>

Refuse ==
  /\ phase' = "refused"
  /\ UNCHANGED <<graph, plan, step, repeat, recorded, tries>>

Start ==
  /\ phase = "asked"
  /\ IF Accepted(graph) THEN Accept ELSE Refuse

\* settleStep: a loop takes the blocks it holds with it.
Skip(i) ==
  /\ Ready(i)
  /\ ~Arrives(i)
  /\ step' = [j \in DOMAIN step |->
                IF j = i \/ j \in Inside(graph, i) THEN Bare("skipped") ELSE step[j]]
  /\ UNCHANGED <<graph, phase, plan, repeat, recorded, tries>>

Settles(i, outcome) ==
  /\ step' = [step EXCEPT ![i] = outcome]
  /\ UNCHANGED <<graph, phase, plan, repeat, recorded, tries>>

Runs(i) == Ready(i) /\ Arrives(i) /\ i \notin DOMAIN recorded

Run(i) ==
  /\ Runs(i)
  /\ Type(graph, i) # "loop"
  /\ \/ Settles(i, Bare("failed"))
     \/ \E outputs \in Puts(i) :
          Settles(i, IF Taken(i, outputs) THEN Done(outputs) ELSE Bare("failed"))

-----------------------------------------------------------------------------
(***************************************************************************)
(* loopRunner.run: the body is run afresh on every repeat, until its last  *)
(* block takes the chosen output or a block of it fails.                   *)
(***************************************************************************)
Body(l)    == plan.body[l]
Until(l)   == graph.nodes[l].until
Ended(l)   == graph.nodes[l].untilPort \in step[Until(l)].outputs
Spent(l)   == repeat[l] = graph.nodes[l].repeats

Repeats(l) ==
  /\ step' = [j \in DOMAIN step |->
                CASE j = l -> Bare("running") [] j \in Body(l) -> NoOutcome [] OTHER -> step[j]]
  /\ repeat' = [repeat EXCEPT ![l] = @ + 1]
  /\ UNCHANGED <<graph, phase, plan, recorded, tries>>

BeginLoop(l) == Runs(l) /\ Type(graph, l) = "loop" /\ Repeats(l)

RepeatOver(l) ==
  /\ phase = "running"
  /\ Status(l) = "running"
  /\ \A i \in Body(l) : Settled(i)

StopLoop(l) ==
  /\ RepeatOver(l)
  /\ \E i \in Body(l) : Status(i) = "failed"
  /\ Settles(l, Bare("failed"))

RepeatLoop(l) ==
  /\ RepeatOver(l)
  /\ \A i \in Body(l) : Status(i) # "failed"
  /\ ~Ended(l)
  /\ ~Spent(l)
  /\ Repeats(l)

EndLoop(l) ==
  /\ RepeatOver(l)
  /\ \A i \in Body(l) : Status(i) # "failed"
  /\ Ended(l) \/ Spent(l)
  /\ Settles(l, CASE Ended(l)                        -> Done({"done"} \cup Along(l))
                  [] ~Ended(l) /\ l \in plan.handles -> Done({"exhausted"} \cup Along(l))
                  [] OTHER                           -> Bare("failed"))

-----------------------------------------------------------------------------
Finish ==
  /\ phase = "running"
  /\ \A i \in plan.top : Settled(i)
  /\ phase' = "over"
  /\ UNCHANGED <<graph, plan, step, repeat, recorded, tries>>

(***************************************************************************)
(* Retry: the steps that succeeded give back what they put out instead of  *)
(* running; a loop that did holds no blocks this time.                     *)
(***************************************************************************)
MutRestoredResults(outputs) == outputs \ {"workspace"}
\* restoredOutputs: every port stays, and a workspace is one again.
Restored(outputs) == {port \in outputs : port = "workspace"} \cup
                     {port \in outputs : port # "workspace"}

Retry ==
  /\ phase = "over"
  /\ tries < MaxTries
  /\ \E i \in plan.top : Status(i) = "failed"
  /\ recorded' = [i \in {j \in plan.top : Status(j) = "succeeded"} |-> step[i].outputs]
  /\ step' = Pending(StepsOf(plan, DOMAIN recorded'))
  /\ repeat' = [l \in DOMAIN plan.body |-> 0]
  /\ phase' = "running"
  /\ tries' = tries + 1
  /\ UNCHANGED <<graph, plan>>

Reuse(i) ==
  /\ Ready(i)
  /\ Arrives(i)
  /\ i \in DOMAIN recorded
  /\ Settles(i, Done(Restored(recorded[i])))

Tasks == DOMAIN step
Loop  == DOMAIN step \cap DOMAIN repeat

Going ==
  \/ Start
  \/ Finish
  \/ \E i \in Tasks : Skip(i) \/ Run(i) \/ Reuse(i)
  \/ \E l \in Loop : BeginLoop(l) \/ StopLoop(l) \/ RepeatLoop(l) \/ EndLoop(l)

Next == Going \/ Retry

Spec == Init /\ [][Next]_vars
-----------------------------------------------------------------------------
(***************************************************************************)
(* Properties.  Some hold of the graphs the editor is meant to draw.       *)
(***************************************************************************)
Runnable(g) == {i \in Blocks(g) : Type(g, i) \in Executable}

\* Every arrow joins two blocks of one loop, or two outside every loop.
OneLevel(g) ==
  \A a \in Arrows(g) : {a.from, a.to} \subseteq Runnable(g) => LoopOf(g, a.from) = LoopOf(g, a.to)

\* No block leads to itself, through the agent it checks or otherwise.
NoCycle(g) ==
  AcyclicIn(Runnable(g), [i \in Runnable(g) |->
    {[task |-> a.from] : a \in ArrowsTo(g, i)} \cup
    {[task |-> j] : j \in {CheckedAgent(g, i)} \ {None}}])

\* A block that takes any arrow gets a workspace along all of them or along none.
JoinsAgree(p) ==
  LET carries == {a \in Arrows(p.graph) : a.from \in p.included \cap p.passing}
  IN  \A i \in {j \in p.included : Node(p, j).any} :
        \/ Received(p, i) \cap carries = {}
        \/ Received(p, i) \subseteq carries

\* A block that takes any arrow continues only an agent that an arrow comes from.
SessionsComeAlong(p) ==
  \A i \in {j \in p.included : Node(p, j).any} : \A n \in ContinuedNeeds(p, i) :
    \E a \in Received(p, i) : a.from = n.task

\* The graph was accepted.
Planned == plan.top # {}

TypeOK ==
  /\ graph \in Graphs
  /\ phase \in {"asked", "refused", "running", "over"}
  /\ (plan.top = {}) = (phase \in {"asked", "refused"})
  /\ DOMAIN step = StepsOf(plan, DOMAIN recorded)
  /\ \A i \in Tasks : /\ Status(i) \in {"pending", "running", "succeeded", "failed", "skipped"}
                      /\ Status(i) = "running" => i \in Loop
                      /\ Status(i) # "succeeded" => step[i].outputs = {}
  /\ \A l \in DOMAIN repeat : repeat[l] \in 0..graph.nodes[l].repeats
  /\ tries \in 0..MaxTries

(***************************************************************************)
(* A graph whose blocks raise no problem is run: where no arrow crosses    *)
(* the edge of a loop and no block leads to itself, what plan builds       *)
(* passes Validate, with no need on a block that is no task.               *)
(***************************************************************************)
PlannedIsValid ==
  phase = "refused" /\ OneLevel(graph) /\ NoCycle(graph) => PlanFailures(graph) # {}

(***************************************************************************)
(* Of an accepted graph without arrows across the edge of a loop, the      *)
(* tasks are the blocks that a starting point leads to and the fetches of  *)
(* bare GitHub blocks: the walk of include, which marks what a loop holds  *)
(* without following it, leaves out none and brings in no other.           *)
(***************************************************************************)
ClosedUnder(g, S) ==
  \A i \in S : /\ \A a \in Arrows(g) : a.from = i /\ a.to \in Runnable(g) => a.to \in S
               /\ \A c \in Runnable(g) : i \in {CheckedAgent(g, c), LoopOf(g, c)} => c \in S

\* What holds the starts and all that they lead to, and holds nothing else.
Reached(g) ==
  LET first  == {Starts(g)[k] : k \in DOMAIN Starts(g)} \ {None}
      others == Runnable(g) \ first
      closed == {S \in {first \cup more : more \in SUBSET others} : ClosedUnder(g, S)}
  IN  {i \in Runnable(g) : \A S \in closed : i \in S}

ReachedIsPlanned ==
  phase = "asked" /\ OneLevel(graph) /\ Accepted(graph) =>
    StepsOf(PlanOf(graph), {}) = Reached(graph) \cup PlainFetches(graph)

(***************************************************************************)
(* A block is skipped because of its own arrows: the loop around it was,   *)
(* or an arrow into it comes from a block that failed, was skipped or took *)
(* another branch, or the agent it continues reported no session.  It is   *)
(* never skipped for a workspace that the plan said would come along.      *)
(***************************************************************************)
NotTaken(a) ==
  \/ Gone(a.from)
  \/ SourcePort(graph, a) \notin step[a.from].outputs \cup {NoPort}

SkippedForItsArrows ==
  phase \in {"running", "over"} /\ JoinsAgree(plan.planner) /\ SessionsComeAlong(plan.planner) =>
    \A i \in {j \in Tasks : Status(j) = "skipped"} :
      \/ LoopOf(graph, i) \in Tasks /\ Status(LoopOf(graph, i)) = "skipped"
      \/ \E a \in ArrowsInto(graph, i) : a.from \in Tasks /\ NotTaken(a)
      \/ \E n \in plan.needs[i] : n.port = "session" /\ Lacking(i, n)

(***************************************************************************)
(* A block that takes all of its arrows has a value for every placeholder  *)
(* of its text when it runs, and a workspace if it is an action that works *)
(* in one: what checkTemplate accepted of the graph arrives in the run, in *)
(* every repeat and in a retry.                                            *)
(***************************************************************************)
Ran(i) == Status(i) \in {"running", "succeeded", "failed"} /\ i \notin DOMAIN recorded

Uses(i) == graph.nodes[i].uses \cup
           (IF graph.nodes[i].action \in WorksIn THEN {"workspace"} ELSE {})

HasValue(i, use) ==
  \E n \in Inputs(i) :
    CASE use = "workspace" -> n.port = "workspace"
      [] use = "result"    -> n.port \notin {"workspace", "session"}
      [] OTHER             -> /\ n.port \notin {"workspace", "session"}
                              /\ graph.nodes[n.task].name = use

PlaceholdersHaveValues ==
  \A i \in {j \in Tasks : Ran(j)} \ plan.any : \A use \in Uses(i) : HasValue(i, use)

(***************************************************************************)
(* A step that succeeded is not lost in a retry: it gives back what it put *)
(* out, whatever becomes of the steps that run again around it, the ones   *)
(* before a block that takes any arrow included.                           *)
(***************************************************************************)
ReusedGiveBack ==
  phase = "over" => \A i \in DOMAIN recorded : step[i] = Done(recorded[i])

(***************************************************************************)
(* A run that is not over always has something to do: a block that may     *)
(* settle, or a loop whose repeat is over.  No two blocks wait for each    *)
(* other, across the edge of a loop or after a retry either.               *)
(***************************************************************************)
NeverStuck ==
  phase = "running" =>
    \/ \A i \in plan.top : Settled(i)
    \/ \E i \in Tasks : Ready(i)
    \/ \E l \in Loop : RepeatOver(l)

(***************************************************************************)
(* What is said of every graph.  CheckWorkflow "lists every problem a run  *)
(* of the workflow would meet" (problems.go:24).                           *)
(***************************************************************************)
ProblemsAreAll == phase = "refused" => PlanFailures(graph) # {}

(***************************************************************************)
(* "included are the blocks this run executes" (run.go:273).               *)
(***************************************************************************)
IncludedIsExecuted == Planned => plan.planner.included \subseteq StepsOf(plan, {})

(***************************************************************************)
(* checkTemplate "refuses placeholders the block will have nothing for"    *)
(* (template.go:50).                                                       *)
(***************************************************************************)
NothingIsBlank ==
  \A i \in {j \in Tasks : Ran(j)} : \A use \in Uses(i) : HasValue(i, use)

(***************************************************************************)
(* "WaitForAny runs an agent, command or loop when any of the arrows into  *)
(* it arrives" (workflow.go:75).                                           *)
(***************************************************************************)
RunsOnAnArrow ==
  \A i \in {j \in Tasks : Ran(j)} \cap plan.any :
    Received(plan.planner, i) # {} => \E a \in Received(plan.planner, i) : ~NotTaken(a)

(***************************************************************************)
(* passesWorkspace "reports whether a block outputs a workspace"           *)
(* (run.go:616): one of which it does puts one out when it succeeds.       *)
(***************************************************************************)
PassingPutsOut ==
  \A i \in Tasks : Status(i) = "succeeded" /\ i \in plan.planner.passing
                     => "workspace" \in step[i].outputs
=============================================================================
