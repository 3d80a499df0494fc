---------------------------- MODULE Conversation ----------------------------
(***************************************************************************)
(* The agents and commands of a loop's body, one after the other, over the *)
(* repeats of the loop (agentTask of internal/app/agent_run.go,            *)
(* commandTask of command_run.go, Previous of internal/engine/loop.go), and *)
(* the conversation each agent has: attempts until the reply satisfies the *)
(* schema, each a turn of its CLI (talk of internal/agents/talk.go).       *)
(*                                                                         *)
(* A session is what the CLI remembers of the turns it holds, here their   *)
(* numbers.  A turn starts a session, goes on with one, or forks it.  One  *)
(* agent outside the loop has had turn 1 in session 1.                     *)
(***************************************************************************)
EXTENDS StepProcess, Sequences, FiniteSets

CONSTANTS
  Members,     \* the blocks of the body
  Body,        \* their order
  Commands,    \* those that are commands
  Until,       \* the one that ends the loop when it passes
  Caught,      \* those whose `failed` output an arrow takes
  From,        \* whose conversation each agent continues: its own, another's or none
  OnAny,       \* the blocks that run on any arrow into them
  Branches,    \* the blocks that the repeat may not lead to
  Outside,     \* the agent outside the loop
  Nobody,
  Checked,     \* the agents with a schema
  Retries,
  Budget,      \* what a conversation may cost; 0 is no budget
  MaxRepeats,
  Prices       \* what a turn may cost, which bounds the model

ASSUME BodyAssumption ==
  /\ Body \in Seq(Members) /\ Commands \subseteq Members
  /\ Until \in Commands /\ Caught \subseteq Commands
  /\ Checked \subseteq Members \ Commands /\ OnAny \subseteq Members /\ Branches \subseteq Members
  /\ From \in [Members -> Members \cup {Outside, Nobody}]
  /\ {Outside, Nobody} \cap Members = {} /\ Outside # Nobody
ASSUME BoundAssumption ==
  /\ Retries \in Nat /\ Budget \in Nat /\ Prices \subseteq Nat
  /\ MaxRepeats \in Nat \ {0}

VARIABLES
  repeat,      \* the repeat of the loop
  place,       \* which block of the body is next or at work
  put,         \* the session each agent put out in this repeat; 0 for none
  previous,    \* the same, of the repeat before
  session,     \* the session of the turn, 0 before there is one
  attempt,     \* the number of the turn in its conversation, 0 between steps
  spent,       \* what the conversation has cost, as far as it is known
  known,       \* whether any of it is
  outcome,     \* of the loop: "open", "passed" or "failed"
  remembers,   \* the turns each session holds
  owner,       \* history: who started each session
  rejected,    \* history: the last turn of the conversation whose reply was rejected
  number       \* history: how many turns there were

loop     == <<repeat, place, put, previous, outcome>>
talking  == <<session, attempt, spent, known>>
memory   == <<remembers, owner, rejected, number>>
vars     == <<process, loop, talking, memory>>

Sessions == 0..Len(owner)
None     == [m \in Members |-> 0]

TypeOK ==
  /\ ProcessTypeOK
  /\ repeat \in 1..MaxRepeats
  /\ place \in 1..(Len(Body) + 2)
  /\ put \in [Members -> Sessions] /\ previous \in [Members -> Sessions]
  /\ session \in Sessions
  /\ attempt \in 0..(Retries + 1)
  /\ spent \in Nat /\ known \in BOOLEAN
  /\ outcome \in {"open", "passed", "failed"}
  /\ owner \in Seq(Members \cup {Outside})
  /\ number \in Nat /\ rejected \in 0..number
  /\ remembers \in [1..Len(owner) -> SUBSET (1..number)]

Init ==
  /\ ProcessInit
  /\ repeat = 1 /\ place = 1
  /\ put = None /\ previous = None
  /\ session = 0 /\ attempt = 0 /\ spent = 0 /\ known = FALSE /\ outcome = "open"
  /\ remembers = <<{1}>> /\ owner = <<Outside>>
  /\ rejected = 0 /\ number = 1

-----------------------------------------------------------------------------
Over     == place = Len(Body) + 2
AtEnd    == place = Len(Body) + 1
Member   == Body[place]
Idle     == place <= Len(Body) /\ attempt = 0
Agents   == Members \ Commands

\* The input an agent has on its session port; 0 for none.
Given(m) ==
  CASE From[m] = Outside        -> 1
    [] From[m] \in {Nobody, m}  -> 0
    [] OTHER                    -> put[From[m]]

\* Without the session of the agent before it a block is skipped, unless
\* another arrow is enough.
HasNeeds(m) == m \in OnAny \/ From[m] \in {Nobody, m} \/ Given(m) # 0

-----------------------------------------------------------------------------
(***************************************************************************)
(* A turn of agent m on the session `from`: the CLI notes it in the        *)
(* session it goes on with, in the copy of one it forks, or in a new one.  *)
(***************************************************************************)
Held(from) == IF from = 0 THEN {} ELSE remembers[from]

Turn(m, from, fork) ==
  /\ number' = number + 1
  /\ IF from # 0 /\ ~fork
     THEN /\ remembers' = [remembers EXCEPT ![from] = @ \cup {number + 1}]
          /\ session' = from
          /\ UNCHANGED owner
     ELSE /\ remembers' = Append(remembers, Held(from) \cup {number + 1})
          /\ session' = Len(owner) + 1
          /\ owner' = Append(owner, m)

\* The first turn: its own session of the repeat before, or a fork of the
\* one it was given.
MutGivenOnly(m) == [from |-> Given(m), fork |-> FALSE]
FirstTurn(m) ==
  IF From[m] # Nobody /\ previous[m] # 0
  THEN [from |-> previous[m], fork |-> FALSE]
  ELSE [from |-> Given(m), fork |-> Given(m) # 0]

Begin ==
  /\ Idle /\ ctx # "cancelled"
  /\ Member \in Agents /\ HasNeeds(Member)
  /\ Turn(Member, FirstTurn(Member).from, FirstTurn(Member).fork)
  /\ attempt' = 1 /\ spent' = 0 /\ known' = FALSE /\ rejected' = 0
  /\ Launch("turn", "live")
  /\ UNCHANGED loop

\* The loop around the command that ends it runs again if it fails.
HandlesFailure(m) == m = Until \/ m \in Caught

BeginCommand ==
  /\ Idle /\ ctx # "cancelled"
  /\ Member \in Commands
  /\ attempt' = 1
  /\ Launch(IF HandlesFailure(Member) THEN "gate" ELSE "command", "live")
  /\ UNCHANGED <<loop, session, spent, known, memory>>

Skip ==
  /\ Idle /\ ctx # "cancelled"
  /\ Member \in Branches \/ ~HasNeeds(Member)
  /\ place' = place + 1
  /\ UNCHANGED <<process, repeat, put, previous, outcome, talking, memory>>

-----------------------------------------------------------------------------
(***************************************************************************)
(* The turn is over.                                                       *)
(***************************************************************************)
StepOver ==
  /\ place' = place + 1
  /\ attempt' = 0
  /\ session' = 0 /\ spent' = 0 /\ known' = FALSE
  /\ rejected' = 0
  /\ UNCHANGED <<process, repeat, previous, remembers, owner, number>>

\* A turn or command that failed or was stopped fails the step, and that the
\* loop once the repeat is over.
Fails ==
  /\ attempt > 0
  /\ stage \in {"failed", "stopped"}
  /\ outcome' = "failed"
  /\ StepOver
  /\ UNCHANGED put

\* Without a schema, and with a reply that satisfies it.
Replies ==
  /\ attempt > 0 /\ kind = "turn" /\ stage = "answered"
  /\ put' = [put EXCEPT ![Member] = session]
  /\ StepOver
  /\ UNCHANGED outcome

\* What the conversation has cost once this turn is added.
Cost(price) == spent + price

OverBudget(cost, isKnown) == Budget > 0 /\ isKnown /\ cost > Budget

\* The reply does not satisfy the schema, and there is no retry left, or no budget.
Rejects ==
  /\ attempt > 0 /\ kind = "turn" /\ stage = "answered" /\ Member \in Checked
  /\ \E price \in Prices, priced \in BOOLEAN :
       attempt > Retries \/ OverBudget(IF priced THEN Cost(price) ELSE spent, known \/ priced)
  /\ outcome' = "failed"
  /\ StepOver
  /\ UNCHANGED put

\* The correction goes to the session of the reply it is about.
MutSameTurn == [from |-> IF previous[Member] # 0 THEN previous[Member] ELSE Given(Member), fork |-> TRUE]
Repair == [from |-> session, fork |-> FALSE]

Retry ==
  /\ attempt > 0 /\ kind = "turn" /\ stage = "answered" /\ Member \in Checked
  /\ attempt <= Retries
  /\ \E price \in Prices, priced \in BOOLEAN :
       /\ spent' = IF priced THEN Cost(price) ELSE spent
       /\ known' = (known \/ priced)
       /\ ~OverBudget(spent', known')
  /\ attempt' = attempt + 1
  /\ rejected' = number
  /\ Turn(Member, Repair.from, Repair.fork)
  /\ Launch("turn", ctx)
  /\ UNCHANGED loop

\* Exit status 0 leaves on `passed`, which ends the loop if this is the
\* command to end it; any other on `failed`, where that is handled.
Gate ==
  /\ attempt > 0 /\ kind # "turn" /\ stage = "answered"
  /\ outcome' = IF Member = Until /\ exit = "zero" /\ outcome = "open" THEN "passed" ELSE outcome
  /\ StepOver
  /\ UNCHANGED put

-----------------------------------------------------------------------------
\* The loop: what it kept of a repeat is what the next one calls previous.
Again ==
  /\ AtEnd /\ outcome = "open" /\ repeat < MaxRepeats /\ ctx # "cancelled"
  /\ repeat' = repeat + 1
  /\ place' = 1
  /\ previous' = put
  /\ put' = None
  /\ UNCHANGED <<process, outcome, talking, memory>>

Stop ==
  /\ \/ AtEnd /\ (outcome # "open" \/ repeat = MaxRepeats \/ ctx = "cancelled")
     \/ Idle /\ ctx = "cancelled"
  /\ place' = Len(Body) + 2
  /\ UNCHANGED <<process, repeat, put, previous, outcome, talking, memory>>

\* The cancellation of the run ends the context of the step too; after its
\* timeout the step no longer notices.
Cancel ==
  /\ ~Over
  /\ ctx # "cancelled"
  /\ stage \in {"running", "collected"} => ctx = "live"
  /\ ctx' = "cancelled"
  /\ UNCHANGED <<kind, stage, leader, exit, tools, watching, loop, talking, memory>>

Proceed == Begin \/ BeginCommand \/ Skip \/ Fails \/ Replies \/ Rejects \/ Retry \/ Gate \/ Again \/ Stop

Next ==
  \/ Proceed
  \/ Cancel
  \/ ProcessStep /\ UNCHANGED <<loop, talking, memory>>

Spec == Init /\ [][Next]_vars /\ WF_vars(Proceed) /\ ProcessFairness

-----------------------------------------------------------------------------
(***************************************************************************)
(* A step keeps what the engine expects of it (StepTask), whatever its     *)
(* program, the program's tools, its timeout and a cancellation do, and in *)
(* whichever order; a cancelled command takes the program that was killed  *)
(* for one that exited with -1, and answers or, where nothing handles its  *)
(* failure, fails.                                                         *)
(***************************************************************************)
KeepsPromise == Promise!Spec

\* Without that exception.
AnswersForItsProgram == StrictPromise!Spec

(***************************************************************************)
(* Every step of the loop ends, and so does the loop.                      *)
(***************************************************************************)
LoopIsOver == <>Over

(***************************************************************************)
(* talk.go: "The rejected reply is not quoted back: the session holds it". *)
(***************************************************************************)
RepairsWhatWasRejected ==
  attempt > 1 => rejected \in remembers[session]

(***************************************************************************)
(* Turn.Fork: a conversation that is continued is left untouched: a turn   *)
(* goes on with a session only if its own agent started it.                *)
(***************************************************************************)
OthersAreUntouched ==
  attempt > 0 /\ kind = "turn" => owner[session] = Member

(***************************************************************************)
(* What an agent that continues a conversation knows of its own: all it    *)
(* was told in the repeat before, whatever the loop and its retries did.   *)
(***************************************************************************)
RemembersLastRepeat ==
  attempt > 0 /\ kind = "turn" /\ From[Member] # Nobody /\ previous[Member] # 0 =>
    remembers[previous[Member]] \subseteq remembers[session]

(***************************************************************************)
(* agent_run.go: "In a loop's later iterations, the agent continues its    *)
(* own conversation rather than another copy of the one it started from."  *)
(***************************************************************************)
OwnConversationContinues ==
  \A m \in Agents : From[m] # Nobody => Cardinality({s \in DOMAIN owner : owner[s] = m}) <= 1
=============================================================================
