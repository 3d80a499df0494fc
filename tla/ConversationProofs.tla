-------------------------- MODULE ConversationProofs --------------------------
(***************************************************************************)
(* Who owns the sessions of a loop's agents and what they hold, proved for *)
(* every loop body, however often it repeats and replies are rejected.     *)
(***************************************************************************)
EXTENDS Conversation, TLAPS

Owned(s, m) == s \in 1..Len(owner) /\ owner[s] = m

\* The sessions that exist, and what each holds.
Kept ==
  /\ owner \in Seq(Members \cup {Outside})
  /\ remembers \in Seq(SUBSET Nat)
  /\ Len(remembers) = Len(owner) /\ Len(owner) > 0
  /\ number \in Nat

\* Where the loop is, and the sessions it keeps of its agents.
Placed ==
  /\ place \in Nat /\ place > 0
  /\ attempt \in Nat
  /\ attempt > 0 => place <= Len(Body)
  /\ put \in [Members -> Nat] /\ previous \in [Members -> Nat]
  /\ \A m \in Members : put[m] # 0 => Owned(put[m], m)
  /\ \A m \in Members : previous[m] # 0 => Owned(previous[m], m)

\* The turn: its session is the agent's own, and holds it.
Talks ==
  attempt > 0 /\ kind = "turn" =>
    /\ Owned(session, Member)
    /\ number \in remembers[session]
    /\ From[Member] # Nobody /\ previous[Member] # 0 => session = previous[Member]

Corrects == attempt > 1 => kind = "turn" /\ rejected \in remembers[session]

IInv == Kept /\ Placed /\ Talks /\ Corrects

LEMMA MemberOfBody ==
  ASSUME place \in Nat, place > 0, place <= Len(Body)
  PROVE  Member \in Members
BY BodyAssumption DEF Member

LEMMA InitIInv == Init => IInv
<1> SUFFICES ASSUME Init PROVE IInv
  OBVIOUS
<1>1. Kept
  BY DEF Init, Kept
<1>2. Placed
  BY DEF Init, Placed, None
<1>3. Talks /\ Corrects
  BY DEF Init, Talks, Corrects
<1> QED
  BY <1>1, <1>2, <1>3 DEF IInv

(***************************************************************************)
(* A turn: no session goes or changes hands or forgets, and the one the    *)
(* turn is in is the agent's and holds it.                                 *)
(***************************************************************************)
LEMMA TurnKeeps ==
  ASSUME Kept,
         NEW m \in Members, NEW from \in 0..Len(owner), NEW fork \in BOOLEAN,
         from # 0 /\ ~fork => owner[from] = m,
         Turn(m, from, fork)
  PROVE  /\ Kept'
         /\ Owned(session, m)'
         /\ number' \in remembers'[session']
         /\ \A s \in 1..Len(owner) : s \in 1..Len(owner') /\ owner'[s] = owner[s]
         /\ \A s \in 1..Len(owner) : remembers[s] \subseteq remembers'[s]
         /\ from # 0 /\ ~fork => session' = from
<1>0. number \in Nat /\ number' = number + 1
  BY DEF Kept, Turn
<1>1. CASE from # 0 /\ ~fork
  <2>1. /\ remembers' = [remembers EXCEPT ![from] = @ \cup {number + 1}]
        /\ session' = from /\ owner' = owner
    BY <1>1 DEF Turn
  <2>2. from \in 1..Len(remembers) /\ remembers[from] \in SUBSET Nat
    BY <1>1 DEF Kept
  <2>3. remembers' \in Seq(SUBSET Nat) /\ Len(remembers') = Len(remembers)
    BY <2>1, <2>2, <1>0 DEF Kept
  <2>4. /\ remembers'[from] = remembers[from] \cup {number + 1}
        /\ \A s \in 1..Len(remembers) : s # from => remembers'[s] = remembers[s]
    BY <2>1, <2>2 DEF Kept
  <2> QED
    BY <1>0, <1>1, <2>1, <2>2, <2>3, <2>4 DEF Kept, Owned
<1>2. CASE ~(from # 0 /\ ~fork)
  <2>1. /\ remembers' = Append(remembers, Held(from) \cup {number + 1})
        /\ session' = Len(owner) + 1
        /\ owner' = Append(owner, m)
    BY <1>2 DEF Turn
  <2>2. Held(from) \in SUBSET Nat
    BY DEF Held, Kept
  <2>3. /\ remembers' \in Seq(SUBSET Nat) /\ Len(remembers') = Len(remembers) + 1
        /\ \A s \in 1..Len(remembers) : remembers'[s] = remembers[s]
        /\ remembers'[Len(remembers) + 1] = Held(from) \cup {number + 1}
    BY <2>1, <2>2, <1>0 DEF Kept
  <2>4. /\ owner' \in Seq(Members \cup {Outside}) /\ Len(owner') = Len(owner) + 1
        /\ \A s \in 1..Len(owner) : owner'[s] = owner[s]
        /\ owner'[Len(owner) + 1] = m
    BY <2>1 DEF Kept
  <2> QED
    BY <1>0, <1>2, <2>1, <2>3, <2>4 DEF Kept, Owned
<1> QED
  BY <1>1, <1>2

(***************************************************************************)
(* The end of a step leaves what the next one finds.                       *)
(***************************************************************************)
LEMMA OverKeeps ==
  ASSUME IInv, attempt > 0, StepOver, put' \in [Members -> Nat],
         \A m \in Members : put'[m] # 0 => Owned(put'[m], m)
  PROVE  IInv'
<1>1. Kept'
  BY DEF IInv, Kept, StepOver
<1>2. Placed'
  BY DEF IInv, Placed, StepOver, Owned
<1>3. Talks' /\ Corrects'
  BY DEF StepOver, Talks, Corrects
<1> QED
  BY <1>1, <1>2, <1>3 DEF IInv

(***************************************************************************)
(* The sessions of the loop stay what they are while a turn goes on.       *)
(***************************************************************************)
LEMMA TurnPlaced ==
  ASSUME Placed, UNCHANGED loop, place <= Len(Body), attempt' \in Nat,
         \A s \in 1..Len(owner) : s \in 1..Len(owner') /\ owner'[s] = owner[s]
  PROVE  Placed'
BY DEF Placed, loop, Owned

\* What an agent goes on with is its own, or a fork.
LEMMA FirstTurnIsOwn ==
  ASSUME Kept, Placed, NEW m \in Members
  PROVE  /\ FirstTurn(m).from \in 0..Len(owner)
         /\ FirstTurn(m).fork \in BOOLEAN
         /\ FirstTurn(m).from # 0 /\ ~FirstTurn(m).fork => owner[FirstTurn(m).from] = m
         /\ From[m] # Nobody /\ previous[m] # 0 =>
              FirstTurn(m).from = previous[m] /\ FirstTurn(m).fork = FALSE
<1>1. \A n \in Members : put[n] \in 0..Len(owner)
  BY DEF Placed, Kept, Owned
<1>2. From[m] \in Members \cup {Outside, Nobody}
  BY BodyAssumption
<1>3. Given(m) \in 0..Len(owner)
  BY <1>1, <1>2 DEF Given, Kept
<1>4. previous[m] # 0 => previous[m] \in 1..Len(owner) /\ owner[previous[m]] = m
  BY DEF Placed, Owned
<1>5. CASE From[m] # Nobody /\ previous[m] # 0
  <2>1. FirstTurn(m) = [from |-> previous[m], fork |-> FALSE]
    BY <1>5 DEF FirstTurn
  <2> QED
    BY <1>4, <1>5, <2>1
<1>6. CASE ~(From[m] # Nobody /\ previous[m] # 0)
  <2>1. CASE Given(m) = 0
    <3>1. FirstTurn(m) = [from |-> 0, fork |-> FALSE]
      BY <1>6, <2>1 DEF FirstTurn
    <3> QED
      BY <1>3, <1>6, <2>1, <3>1
  <2>2. CASE Given(m) # 0
    <3>1. FirstTurn(m) = [from |-> Given(m), fork |-> TRUE]
      BY <1>6, <2>2 DEF FirstTurn
    <3> QED
      BY <1>3, <1>6, <3>1
  <2> QED
    BY <2>1, <2>2
<1> QED
  BY <1>5, <1>6

LEMMA BeginIInv == IInv /\ Begin => IInv'
<1> SUFFICES ASSUME IInv, Begin PROVE IInv'
  OBVIOUS
<1>0. Kept /\ Placed
  BY DEF IInv
<1>1. /\ place <= Len(Body)
      /\ Turn(Member, FirstTurn(Member).from, FirstTurn(Member).fork)
      /\ attempt' = 1 /\ UNCHANGED loop
  BY DEF Begin, Idle
<1>2. Member \in Members /\ Member' = Member
  BY <1>0, <1>1, MemberOfBody DEF Placed, Member, loop
<1>3. PICK m \in Members : m = Member
  BY <1>2
<1> DEFINE f == FirstTurn(m)
<1>4. /\ f.from \in 0..Len(owner) /\ f.fork \in BOOLEAN
      /\ f.from # 0 /\ ~f.fork => owner[f.from] = m
      /\ From[m] # Nobody /\ previous[m] # 0 => f.from = previous[m] /\ f.fork = FALSE
  BY <1>0, FirstTurnIsOwn
<1>5. Turn(m, f.from, f.fork)
  BY <1>1, <1>3
<1> HIDE DEF f
<1>6. /\ Kept' /\ Owned(session, m)' /\ number' \in remembers'[session']
      /\ \A s \in 1..Len(owner) : s \in 1..Len(owner') /\ owner'[s] = owner[s]
      /\ f.from # 0 /\ ~f.fork => session' = f.from
  BY <1>0, <1>4, <1>5, TurnKeeps
<1>7. Placed'
  BY <1>0, <1>1, <1>6, TurnPlaced
<1>8. Talks'
  <2>1. previous' = previous /\ Member' = m
    BY <1>1, <1>2, <1>3 DEF loop
  <2>2. From[m] # Nobody /\ previous[m] # 0 => session' = previous[m]
    BY <1>4, <1>6
  <2> QED
    BY <1>6, <2>1, <2>2 DEF Talks, Owned
<1>9. Corrects'
  BY <1>1 DEF Corrects
<1> QED
  BY <1>6, <1>7, <1>8, <1>9 DEF IInv

LEMMA RetryIInv == IInv /\ Retry => IInv'
<1> SUFFICES ASSUME IInv, Retry PROVE IInv'
  OBVIOUS
<1>0. Kept /\ Placed /\ Talks
  BY DEF IInv
<1>1. /\ attempt > 0 /\ kind = "turn" /\ attempt' = attempt + 1
      /\ Turn(Member, session, FALSE)
      /\ rejected' = number /\ kind' = "turn" /\ UNCHANGED loop
  BY DEF Retry, Repair, Launch
<1>2. place <= Len(Body) /\ Member \in Members /\ Member' = Member /\ previous' = previous
  BY <1>0, <1>1, MemberOfBody DEF Placed, Member, loop
<1>3. PICK m \in Members : m = Member
  BY <1>2
<1>4. /\ session \in 1..Len(owner) /\ owner[session] = m
      /\ number \in remembers[session]
      /\ From[m] # Nobody /\ previous[m] # 0 => session = previous[m]
  BY <1>0, <1>1, <1>3 DEF Talks, Owned
<1>5. Turn(m, session, FALSE) /\ session # 0 /\ session \in 0..Len(owner)
  <2>1. Turn(m, session, FALSE)
    BY <1>1, <1>3, Zenon
  <2>2. session # 0 /\ session \in 0..Len(owner)
    BY <1>0, <1>4 DEF Kept
  <2> QED
    BY <2>1, <2>2, Zenon
<1>6. /\ Kept' /\ Owned(session, m)' /\ number' \in remembers'[session']
      /\ \A s \in 1..Len(owner) : s \in 1..Len(owner') /\ owner'[s] = owner[s]
      /\ \A s \in 1..Len(owner) : remembers[s] \subseteq remembers'[s]
      /\ session' = session
  BY <1>0, <1>4, <1>5, TurnKeeps
<1>7. Placed'
  <2>1. attempt' \in Nat
    BY <1>0, <1>1 DEF Placed
  <2> QED
    BY <1>0, <1>1, <1>2, <1>6, <2>1, TurnPlaced
<1>8. Talks'
  BY <1>2, <1>3, <1>4, <1>6 DEF Talks, Owned
<1>9. Corrects'
  BY <1>1, <1>4, <1>6 DEF Corrects
<1> QED
  BY <1>6, <1>7, <1>8, <1>9 DEF IInv

(***************************************************************************)
(* The steps of a program change nothing of the conversation.              *)
(***************************************************************************)
LEMMA ProcessKeepsKind == ProcessStep => kind' = kind
BY DEF ProcessStep, Exits, StartsTool, ToolLeaves, ToolEnds, Expire, Kill, Unwatch, Collect, Judge

LEMMA StillIInv ==
  ASSUME IInv, UNCHANGED <<loop, talking, memory>>, kind' = kind
  PROVE  IInv'
<1>1. UNCHANGED <<repeat, place, put, previous, outcome, session, attempt, remembers, owner, rejected, number>>
  BY DEF loop, talking, memory
<1>2. Member' = Member
  BY <1>1 DEF Member
<1> QED
  BY <1>1, <1>2 DEF IInv, Kept, Placed, Talks, Corrects, Owned

LEMMA StepIInv == IInv /\ [Next]_vars => IInv'
<1> SUFFICES ASSUME IInv, [Next]_vars PROVE IInv'
  OBVIOUS
<1>0. Kept /\ Placed /\ Talks /\ Corrects
  BY DEF IInv
<1>1. CASE Begin
  BY <1>1, BeginIInv
<1>2. CASE BeginCommand
  <2>1. /\ place <= Len(Body) /\ attempt' = 1 /\ kind' # "turn"
        /\ UNCHANGED <<repeat, place, put, previous, outcome, session, remembers, owner, rejected, number>>
    BY <1>2 DEF BeginCommand, Idle, Launch, loop, memory
  <2> QED
    BY <1>0, <2>1 DEF IInv, Kept, Placed, Talks, Corrects, Owned
<1>3. CASE Skip
  <2>1. /\ attempt = 0 /\ place' = place + 1
        /\ UNCHANGED <<put, previous, attempt, session, remembers, owner, rejected, number>>
    BY <1>3 DEF Skip, Idle, talking, memory
  <2> QED
    BY <1>0, <2>1 DEF IInv, Kept, Placed, Talks, Corrects, Owned
<1>4. CASE Fails
  BY <1>0, <1>4, OverKeeps DEF Fails, Placed
<1>5. CASE Replies
  <2>1. /\ attempt > 0 /\ kind = "turn" /\ StepOver
        /\ put' = [put EXCEPT ![Member] = session]
    BY <1>5 DEF Replies
  <2>2. Member \in Members
    BY <1>0, <2>1, MemberOfBody DEF Placed
  <2>3. Owned(session, Member) /\ session \in Nat
    BY <1>0, <2>1 DEF Talks, Owned, Kept
  <2>4. put' \in [Members -> Nat] /\ \A m \in Members : put'[m] # 0 => Owned(put'[m], m)
    BY <1>0, <2>1, <2>2, <2>3 DEF Placed
  <2> QED
    BY <2>1, <2>4, OverKeeps
<1>6. CASE Rejects
  BY <1>0, <1>6, OverKeeps DEF Rejects, Placed
<1>7. CASE Retry
  BY <1>7, RetryIInv
<1>8. CASE Gate
  BY <1>0, <1>8, OverKeeps DEF Gate, Placed
<1>9. CASE Again
  <2>1. /\ attempt' = attempt /\ place' = 1 /\ place = Len(Body) + 1
        /\ previous' = put /\ put' = None
        /\ UNCHANGED <<session, remembers, owner, rejected, number>>
    BY <1>9 DEF Again, AtEnd, talking, memory
  <2>2. attempt = 0
    BY <1>0, <2>1, BodyAssumption DEF Placed
  <2>3. Placed'
    BY <1>0, <2>1, <2>2 DEF Placed, None, Owned
  <2> QED
    BY <1>0, <2>1, <2>2, <2>3 DEF IInv, Kept, Talks, Corrects
<1>10. CASE Stop
  <2>1. /\ attempt' = attempt /\ place' = Len(Body) + 2
        /\ place = Len(Body) + 1 \/ attempt = 0
        /\ UNCHANGED <<put, previous, session, remembers, owner, rejected, number>>
    BY <1>10 DEF Stop, AtEnd, Idle, talking, memory
  <2>2. attempt = 0
    BY <1>0, <2>1, BodyAssumption DEF Placed
  <2> QED
    BY <1>0, <2>1, <2>2, BodyAssumption DEF IInv, Kept, Placed, Talks, Corrects, Owned
<1>11. CASE Cancel
  BY <1>11, StillIInv DEF Cancel
<1>12. CASE ProcessStep /\ UNCHANGED <<loop, talking, memory>>
  BY <1>12, ProcessKeepsKind, StillIInv
<1>13. CASE UNCHANGED vars
  BY <1>13, StillIInv DEF vars, process
<1> QED
  BY <1>1, <1>2, <1>3, <1>4, <1>5, <1>6, <1>7, <1>8, <1>9, <1>10, <1>11, <1>12, <1>13 DEF Next, Proceed

(***************************************************************************)
(* However often replies are rejected and the loop repeats, the correction *)
(* of a reply is in the session that holds that reply.                     *)
(***************************************************************************)
THEOREM CorrectsWhatWasRejected == Spec => []RepairsWhatWasRejected
<1>1. IInv => RepairsWhatWasRejected
  BY DEF IInv, Corrects, RepairsWhatWasRejected
<1> QED
  BY <1>1, InitIInv, StepIInv, PTL DEF Spec

(***************************************************************************)
(* No agent goes on with a session another one started, whichever it was   *)
(* given: it forks that one.                                               *)
(***************************************************************************)
THEOREM LeavesOthersUntouched == Spec => []OthersAreUntouched
<1>1. IInv => OthersAreUntouched
  BY DEF IInv, Talks, Owned, OthersAreUntouched
<1> QED
  BY <1>1, InitIInv, StepIInv, PTL DEF Spec

(***************************************************************************)
(* An agent that continues a conversation has in its session all that the  *)
(* session of its last repeat holds.                                       *)
(***************************************************************************)
THEOREM KeepsItsConversation == Spec => []RemembersLastRepeat
<1>1. IInv => RemembersLastRepeat
  BY DEF IInv, Talks, RemembersLastRepeat
<1> QED
  BY <1>1, InitIInv, StepIInv, PTL DEF Spec

-----------------------------------------------------------------------------
(***************************************************************************)
(* The program of a step: it runs only for a step that waits for it, and a *)
(* step that waits has a program that runs, has come to its end, or was    *)
(* killed because the context ended.                                       *)
(***************************************************************************)
Waits == stage \in {"running", "collected"}

ProgramInv ==
  /\ kind \in {"turn", "command", "gate"}
  /\ stage \in {"off", "running", "collected"} \cup Ended
  /\ ctx \in {"live", "cancelled", "expired"}
  /\ leader = "running" => stage = "running" /\ exit = "none"
  /\ leader = "exited" => exit # "none"
  /\ Waits => leader # "none" /\ leader \in {"running", "exited", "killed"}
  /\ Waits /\ leader = "killed" => ctx # "live"
  /\ attempt = 0 => ~Waits

\* A program starts for a step that was not waiting for one.
LEMMA LaunchIsSeen ==
  ASSUME ~Waits, NEW k \in {"turn", "command", "gate"}, NEW c \in {"live", ctx}, Launch(k, c),
         ProgramInv, attempt' # 0
  PROVE  ProgramInv' /\ Promise!Begin
<1>1. ProgramInv'
  BY DEF Launch, ProgramInv, Waits, Ended
<1>2. Promise!Begin
  BY DEF Launch, Waits, EndsAs, Promise!Begin
<1> QED BY <1>1, <1>2

LEMMA ProcessIsSeen ==
  ASSUME ProgramInv, ProcessStep, attempt' = attempt
  PROVE  ProgramInv' /\ [Promise!Next]_Promise!vars
<1> USE DEF ProgramInv, Waits, Ended, EndsAs, Promise!vars, Promise!Next
<1>1. CASE Exits
  BY <1>1 DEF Exits, Promise!ProgramEnds
<1>2. CASE StartsTool \/ ToolLeaves \/ ToolEnds
  BY <1>2 DEF StartsTool, ToolLeaves, ToolEnds
<1>3. CASE Expire
  BY <1>3 DEF Expire, Promise!ContextEnds
<1>4. CASE Kill \/ Unwatch
  BY <1>4 DEF Kill, Unwatch
<1>5. CASE Collect
  BY <1>5 DEF Collect
<1>6. CASE Judge
  <2>1. PICK verdict \in Verdict : stage' = verdict /\ stage = "collected"
                                   /\ UNCHANGED <<kind, leader, exit, tools, watching, ctx>>
    BY <1>6 DEF Judge
  <2>2. leader \in {"exited", "killed"} /\ (leader = "killed" => ctx # "live") /\ (leader = "exited" => exit # "none")
    BY <2>1
  <2>3. ProgramInv'
    BY <2>1, <2>2 DEF Verdict, VerdictOnTurn, VerdictOnCommand
  <2>4. Promise!Answer \/ Promise!Fail \/ Promise!Stop
    BY <2>1, <2>2 DEF Verdict, VerdictOnTurn, VerdictOnCommand,
                         Promise!HasAnExit, Promise!Answer, Promise!Fail, Promise!Stop
  <2> QED BY <2>3, <2>4
<1> QED BY <1>1, <1>2, <1>3, <1>4, <1>5, <1>6 DEF ProcessStep

LEMMA StepIsSeen ==
  ASSUME Placed, ProgramInv, [Next]_vars
  PROVE  ProgramInv' /\ [Promise!Next]_Promise!vars
<1>1. ASSUME UNCHANGED process, attempt' = 0 => attempt = 0 \/ ~Waits
      PROVE  ProgramInv' /\ [Promise!Next]_Promise!vars
  BY <1>1 DEF process, ProgramInv, Waits, Ended, EndsAs, Promise!vars
<1>2. CASE Begin \/ BeginCommand
  <2>1. ~Waits /\ attempt' # 0 /\ \E k \in {"turn", "command", "gate"} : Launch(k, "live")
    BY <1>2 DEF Begin, BeginCommand, Idle, ProgramInv
  <2> QED BY <2>1, LaunchIsSeen DEF Promise!Next
<1>3. CASE Retry
  <2>1. ~Waits /\ attempt' # 0 /\ Launch("turn", ctx)
    BY <1>3 DEF Retry, Waits, Placed
  <2> QED BY <2>1, LaunchIsSeen DEF Promise!Next
<1>4. CASE Fails \/ Replies \/ Rejects \/ Gate
  BY <1>1, <1>4 DEF Fails, Replies, Rejects, Gate, StepOver, Waits
<1>5. CASE Skip \/ Again \/ Stop \/ UNCHANGED vars
  BY <1>1, <1>5 DEF Skip, Again, Stop, vars, talking
<1>6. CASE Cancel
  <2>1. Promise!ContextEnds
    BY <1>6 DEF Cancel, EndsAs, Promise!ContextEnds
  <2>2. ProgramInv'
    BY <1>6 DEF Cancel, talking, ProgramInv, Waits
  <2> QED BY <2>1, <2>2 DEF Promise!Next
<1>7. CASE ProcessStep /\ UNCHANGED <<loop, talking, memory>>
  BY <1>7, ProcessIsSeen DEF talking
<1> QED BY <1>2, <1>3, <1>4, <1>5, <1>6, <1>7 DEF Next, Proceed

(***************************************************************************)
(* Every step of a loop's agents and commands is one StepTask allows or    *)
(* does not see: one that says it was stopped had its context ended, and   *)
(* one that answered or failed did so for a program that came to its end,  *)
(* or is a cancelled command, which takes the kill for an exit.            *)
(***************************************************************************)
THEOREM StepsKeepThePromise == Spec => Promise!Init /\ [][Promise!Next]_Promise!vars
<1>1. Init => Promise!Init /\ ProgramInv
  BY DEF Init, ProcessInit, Promise!Init, EndsAs, ProgramInv, Waits, Ended
<1>2. IInv => Placed
  BY DEF IInv
<1>3. Placed /\ ProgramInv /\ [Next]_vars => ProgramInv' /\ [Promise!Next]_Promise!vars
  BY StepIsSeen
<1> QED
  BY <1>1, <1>2, <1>3, InitIInv, StepIInv, PTL DEF Spec
=============================================================================
