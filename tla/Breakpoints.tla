---------------------------- MODULE Breakpoints ----------------------------
(***************************************************************************)
(* The registry of the breakpoints this server's runs wait at              *)
(* (internal/app/breakpoint_run.go): one goroutine per paused block, which *)
(* registers a channel in a map and waits for an answer or the             *)
(* cancellation of its run; the requests that answer; and the record of    *)
(* the run, in which whoever answers reads that the block is paused.       *)
(*                                                                         *)
(* A block pauses again in the next repeat of a loop, after the scheduler  *)
(* took it on from its last pause (LoopRun, OneRepeatAtATime).             *)
(***************************************************************************)
EXTENDS Integers, FiniteSets

CONSTANTS
  Runs,
  Blocks,
  NoBlock,     \* the request leaves nodeId out
  Answers,     \* what a request may answer: an action, and an edit
  Nothing,     \* no answer
  MaxPauses    \* how many pauses there are in all, which bounds the model

ASSUME BlockAssumption == NoBlock \notin Blocks
ASSUME PauseAssumption == MaxPauses \in Nat \ {0}

ASSUME NothingAssumption == Nothing \notin Answers

Pauses == Runs \X Blocks

VARIABLES
  listed,     \* Record.Paused of every run, as the store has it
  phase,      \* what the goroutine of each pause does
  waiting,    \* Breakpoints.waiting
  inbox,      \* the buffered channel each waiting pause listens on
  returned,   \* what Wait returned
  count,      \* how many pauses there were
  cancelled,  \* the runs whose context is done
  ended,      \* the runs that no longer wait for anyone
  accepted    \* history: the answers a request was told are accepted

vars == <<listed, phase, waiting, inbox, returned, count, cancelled, ended, accepted>>

Phases == {"off", "called", "waiting", "leaving", "reporting"}

TypeOK ==
  /\ listed \in SUBSET Pauses
  /\ phase \in [Pauses -> Phases]
  /\ waiting \in SUBSET Pauses
  /\ inbox \in [Pauses -> Answers \cup {Nothing}]
  /\ returned \in [Pauses -> Answers \cup {Nothing}]
  /\ count \in 0..MaxPauses
  /\ cancelled \in SUBSET Runs
  /\ ended \in SUBSET cancelled
  /\ accepted \in [Pauses -> Answers \cup {Nothing}]

Init ==
  /\ listed = {}
  /\ phase = [p \in Pauses |-> "off"]
  /\ waiting = {}
  /\ inbox = [p \in Pauses |-> Nothing]
  /\ returned = [p \in Pauses |-> Nothing]
  /\ count = 0
  /\ cancelled = {}
  /\ ended = {}
  /\ accepted = [p \in Pauses |-> Nothing]

-----------------------------------------------------------------------------
(***************************************************************************)
(* The pause.                                                              *)
(***************************************************************************)
(***************************************************************************)
(* execution.pause saves the run as paused, then starts the goroutine; the *)
(* run may have been cancelled since the scheduler last looked.            *)
(***************************************************************************)
Pause(p) ==
  /\ phase[p] = "off"
  /\ count < MaxPauses
  /\ p[1] \notin ended
  /\ listed' = listed \cup {p}
  /\ phase' = [phase EXCEPT ![p] = "called"]
  /\ count' = count + 1
  /\ accepted' = [accepted EXCEPT ![p] = Nothing]
  /\ returned' = [returned EXCEPT ![p] = Nothing]
  /\ UNCHANGED <<waiting, inbox, cancelled, ended>>

\* Wait makes a channel and puts it in the map under the mutex.
MutOldChannel(p) == inbox
NewChannel(p) == [inbox EXCEPT ![p] = Nothing]

Register(p) ==
  /\ phase[p] = "called"
  /\ phase' = [phase EXCEPT ![p] = "waiting"]
  /\ waiting' = waiting \cup {p}
  /\ inbox' = NewChannel(p)
  /\ UNCHANGED <<listed, returned, count, cancelled, ended, accepted>>

\* The select: either case when both are ready.
TakeAnswer(p) ==
  /\ phase[p] = "waiting"
  /\ inbox[p] # Nothing
  /\ phase' = [phase EXCEPT ![p] = "leaving"]
  /\ returned' = [returned EXCEPT ![p] = inbox[p]]
  /\ inbox' = [inbox EXCEPT ![p] = Nothing]
  /\ UNCHANGED <<listed, waiting, count, cancelled, ended, accepted>>

GiveUp(p) ==
  /\ phase[p] = "waiting"
  /\ p[1] \in cancelled
  /\ phase' = [phase EXCEPT ![p] = "leaving"]
  /\ UNCHANGED <<listed, waiting, inbox, returned, count, cancelled, ended, accepted>>

\* The deferred forget, under the mutex.
MutForgetRun(p) == {q \in waiting : q[1] # p[1]}
Forgotten(p) == waiting \ {p}

Forget(p) ==
  /\ phase[p] = "leaving"
  /\ phase' = [phase EXCEPT ![p] = "reporting"]
  /\ waiting' = Forgotten(p)
  /\ UNCHANGED <<listed, inbox, returned, count, cancelled, ended, accepted>>

\* execution.unpause, applied by the scheduler or dropped by a run that ended.
Unpause(p) ==
  /\ phase[p] = "reporting"
  /\ phase' = [phase EXCEPT ![p] = "off"]
  /\ listed' = listed \ {p}
  /\ UNCHANGED <<waiting, inbox, returned, count, cancelled, ended, accepted>>

-----------------------------------------------------------------------------
(***************************************************************************)
(* The requests.  Resume holds the mutex from the look-up to the delete,   *)
(* its send included, so it is one step.                                   *)
(***************************************************************************)
WaitingIn(r) == {p \in waiting : p[1] = r}

\* The pause that a request for run r and block b, or for no block, means.
Means(r, b, p) ==
  /\ p \in WaitingIn(r)
  /\ b # NoBlock => p[2] = b
  /\ b = NoBlock => Cardinality(WaitingIn(r)) = 1

MutLeft(p) == waiting
Left(p) == waiting \ {p}

MutNotSent(p, answer) == inbox
Sent(p, answer) == [inbox EXCEPT ![p] = answer]

Resume(r, b, answer) ==
  \E p \in Pauses :
    /\ Means(r, b, p)
    /\ inbox' = Sent(p, answer)
    /\ waiting' = Left(p)
    /\ accepted' = [accepted EXCEPT ![p] = answer]
    /\ UNCHANGED <<listed, phase, returned, count, cancelled, ended>>

\* The request that finds nothing to answer gets a conflict.
Refused(r, b) == ~\E p \in Pauses : Means(r, b, p)

Cancel(r) ==
  /\ r \notin cancelled
  /\ cancelled' = cancelled \cup {r}
  /\ UNCHANGED <<listed, phase, waiting, inbox, returned, count, ended, accepted>>

\* A cancelled run ends without waiting for the goroutines of its pauses.
StopsWaiting(r) == r \in cancelled \ ended

End(r) ==
  /\ StopsWaiting(r)
  /\ ended' = ended \cup {r}
  /\ listed' = {p \in listed : p[1] # r}
  /\ UNCHANGED <<phase, waiting, inbox, returned, count, cancelled, accepted>>

Wait(p) == Register(p) \/ TakeAnswer(p) \/ GiveUp(p) \/ Forget(p)

Next == \/ \E p \in Pauses : Pause(p) \/ Wait(p) \/ Unpause(p)
        \/ \E r \in Runs, b \in Blocks \cup {NoBlock}, answer \in Answers : Resume(r, b, answer)
        \/ \E r \in Runs : Cancel(r) \/ End(r)

\* Goroutines and the scheduler go on; nobody need answer.
Spec == /\ Init
        /\ [][Next]_vars
        /\ \A p \in Pauses : WF_vars(Wait(p)) /\ WF_vars(Unpause(p))

-----------------------------------------------------------------------------
(***************************************************************************)
(* Resume sends while it holds the mutex of every breakpoint of the        *)
(* server: the channel it finds in the map has room, so it never blocks    *)
(* and takes every other breakpoint with it.                               *)
(***************************************************************************)
ResumeNeverBlocks == \A p \in waiting : inbox[p] = Nothing

(***************************************************************************)
(* A pause that waits can be answered or has been: nobody else's pause,    *)
(* answer or forgetting takes it out of the map and leaves it waiting.     *)
(***************************************************************************)
WaitingCanBeAnswered ==
  \A p \in Pauses : phase[p] = "waiting" => p \in waiting \/ inbox[p] # Nothing

(***************************************************************************)
(* A pause ends with the answer a request gave it, with none only in a     *)
(* cancelled run, and never with the answer to another block or to its own *)
(* last pause.                                                             *)
(***************************************************************************)
ReturnsItsAnswer ==
  \A p \in Pauses : phase[p] \in {"leaving", "reporting"} =>
    \/ returned[p] # Nothing /\ returned[p] = accepted[p]
    \/ returned[p] = Nothing /\ p[1] \in cancelled

(***************************************************************************)
(* An answer that was accepted takes its block on, and the cancellation of *)
(* a run ends its pauses, though nobody answers them.                      *)
(***************************************************************************)
GoesOn ==
  \A p \in Pauses : accepted[p] # Nothing \/ (p \in listed /\ p[1] \in cancelled)
                        ~> p \notin listed

(***************************************************************************)
(* README: nodeId may be left out "when the run waits at a single block":  *)
(* a request without it answers no block of a run that shows several.      *)
(***************************************************************************)
OnlyBlockIsMeant ==
  \A r \in Runs : ~Refused(r, NoBlock) =>
    Cardinality({p \in listed : p[1] = r /\ accepted[p] = Nothing}) <= 1
=============================================================================
