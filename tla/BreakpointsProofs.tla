-------------------------- MODULE BreakpointsProofs --------------------------
(***************************************************************************)
(* The registry of paused blocks keeps its promises for any number of      *)
(* runs, blocks, answers and pauses: the invariants MCBreakpoints checks   *)
(* on two runs of two blocks are inductive with four facts about the map   *)
(* and the channel of a pause.                                             *)
(***************************************************************************)
EXTENDS Breakpoints, TLAPS

\* An answer in the channel of a waiting pause is the one that was accepted.
Delivered ==
  \A p \in Pauses : phase[p] = "waiting" /\ inbox[p] # Nothing => accepted[p] = inbox[p]

\* Whoever leaves with an answer is out of the map: no second answer follows.
TakenOut == \A p \in Pauses : phase[p] = "leaving" /\ returned[p] # Nothing => p \notin waiting

\* The map keeps nothing of a pause that is over.
NothingLeftBehind == \A p \in waiting : phase[p] \in {"waiting", "leaving"}

\* Wait has returned nothing before it leaves.
NotYetReturned == \A p \in Pauses : phase[p] \in {"called", "waiting"} => returned[p] = Nothing

IInv ==
  /\ TypeOK
  /\ ResumeNeverBlocks
  /\ WaitingCanBeAnswered
  /\ ReturnsItsAnswer
  /\ NothingLeftBehind
  /\ Delivered
  /\ TakenOut
  /\ NotYetReturned

-----------------------------------------------------------------------------
LEMMA InitHolds == Init => IInv
BY BlockAssumption, PauseAssumption, NothingAssumption
   DEF Init, IInv, TypeOK, ResumeNeverBlocks, WaitingCanBeAnswered, ReturnsItsAnswer,
       NothingLeftBehind, Delivered, TakenOut, NotYetReturned, Phases

LEMMA PauseKeeps ==
  ASSUME NEW p \in Pauses, IInv, Pause(p) PROVE IInv'
BY PauseAssumption
   DEF Pause, IInv, TypeOK, ResumeNeverBlocks, WaitingCanBeAnswered, ReturnsItsAnswer,
       NothingLeftBehind, Delivered, TakenOut, NotYetReturned, Phases

LEMMA WaitKeeps ==
  ASSUME NEW p \in Pauses, IInv, Wait(p) PROVE IInv'
<1> USE DEF IInv, TypeOK, ResumeNeverBlocks, WaitingCanBeAnswered, ReturnsItsAnswer,
            NothingLeftBehind, Delivered, TakenOut, NotYetReturned, Phases
<1>1. CASE Register(p)
  BY <1>1 DEF Register, NewChannel
<1>2. CASE TakeAnswer(p)
  BY <1>2 DEF TakeAnswer
<1>3. CASE GiveUp(p)
  BY <1>3 DEF GiveUp
<1>4. CASE Forget(p)
  BY <1>4 DEF Forget, Forgotten
<1> QED BY <1>1, <1>2, <1>3, <1>4 DEF Wait

LEMMA UnpauseKeeps ==
  ASSUME NEW p \in Pauses, IInv, Unpause(p) PROVE IInv'
BY DEF Unpause, IInv, TypeOK, ResumeNeverBlocks, WaitingCanBeAnswered, ReturnsItsAnswer,
       NothingLeftBehind, Delivered, TakenOut, NotYetReturned, Phases

LEMMA ResumeKeeps ==
  ASSUME NEW r \in Runs, NEW b \in Blocks \cup {NoBlock}, NEW answer \in Answers,
         IInv, Resume(r, b, answer)
  PROVE  IInv'
<1>1. PICK p \in Pauses :
        /\ Means(r, b, p)
        /\ inbox' = Sent(p, answer)
        /\ waiting' = Left(p)
        /\ accepted' = [accepted EXCEPT ![p] = answer]
        /\ UNCHANGED <<listed, phase, returned, count, cancelled, ended>>
  BY DEF Resume
<1>2. p \in waiting
  BY <1>1 DEF Means, WaitingIn
\* A pause in the map still waits, or leaves a cancelled run with no answer.
<1>3. phase[p] = "waiting" \/ (phase[p] = "leaving" /\ returned[p] = Nothing)
  BY <1>2 DEF IInv, NothingLeftBehind, TakenOut
<1> QED
  BY <1>1, <1>2, <1>3, NothingAssumption
     DEF Sent, Left, IInv, TypeOK, ResumeNeverBlocks, WaitingCanBeAnswered, ReturnsItsAnswer,
         NothingLeftBehind, Delivered, TakenOut, NotYetReturned, Phases

LEMMA CancelKeeps ==
  ASSUME NEW r \in Runs, IInv, Cancel(r) \/ End(r) PROVE IInv'
BY DEF Cancel, End, StopsWaiting, IInv, TypeOK, ResumeNeverBlocks, WaitingCanBeAnswered,
       ReturnsItsAnswer, NothingLeftBehind, Delivered, TakenOut, NotYetReturned, Phases, Pauses

LEMMA NextKeeps == IInv /\ [Next]_vars => IInv'
<1> SUFFICES ASSUME IInv, [Next]_vars PROVE IInv'
  OBVIOUS
<1>1. CASE \E p \in Pauses : Pause(p) \/ Wait(p) \/ Unpause(p)
  BY <1>1, PauseKeeps, WaitKeeps, UnpauseKeeps
<1>2. CASE \E r \in Runs, b \in Blocks \cup {NoBlock}, answer \in Answers : Resume(r, b, answer)
  BY <1>2, ResumeKeeps
<1>3. CASE \E r \in Runs : Cancel(r) \/ End(r)
  BY <1>3, CancelKeeps
<1>4. CASE UNCHANGED vars
  BY <1>4 DEF vars, IInv, TypeOK, ResumeNeverBlocks, WaitingCanBeAnswered, ReturnsItsAnswer,
       NothingLeftBehind, Delivered, TakenOut, NotYetReturned
<1> QED BY <1>1, <1>2, <1>3, <1>4 DEF Next

LEMMA AlwaysIInv == Spec => []IInv
BY InitHolds, NextKeeps, PTL DEF Spec

-----------------------------------------------------------------------------
(***************************************************************************)
(* Resume never blocks on the channel it sends on, and so never keeps the  *)
(* mutex of every breakpoint of the server.                                *)
(***************************************************************************)
THEOREM NoSendBlocks == Spec => []ResumeNeverBlocks
<1>1. IInv => ResumeNeverBlocks
  BY DEF IInv
<1> QED BY <1>1, AlwaysIInv, PTL

(***************************************************************************)
(* A block that waits for an answer is in the map or has its answer.       *)
(***************************************************************************)
THEOREM NobodyIsForgotten == Spec => []WaitingCanBeAnswered
<1>1. IInv => WaitingCanBeAnswered
  BY DEF IInv
<1> QED BY <1>1, AlwaysIInv, PTL

(***************************************************************************)
(* A pause ends with the answer it was given, or with none in a cancelled  *)
(* run.                                                                    *)
(***************************************************************************)
THEOREM AnswersReachTheirPause == Spec => []ReturnsItsAnswer
<1>1. IInv => ReturnsItsAnswer
  BY DEF IInv
<1> QED BY <1>1, AlwaysIInv, PTL
=============================================================================
