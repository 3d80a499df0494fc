---------------------------- MODULE EngineProofs ----------------------------
(***************************************************************************)
(* Proofs about Engine, for every number of tasks and every set of plans   *)
(* that Validate accepts.  IInv is inductive: beside the types it says     *)
(* what the scheduler's bookkeeping means at each place it can be, which   *)
(* tasks have a goroutine, and who is on the channel.  The proofs about    *)
(* LoopRun, which runs Engine again for each repeat, follow at the end.    *)
(***************************************************************************)
EXTENDS EngineRefinement, LoopRun, FiniteSetTheorems, SequenceTheorems, TLAPS

Busy == {"asking", "working"} \cup Answers

Active == pc \in {"pass", "launch", "resume", "wait"}

\* A goroutine belongs to a task that started and has not settled.
Goroutines ==
  /\ pc # "ended" => settled \subseteq started
  /\ pc # "ended" => \A i \in Tasks : /\ work[i] # "none" => i \in started
                                      /\ work[i] \in Busy => i \notin settled
  /\ pc = "launch" => cursor \in started \ settled /\ work[cursor] = "none"
  /\ pc = "resume" => cursor \in started \ settled /\ work[cursor] \in Answers
  /\ Active => \A i \in started \ settled :
                  work[i] # "none" \/ (pc = "launch" /\ i = cursor)

\* The counters of Execute.
Counts ==
  Active => /\ remaining = N - Cardinality(settled)
            /\ running = Cardinality(started \ settled)
            /\ running <= plan.limit

\* Each task reports once, and is on the channel until it is taken.
OnChannel ==
  /\ \A k \in DOMAIN finished :
       /\ work[finished[k]] = "reported"
       /\ pc # "ended" => finished[k] \in started \ settled
  /\ \A k, l \in DOMAIN finished : finished[k] = finished[l] => k = l

IInv == TypeOK /\ Goroutines /\ Counts /\ OnChannel

-----------------------------------------------------------------------------
LEMMA TasksFinite == IsFiniteSet(Tasks) /\ Cardinality(Tasks) = N
  BY FS_Interval, SizeAssumption DEF Tasks

\* Counting a set of tasks, with one more or one less.
LEMMA Count ==
  ASSUME NEW S \in SUBSET Tasks
  PROVE  /\ IsFiniteSet(S)
         /\ Cardinality(S) \in 0..N
         /\ \A i \in Tasks \ S : Cardinality(S \cup {i}) = Cardinality(S) + 1
         /\ \A i \in S : Cardinality(S \ {i}) = Cardinality(S) - 1
         /\ Cardinality(S) = N => S = Tasks
<1>1. IsFiniteSet(S) /\ Cardinality(S) <= N /\ (Cardinality(S) = N => S = Tasks)
  BY TasksFinite, FS_Subset
<1>2. Cardinality(S) \in Nat
  BY <1>1, FS_CardinalityType
<1>3. \A i \in Tasks \ S : Cardinality(S \cup {i}) = Cardinality(S) + 1
  BY <1>1, FS_AddElement
<1>4. \A i \in S : Cardinality(S \ {i}) = Cardinality(S) - 1
  BY <1>1, FS_RemoveElement
<1> QED
  BY <1>1, <1>2, <1>3, <1>4, SizeAssumption

\* What Head and Tail keep of a channel on which every task is once.
LEMMA TailOfChannel ==
  ASSUME TypeOK, OnChannel, finished # <<>>
  PROVE  /\ Head(finished) \in Tasks
         /\ Head(finished) = finished[1]
         /\ 1 \in DOMAIN finished
         /\ Tail(finished) \in Seq(Tasks)
         /\ \A k \in DOMAIN Tail(finished) :
              /\ k + 1 \in DOMAIN finished
              /\ Tail(finished)[k] = finished[k + 1]
              /\ Tail(finished)[k] # Head(finished)
<1>1. finished \in Seq(Tasks) BY DEF TypeOK
<1>2. /\ Head(finished) \in Tasks
      /\ Head(finished) = finished[1]
      /\ Tail(finished) \in Seq(Tasks)
      /\ Len(Tail(finished)) = Len(finished) - 1
      /\ \A k \in 1..Len(Tail(finished)) : Tail(finished)[k] = finished[k + 1]
  BY <1>1, HeadTailProperties
<1>3. Len(finished) \in Nat /\ Len(finished) # 0 /\ DOMAIN finished = 1..Len(finished)
  BY <1>1, LenProperties, EmptySeq, SeqEqual
<1>4. DOMAIN Tail(finished) = 1..Len(Tail(finished))
  BY <1>2, LenProperties
<1> QED
  BY <1>2, <1>3, <1>4 DEF OnChannel

-----------------------------------------------------------------------------
LEMMA BareIsOutcome ==
  ASSUME NEW status \in Statuses, NEW reason \in Reasons
  PROVE  Bare(status, reason) \in Outcome
  BY DEF Bare, Outcome

LEMMA InitIInv == Init => IInv
<1> SUFFICES ASSUME Init PROVE IInv
  OBVIOUS
<1>1. TypeOK
  <2>1. NoOutcome \in Outcome
    BY BareIsOutcome DEF NoOutcome, Statuses, Reasons
  <2>2. <<>> \in Seq(Tasks) /\ 1 \in 1..(N + 1) /\ N \in 0..N /\ 0 \in 0..N
    BY SizeAssumption, EmptySeq
  <2> QED
    BY <2>1, <2>2 DEF Init, TypeOK
<1>2. Goroutines
  BY DEF Init, Goroutines, Busy, Answers, Active
<1>3. Counts
  BY FS_EmptySet, PlanAssumption, SizeAssumption DEF Init, Counts, Plan, Active
<1>4. OnChannel
  BY EmptySeq, LenProperties DEF Init, OnChannel
<1> QED
  BY <1>1, <1>2, <1>3, <1>4 DEF IInv

LEMMA LimitIsPositive == ASSUME plan \in Plans PROVE plan.limit \in Nat \ {0}
  BY PlanAssumption DEF Plan

LEMMA SkipBlockedKeepsIInv ==
  ASSUME IInv, NEW i \in Tasks, SkipBlocked(i)
  PROVE  IInv'
<1> USE DEF SkipBlocked, run, channel
<1>1. i \notin started /\ i + 1 \in 1..(N + 1) /\ i \notin settled
  BY SizeAssumption DEF IInv, Candidate, Candidates, Goroutines, Tasks
<1>2. started' \ settled' = started \ settled
  BY <1>1
<1>3. Cardinality(settled') = Cardinality(settled) + 1 /\ Cardinality(settled') \in 0..N
      /\ Cardinality(settled) \in 0..N
  BY <1>1, Count DEF IInv, TypeOK
<1>4. remaining' = N - Cardinality(settled') /\ remaining' \in 0..N
  BY <1>3, SizeAssumption DEF IInv, Counts, TypeOK, Active
<1>5. step' \in [Tasks -> Outcome]
  BY BareIsOutcome DEF IInv, TypeOK, Statuses, Reasons
<1>6. TypeOK'
  BY <1>1, <1>4, <1>5 DEF IInv, TypeOK
<1>7. Goroutines'
  BY <1>1, <1>2 DEF IInv, Goroutines, Active, Busy, Answers
<1>8. Counts'
  BY <1>2, <1>4 DEF IInv, Counts, Active
<1>9. OnChannel'
  BY <1>1, <1>2 DEF IInv, OnChannel
<1> QED
  BY <1>6, <1>7, <1>8, <1>9 DEF IInv

LEMMA ChooseKeepsIInv ==
  ASSUME IInv, NEW i \in Tasks, Choose(i)
  PROVE  IInv'
<1> USE DEF Choose, Startable, Full, channel
<1>1. i \notin started /\ i \in 1..(N + 1) /\ i \notin settled
  BY SizeAssumption DEF IInv, Candidate, Candidates, Goroutines, Tasks
<1>2. started' \ settled' = (started \ settled) \cup {i}
  BY <1>1
<1>3. running' = Cardinality(started' \ settled') /\ running' \in 0..N
  <2>1. Cardinality((started \ settled) \cup {i}) = Cardinality(started \ settled) + 1
    BY <1>1, Count DEF IInv, TypeOK
  <2>2. Cardinality(started' \ settled') \in 0..N
    BY Count, started' \ settled' \in SUBSET Tasks DEF IInv, TypeOK
  <2> QED
    BY <1>2, <2>1, <2>2 DEF IInv, Counts, Active
<1>4. running' <= plan.limit
  <2>1. plan.limit \in Nat
    BY LimitIsPositive DEF IInv, TypeOK
  <2>2. running \in Int /\ running <= plan.limit
    BY SizeAssumption DEF IInv, TypeOK, Counts, Active
  <2>3. running # plan.limit /\ running' = running + 1 /\ plan' = plan
    OBVIOUS
  <2> QED
    BY ONLY <2>1, <2>2, <2>3
<1>5. TypeOK'
  BY <1>1, <1>3 DEF IInv, TypeOK
<1>6. Goroutines'
  BY <1>1, <1>2 DEF IInv, Goroutines, Active, Busy, Answers, TypeOK
<1>7. Counts'
  BY <1>3, <1>4 DEF IInv, Counts, Active
<1>8. OnChannel'
  BY <1>1, <1>2 DEF IInv, OnChannel
<1> QED
  BY <1>5, <1>6, <1>7, <1>8 DEF IInv

LEMMA PauseBeforeKeepsIInv ==
  ASSUME IInv, NEW i \in Tasks, PauseBefore(i)
  PROVE  IInv'
<1> USE DEF PauseBefore, Startable, Full, channel
<1>1. i \notin started /\ i + 1 \in 1..(N + 1) /\ i \notin settled
  BY SizeAssumption DEF IInv, Candidate, Candidates, Goroutines, Tasks
<1>2. started' \ settled' = (started \ settled) \cup {i}
  BY <1>1
<1>3. running' = Cardinality(started' \ settled') /\ running' \in 0..N
  <2>1. Cardinality((started \ settled) \cup {i}) = Cardinality(started \ settled) + 1
    BY <1>1, Count DEF IInv, TypeOK
  <2>2. Cardinality(started' \ settled') \in 0..N
    BY Count, started' \ settled' \in SUBSET Tasks DEF IInv, TypeOK
  <2> QED
    BY <1>2, <2>1, <2>2 DEF IInv, Counts, Active
<1>4. running' <= plan.limit
  <2>1. plan.limit \in Nat
    BY LimitIsPositive DEF IInv, TypeOK
  <2>2. running \in Int /\ running <= plan.limit
    BY SizeAssumption DEF IInv, TypeOK, Counts, Active
  <2>3. running # plan.limit /\ running' = running + 1 /\ plan' = plan
    OBVIOUS
  <2> QED
    BY ONLY <2>1, <2>2, <2>3
<1>5. TypeOK'
  BY <1>1, <1>3, BareIsOutcome DEF IInv, TypeOK, Statuses, Reasons
<1>6. Goroutines'
  BY <1>1, <1>2 DEF IInv, Goroutines, Active, Busy, Answers, TypeOK
<1>7. Counts'
  BY <1>3, <1>4 DEF IInv, Counts, Active
<1>8. OnChannel'
  <2>1. \A k \in DOMAIN finished : finished[k] # i
    BY <1>1 DEF IInv, OnChannel
  <2> QED
    BY <1>1, <1>2, <2>1 DEF IInv, OnChannel, TypeOK
<1> QED
  BY <1>5, <1>6, <1>7, <1>8 DEF IInv

LEMMA LaunchKeepsIInv ==
  ASSUME IInv, NEW i \in Tasks, Launch(i)
  PROVE  IInv'
<1> USE DEF Launch, channel
<1>1. i \in started \ settled /\ i + 1 \in 1..(N + 1) /\ work[i] # "reported"
  BY SizeAssumption DEF IInv, Goroutines, Tasks, Answers
<1>2. TypeOK'
  BY <1>1, BareIsOutcome DEF IInv, TypeOK, Statuses, Reasons
<1>3. Goroutines'
  BY <1>1 DEF IInv, Goroutines, Active, Busy, Answers, TypeOK
<1>4. Counts'
  BY DEF IInv, Counts, Active
<1>5. OnChannel'
  BY <1>1 DEF IInv, OnChannel, TypeOK
<1> QED
  BY <1>2, <1>3, <1>4, <1>5 DEF IInv

LEMMA EndOfPassKeepsIInv ==
  ASSUME IInv, End \/ PassAgain \/ Wait
  PROVE  IInv'
<1> USE DEF run, channel
<1>1. CASE End
  <2>1. verdict' \in {"running", "succeeded", "failed"}
    BY <1>1 DEF End, Verdict
  <2> QED
    BY <1>1, <2>1 DEF End, PassOver, IInv, TypeOK, Goroutines, Counts, OnChannel, Active
<1>2. CASE PassAgain
  <2>1. TypeOK'
    <3>1. 1 \in 1..(N + 1)
      BY SizeAssumption
    <3> QED
      BY <1>2, <3>1 DEF PassAgain, IInv, TypeOK
  <2> QED
    BY <1>2, <2>1 DEF PassAgain, PassOver, IInv, Goroutines, Counts, OnChannel, Active
<1>3. CASE Wait
  <2>1. TypeOK'
    BY <1>3 DEF Wait, IInv, TypeOK
  <2> QED
    BY <1>3, <2>1 DEF Wait, PassOver, IInv, Goroutines, Counts, OnChannel, Active
<1> QED
  BY <1>1, <1>2, <1>3

\* Completing the task that reported first, in next or in settle.
LEMMA CompleteTypes ==
  ASSUME IInv, pc # "ended", finished # <<>>, Complete(Head(finished)),
         UNCHANGED <<started, work>>
  PROVE  /\ Head(finished) \in started \ settled
         /\ work[Head(finished)] = "reported"
         /\ step' \in [Tasks -> Outcome]
         /\ result' \in [Tasks -> Outcome]
         /\ settled' \in SUBSET Tasks
         /\ finished' \in Seq(Tasks)
         /\ \A k \in DOMAIN finished' :
              /\ work'[finished'[k]] = "reported"
              /\ finished'[k] \in started' \ settled'
         /\ \A k, l \in DOMAIN finished' : finished'[k] = finished'[l] => k = l
<1> DEFINE i == Head(finished)
<1>1. /\ i \in Tasks
      /\ i = finished[1]
      /\ 1 \in DOMAIN finished
      /\ Tail(finished) \in Seq(Tasks)
      /\ \A k \in DOMAIN Tail(finished) :
              /\ k + 1 \in DOMAIN finished
              /\ Tail(finished)[k] = finished[k + 1]
              /\ Tail(finished)[k] # i
  BY TailOfChannel DEF IInv
<1>2. i \in started \ settled /\ work[i] = "reported"
  BY <1>1 DEF IInv, OnChannel
<1>3. NoOutcome \in Outcome
  BY BareIsOutcome DEF NoOutcome, Statuses, Reasons
<1>4. step' \in [Tasks -> Outcome] /\ result' \in [Tasks -> Outcome] /\ settled' \in SUBSET Tasks
  BY <1>1, <1>3 DEF IInv, TypeOK, Complete
<1>5. finished' = Tail(finished) /\ settled' = settled \cup {i}
  BY DEF Complete
<1>6. \A k \in DOMAIN finished' : /\ work'[finished'[k]] = "reported"
                                  /\ finished'[k] \in started' \ settled'
  BY <1>1, <1>5 DEF IInv, OnChannel
<1>7. \A k, l \in DOMAIN finished' : finished'[k] = finished'[l] => k = l
  <2> SUFFICES ASSUME NEW k \in DOMAIN finished', NEW l \in DOMAIN finished',
                      finished'[k] = finished'[l]
               PROVE  k = l
    OBVIOUS
  <2>1. k + 1 = l + 1
    BY <1>1, <1>5 DEF IInv, OnChannel
  <2>2. k \in Int /\ l \in Int
    BY <1>1, <1>5, LenProperties
  <2> QED
    BY <2>1, <2>2
<1> QED
  BY <1>1, <1>2, <1>4, <1>5, <1>6, <1>7

LEMMA TakeKeepsIInv ==
  ASSUME IInv, Take
  PROVE  IInv'
<1> USE DEF Take, Listening
<1> DEFINE i == Head(finished)
<1>1. /\ i \in started \ settled
      /\ work[i] = "reported"
      /\ step' \in [Tasks -> Outcome]
      /\ result' \in [Tasks -> Outcome]
      /\ settled' \in SUBSET Tasks
      /\ finished' \in Seq(Tasks)
      /\ OnChannel'
  BY CompleteTypes DEF OnChannel
<1>2. settled' = settled \cup {i} /\ started' \ settled' = (started \ settled) \ {i}
  BY DEF Complete
<1>3. Cardinality(settled') = Cardinality(settled) + 1 /\ Cardinality(settled') \in 0..N
      /\ Cardinality(settled) \in 0..N
  BY <1>1, <1>2, Count DEF IInv, TypeOK
<1>4. remaining' = N - Cardinality(settled') /\ remaining' \in 0..N
  BY <1>3, SizeAssumption DEF IInv, Counts, TypeOK, Active
<1>5. running' = Cardinality(started' \ settled') /\ running' \in 0..N
  <2>1. Cardinality((started \ settled) \ {i}) = Cardinality(started \ settled) - 1
    BY <1>1, Count DEF IInv, TypeOK
  <2>2. Cardinality(started' \ settled') \in 0..N
    BY Count, started' \ settled' \in SUBSET Tasks DEF IInv, TypeOK
  <2> QED
    BY <1>2, <2>1, <2>2 DEF IInv, Counts, Active
<1>6. running' <= plan'.limit
  <2>1. plan.limit \in Nat
    BY LimitIsPositive DEF IInv, TypeOK
  <2>2. running \in Int /\ running <= plan.limit
    BY SizeAssumption DEF IInv, TypeOK, Counts, Active
  <2>3. running' = running - 1 /\ plan' = plan
    OBVIOUS
  <2> QED
    BY ONLY <2>1, <2>2, <2>3
<1>7. TypeOK'
  <2>1. 1 \in 1..(N + 1)
    BY SizeAssumption
  <2> QED
    BY <1>1, <1>4, <1>5, <2>1 DEF IInv, TypeOK
<1>8. Goroutines'
  BY <1>1, <1>2 DEF IInv, Goroutines, Active, Busy, Answers, TypeOK
<1>9. Counts'
  BY <1>4, <1>5, <1>6 DEF Counts, Active
<1> QED
  BY <1>1, <1>7, <1>8, <1>9 DEF IInv

\* Reporting on the channel, by a task or by the scheduler for a breakpoint.
LEMMA FinishKeepsIInv ==
  ASSUME IInv, NEW i \in Tasks, NEW report \in Outcome, Finish(i, report),
         work[i] \in Busy, work[i] \in Answers => pc # "resume" \/ i # cursor,
         paused' \in SUBSET Tasks,
         UNCHANGED <<plan, step, started, settled, stepping, verdict, scheduler, cancelled, late>>
  PROVE  IInv'
<1> USE DEF Finish, scheduler
<1>1. /\ finished' \in Seq(Tasks)
      /\ DOMAIN finished' = DOMAIN finished \cup {Len(finished) + 1}
      /\ Len(finished) + 1 \notin DOMAIN finished
      /\ finished'[Len(finished) + 1] = i
      /\ \A k \in DOMAIN finished : finished'[k] = finished[k]
  BY DEF IInv, TypeOK
<1>2. \A k \in DOMAIN finished : finished[k] # i /\ finished[k] \in Tasks
  BY DEF IInv, TypeOK, OnChannel, Busy, Answers
<1>3. work' = [work EXCEPT ![i] = "reported"] /\ work \in [Tasks -> {"none", "asking", "working", "reported", "dropped"} \cup Answers]
  BY DEF IInv, TypeOK
<1>4. TypeOK'
  BY <1>1 DEF IInv, TypeOK
<1>5. Goroutines'
  BY <1>3 DEF IInv, Goroutines, Active, Busy, Answers
<1>6. Counts'
  BY DEF IInv, Counts, Active
<1>7. OnChannel'
  <2>1. \A k \in DOMAIN finished' : work'[finished'[k]] = "reported"
    BY <1>1, <1>2, <1>3 DEF IInv, OnChannel
  <2>2. pc # "ended" => \A k \in DOMAIN finished' : finished'[k] \in started \ settled
    BY <1>1 DEF IInv, OnChannel, Goroutines, Busy, Answers
  <2>3. \A k, l \in DOMAIN finished' : finished'[k] = finished'[l] => k = l
    BY <1>1, <1>2 DEF IInv, OnChannel
  <2> QED
    BY <2>1, <2>2, <2>3 DEF OnChannel
<1> QED
  BY <1>4, <1>5, <1>6, <1>7 DEF IInv

LEMMA TaskEndsKeepsIInv ==
  ASSUME IInv, NEW i \in Tasks, TaskEnds(i)
  PROVE  IInv'
<1>1. PICK report \in Outcome : Finish(i, report)
  <2>1. Bare("failed", "error") \in Outcome
    BY BareIsOutcome DEF Statuses, Reasons
  <2>2. \A outputs \in SUBSET Ports :
          [Bare("succeeded", "none") EXCEPT !.outputs = outputs] \in Outcome
    BY DEF Bare, Outcome, Statuses, Reasons
  <2> QED
    BY <2>1, <2>2 DEF TaskEnds
<1>2. work[i] = "working" /\ UNCHANGED <<plan, run, scheduler, cancelled, late>>
  BY DEF TaskEnds
<1> QED
  BY <1>1, <1>2, FinishKeepsIInv DEF run, Busy, Answers, IInv, TypeOK

LEMMA UnpauseKeepsIInv ==
  ASSUME IInv, NEW i \in Tasks, UnpauseSettles(i) \/ UnpauseRuns(i)
  PROVE  IInv'
<1>1. CASE UnpauseSettles(i)
  <2>1. PICK report \in Outcome : Finish(i, report)
    <3>1. Bare("skipped", "cancelled") \in Outcome /\ Bare("skipped", "breakpoint") \in Outcome
      BY BareIsOutcome DEF Statuses, Reasons
    <3> QED
      BY <1>1, <3>1 DEF UnpauseSettles
  <2>2. /\ work[i] \in Answers /\ pc = "wait" /\ paused' \in SUBSET Tasks
        /\ UNCHANGED <<plan, step, started, settled, stepping, verdict, scheduler, cancelled, late>>
    BY <1>1 DEF UnpauseSettles, Listening, IInv, TypeOK
  <2> QED
    BY <2>1, <2>2, FinishKeepsIInv DEF Busy
<1>2. CASE UnpauseRuns(i)
  <2> USE <1>2 DEF UnpauseRuns, Listening, channel
  <2>1. i \in started \ settled /\ i \in 1..(N + 1)
    BY SizeAssumption DEF IInv, Goroutines, Busy, Answers, Tasks
  <2>2. TypeOK'
    BY <2>1 DEF IInv, TypeOK
  <2>3. Goroutines' /\ Counts'
    BY <2>1 DEF IInv, Goroutines, Counts, Active, Answers
  <2>4. OnChannel'
    BY DEF IInv, OnChannel
  <2> QED
    BY <2>2, <2>3, <2>4 DEF IInv
<1> QED
  BY <1>1, <1>2

LEMMA GraceKeepsIInv ==
  ASSUME IInv, ArmGrace \/ Expire
  PROVE  IInv'
<1> USE DEF run, channel
<1>1. CASE ArmGrace
  BY <1>1 DEF ArmGrace, IInv, TypeOK, Goroutines, Counts, OnChannel, Active
<1>2. CASE Expire
  BY <1>2 DEF Expire, IInv, TypeOK, Goroutines, Counts, OnChannel, Active
<1> QED
  BY <1>1, <1>2

LEMMA SettleKeepsIInv ==
  ASSUME IInv, Drain \/ SettleRest
  PROVE  IInv'
<1>1. CASE Drain
  <2> USE <1>1 DEF Drain, scheduler
  <2>1. /\ step' \in [Tasks -> Outcome]
        /\ result' \in [Tasks -> Outcome]
        /\ settled' \in SUBSET Tasks
        /\ finished' \in Seq(Tasks)
        /\ Head(finished) \in started \ settled
        /\ work[Head(finished)] = "reported"
        /\ OnChannel'
    BY CompleteTypes DEF OnChannel
  <2>2. TypeOK'
    BY <2>1 DEF IInv, TypeOK
  <2>3. Goroutines' /\ Counts'
    BY <2>1 DEF IInv, Goroutines, Counts, Active, Complete, Busy, Answers
  <2> QED
    BY <2>1, <2>2, <2>3 DEF IInv
<1>2. CASE SettleRest
  <2> USE <1>2 DEF SettleRest, channel
  <2>1. step' \in [Tasks -> Outcome]
    BY BareIsOutcome DEF IInv, TypeOK, Rest, Abandoned, Statuses, Reasons
  <2>2. verdict' \in {"running", "succeeded", "failed"}
    BY DEF Verdict
  <2>3. TypeOK'
    BY <2>1, <2>2 DEF IInv, TypeOK
  <2>4. Goroutines' /\ Counts' /\ OnChannel'
    BY DEF IInv, Goroutines, Counts, OnChannel, Active
  <2> QED
    BY <2>3, <2>4 DEF IInv
<1> QED
  BY <1>1, <1>2

LEMMA PeopleKeepIInv ==
  ASSUME IInv, Cancel \/ \E i \in Tasks : Answer(i) \/ Drop(i)
  PROVE  IInv'
<1> USE DEF run, channel, scheduler
<1>1. CASE Cancel
  BY <1>1 DEF Cancel, IInv, TypeOK, Goroutines, Counts, OnChannel, Active
<1>2. ASSUME NEW i \in Tasks, Answer(i) \/ Drop(i)
      PROVE  IInv'
  <2>1. PICK now \in {"dropped"} \cup Answers :
          /\ work' = [work EXCEPT ![i] = now]
          /\ work[i] \in {"asking"} \cup Answers
          /\ now = "dropped" => pc = "ended"
          /\ now # "dropped" => work[i] = "asking"
    BY <1>2 DEF Answer, Drop, Answers
  <2>2. UNCHANGED <<plan, run, scheduler, channel, cancelled, late>>
    BY <1>2 DEF Answer, Drop
  <2>3. TypeOK'
    BY <2>1, <2>2 DEF IInv, TypeOK
  <2>4. Goroutines' /\ Counts'
    BY <2>1, <2>2 DEF IInv, TypeOK, Goroutines, Counts, Active, Busy, Answers
  <2>5. OnChannel'
    BY <2>1, <2>2 DEF IInv, TypeOK, OnChannel, Answers
  <2> QED
    BY <2>3, <2>4, <2>5 DEF IInv
<1> QED
  BY <1>1, <1>2

LEMMA NextKeepsIInv == IInv /\ [Next]_vars => IInv'
<1> SUFFICES ASSUME IInv, [Next]_vars PROVE IInv'
  OBVIOUS
<1>1. CASE UNCHANGED vars
  BY <1>1 DEF vars, run, scheduler, channel, IInv, TypeOK, Goroutines, Counts, OnChannel, Active
<1>2. CASE Pass
  BY <1>2, SkipBlockedKeepsIInv, ChooseKeepsIInv, PauseBeforeKeepsIInv, LaunchKeepsIInv,
     EndOfPassKeepsIInv DEF Pass
<1>3. CASE NextReport
  BY <1>3, TakeKeepsIInv, UnpauseKeepsIInv, GraceKeepsIInv DEF NextReport
<1>4. CASE Settle
  BY <1>4, SettleKeepsIInv DEF Settle
<1>5. CASE \E i \in Tasks : TaskEnds(i)
  BY <1>5, TaskEndsKeepsIInv
<1>6. CASE Cancel \/ \E i \in Tasks : Answer(i) \/ Drop(i)
  BY <1>6, PeopleKeepIInv
<1> QED
  BY <1>1, <1>2, <1>3, <1>4, <1>5, <1>6 DEF Next, Schedule

LEMMA Inductive == Spec => []IInv
<1> QED
  BY InitIInv, NextKeepsIInv, PTL DEF Spec

(***************************************************************************)
(* Types: every variable keeps its type, and the counters stay within the  *)
(* number of tasks.                                                        *)
(***************************************************************************)
THEOREM TypeCorrect == Spec => []TypeOK
<1>1. IInv => TypeOK
  BY DEF IInv
<1> QED
  BY <1>1, Inductive, PTL

-----------------------------------------------------------------------------
(***************************************************************************)
(* A pass that has made no progress is still at its first task: the cursor *)
(* and progressed move together.                                           *)
(***************************************************************************)
Unmoved == /\ pc = "pass" /\ ~progressed => cursor = 1
           /\ pc = "launch" => progressed

LEMMA UnmovedAlways == Spec => []Unmoved
<1>1. Init => Unmoved
  BY DEF Init, Unmoved
<1>2. Unmoved /\ [Next]_vars => Unmoved'
  <2> SUFFICES ASSUME Unmoved, [Next]_vars PROVE Unmoved'
    OBVIOUS
  <2> USE DEF Unmoved, run, scheduler
  <2>1. CASE UNCHANGED vars
    BY <2>1 DEF vars
  <2>2. ASSUME NEW i \in Tasks, SkipBlocked(i) \/ Choose(i) \/ PauseBefore(i) \/ Launch(i)
        PROVE  Unmoved'
    BY <2>2 DEF SkipBlocked, Choose, PauseBefore, Launch, Startable
  <2>3. CASE End \/ PassAgain \/ Wait
    BY <2>3 DEF End, PassAgain, Wait, PassOver
  <2>4. CASE NextReport
    BY <2>4 DEF NextReport, Take, UnpauseSettles, UnpauseRuns, ArmGrace, Expire
  <2>5. CASE Settle
    BY <2>5 DEF Settle, Drain, SettleRest
  <2>6. CASE Cancel \/ \E i \in Tasks : TaskEnds(i) \/ Answer(i) \/ Drop(i)
    BY <2>6 DEF Cancel, TaskEnds, Answer, Drop
  <2> QED
    BY <2>1, <2>2, <2>3, <2>4, <2>5, <2>6 DEF Next, Schedule, Pass
<1> QED
  BY <1>1, <1>2, PTL DEF Spec

(***************************************************************************)
(* In an accepted plan some task that has not started is ready as long as  *)
(* one is left and nothing runs: the tasks left would be a cycle.          *)
(***************************************************************************)
LEMMA SomethingIsReady ==
  ASSUME TypeOK, settled \subseteq started, started \ settled = {}, settled # Tasks
  PROVE  \E i \in Tasks : i \notin started /\ Ready(i)
<1> DEFINE Left == Tasks \ settled
<1>1. Left \in (SUBSET Tasks) \ {{}}
  BY DEF TypeOK
<1>2. Acyclic(plan.needs)
  BY PlanAssumption DEF TypeOK
<1>3. PICK i \in Left : \A n \in plan.needs[i] : n.task \notin Left
  BY <1>1, <1>2 DEF Acyclic
<1>4. Ready(i)
  BY <1>3 DEF Ready
<1> QED
  BY <1>3, <1>4

(***************************************************************************)
(* "nothing left in the flow can run" is never the end of an accepted      *)
(* plan: IInv makes running = 0 mean that every started task settled, so a *)
(* task is ready, and a pass that made no progress has looked at it.       *)
(***************************************************************************)
THEOREM StuckIsUnreachable == Spec => []NeverStuck
<1>1. IInv /\ Unmoved => NeverStuck
  <2> SUFFICES ASSUME IInv, Unmoved, Stuck PROVE FALSE
    BY DEF NeverStuck
  <2>1. pc = "pass" /\ running = 0 /\ remaining # 0 /\ cursor = 1
    BY DEF Stuck, PassOver, Unmoved
  <2>2. started \ settled = {}
    <3>1. Cardinality(started \ settled) = 0
      BY <2>1 DEF IInv, Counts, Active
    <3>2. IsFiniteSet(started \ settled)
      BY Count DEF IInv, TypeOK
    <3> QED
      BY <3>1, <3>2, FS_EmptySet
  <2>3. settled # Tasks
    BY <2>1, TasksFinite, SizeAssumption DEF IInv, Counts, Active
  <2>4. \E i \in Tasks : i \notin started /\ Ready(i)
    BY <2>1, <2>2, <2>3, SomethingIsReady DEF IInv, Goroutines
  <2>5. Candidates # {}
    <3>1. PICK i \in Tasks : i \notin started /\ Ready(i)
      BY <2>4
    <3>2. i \in cursor..N
      BY <2>1, <3>1 DEF Tasks
    <3> QED
      BY <3>1, <3>2 DEF Candidates
  <2>6. running = plan.limit
    BY <2>5 DEF Stuck, PassOver, Full
  <2> QED
    BY <2>1, <2>6, LimitIsPositive DEF IInv, TypeOK
<1> QED
  BY <1>1, Inductive, UnmovedAlways, PTL

-----------------------------------------------------------------------------
(***************************************************************************)
(* The channel has a place for whoever may still report: each task is on   *)
(* it once and only after its goroutine reported, so with one goroutine at *)
(* work at most N - 1 places are taken.                                    *)
(***************************************************************************)
THEOREM ReportsHaveRoom == Spec => []ReportsNeverBlock
<1>1. IInv => ReportsNeverBlock
  <2> SUFFICES ASSUME IInv, NEW i \in Tasks, work[i] \in {"working", "asking"} \cup Answers
               PROVE  Len(finished) < Capacity
    BY DEF ReportsNeverBlock
  <2> DEFINE Others == Tasks \ {i}
  <2>1. finished \in Seq(Tasks) /\ Len(finished) \in Nat /\ DOMAIN finished = 1..Len(finished)
    BY DEF IInv, TypeOK
  <2>2. \A k \in 1..Len(finished) : finished[k] \in Others
    BY <2>1 DEF IInv, OnChannel, Answers
  <2>3. finished \in Injection(1..Len(finished), Others)
    BY <2>1, <2>2 DEF IInv, OnChannel, Injection, IsInjective
  <2>4. IsFiniteSet(Others) /\ Cardinality(Others) = N - 1
    BY TasksFinite, Count, FS_RemoveElement
  <2>5. Cardinality(1..Len(finished)) = Len(finished)
    BY <2>1, FS_Interval
  <2>6. Len(finished) <= N - 1
    BY <2>3, <2>4, <2>5, FS_Injection
  <2> QED
    BY <2>1, <2>6, SizeAssumption DEF Capacity
<1> QED
  BY <1>1, Inductive, PTL

-----------------------------------------------------------------------------
Working == {i \in Tasks : work[i] = "working"}

(***************************************************************************)
(* At most `limit' tasks work at once.  While the run is scheduled those   *)
(* that work are among the started and unsettled ones the counter counts;  *)
(* once it is abandoned they can only become fewer.                        *)
(***************************************************************************)
THEOREM LimitHolds == Spec => []LimitRespected
<1>1. Init => LimitRespected
  <2> SUFFICES ASSUME Init PROVE LimitRespected
    OBVIOUS
  <2>1. {i \in Tasks : work[i] = "working"} = {}
    BY DEF Init
  <2>2. Cardinality({i \in Tasks : work[i] = "working"}) = 0
    BY <2>1, FS_EmptySet
  <2>3. plan.limit \in Nat
    BY LimitIsPositive DEF Init
  <2> QED
    BY <2>2, <2>3 DEF LimitRespected
<1>2. IInv /\ IInv' /\ LimitRespected /\ [Next]_vars => LimitRespected'
  <2> SUFFICES ASSUME IInv, IInv', LimitRespected, [Next]_vars PROVE LimitRespected'
    OBVIOUS
  <2>1. plan' = plan /\ plan.limit \in Nat
    BY LimitIsPositive DEF IInv, TypeOK, Next, Schedule, Pass, NextReport, Settle, vars, SkipBlocked, Choose,
       PauseBefore, Launch, End, PassAgain, Wait, Take, UnpauseSettles, UnpauseRuns, ArmGrace,
       Expire, Drain, SettleRest, TaskEnds, Answer, Drop, Cancel
  <2>2. CASE Active'
    <3>1. Working' \subseteq (started \ settled)' /\ (started \ settled)' \in SUBSET Tasks
      BY <2>2 DEF Working, IInv, TypeOK, Goroutines, Active, Busy
    <3>2. Cardinality(Working') <= Cardinality((started \ settled)')
      BY <3>1, Count, FS_Subset
    <3>3. Cardinality((started \ settled)') <= plan.limit /\ Cardinality((started \ settled)') \in Nat
          /\ Cardinality(Working') \in Nat
      BY <2>1, <2>2, <3>1, Count, SizeAssumption DEF IInv, Counts, Active, Working
    <3> QED
      BY <2>1, <3>2, <3>3 DEF LimitRespected, Working
  <2>3. CASE ~Active'
    <3>1. Working' \subseteq Working
      <4>1. CASE \E i \in Tasks : Launch(i)
        BY <2>3, <4>1 DEF Launch, Active
      <4>2. CASE \E i \in Tasks : PauseBefore(i) \/ Answer(i) \/ Drop(i)
        BY <4>2 DEF IInv, TypeOK, Working, PauseBefore, Answer, Drop, Answers
      <4>3. CASE \E i \in Tasks : UnpauseSettles(i) \/ TaskEnds(i)
        BY <4>3 DEF IInv, TypeOK, Working, UnpauseSettles, TaskEnds, Finish
      <4>4. CASE UNCHANGED work
        BY <4>4 DEF Working
      <4> QED
        BY <4>1, <4>2, <4>3, <4>4 DEF Next, Schedule, Pass, NextReport, Settle, vars, SkipBlocked,
           Choose, End, PassAgain, Wait, Take, UnpauseRuns, ArmGrace, Expire, Drain, SettleRest, Cancel
    <3>2. Cardinality(Working') <= Cardinality(Working) /\ Cardinality(Working') \in Nat
          /\ Cardinality(Working) \in Nat
      BY <3>1, Count, FS_Subset, SizeAssumption DEF Working
    <3> QED
      BY <2>1, <3>2 DEF LimitRespected, Working
  <2> QED
    BY <2>2, <2>3
<1> QED
  BY <1>1, <1>2, Inductive, PTL DEF Spec

-----------------------------------------------------------------------------
\* No step of anyone touches a settled outcome, or unsettles a task.
LEMMA SettledStays ==
  ASSUME IInv, [Next]_vars
  PROVE  /\ plan' = plan
         /\ settled \subseteq settled'
         /\ \A i \in settled : step'[i] = step[i]
<1> DEFINE Kept == /\ plan' = plan
                   /\ settled \subseteq settled'
                   /\ \A i \in settled : step'[i] = step[i]
<1> USE DEF run, scheduler, channel
<1>1. CASE UNCHANGED vars
  BY <1>1 DEF vars
<1>2. ASSUME NEW i \in Tasks, SkipBlocked(i) \/ PauseBefore(i)
      PROVE  Kept
  <2>1. i \notin settled
    BY <1>2 DEF SkipBlocked, PauseBefore, Startable, Candidate, Candidates, IInv, Goroutines
  <2> QED
    BY <1>2, <2>1 DEF SkipBlocked, PauseBefore, IInv, TypeOK
<1>3. ASSUME NEW i \in Tasks, Launch(i)
      PROVE  Kept
  <2>1. i \notin settled
    BY <1>3 DEF Launch, IInv, Goroutines
  <2> QED
    BY <1>3, <2>1 DEF Launch, IInv, TypeOK
<1>4. CASE Take \/ Drain
  <2>1. Head(finished) \in started \ settled
    BY <1>4, TailOfChannel DEF Take, Drain, Listening, IInv, OnChannel
  <2> QED
    BY <1>4, <2>1 DEF Take, Drain, Complete, IInv, TypeOK
<1>5. CASE SettleRest
  BY <1>5 DEF SettleRest, Rest, IInv, TypeOK
<1>6. CASE End \/ PassAgain \/ Wait \/ ArmGrace \/ Expire \/ Cancel
  BY <1>6 DEF End, PassAgain, Wait, ArmGrace, Expire, Cancel
<1>7. ASSUME NEW i \in Tasks,
             Choose(i) \/ UnpauseSettles(i) \/ UnpauseRuns(i) \/ TaskEnds(i) \/ Answer(i) \/ Drop(i)
      PROVE  Kept
  BY <1>7 DEF Choose, UnpauseSettles, UnpauseRuns, TaskEnds, Answer, Drop
<1> QED
  BY <1>1, <1>2, <1>3, <1>4, <1>5, <1>6, <1>7 DEF Next, Schedule, Pass, NextReport, Settle

(***************************************************************************)
(* The outcome of a settled task never changes: whatever writes a step     *)
(* writes that of a task IInv puts among the unsettled ones.               *)
(***************************************************************************)
THEOREM SettledOutcomesAreFinal == Spec => SettledIsFinal
<1>1. IInv /\ [Next]_vars => [\A i \in settled : step'[i] = step[i]]_vars
  BY SettledStays
<1> QED
  BY <1>1, Inductive, PTL DEF Spec, SettledIsFinal

-----------------------------------------------------------------------------
\* A task the scheduler has picked to run, or to pause before.
Chosen(i) == work[i] # "none" \/ (pc = "launch" /\ i = cursor)

Flow == \A i \in Tasks : /\ Chosen(i) => Ready(i) /\ Arrived(i)
                         /\ Ran(i) => work[i] # "none"

\* Once every need has settled, what has arrived stays and nothing more comes.
LEMMA ArrivedStays ==
  ASSUME IInv, [Next]_vars, NEW i \in Tasks, Ready(i)
  PROVE  Ready(i)' /\ (Arrived(i)' <=> Arrived(i))
<1>1. plan' = plan /\ settled \subseteq settled' /\ \A j \in settled : step'[j] = step[j]
  BY SettledStays
<1>2. \A n \in plan.needs[i] : n.task \in settled \/ n.task \in Outside
  BY PlanAssumption DEF IInv, TypeOK, Plan, Need, Ready
<1>3. \A n \in plan.needs[i] : Missing(n)' <=> Missing(n)
  BY <1>1, <1>2 DEF Missing, Lacking, Gone, Emitted
<1>4. Ready(i)'
  BY <1>1 DEF Ready
<1>5. \A t : Delivers(plan, step, i, t)' <=> Delivers(plan, step, i, t)
  BY <1>1, <1>3 DEF Delivers, Missing
<1>6. Arrived(i)' <=> Arrived(i)
  BY <1>1, <1>3, <1>5 DEF Arrived, Arrives, Missing
<1> QED
  BY <1>4, <1>6

\* gather lets a task through only when everything, or a whole arrow, is there.
LEMMA NotStarvedHasArrived ==
  ASSUME NEW i \in Tasks, ~Starved(i)
  PROVE  Arrived(i)
<1>1. CASE MissingNames(i) = {}
  BY <1>1 DEF MissingNames, Missing, Arrived, Arrives
<1>2. CASE i \in plan.any /\ Inputs(i) # {}
  <2>1. PICK n \in plan.needs[i] : n.port # NoPort /\ ~Missing(n) /\ NameOf(n.task) \notin MissingNames(i)
    BY <1>2 DEF Inputs
  <2>2. Delivers(plan, step, i, n.task)
    BY <2>1 DEF Delivers, MissingNames, Missing
  <2> QED
    BY <1>2, <2>1, <2>2 DEF Arrived, Arrives
<1> QED
  BY <1>1, <1>2 DEF Starved

LEMMA FlowAlways == Spec => []Flow
<1>1. Init => Flow
  BY DEF Init, Flow, Chosen, Ran, NoOutcome, Bare
<1>2. IInv /\ Flow /\ [Next]_vars => Flow'
  <2> SUFFICES ASSUME IInv, Flow, [Next]_vars, NEW i \in Tasks
               PROVE  (Chosen(i) => Ready(i) /\ Arrived(i))' /\ (Ran(i) => work[i] # "none")'
    BY DEF Flow
  <2>1. Chosen(i)' => Chosen(i) \/ (Ready(i) /\ Arrived(i))
    <3>1. ASSUME NEW j \in Tasks, Choose(j) \/ PauseBefore(j)
          PROVE  Chosen(i)' => Chosen(i) \/ (Ready(i) /\ Arrived(i))
      <4>1. Ready(j) /\ Arrived(j)
        BY <3>1, NotStarvedHasArrived DEF Choose, PauseBefore, Startable, Candidate, Candidates
      <4> QED
        BY <3>1, <4>1 DEF Choose, PauseBefore, Chosen, IInv, TypeOK, Startable
    <3>2. ASSUME NEW j \in Tasks, Launch(j) \/ UnpauseSettles(j) \/ UnpauseRuns(j)
                                  \/ TaskEnds(j) \/ Answer(j) \/ Drop(j)
          PROVE  Chosen(i)' => Chosen(i)
      BY <3>2 DEF Launch, UnpauseSettles, UnpauseRuns, TaskEnds, Answer, Drop, Finish, Chosen,
         IInv, TypeOK, Goroutines, Answers, scheduler, Listening
    <3>3. ASSUME UNCHANGED work, pc' # "launch" \/ UNCHANGED <<pc, cursor>>
          PROVE  Chosen(i)' => Chosen(i)
      BY <3>3 DEF Chosen
    <3> QED
      BY <3>1, <3>2, <3>3 DEF Next, Schedule, Pass, NextReport, Settle, vars, scheduler, SkipBlocked,
         End, PassAgain, PassOver, Wait, Take, ArmGrace, Expire, Drain, SettleRest, Cancel
  <2>2. (Chosen(i) => Ready(i) /\ Arrived(i))'
    BY <2>1, ArrivedStays DEF Flow
  <2>3. (Ran(i) => work[i] # "none")'
    <3>1. work[i] # "none" => work'[i] # "none"
      BY DEF Next, Schedule, Pass, NextReport, Settle, vars, SkipBlocked, Choose, PauseBefore, Launch,
         End, PassAgain, Wait, Take, UnpauseSettles, UnpauseRuns, ArmGrace, Expire, Drain, SettleRest,
         TaskEnds, Answer, Drop, Cancel, Finish, IInv, TypeOK, Answers
    <3>2. ASSUME NEW j \in Tasks, SkipBlocked(j) \/ PauseBefore(j) \/ Launch(j)
          PROVE  Ran(i)' => Ran(i) \/ work'[i] # "none"
      BY <3>2 DEF SkipBlocked, PauseBefore, Launch, Ran, Bare, IInv, TypeOK
    <3>3. CASE Take \/ Drain
      <4>1. Head(finished) \in Tasks /\ work[Head(finished)] = "reported"
        BY <3>3, TailOfChannel DEF IInv, OnChannel, Take, Drain
      <4> QED
        BY <3>1, <3>3, <4>1 DEF Take, Drain, Complete, Ran, IInv, TypeOK, Flow
    <3>4. CASE SettleRest
      BY <3>4 DEF SettleRest, Rest, Abandoned, Bare, Ran, Flow
    <3>5. CASE UNCHANGED step
      BY <3>1, <3>5 DEF Ran, Flow
    <3> QED
      BY <3>1, <3>2, <3>3, <3>4, <3>5 DEF Flow, Next, Schedule, Pass, NextReport, Settle, vars, run,
         Choose, End, PassAgain, Wait, UnpauseSettles, UnpauseRuns, ArmGrace, Expire, TaskEnds,
         Answer, Drop, Cancel
  <2> QED
    BY <2>2, <2>3
<1> QED
  BY <1>1, <1>2, Inductive, PTL DEF Spec

(***************************************************************************)
(* A task that ran had every need, or one whole arrow if it waits for any: *)
(* it held when the scheduler picked the task, from outcomes that are      *)
(* final, and it still holds.                                              *)
(***************************************************************************)
THEOREM NeedsComeFirst == Spec => []RanWithItsNeeds
<1>1. Flow => RanWithItsNeeds
  BY DEF Flow, Chosen, RanWithItsNeeds
<1> QED
  BY <1>1, FlowAlways, PTL

-----------------------------------------------------------------------------
\* A launch that is pending was decided before any cancelled launch.
Lateness ==
  /\ late \in SUBSET Tasks
  /\ ~cancelled => late = {}
  /\ pc \in {"launch", "resume"} => late = {}
  /\ Cardinality(late) <= 1

LEMMA LatenessAlways == Spec => []Lateness
<1>1. Init => Lateness
  BY FS_EmptySet DEF Init, Lateness
<1>2. Lateness /\ [Next]_vars => Lateness'
  <2> SUFFICES ASSUME Lateness, [Next]_vars PROVE Lateness'
    OBVIOUS
  <2>1. CASE \E i \in Tasks : Launch(i)
    <3>1. PICK i \in Tasks : Launch(i)
      BY <2>1
    <3>2. late' = {} \/ late' = {i}
      BY <3>1 DEF Launch, Lateness
    <3>3. Cardinality(late') <= 1
      <4>1. Cardinality({}) = 0 /\ Cardinality({i}) = 1
        BY FS_EmptySet, FS_Singleton
      <4> QED
        BY <3>2, <4>1
    <3> QED
      BY <3>1, <3>2, <3>3 DEF Launch, Lateness
  <2>2. CASE \E i \in Tasks : Choose(i) \/ UnpauseRuns(i)
    BY <2>2 DEF Choose, UnpauseRuns, Startable, Lateness
  <2>3. CASE /\ UNCHANGED late
             /\ cancelled => cancelled'
             /\ pc' \in {"launch", "resume"} => pc' = pc
    BY <2>3 DEF Lateness
  <2> QED
    BY <2>1, <2>2, <2>3 DEF Next, Schedule, Pass, NextReport, Settle, vars, scheduler, SkipBlocked,
       PauseBefore, End, PassAgain, PassOver, Wait, Take, UnpauseSettles, ArmGrace, Expire, Drain,
       SettleRest, TaskEnds, Answer, Drop, Cancel
<1> QED
  BY <1>1, <1>2, PTL DEF Spec

(***************************************************************************)
(* At most one task is launched after the cancellation: each launch is     *)
(* decided on a context that was not cancelled then, and the scheduler has *)
(* one decision in hand at a time.                                         *)
(***************************************************************************)
THEOREM AtMostOneLateLaunch == Spec => []OneLateLaunch
<1>1. Lateness => OneLateLaunch
  BY DEF Lateness, OneLateLaunch
<1> QED
  BY <1>1, LatenessAlways, PTL

-----------------------------------------------------------------------------
(***************************************************************************)
(* gather compares names where it means tasks (MCEngineNames.cfg shows     *)
(* what that costs).  What follows is about plans in which the names of    *)
(* what a task waiting for any arrow needs tell those tasks apart.         *)
(***************************************************************************)
NamesTellApart ==
  \A p \in Plans : \A i \in p.any : \A m, n \in p.needs[i] :
    LET name(t) == IF t \in Outside THEN t ELSE p.name[t]
    IN name(m.task) = name(n.task) => m.task = n.task

Worked == {Bare("failed", "error")}
          \cup {[Bare("succeeded", "none") EXCEPT !.outputs = outputs] : outputs \in SUBSET Ports}
Refused == {Bare("skipped", reason) : reason \in {"upstream", "breakpoint", "cancelled"}}

\* What a task that reported says, and what it shows until that is taken.
Reported(i) ==
  \/ step[i] = Bare("running", "none") /\ result[i] \in Worked
  \/ /\ step[i] = Bare("paused", "none")
     /\ plan.asks
     /\ \/ result[i] = Bare("skipped", "breakpoint")
        \/ cancelled /\ result[i] = Bare("skipped", "cancelled")

\* What a task shows while it is not settled.
Shows(i) ==
  \/ i \notin started /\ step[i] = NoOutcome
  \/ pc = "launch" /\ i = cursor /\ step[i] = NoOutcome
  \/ work[i] = "working" /\ step[i] = Bare("running", "none")
  \/ work[i] \in {"asking"} \cup Answers /\ step[i] = Bare("paused", "none") /\ plan.asks
  \/ work[i] = "reported" /\ Reported(i)

Steps ==
  /\ \A i \in settled : step[i] \in Worked \cup Refused
  /\ pc # "ended" => \A i \in Tasks \ settled : Shows(i)

\* What was skipped for what is upstream still lacks it.
Starving == \A i \in Tasks : step[i].reason = "upstream" => Ready(i) /\ ~Arrived(i)

Ending ==
  /\ armed \/ pc = "abandon" => cancelled
  /\ pc # "ended" <=> verdict = "running"
  /\ pc = "ended" => settled = Tasks /\ verdict = Verdict(step)

Tracks == Steps /\ Starving /\ Ending

LEMMA StarvedHasNotArrived ==
  ASSUME NamesTellApart, plan \in Plans, NEW i \in Tasks, Starved(i)
  PROVE  ~Arrived(i)
<1>1. PICK m \in plan.needs[i] : Missing(m)
  BY DEF Starved, MissingNames
<1>2. ASSUME i \in plan.any, NEW n \in plan.needs[i], n.port # NoPort, Delivers(plan, step, i, n.task)
      PROVE  FALSE
  <2>1. ~Missing(n)
    BY <1>2 DEF Delivers, Missing
  <2>2. PICK o \in plan.needs[i] : Missing(o) /\ NameOf(o.task) = NameOf(n.task)
    BY <1>2, <2>1 DEF Starved, Inputs, MissingNames
  <2>3. o.task = n.task
    BY <1>2, <2>2 DEF NamesTellApart, NameOf
  <2> QED BY <1>2, <2>2, <2>3 DEF Delivers, Missing
<1> QED BY <1>1, <1>2 DEF Arrived, Arrives, Missing

\* A step that concerns task i alone.
LEMMA OneTaskSteps ==
  ASSUME IInv, Steps, NEW i \in Tasks, pc # "ended",
         pc = "launch" => cursor = i \/ (pc' = "launch" /\ cursor' = cursor),
         \A j \in Tasks \ {i} : /\ step'[j] = step[j] /\ work'[j] = work[j] /\ result'[j] = result[j]
                                /\ j \in started' <=> j \in started
                                /\ j \in settled' <=> j \in settled,
         settled' \subseteq Tasks, plan' = plan, cancelled => cancelled',
         i \in settled' => step'[i] \in Worked \cup Refused,
         i \notin settled' => Shows(i)'
  PROVE  Steps'
<1>1. ASSUME NEW j \in Tasks, j # i, j \notin settled PROVE Shows(j)'
  BY <1>1 DEF Steps, Shows, Reported
<1> QED BY <1>1 DEF Steps

\* What the tasks show as they start.
LEMMA PassSteps ==
  ASSUME IInv, Steps, NEW i \in Tasks, SkipBlocked(i) \/ Choose(i) \/ PauseBefore(i) \/ Launch(i)
  PROVE  Steps'
<1> USE DEF IInv, TypeOK, channel
<1>1. CASE SkipBlocked(i)
  <2>1. step'[i] \in Refused /\ settled' = settled \cup {i}
    BY <1>1 DEF SkipBlocked, Refused
  <2> QED BY <1>1, <2>1, OneTaskSteps DEF SkipBlocked
<1>2. CASE Choose(i)
  <2>1. i \notin started /\ i \notin settled /\ pc = "pass" /\ work[i] = "none"
    BY <1>2 DEF Choose, Startable, Candidate, Candidates, Goroutines
  <2>2. step[i] = NoOutcome
    BY <2>1 DEF Steps, Shows, Answers
  <2>3. Shows(i)'
    BY <1>2, <2>2 DEF Choose, Shows
  <2> QED BY <1>2, <2>1, <2>3, OneTaskSteps DEF Choose
<1>3. CASE PauseBefore(i)
  <2>1. i \notin started /\ i \notin settled /\ pc = "pass"
    BY <1>3 DEF PauseBefore, Startable, Candidate, Candidates, Goroutines
  <2>2. Shows(i)'
    BY <1>3 DEF PauseBefore, Shows, Pausing
  <2> QED BY <1>3, <2>1, <2>2, OneTaskSteps DEF PauseBefore
<1>4. CASE Launch(i)
  <2>1. i \notin settled /\ i = cursor /\ pc # "ended"
    BY <1>4 DEF Launch, Goroutines
  <2>2. Shows(i)'
    BY <1>4 DEF Launch, Shows
  <2> QED BY <1>4, <2>1, <2>2, OneTaskSteps DEF Launch
<1> QED BY <1>1, <1>2, <1>3, <1>4

\* The task that reported first is taken, in next or in settle.
LEMMA CompleteSteps ==
  ASSUME IInv, Steps, Take \/ Drain
  PROVE  /\ Steps'
         /\ \E i \in Tasks : /\ step' = [step EXCEPT ![i] = result[i]]
                             /\ settled' = settled \cup {i}
                             /\ i \in started \ settled
                             /\ Reported(i)
<1>1. pc \in {"wait", "abandon"} /\ finished # <<>> /\ Complete(Head(finished))
      /\ UNCHANGED <<plan, started, cancelled, work>>
  BY DEF Take, Drain, Listening
<1>2. PICK i \in Tasks : i = Head(finished) /\ i \in started \ settled /\ work[i] = "reported"
  BY <1>1, TailOfChannel DEF IInv, OnChannel
<1>3. Reported(i)
  BY <1>1, <1>2 DEF Steps, Shows, Answers
<1>4. /\ step' = [step EXCEPT ![i] = result[i]]
      /\ result' = [result EXCEPT ![i] = NoOutcome]
      /\ settled' = settled \cup {i}
  BY <1>1, <1>2 DEF Complete
<1>5. result[i] \in Worked \cup Refused
  BY <1>3 DEF Reported, Refused
<1>6. Steps'
  BY <1>1, <1>2, <1>4, <1>5, OneTaskSteps DEF IInv, TypeOK
<1> QED BY <1>2, <1>3, <1>4, <1>6

LEMMA ReportSteps ==
  ASSUME IInv, Steps, NEW i \in Tasks,
         UnpauseSettles(i) \/ UnpauseRuns(i) \/ TaskEnds(i) \/ Answer(i) \/ Drop(i)
  PROVE  Steps'
<1> USE DEF IInv, TypeOK
<1>1. CASE pc = "ended"
  BY <1>1 DEF UnpauseSettles, UnpauseRuns, TaskEnds, Answer, Drop, Listening, Steps, run, scheduler
<1>2. CASE pc # "ended" /\ UnpauseSettles(i)
  <2>1. i \notin settled /\ i \in started
    BY <1>2 DEF UnpauseSettles, Goroutines, Busy, Answers
  <2>2. step[i] = Bare("paused", "none") /\ plan.asks
    BY <1>2, <2>1 DEF UnpauseSettles, Listening, Steps, Shows, Answers
  <2>3. result'[i] = Bare("skipped", "breakpoint") \/ (cancelled /\ result'[i] = Bare("skipped", "cancelled"))
    BY <1>2 DEF UnpauseSettles, Finish
  <2>4. work'[i] = "reported"
    BY <1>2 DEF UnpauseSettles, Finish
  <2>5. step'[i] = step[i] /\ plan' = plan /\ cancelled' = cancelled
    BY <1>2 DEF UnpauseSettles
  <2>6. Reported(i)'
    BY <2>2, <2>3, <2>5 DEF Reported
  <2>7. Shows(i)'
    BY <2>4, <2>6 DEF Shows
  <2> QED BY <1>2, <2>1, <2>7, OneTaskSteps DEF UnpauseSettles, Finish, scheduler
<1>3. CASE pc # "ended" /\ UnpauseRuns(i)
  <2>1. ASSUME NEW j \in Tasks, Shows(j) PROVE Shows(j)'
    BY <1>3, <2>1 DEF UnpauseRuns, Shows, Reported, Listening, channel
  <2> QED BY <1>3, <2>1 DEF UnpauseRuns, Steps
<1>4. CASE pc # "ended" /\ TaskEnds(i)
  <2>1. i \notin settled /\ i \in started
    BY <1>4 DEF TaskEnds, Goroutines, Busy
  <2>2. step[i] = Bare("running", "none")
    BY <1>4, <2>1 DEF TaskEnds, Steps, Shows, Answers, Goroutines
  <2>3. result'[i] \in Worked /\ work'[i] = "reported" /\ step' = step
    BY <1>4 DEF TaskEnds, Finish, Worked, run
  <2>4. Shows(i)'
    BY <2>2, <2>3 DEF Shows, Reported
  <2> QED BY <1>4, <2>1, <2>4, OneTaskSteps DEF TaskEnds, Finish, run, scheduler
<1>5. CASE pc # "ended" /\ Answer(i)
  <2>1. i \notin settled /\ i \in started
    BY <1>5 DEF Answer, Goroutines, Busy
  <2>2. step[i] = Bare("paused", "none") /\ plan.asks
    BY <1>5, <2>1 DEF Answer, Steps, Shows, Answers, Goroutines
  <2>3. Shows(i)'
    BY <1>5, <2>2 DEF Answer, Shows, run
  <2> QED BY <1>5, <2>1, <2>3, OneTaskSteps DEF Answer, run, scheduler, channel
<1> QED BY <1>1, <1>2, <1>3, <1>4, <1>5 DEF Drop

LEMMA NextSteps ==
  ASSUME IInv, Steps, [Next]_vars
  PROVE  Steps'
<1> USE DEF run, scheduler, channel
<1>1. ASSUME UNCHANGED <<step, work, result, started, settled, plan>>, pc # "launch",
             pc' # "ended" => pc # "ended", cancelled => cancelled'
      PROVE  Steps'
  BY <1>1 DEF Steps, Shows, Reported
<1>2. CASE UNCHANGED vars
  BY <1>2 DEF vars, Steps, Shows, Reported
<1>3. CASE End \/ PassAgain \/ Wait \/ ArmGrace \/ Expire
  BY <1>1, <1>3 DEF End, PassAgain, Wait, PassOver, ArmGrace, Expire
<1>4. CASE Cancel
  BY <1>4 DEF Cancel, Steps, Shows, Reported
<1>5. CASE SettleRest
  BY <1>5 DEF SettleRest, Rest, Abandoned, Refused, Steps
<1> QED
  BY <1>2, <1>3, <1>4, <1>5, PassSteps, CompleteSteps, ReportSteps
     DEF Next, Schedule, Pass, NextReport, Settle

LEMMA NextStarving ==
  ASSUME NamesTellApart, IInv, Steps, Starving, [Next]_vars
  PROVE  Starving'
<1> SUFFICES ASSUME NEW i \in Tasks, step'[i].reason = "upstream"
             PROVE  Ready(i)' /\ ~Arrived(i)'
  BY DEF Starving
<1> USE DEF IInv, TypeOK
<1>1. ASSUME Ready(i), ~Arrived(i) PROVE Ready(i)' /\ ~Arrived(i)'
  BY <1>1, ArrivedStays
<1>2. CASE step'[i].reason = step[i].reason
  BY <1>1, <1>2 DEF Starving
<1>3. CASE SkipBlocked(i)
  <2>1. Ready(i) /\ Starved(i)
    BY <1>3 DEF SkipBlocked, Candidate, Candidates, Bare
  <2> QED BY <1>1, <2>1, StarvedHasNotArrived
<1>4. ASSUME NEW j \in Tasks, SkipBlocked(j), i # j
      PROVE  step'[i].reason = step[i].reason
  BY <1>4 DEF SkipBlocked
<1>5. ASSUME NEW j \in Tasks, PauseBefore(j) \/ Launch(j)
      PROVE  step'[i].reason = step[i].reason
  BY <1>5 DEF PauseBefore, Launch, Bare
<1>6. ASSUME Take \/ Drain
      PROVE  step'[i].reason = step[i].reason
  BY <1>6, CompleteSteps DEF Reported, Worked, Bare
<1>7. ASSUME SettleRest
      PROVE  step'[i].reason = step[i].reason
  BY <1>7 DEF SettleRest, Rest, Abandoned, Bare
<1>8. ASSUME UNCHANGED step PROVE step'[i].reason = step[i].reason
  BY <1>8
<1> QED
  BY <1>2, <1>3, <1>4, <1>5, <1>6, <1>7, <1>8
     DEF Next, Schedule, Pass, NextReport, Settle, vars, run, Choose, End, PassAgain, Wait,
         UnpauseSettles, UnpauseRuns, ArmGrace, Expire, TaskEnds, Answer, Drop, Cancel

LEMMA NextEnding ==
  ASSUME IInv, Ending, [Next]_vars
  PROVE  Ending'
<1> USE DEF Ending, run, scheduler, channel
<1>1. CASE End
  <2>1. Cardinality(settled) = N
    BY <1>1, Count, SizeAssumption DEF End, PassOver, IInv, Counts, Active, TypeOK
  <2>2. settled = Tasks
    BY <2>1, Count DEF IInv, TypeOK
  <2>3. Verdict(step)' = Verdict(step) /\ Verdict(step) # "running"
    BY <1>1 DEF End, Verdict
  <2> QED BY <1>1, <2>2, <2>3 DEF End, PassOver
<1>2. CASE SettleRest
  <2>1. Verdict(Rest) # "running" /\ Verdict(step)' = Verdict(Rest)
    BY <1>2 DEF SettleRest, Verdict
  <2> QED BY <1>2, <2>1 DEF SettleRest
<1>3. CASE \E i \in Tasks : TaskEnds(i) \/ Answer(i) \/ Drop(i)
  <2>1. Verdict(step)' = Verdict(step)
    BY <1>3 DEF TaskEnds, Answer, Drop, Verdict
  <2> QED BY <1>3, <2>1 DEF TaskEnds, Answer, Drop
<1>4. CASE UNCHANGED vars
  <2>1. Verdict(step)' = Verdict(step)
    BY <1>4 DEF vars, Verdict
  <2> QED BY <1>4, <2>1 DEF vars
<1>5. CASE Cancel \/ PassAgain \/ Wait \/ NextReport \/ Drain
  BY <1>5 DEF Cancel, PassAgain, PassOver, Wait, NextReport, Take, UnpauseSettles, UnpauseRuns,
     ArmGrace, Expire, Drain, Listening
<1>6. CASE \E i \in Tasks : SkipBlocked(i) \/ Choose(i) \/ PauseBefore(i) \/ Launch(i)
  BY <1>6 DEF SkipBlocked, Choose, PauseBefore, Startable, Launch
<1> QED
  BY <1>1, <1>2, <1>3, <1>4, <1>5, <1>6 DEF Next, Schedule, Pass, Settle

LEMMA TracksAlways == ASSUME NamesTellApart PROVE Spec => []Tracks
<1>1. Init => Tracks
  BY DEF Init, Tracks, Steps, Shows, Starving, Ending, NoOutcome, Bare
<1>2. IInv /\ Tracks /\ [Next]_vars => Tracks'
  BY NextSteps, NextStarving, NextEnding DEF Tracks
<1> QED
  BY <1>1, <1>2, Inductive, PTL DEF Spec

(***************************************************************************)
(* A run called succeeded lost no task: each one ran to success, or was    *)
(* skipped by someone at its breakpoint, or by what had not arrived then   *)
(* and has not arrived at the end.                                         *)
(***************************************************************************)
THEOREM SuccessIsComplete == ASSUME NamesTellApart PROVE Spec => []SucceededRanEverything
<1>1. Tracks => SucceededRanEverything
  <2> SUFFICES ASSUME Tracks, verdict = "succeeded", NEW i \in Tasks
               PROVE  \/ step[i].status = "succeeded"
                      \/ step[i].status = "skipped" /\ step[i].reason = "breakpoint"
                      \/ step[i].status = "skipped" /\ ~Arrived(i)
    BY DEF SucceededRanEverything
  <2>1. settled = Tasks /\ Verdict(step) = "succeeded"
    BY DEF Tracks, Ending
  <2>2. step[i] \in Worked \cup Refused
    BY <2>1 DEF Tracks, Steps
  <2>3. step[i].status # "failed" /\ ~(step[i].status = "skipped" /\ step[i].reason = "cancelled")
    BY <2>1 DEF Verdict
  <2>4. step[i].reason = "upstream" => ~Arrived(i)
    BY DEF Tracks, Starving
  <2> QED BY <2>2, <2>3, <2>4 DEF Worked, Refused, Bare
<1> QED
  BY <1>1, TracksAlways, PTL

-----------------------------------------------------------------------------
(***************************************************************************)
(* The refinement.  What the promise sees of a task is its step, but for a *)
(* pause; its constants and its plans are the engine's.                    *)
(***************************************************************************)
LEMMA OneVocabulary ==
  /\ Promise!Tasks = Tasks /\ Promise!Outside = Outside
  /\ Promise!NoOutcome = NoOutcome
  /\ \A status, reason : Promise!Bare(status, reason) = Bare(status, reason)
  /\ \A p, s, i : Promise!Arrives(p, s, i) <=> Arrives(p, s, i)
  /\ \A s : Promise!Verdict(s) = Verdict(s)
  /\ \A S : Promise!Cardinality(S) = Cardinality(S)
<1>1. Promise!Tasks = Tasks /\ Promise!Outside = Outside
  BY DEF Promise!Tasks, Tasks, Promise!Outside, Outside
<1>2. \A status, reason : Promise!Bare(status, reason) = Bare(status, reason)
  BY DEF Promise!Bare, Bare
<1>3. Promise!NoOutcome = NoOutcome
  BY <1>2 DEF Promise!NoOutcome, NoOutcome
<1>4. \A s, n : Promise!Lacking(s, n) <=> Lacking(s, n)
  BY <1>1 DEF Promise!Lacking, Lacking, Promise!Gone, Gone, Promise!Emitted, Emitted
<1>5. \A p, s, i : Promise!Arrives(p, s, i) <=> Arrives(p, s, i)
  BY <1>4 DEF Promise!Arrives, Arrives, Promise!Delivers, Delivers
<1>6. \A s : Promise!Verdict(s) = Verdict(s)
  BY <1>1 DEF Promise!Verdict, Verdict
<1>7. \A S : Promise!Cardinality(S) = Cardinality(S)
  BY DEF Promise!Cardinality, Cardinality
<1> QED BY <1>1, <1>2, <1>3, <1>5, <1>6, <1>7

\* What each task shows, and so what the promise sees of it.
LEMMA Seen ==
  ASSUME IInv, Steps, pc # "ended", NEW i \in Tasks
  PROVE  /\ Promise!Settled(i) <=> i \in settled
         /\ Promise!Running(i) <=> step[i].status = "running"
         /\ Promise!Pending(i) <=> i \notin settled /\ step[i].status # "running"
         /\ Shown[i].outputs = step[i].outputs
         /\ Shown[i].status \in {"failed", "skipped"} <=> step[i].status \in {"failed", "skipped"}
<1> USE DEF Promise!Settled, Promise!Pending, Promise!Running, Shown, NoOutcome, Bare
<1>1. CASE i \in settled
  <2>1. step[i].status \in {"succeeded", "failed", "skipped"}
    BY <1>1 DEF Steps, Worked, Refused
  <2> QED BY <1>1, <2>1
<1>2. CASE i \notin settled
  <2>1. step[i] \in {NoOutcome, Bare("running", "none"), Bare("paused", "none")}
    BY <1>2 DEF Steps, Shows, Reported
  <2> QED BY <1>2, <2>1
<1> QED BY <1>1, <1>2

LEMMA SeenArriving ==
  ASSUME IInv, Steps, pc # "ended", NEW i \in Tasks
  PROVE  /\ Promise!Ready(i) <=> Ready(i)
         /\ Promise!Arrives(plan, Shown, i) <=> Arrived(i)
<1>1. \A n \in plan.needs[i] : n.task \in Tasks \cup Outside
  BY PlanAssumption DEF IInv, TypeOK, Plan, Need
<1>2. \A n \in plan.needs[i] : Lacking(Shown, n) <=> Lacking(step, n)
  BY <1>1, Seen DEF Lacking, Gone, Emitted
<1>3. Promise!Arrives(plan, Shown, i) <=> Arrived(i)
  BY <1>2, OneVocabulary DEF Arrived, Arrives, Delivers
<1>4. Promise!Ready(i) <=> Ready(i)
  BY Seen, OneVocabulary DEF Promise!Ready, Ready
<1> QED BY <1>3, <1>4

LEMMA ShownChanges ==
  ASSUME IInv, NEW i \in Tasks, NEW report, step' = [step EXCEPT ![i] = report]
  PROVE  /\ report.status # "paused" => Shown' = [Shown EXCEPT ![i] = report]
         /\ report.status = "paused" /\ Shown[i] = NoOutcome => Shown' = Shown
BY DEF IInv, TypeOK, Shown

\* A task is skipped, whatever or whoever skips it.
LEMMA SkipIsSeen ==
  ASSUME IInv, Tracks, pc # "ended", NEW i \in Tasks, i \notin settled, Ready(i),
         step[i].status # "running",
         NEW reason \in {"upstream", "cancelled", "breakpoint"},
         step' = [step EXCEPT ![i] = Bare("skipped", reason)],
         reason = "upstream" => ~Arrived(i),
         reason = "cancelled" => cancelled,
         reason = "breakpoint" => plan.asks /\ Arrived(i),
         UNCHANGED <<plan, cancelled, verdict, late>>
  PROVE  Promise!Skip(i, reason)
<1>1. verdict = "running" /\ Steps
  BY DEF Tracks, Ending
<1>2. Promise!Pending(i) /\ Promise!Ready(i) /\ (Promise!Arrives(plan, Shown, i) <=> Arrived(i))
  BY <1>1, Seen, SeenArriving
<1>3. Shown' = [Shown EXCEPT ![i] = Promise!Bare("skipped", reason)]
  BY ShownChanges, OneVocabulary DEF Bare
<1> QED BY <1>1, <1>2, <1>3 DEF Promise!Skip, Promise!Over, Promise!Becomes

\* A task begins: the one decision the scheduler has in hand.
LEMMA LaunchIsSeen ==
  ASSUME IInv, Tracks, Flow, Lateness, NEW i \in Tasks, Launch(i)
  PROVE  Promise!Begin(i)
<1>1. /\ pc \in {"launch", "resume"} /\ verdict = "running" /\ Steps
      /\ i \in started \ settled /\ (pc = "launch" \/ work[i] \in Answers)
  BY DEF Launch, Tracks, Ending, IInv, Goroutines
<1>2. step[i] = NoOutcome \/ step[i] = Bare("paused", "none")
  BY <1>1 DEF Steps, Shows, Launch, IInv, Goroutines, Answers
<1>3. Promise!Pending(i)
  BY <1>1, <1>2, Seen DEF NoOutcome, Bare
<1>4. Promise!Ready(i) /\ Promise!Arrives(plan, Shown, i)
  <2>1. Chosen(i)
    BY <1>1 DEF Launch, Chosen, Answers
  <2> QED BY <1>1, <2>1, SeenArriving DEF Flow
<1>5. Cardinality({j \in Tasks : Promise!Running(j)}) < plan.limit
  <2> DEFINE R == {j \in Tasks : Promise!Running(j)}
             U == started \ settled
  <2>1. \A j \in R : j \in U /\ j # i
    <3> SUFFICES ASSUME NEW j \in Tasks, Promise!Running(j) PROVE j \in U /\ j # i
      OBVIOUS
    <3>1. step[j].status = "running" /\ j \notin settled
      BY <1>1, Seen DEF Promise!Settled
    <3>2. j # i
      BY <1>2, <3>1 DEF NoOutcome, Bare
    <3>3. work[j] \in {"working", "reported"}
      BY <1>1, <3>1 DEF Steps, Shows, NoOutcome, Bare
    <3>4. j \in started
      BY <1>1, <3>3 DEF IInv, Goroutines
    <3> QED BY <3>1, <3>2, <3>4
  <2>2. U \in SUBSET Tasks /\ U \ {i} \in SUBSET Tasks /\ R \in SUBSET (U \ {i}) /\ R \in SUBSET Tasks
    BY <2>1 DEF IInv, TypeOK
  <2>3. Cardinality(U \ {i}) = Cardinality(U) - 1
    BY <1>1, <2>2, Count
  <2>4. Cardinality(R) <= Cardinality(U \ {i})
    BY <2>2, Count, FS_Subset
  <2>5. Cardinality(U) <= plan.limit
    BY <1>1 DEF IInv, Counts, Active
  <2>6. Cardinality(R) \in Int /\ Cardinality(U) \in Int /\ plan.limit \in Int
    BY <2>2, Count, LimitIsPositive, SizeAssumption DEF IInv, TypeOK
  <2> HIDE DEF R, U
  <2>7. Cardinality(R) < plan.limit
    BY <2>3, <2>4, <2>5, <2>6
  <2> QED BY <2>7 DEF R
<1>6. Shown' = [Shown EXCEPT ![i] = Promise!Bare("running", "none")]
  BY ShownChanges, OneVocabulary DEF Launch, Bare
<1>7. late = {} /\ (late' # {}) = cancelled
  BY <1>1 DEF Lateness, Launch, IInv, TypeOK
<1>8. UNCHANGED <<plan, cancelled, verdict>>
  BY DEF Launch
<1>9. {j \in Promise!Tasks : Promise!Running(j)} = {j \in Tasks : Promise!Running(j)}
  BY OneVocabulary
<1>10. Promise!Becomes(i, Promise!Bare("running", "none"))
  BY <1>6, <1>8 DEF Promise!Becomes
<1>11. Promise!Cardinality({j \in Promise!Tasks : Promise!Running(j)}) < plan.limit
  BY <1>5, <1>9, OneVocabulary
<1>12. ~Promise!Over
  BY <1>1 DEF Promise!Over
<1>13. ~(cancelled /\ late # {}) /\ (late # {})' = cancelled
  BY <1>7
<1> QED
  BY ONLY <1>3, <1>4, <1>10, <1>11, <1>12, <1>13 DEF Promise!Begin

\* A report is taken: the task ended, or was skipped at its breakpoint.
LEMMA ReportIsSeen ==
  ASSUME IInv, Tracks, Flow, Take \/ Drain
  PROVE  Promise!Next
<1>1. pc # "ended" /\ verdict = "running" /\ Steps /\ UNCHANGED <<plan, cancelled, verdict, late>>
  BY DEF Take, Drain, Listening, Tracks, Ending, scheduler
<1>2. PICK i \in Tasks : /\ step' = [step EXCEPT ![i] = result[i]]
                         /\ i \in started \ settled
                         /\ Reported(i)
                         /\ work[i] # "none"
  <2>1. Head(finished) \in Tasks /\ work[Head(finished)] = "reported"
    BY TailOfChannel DEF Take, Drain, IInv, OnChannel
  <2>2. PICK i \in Tasks : /\ step' = [step EXCEPT ![i] = result[i]]
                           /\ settled' = settled \cup {i}
                           /\ i \in started \ settled
                           /\ Reported(i)
    BY <1>1, CompleteSteps
  <2>3. i = Head(finished)
    BY <2>2 DEF Take, Drain, Complete
  <2> QED BY <2>1, <2>2, <2>3
<1>3. Ready(i) /\ Arrived(i)
  BY <1>2 DEF Flow, Chosen
<1>4. i \in Promise!Tasks
  BY OneVocabulary
<1>5. CASE step[i] = Bare("running", "none") /\ result[i] \in Worked
  <2>1. Promise!Running(i)
    BY <1>1, <1>5, Seen DEF Bare
  <2>2. Shown' = [Shown EXCEPT ![i] = result[i]]
    BY <1>2, <1>5, ShownChanges DEF Worked, Bare
  <2>3. CASE result[i] = Bare("failed", "error")
    <3>1. Promise!Fail(i)
      BY <1>1, <2>1, <2>2, <2>3, OneVocabulary DEF Promise!Fail, Promise!Over, Promise!Becomes
    <3> QED BY <1>4, <3>1 DEF Promise!Next
  <2>4. CASE \E outputs \in SUBSET Ports :
               result[i] = [Bare("succeeded", "none") EXCEPT !.outputs = outputs]
    <3>1. PICK outputs \in SUBSET Ports :
            result[i] = [status |-> "succeeded", reason |-> "none", outputs |-> outputs]
      BY <2>4 DEF Bare
    <3>2. Promise!Succeed(i)
      BY <1>1, <2>1, <2>2, <3>1 DEF Promise!Succeed, Promise!Over, Promise!Becomes
    <3> QED BY <1>4, <3>2 DEF Promise!Next
  <2> QED BY <1>5, <2>3, <2>4 DEF Worked
<1>6. CASE /\ step[i] = Bare("paused", "none")
           /\ plan.asks
           /\ \/ result[i] = Bare("skipped", "breakpoint")
              \/ cancelled /\ result[i] = Bare("skipped", "cancelled")
  <2>1. PICK reason \in {"cancelled", "breakpoint"} :
          result[i] = Bare("skipped", reason) /\ (reason = "cancelled" => cancelled)
    BY <1>6
  <2>2. step[i].status # "running"
    BY <1>6 DEF Bare
  <2>3. Promise!Skip(i, reason)
    BY <1>1, <1>2, <1>3, <1>6, <2>1, <2>2, SkipIsSeen
  <2> QED BY <1>4, <2>3 DEF Promise!Next
<1> QED BY <1>2, <1>5, <1>6 DEF Reported

LEMMA BlockedIsSeen ==
  ASSUME NamesTellApart, IInv, Tracks, NEW i \in Tasks, SkipBlocked(i)
  PROVE  Promise!Next
<1>1. /\ pc # "ended" /\ i \notin started /\ i \notin settled /\ Ready(i)
      /\ UNCHANGED <<plan, cancelled, verdict, late>>
  BY DEF SkipBlocked, Candidate, Candidates, IInv, Goroutines
<1>2. PICK reason \in {"upstream", "cancelled", "breakpoint"} :
        /\ step' = [step EXCEPT ![i] = Bare("skipped", reason)]
        /\ reason = "upstream" => ~Arrived(i)
        /\ reason = "cancelled" => cancelled
        /\ reason # "breakpoint"
  BY StarvedHasNotArrived DEF SkipBlocked, IInv, TypeOK
<1>3. step[i].status # "running"
  BY <1>1 DEF Tracks, Steps, Shows, NoOutcome, Bare, IInv, Goroutines, Answers, SkipBlocked
<1>4. Promise!Skip(i, reason)
  BY <1>1, <1>2, <1>3, SkipIsSeen
<1> QED BY <1>4, OneVocabulary DEF Promise!Next

\* The end of the run, with or without tasks that are given up.
LEMMA EndIsSeen ==
  ASSUME IInv, Tracks, Ending', End \/ SettleRest
  PROVE  Promise!Next
<1>1. /\ pc # "ended" /\ verdict = "running" /\ Steps
      /\ UNCHANGED <<plan, cancelled, late>>
  BY DEF End, PassOver, SettleRest, Tracks, Ending
<1>2. \A i \in Tasks : Promise!Settled(i) <=> i \in settled
  BY <1>1, Seen
<1>3. \A i \in settled : step[i].status # "paused"
  BY <1>1 DEF Steps, Worked, Refused, Bare
<1>4. CASE settled = Tasks
  <2>1. step' = step /\ verdict' = Verdict(step)
    BY <1>4 DEF End, SettleRest, Rest, IInv, TypeOK
  <2>2. Shown = step /\ Shown' = Shown
    BY <1>3, <1>4, <2>1 DEF Shown, IInv, TypeOK
  <2>3. Promise!Finish
    BY <1>1, <1>2, <1>4, <2>1, <2>2, OneVocabulary DEF Promise!Finish, Promise!Over
  <2> QED BY <2>3 DEF Promise!Next
<1>5. CASE settled # Tasks
  <2>1. PICK i \in Tasks : i \notin settled
    BY <1>5 DEF IInv, TypeOK
  <2>2. SettleRest
    <3>1. ASSUME End PROVE FALSE
      <4>1. settled' = settled /\ pc' = "ended"
        BY <3>1 DEF End
      <4> QED BY <1>5, <4>1 DEF Ending
    <3> QED BY <3>1
  <2>3. step' = Rest /\ cancelled /\ verdict' = Verdict(Rest)
    BY <2>2 DEF SettleRest, Tracks, Ending
  <2>4. Rest[i].status = "skipped" /\ Rest[i].reason = "cancelled"
    BY <2>1 DEF Rest, Abandoned, Bare
  <2>5. verdict' = "failed"
    BY <2>3, <2>4 DEF Verdict
  <2>6. Shown' = [j \in Tasks |-> IF Promise!Settled(j) THEN Shown[j] ELSE Promise!Bare("skipped", "cancelled")]
    BY <1>2, <1>3, <2>3, OneVocabulary DEF Shown, Rest, Abandoned, Bare
  <2>7. Promise!Abandon
    BY <1>1, <1>2, <2>1, <2>3, <2>5, <2>6, OneVocabulary DEF Promise!Abandon, Promise!Over
  <2> QED BY <2>7 DEF Promise!Next
<1> QED BY <1>4, <1>5

LEMMA StepIsSeen ==
  ASSUME NamesTellApart, IInv, Tracks, Flow, Lateness, Ending', [Next]_vars
  PROVE  [Promise!Next]_Promise!vars
<1> USE DEF run, scheduler, channel
<1>1. ASSUME UNCHANGED <<plan, step, cancelled, late, verdict>>
      PROVE  UNCHANGED Promise!vars
  BY <1>1 DEF Promise!vars, Shown
<1>2. CASE \E i \in Tasks : SkipBlocked(i)
  BY <1>2, BlockedIsSeen
<1>3. CASE \E i \in Tasks : PauseBefore(i)
  <2>1. PICK i \in Tasks : PauseBefore(i)
    BY <1>3
  <2>2. Shown[i] = NoOutcome
    BY <2>1 DEF PauseBefore, Startable, Candidate, Candidates, Tracks, Steps, Shows, Shown,
       IInv, Goroutines, Answers
  <2>3. Shown' = Shown
    <3>1. step' = [step EXCEPT ![i] = Bare("paused", "none")] /\ Bare("paused", "none").status = "paused"
      BY <2>1 DEF PauseBefore, Bare
    <3> QED BY <2>2, <3>1, ShownChanges
  <2> QED BY <2>1, <2>3 DEF PauseBefore, Promise!vars
<1>4. CASE \E i \in Tasks : Launch(i)
  BY <1>4, LaunchIsSeen, OneVocabulary DEF Promise!Next
<1>5. CASE End \/ SettleRest
  BY <1>5, EndIsSeen
<1>6. CASE Take \/ Drain
  BY <1>6, ReportIsSeen
<1>7. CASE Cancel
  <2>1. verdict = "running" /\ Shown' = Shown
    BY <1>7 DEF Cancel, Tracks, Ending, Shown
  <2>2. Promise!Cancel
    BY <1>7, <2>1 DEF Cancel, Promise!Cancel, Promise!Over
  <2> QED BY <2>2 DEF Promise!Next
<1>8. CASE \/ PassAgain \/ Wait \/ ArmGrace \/ Expire \/ UNCHANGED vars
           \/ \E i \in Tasks : \/ Choose(i) \/ UnpauseSettles(i) \/ UnpauseRuns(i)
                               \/ TaskEnds(i) \/ Answer(i) \/ Drop(i)
  BY <1>1, <1>8 DEF PassAgain, Wait, ArmGrace, Expire, vars, Choose, UnpauseSettles, UnpauseRuns,
     TaskEnds, Answer, Drop
<1> QED
  BY <1>2, <1>3, <1>4, <1>5, <1>6, <1>7, <1>8 DEF Next, Schedule, Pass, NextReport, Settle

(***************************************************************************)
(* Execute does what the package promises, for every accepted plan whose   *)
(* names tell its tasks apart: its scheduler, channel and goroutines only  *)
(* ever do what Workflow allows, or what Workflow does not see.            *)
(***************************************************************************)
THEOREM EngineImplementsWorkflow == ASSUME NamesTellApart PROVE Spec => KeepsPromise
<1>1. Init => Promise!Init
  BY OneVocabulary DEF Init, Promise!Init, Shown, NoOutcome, Bare
<1>2. IInv /\ Tracks /\ Tracks' /\ Flow /\ Lateness /\ [Next]_vars => [Promise!Next]_Promise!vars
  BY StepIsSeen DEF Tracks
<1> QED
  BY <1>1, <1>2, Inductive, TracksAlways, FlowAlways, LatenessAlways, PTL
     DEF Spec, KeepsPromise, Promise!Spec
-----------------------------------------------------------------------------
(***************************************************************************)
(* The loop runner of LoopRun, for every body plan and every number of     *)
(* repeats.  The body is an execution of Engine, so what is shown of one   *)
(* above (IInv, Steps and Ending) holds in each repeat; LoopInv adds what  *)
(* is left behind when a repeat is over and what the runner made of it.    *)
(***************************************************************************)
Body == IInv /\ Steps /\ Ending

\* A repeat that ends before any cancellation leaves no goroutine behind.
Idle ==
  ~cancelled => /\ \A i \in Tasks : work[i] # "dropped"
                /\ pc = "ended" => \A i \in Tasks : work[i] \in {"none", "reported"}

\* The runner goes on only after a repeat that neither failed nor ended it.
GoingOn ==
  /\ loop = "top" => IF iterations = 0
                     THEN \A i \in Tasks : work[i] = "none"
                     ELSE pc = "ended" /\ ~BodyFailed /\ ~Ended
  /\ loop = "repeat" => iterations # 0

\* A success is told of the body as it is when the runner is done.
Told ==
  outcome \in Succeeds => /\ loop = "done"
                          /\ pc = "ended" /\ ~BodyFailed
                          /\ outcome = "done" <=> Ended
                          /\ outcome = "exhausted" => iterations = MaxIterations

\* The outer run shows the body as it is, until it gives the loop up.
Watched ==
  /\ outer = "running" => shown = step
  /\ outer \in Succeeds => outcome = outer /\ shown = step

LoopInv == LoopTypeOK /\ Body /\ Idle /\ GoingOn /\ Told /\ Watched

-----------------------------------------------------------------------------
LEMMA InitBody == Init => Body
<1>1. Init => Steps /\ Ending
  BY DEF Init, Steps, Shows, Ending, NoOutcome, Bare
<1> QED BY <1>1, InitIInv DEF Body

LEMMA InitLoopInv == LoopInit => LoopInv
<1> SUFFICES ASSUME LoopInit PROVE LoopInv
  OBVIOUS
<1> USE DEF LoopInit
<1>1. Body /\ TypeOK /\ Init
  BY InitBody DEF Body, IInv
<1>2. NoOutcome \in Outcome
  BY BareIsOutcome DEF NoOutcome, Statuses, Reasons
<1>3. LoopTypeOK
  <2>1. 0 \in 0..MaxIterations
    BY LoopAssumption
  <2>2. shown \in [Tasks -> Outcome]
    BY <1>2
  <2> QED BY <1>1, <2>1, <2>2 DEF LoopTypeOK, Results
<1>4. Idle /\ GoingOn /\ Told /\ Watched
  BY <1>1 DEF Init, Idle, GoingOn, Told, Watched, Succeeds
<1> QED BY <1>1, <1>3, <1>4 DEF LoopInv

-----------------------------------------------------------------------------
(***************************************************************************)
(* The execution of the body takes steps of Engine, and so does a repeat   *)
(* that starts: it is where Engine does.                                   *)
(***************************************************************************)
LEMMA ExecutionKeepsBody ==
  ASSUME LoopInv, BodySchedules \/ BodyWorks
  PROVE  Body'
<1>1. [Next]_vars
  BY DEF BodySchedules, BodyWorks, Next
<1> QED BY <1>1, NextKeepsIInv, NextSteps, NextEnding DEF LoopInv, Body

LEMMA FreshStartsBody ==
  ASSUME LoopInv, Repeat
  PROVE  Body'
<1>1. plan \in Plans /\ ~cancelled /\ FreshExecution /\ UNCHANGED <<plan, cancelled>>
  BY DEF LoopInv, LoopTypeOK, TypeOK, Repeat, MayRepeat, FreshExecution
<1>2. Init'
  BY <1>1 DEF FreshExecution, Init
<1>3. Init' => Body'
  BY InitBody, PTL
<1> QED BY <1>2, <1>3

LEMMA RestKeepsBody ==
  ASSUME LoopInv, UNCHANGED nested, cancelled' \in BOOLEAN, cancelled => cancelled'
  PROVE  Body'
<1> USE DEF nested, run, scheduler, channel
<1>1. Body
  BY DEF LoopInv
<1>2. IInv'
  BY <1>1 DEF Body, IInv, TypeOK, Goroutines, Counts, OnChannel, Active
<1>3. Steps'
  BY <1>1 DEF Body, Steps, Shows, Reported
<1>4. Ending'
  <2>1. Verdict(step)' = Verdict(step)
    BY DEF Verdict
  <2> QED BY <1>1, <2>1 DEF Body, Ending
<1> QED BY <1>2, <1>3, <1>4 DEF Body

(***************************************************************************)
(* Before a cancellation a repeat ends only with every task settled, and   *)
(* IInv leaves no goroutine to a settled task; afterwards none wakes up.   *)
(***************************************************************************)
LEMMA ExecutionKeepsIdle ==
  ASSUME LoopInv, BodySchedules \/ BodyWorks
  PROVE  Idle'
<1> SUFFICES ASSUME ~cancelled'
             PROVE  /\ \A i \in Tasks : work'[i] # "dropped"
                    /\ pc' = "ended" => \A i \in Tasks : work'[i] \in {"none", "reported"}
  BY DEF Idle
<1> USE DEF LoopInv, Body, IInv, TypeOK, run, scheduler, channel
<1>1. /\ ~cancelled
      /\ \A i \in Tasks : work[i] # "dropped"
      /\ pc = "ended" => \A i \in Tasks : work[i] \in {"none", "reported"}
  <2>1. cancelled' = cancelled
    BY DEF BodySchedules, BodyWorks, Schedule, Pass, NextReport, Settle, SkipBlocked, Choose, PauseBefore,
       Launch, End, PassAgain, Wait, Take, UnpauseSettles, UnpauseRuns, ArmGrace, Expire, Drain,
       SettleRest, TaskEnds, Answer, Drop
  <2> QED BY <2>1 DEF Idle
<1>2. CASE BodyWorks
  <2>1. PICK i \in Tasks : TaskEnds(i) \/ Answer(i) \/ Drop(i)
    BY <1>2 DEF BodyWorks
  <2>2. pc # "ended" /\ ~Drop(i) /\ pc' = pc
    BY <1>1, <2>1 DEF TaskEnds, Answer, Drop, Answers
  <2>3. \A j \in Tasks : work'[j] # "dropped"
    BY <1>1, <2>1, <2>2 DEF TaskEnds, Finish, Answer, Answers
  <2> QED BY <2>2, <2>3
<1>3. CASE End
  <2>1. settled = Tasks /\ pc # "ended"
    <3>1. settled' = Tasks
      BY <1>3, ExecutionKeepsBody DEF End, Ending
    <3> QED BY <1>3, <3>1 DEF End, PassOver
  <2>2. \A i \in Tasks : work[i] \in {"none", "reported"}
    BY <1>1, <2>1 DEF Goroutines, Busy
  <2> QED BY <1>3, <2>2 DEF End
<1>4. CASE SettleRest
  BY <1>1, <1>4 DEF SettleRest, Ending
<1>5. ASSUME NEW i \in Tasks,
             SkipBlocked(i) \/ Choose(i) \/ PauseBefore(i) \/ Launch(i) \/ UnpauseSettles(i) \/ UnpauseRuns(i)
      PROVE  pc' # "ended" /\ \A j \in Tasks : work'[j] # "dropped"
  BY <1>1, <1>5 DEF SkipBlocked, Choose, PauseBefore, Startable, Launch, UnpauseSettles, UnpauseRuns,
     Listening, Finish
<1>6. CASE PassAgain \/ Wait \/ Take \/ ArmGrace \/ Expire \/ Drain
  BY <1>1, <1>6 DEF PassAgain, PassOver, Wait, Take, ArmGrace, Expire, Drain
<1> QED
  BY <1>2, <1>3, <1>4, <1>5, <1>6 DEF BodySchedules, Schedule, Pass, NextReport, Settle

-----------------------------------------------------------------------------
LEMMA ExecutionTypes ==
  ASSUME LoopInv, BodySchedules \/ BodyWorks
  PROVE  LoopTypeOK'
<1>1. TypeOK'
  BY ExecutionKeepsBody DEF Body, IInv
<1>2. stepped' \in BOOLEAN
  BY DEF LoopInv, LoopTypeOK, BodySchedules, BodyWorks
<1>3. shown' \in [Tasks -> Outcome]
  BY <1>1 DEF LoopInv, LoopTypeOK, TypeOK, BodySchedules, BodyWorks, Show, view
<1> QED BY <1>1, <1>2, <1>3 DEF LoopInv, LoopTypeOK, BodySchedules, BodyWorks, runner, view

LEMMA ExecutionKeepsLoopInv ==
  ASSUME LoopInv, BodySchedules \/ BodyWorks
  PROVE  LoopInv'
<1>1. LoopTypeOK' /\ Body' /\ Idle'
  BY ExecutionTypes, ExecutionKeepsBody, ExecutionKeepsIdle
<1>2. CASE BodySchedules
  BY <1>1, <1>2 DEF BodySchedules, Show, runner, LoopInv, GoingOn, Told, Watched
<1>3. CASE BodyWorks
  <2>1. /\ UNCHANGED <<step, pc, runner, view>>
        /\ loop = "top" /\ iterations = 0 => \A i \in Tasks : work[i] = "none"
    BY <1>3 DEF BodyWorks, TaskEnds, Answer, Drop, run, scheduler, LoopInv, GoingOn
  <2>2. ~(loop = "top" /\ iterations = 0)
    BY <1>3, <2>1 DEF BodyWorks, TaskEnds, Answer, Drop, Answers
  <2> QED
    BY <1>1, <2>1, <2>2 DEF LoopInv, GoingOn, Told, Watched, BodyFailed, Ended, runner, view
<1> QED BY <1>2, <1>3

LEMMA RepeatKeepsLoopInv ==
  ASSUME LoopInv, Repeat
  PROVE  LoopInv'
<1>1. Body'
  BY FreshStartsBody
<1>2. LoopTypeOK'
  <2>1. iterations' \in 0..MaxIterations
    BY LoopAssumption DEF LoopInv, LoopTypeOK, Repeat, MayRepeat
  <2>2. shown' \in [Tasks -> Outcome]
    BY <1>1 DEF Body, IInv, TypeOK, LoopInv, LoopTypeOK, Repeat, FreshExecution, Show
  <2> QED BY <1>1, <2>1, <2>2 DEF Body, IInv, LoopInv, LoopTypeOK, Repeat
<1>3. outcome' \notin Succeeds /\ outer' \notin Succeeds
  BY DEF LoopInv, Told, Watched, Repeat, MayRepeat
<1>4. Idle' /\ GoingOn'
  BY DEF Repeat, MayRepeat, FreshExecution, Idle, GoingOn, LoopInv, LoopTypeOK
<1>5. Told' /\ Watched'
  BY <1>3 DEF Told, Watched, Repeat, FreshExecution, Show
<1> QED BY <1>1, <1>2, <1>4, <1>5 DEF LoopInv

\* What the runner makes of a repeat, and that there is no further one.
LEMMA RunnerKeepsLoopInv ==
  ASSUME LoopInv, StopCancelled \/ Exhaust \/ RepeatOver
  PROVE  LoopInv'
<1> USE DEF nested, run, scheduler, channel, view
<1>1. /\ UNCHANGED <<nested, cancelled, iterations, view, stepped>>
      /\ loop # "done"
      /\ outcome \notin Succeeds /\ outer \notin Succeeds
  BY DEF StopCancelled, Exhaust, RepeatOver, LoopInv, Told, Watched
<1>2. Body' /\ Idle'
  BY <1>1, RestKeepsBody DEF LoopInv, LoopTypeOK, TypeOK, Idle
<1>3. LoopTypeOK'
  BY <1>1, <1>2 DEF LoopInv, LoopTypeOK, Body, IInv, Results, StopCancelled, Exhaust, RepeatOver, Reports
<1>4. Watched'
  BY <1>1 DEF LoopInv, Watched
<1>5. CASE StopCancelled
  BY <1>1, <1>2, <1>3, <1>4, <1>5 DEF StopCancelled, Reports, Succeeds, LoopInv, GoingOn, Told
<1>6. CASE Exhaust
  BY <1>1, <1>2, <1>3, <1>4, <1>6, LoopAssumption
     DEF Exhaust, Reports, Succeeds, LoopInv, GoingOn, Told, BodyFailed, Ended
<1>7. CASE RepeatOver
  <2>1. UNCHANGED <<step, pc, iterations>> /\ (BodyFailed' <=> BodyFailed) /\ (Ended' <=> Ended)
    BY <1>1 DEF BodyFailed, Ended
  <2>2. loop = "repeat" /\ pc = "ended" /\ iterations # 0
    BY <1>7 DEF RepeatOver, LoopInv, GoingOn
  <2>3. \/ loop' = "done" /\ outcome' = "body failed"
        \/ loop' = "done" /\ outcome' = "done" /\ ~BodyFailed /\ Ended
        \/ loop' = "top" /\ outcome' = outcome /\ ~BodyFailed /\ ~Ended
    BY <1>7 DEF RepeatOver, Reports
  <2>4. GoingOn' /\ Told'
    BY <1>1, <2>1, <2>2, <2>3 DEF GoingOn, Told, Succeeds
  <2> QED BY <1>2, <1>3, <1>4, <2>4 DEF LoopInv
<1> QED BY <1>5, <1>6, <1>7

LEMMA AroundKeepsLoopInv ==
  ASSUME LoopInv, OuterTakes \/ OuterAbandons \/ CancelRun \/ UNCHANGED loopVars
  PROVE  LoopInv'
<1> USE DEF nested, run, scheduler, channel, runner, view, loopVars
<1>1. /\ UNCHANGED <<nested, runner>>
      /\ cancelled' \in BOOLEAN /\ (cancelled => cancelled')
  BY DEF OuterTakes, OuterAbandons, CancelRun, LoopInv, LoopTypeOK, TypeOK
<1>2. Body' /\ Idle' /\ GoingOn' /\ Told'
  BY <1>1, RestKeepsBody DEF LoopInv, Idle, GoingOn, Told, BodyFailed, Ended
<1>3. LoopTypeOK'
  <2>1. shown' \in [Tasks -> Outcome]
    BY BareIsOutcome DEF LoopInv, LoopTypeOK, OuterTakes, OuterAbandons, CancelRun, Statuses, Reasons
  <2>2. outer' \in {"running"} \cup Results /\ stepped' \in BOOLEAN
    BY DEF LoopInv, LoopTypeOK, OuterTakes, OuterAbandons, CancelRun, Results
  <2> QED BY <1>1, <1>2, <2>1, <2>2 DEF LoopInv, LoopTypeOK, Body, IInv
<1>4. Watched'
  BY <1>1 DEF LoopInv, Watched, OuterTakes, OuterAbandons, CancelRun, Succeeds
<1> QED BY <1>2, <1>3, <1>4 DEF LoopInv

LEMMA LoopInductive == LoopSpec => []LoopInv
<1>1. LoopInv /\ [LoopNext]_loopVars => LoopInv'
  BY ExecutionKeepsLoopInv, RepeatKeepsLoopInv, RunnerKeepsLoopInv, AroundKeepsLoopInv
     DEF LoopNext, RunnerNext
<1> QED BY <1>1, InitLoopInv, PTL DEF LoopSpec

(***************************************************************************)
(* Types: of the loop, its runner and the run around it.                   *)
(***************************************************************************)
THEOREM LoopTypeCorrect == LoopSpec => []LoopTypeOK
<1>1. LoopInv => LoopTypeOK
  BY DEF LoopInv
<1> QED BY <1>1, LoopInductive, PTL

(***************************************************************************)
(* A loop that succeeded shows a body without failures, as the repeat that *)
(* ended it left it: an execution that is over has settled every task, and *)
(* the runner looked at each of them before it reported.                   *)
(***************************************************************************)
THEOREM LoopTellsTheTruth == LoopSpec => []LoopSaysWhatItsBodyDid
<1>1. LoopInv => LoopSaysWhatItsBodyDid
  <2> SUFFICES ASSUME LoopInv, outer \in Succeeds
               PROVE  /\ \A i \in Tasks : shown[i].status \in {"succeeded", "skipped"}
                      /\ (outer = "done") <=> (UntilPort \in shown[Until].outputs)
                      /\ outer = "exhausted" => iterations = MaxIterations
    BY DEF LoopSaysWhatItsBodyDid
  <2>1. /\ outcome = outer /\ shown = step /\ pc = "ended" /\ ~BodyFailed
        /\ outcome = "done" <=> Ended
        /\ outcome = "exhausted" => iterations = MaxIterations
    BY DEF LoopInv, Watched, Told
  <2>2. \A i \in Tasks : step[i] \in Worked \cup Refused
    BY <2>1 DEF LoopInv, Body, Ending, Steps
  <2>3. \A i \in Tasks : step[i].status \in {"succeeded", "failed", "skipped"}
    BY <2>2 DEF Worked, Refused, Bare
  <2> QED BY <2>1, <2>3 DEF BodyFailed, Ended
<1> QED BY <1>1, LoopInductive, PTL

(***************************************************************************)
(* No goroutine of a repeat is left when the next one starts: the runner   *)
(* goes on only if nobody cancelled, and only a cancelled execution is     *)
(* given up with a task at work.                                           *)
(***************************************************************************)
THEOREM RepeatsDoNotOverlap == LoopSpec => OneRepeatAtATime
<1>1. LoopInv /\ [LoopNext]_loopVars =>
        [iterations' # iterations => \A i \in Tasks : work[i] \in {"none", "reported"}]_loopVars
  <2>1. [LoopNext]_loopVars /\ iterations' # iterations => Repeat
    BY DEF LoopNext, RunnerNext, StopCancelled, Exhaust, RepeatOver, BodySchedules, BodyWorks,
       OuterTakes, OuterAbandons, CancelRun, runner, loopVars
  <2>2. LoopInv /\ Repeat => \A i \in Tasks : work[i] \in {"none", "reported"}
    BY DEF LoopInv, Idle, GoingOn, Repeat, MayRepeat
  <2> QED BY <2>1, <2>2
<1> QED BY <1>1, LoopInductive, PTL DEF LoopSpec, OneRepeatAtATime
=============================================================================
