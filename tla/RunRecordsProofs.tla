-------------------------- MODULE RunRecordsProofs --------------------------
(***************************************************************************)
(* What is said of a run is true, for any number of processes, runs, steps *)
(* and failing saves: who executes a run shows in its record, the record   *)
(* of a run that nobody executes any more stays as it is, and a retry      *)
(* takes what it reuses from such a record.                                *)
(***************************************************************************)
EXTENDS RunRecords, FiniteSetTheorems, TLAPS

Begun(r) == stage[r] # "none"

\* Nobody will ever write the record of r again.
Settled(r) == Begun(r) /\ (~Hosts(r) \/ stage[r] \in {"saved", "over"})

\* A process that booted has an id, and no other process has it unless the
\* operating system gives ids twice.
PidsAreOwn ==
  /\ \A p \in Procs : kind[p] # "none" => pid[p] \in Pids
  /\ ~Recycles => \A p, q \in Procs : kind[p] # "none" /\ pid[p] = pid[q] => p = q

\* The record of a run, on disk and in memory, is its process's.
Placed(r) ==
  IF Begun(r)
  THEN /\ file[r] \in Record /\ file[r].pid = pid[host[r]]
       /\ memory[r] \in Record /\ memory[r].pid = pid[host[r]]
       /\ kind[host[r]] # "none"
  ELSE file[r] = NoRecord /\ memory[r] = NoRecord

\* How far a run is shows in its record: on disk it is in progress until its
\* last save, which is all that a failing one leaves behind.
Agrees(r) ==
  /\ stage[r] \in {"recorded", "refused", "described", "executing", "concluded"} =>
       file[r].status \in InProgress
  /\ stage[r] \in {"recorded", "refused", "described", "executing"} =>
       memory[r].status \in InProgress
  /\ stage[r] \in {"concluded", "saved", "over"} => memory[r].status \in Final
  /\ stage[r] \in {"saved", "over"} =>
       file[r] = memory[r] \/ (r \in unsaved /\ file[r].status \in InProgress)
  /\ stage[r] = "refused" => r \in unsaved

\* A retry is of a settled run, and gives back what that recorded.
RetriesSettled(r) ==
  Begun(r) /\ memory[r].retryOf # NoRun =>
    /\ Settled(memory[r].retryOf)
    /\ \A s \in Steps : file[memory[r].retryOf].steps[s] = "succeeded" => gives[r][s] # Fresh

\* What is given back does not run.
RanFresh(r) == \A s \in Steps : <<r, s>> \in ran => Begun(r) /\ gives[r][s] = Fresh

Holds(r) == Placed(r) /\ Agrees(r) /\ RetriesSettled(r) /\ RanFresh(r)

IInv == TypeOK /\ PidsAreOwn /\ \A r \in Runs : Holds(r)

-----------------------------------------------------------------------------
LEMMA NoRecordIsNone == NoRecord \notin Record
<1> SUFFICES ASSUME NoRecord \in Record PROVE FALSE
  OBVIOUS
<1>1. NoRecord.status \in InProgress \cup Final
  BY DEF Record
<1>2. NoRecord.status = "none"
  BY DEF NoRecord
<1> QED BY <1>1, <1>2 DEF InProgress, Final

LEMMA RunsAreNat == Runs \subseteq Nat /\ NoRun \notin Runs /\ Fresh \notin Runs /\ NoRun # Fresh
BY RunAssumption DEF Runs, NoRun, Fresh

\* What a record says but for its status, its steps and their outputs stays.
LEMMA ChangedRecord ==
  ASSUME NEW m \in Record, NEW status \in InProgress \cup Final,
         NEW steps \in [Steps -> StepStatuses \cup {"interrupted"}],
         NEW outputs \in [Steps -> Runs \cup {NoRun}],
         NEW n, n = [m EXCEPT !.status = status, !.steps = steps, !.outputs = outputs]
  PROVE  n \in Record /\ n.pid = m.pid /\ n.retryOf = m.retryOf /\ n.status = status
BY DEF Record

\* A run that has begun is in the records of its kind.
LEMMA InMemory ==
  ASSUME IInv, NEW r \in Runs, Begun(r)
  PROVE  /\ memory[r] \in Record /\ file[r] \in Record
         /\ host[r] \in Procs
BY DEF IInv, Holds, Placed, TypeOK, Begun

-----------------------------------------------------------------------------
(***************************************************************************)
(* Most steps concern one run: they leave every other one alone, and its   *)
(* record too once it is settled.                                          *)
(***************************************************************************)
Moves(r) ==
  /\ UNCHANGED <<kind, pid, host, gives>>
  /\ alive' \subseteq alive
  /\ unsaved \subseteq unsaved'
  /\ \A q \in Runs \ {r} : file'[q] = file[q] /\ memory'[q] = memory[q] /\ stage'[q] = stage[q]
  /\ Begun(r)' = Begun(r)
  /\ memory'[r].retryOf = memory[r].retryOf
  /\ Settled(r) => file'[r] = file[r] /\ Settled(r)'
  /\ \A q \in Runs, s \in Steps :
       <<q, s>> \in ran' => <<q, s>> \in ran \/ (q = r /\ Begun(r) /\ gives[r][s] = Fresh)

LEMMA MovesKeep ==
  ASSUME IInv, NEW r \in Runs, Moves(r), TypeOK', Placed(r)', Agrees(r)'
  PROVE  IInv'
<1>1. PidsAreOwn'
  BY DEF IInv, Moves, PidsAreOwn
<1>2. ASSUME NEW q \in Runs PROVE Begun(q)' = Begun(q)
  BY DEF Moves, Begun
<1>3. ASSUME NEW q \in Runs, Settled(q) PROVE Settled(q)' /\ file'[q] = file[q]
  <2>1. CASE q = r
    BY <2>1, <1>3 DEF Moves
  <2>2. CASE q # r
    BY <2>2, <1>3 DEF Moves, Settled, Begun, Hosts
  <2> QED BY <2>1, <2>2
<1>4. ASSUME NEW q \in Runs PROVE Placed(q)' /\ Agrees(q)'
  <2>1. CASE q # r
    <3>1. Placed(q) /\ Agrees(q)
      BY DEF IInv, Holds
    <3> QED BY <2>1, <3>1 DEF Moves, Placed, Begun, Agrees
  <2> QED BY <2>1
<1>5. ASSUME NEW q \in Runs PROVE RetriesSettled(q)'
  <2>1. Begun(q)' = Begun(q) /\ memory'[q].retryOf = memory[q].retryOf
    BY <1>2 DEF Moves
  <2>2. CASE ~Begun(q) \/ memory[q].retryOf = NoRun
    BY <2>1, <2>2 DEF RetriesSettled
  <2>3. CASE Begun(q) /\ memory[q].retryOf # NoRun
    <3>1. PICK p \in Runs : p = memory[q].retryOf
      BY <2>3, InMemory DEF Record
    <3>2. Settled(p) /\ \A s \in Steps : file[p].steps[s] = "succeeded" => gives[q][s] # Fresh
      BY <2>3, <3>1 DEF IInv, Holds, RetriesSettled
    <3>3. Settled(p)' /\ file'[p] = file[p] /\ gives' = gives
      BY <3>2, <1>3 DEF Moves
    <3> QED BY <2>1, <3>1, <3>2, <3>3 DEF RetriesSettled, Settled, Begun, Hosts
  <2> QED BY <2>2, <2>3
<1>6. ASSUME NEW q \in Runs PROVE RanFresh(q)'
  BY <1>2 DEF Moves, RanFresh, IInv, Holds
<1> QED BY <1>1, <1>4, <1>5, <1>6 DEF IInv, Holds

-----------------------------------------------------------------------------
LEMMA InitHolds == Init => IInv
BY ProcAssumption, PidAssumption, RunsAreNat, FailureAssumption, FS_EmptySet
   DEF Init, IInv, TypeOK, Stages, PidsAreOwn, Holds, Placed, Agrees, RetriesSettled, RanFresh, Begun

\* No run is in a process that has not booted, and none is settled by the
\* end of another.
LEMMA BootKeeps ==
  ASSUME IInv, NEW p \in Procs, NEW k \in {"server", "cli"}, NEW n \in Pids, Boot(p, k, n)
  PROVE  IInv'
<1>1. TypeOK'
  BY DEF IInv, TypeOK, Boot, Hosts, Holds, Placed, Begun
<1>2. PidsAreOwn'
  BY PidAssumption DEF IInv, TypeOK, PidsAreOwn, Boot, Taken
<1>3. ASSUME NEW r \in Runs PROVE Holds(r)'
  <2>1. Holds(r)
    BY DEF IInv
  <2>2. Begun(r) => host[r] # p /\ host[r] \in Procs
    BY <2>1 DEF Boot, Holds, Placed, IInv, TypeOK, Begun
  <2>3. Placed(r)' /\ Agrees(r)' /\ RanFresh(r)'
    BY <2>1, <2>2 DEF Boot, Holds, Placed, Agrees, RanFresh, Begun, IInv, TypeOK
  <2>4. RetriesSettled(r)'
    <3>1. CASE ~Begun(r) \/ memory[r].retryOf = NoRun
      BY <3>1 DEF Boot, Begun, RetriesSettled
    <3>2. CASE Begun(r) /\ memory[r].retryOf # NoRun
      <4>1. PICK q \in Runs : q = memory[r].retryOf
        BY <3>2, InMemory DEF Record
      <4>2. Settled(q) /\ \A s \in Steps : file[q].steps[s] = "succeeded" => gives[r][s] # Fresh
        BY <2>1, <3>2, <4>1 DEF Holds, RetriesSettled
      <4>3. host[q] # p
        BY <4>2 DEF Boot, IInv, Holds, Placed, Settled
      <4> QED BY <4>1, <4>2, <4>3 DEF Boot, RetriesSettled, Settled, Begun, Hosts
    <3> QED BY <3>1, <3>2
  <2> QED BY <2>3, <2>4 DEF Holds
<1> QED BY <1>1, <1>2, <1>3 DEF IInv

LEMMA DieKeeps ==
  ASSUME IInv, NEW p \in Procs, Die(p)
  PROVE  IInv'
<1>1. 1 \in Runs
  BY RunAssumption DEF Runs
<1>2. TypeOK'
  BY DEF IInv, TypeOK, Die, Hosts
<1>3. Moves(1)
  BY <1>1 DEF Die, Moves, Begun, Settled, Hosts
<1>4. Placed(1)' /\ Agrees(1)'
  BY <1>1 DEF Die, IInv, Holds, Placed, Agrees, Begun
<1> QED BY <1>1, <1>2, <1>3, <1>4, MovesKeep

LEMMA CancelKeeps ==
  ASSUME IInv, NEW r \in Runs, Cancel(r) \/ Interrupt(r)
  PROVE  IInv'
<1>1. TypeOK'
  BY DEF IInv, TypeOK, Cancel, Interrupt, Hosts, procs
<1>2. Moves(r)
  BY DEF Cancel, Interrupt, Moves, Begun, Settled, Hosts, procs
<1>3. Placed(r)' /\ Agrees(r)'
  BY DEF Cancel, Interrupt, IInv, Holds, Placed, Agrees, Begun, procs
<1> QED BY <1>1, <1>2, <1>3, MovesKeep

LEMMA TaskKeeps ==
  ASSUME IInv, NEW r \in Runs, NEW s \in Steps, TaskSucceeds(r, s)
  PROVE  IInv'
<1>1. TypeOK'
  BY DEF IInv, TypeOK, TaskSucceeds, Hosts, procs
<1>2. Moves(r)
  BY DEF TaskSucceeds, Executes, Moves, Begun, Settled, Hosts, procs
<1>3. Placed(r)' /\ Agrees(r)'
  BY DEF TaskSucceeds, IInv, Holds, Placed, Agrees, Begun, procs
<1> QED BY <1>1, <1>2, <1>3, MovesKeep

LEMMA WorksKeeps ==
  ASSUME IInv, NEW r \in Runs, Works(r)
  PROVE  IInv'
<1> USE DEF IInv, Holds, Moves, Placed, Agrees, Begun, Settled, Hosts
<1>1. Begun(r) /\ memory[r] \in Record /\ file[r] \in Record
  BY InMemory DEF Works, Describe, Refuse, Launch, Conclude, SaveLast, Leave, Executes
<1>2. CASE Describe(r)
  <2>1. TypeOK'
    BY <1>1, <1>2 DEF Describe, Saves, procs, TypeOK, Stages
  <2>2. Moves(r) /\ Placed(r)' /\ Agrees(r)'
    BY <1>1, <1>2, <2>1 DEF Describe, Saves, procs, TypeOK
  <2> QED BY <2>1, <2>2, MovesKeep
<1>3. CASE Refuse(r)
  <2>1. TypeOK'
    BY <1>1, <1>3 DEF Refuse, FailsToSave, TypeOK, Stages
  <2>2. Moves(r) /\ Placed(r)' /\ Agrees(r)'
    BY <1>1, <1>3 DEF Refuse, FailsToSave, TypeOK
  <2> QED BY <2>1, <2>2, MovesKeep
<1>4. CASE Launch(r)
  <2>1. TypeOK'
    BY <1>1, <1>4 DEF Launch, Cancellable, procs, TypeOK, Stages
  <2>2. Moves(r) /\ Placed(r)' /\ Agrees(r)'
    BY <1>1, <1>4 DEF Launch, procs, TypeOK
  <2> QED BY <2>1, <2>2, MovesKeep
<1>5. CASE Conclude(r)
  <2>1. Verdict(r) \in Final
    BY DEF Verdict, Final
  <2>2. memory'[r] \in Record /\ memory'[r].pid = memory[r].pid
        /\ memory'[r].retryOf = memory[r].retryOf /\ memory'[r].status \in Final
    <3>1. memory'[r] = [memory[r] EXCEPT !.status = Verdict(r)]
      BY <1>5 DEF Conclude, TypeOK
    <3> QED BY <1>1, <2>1, <3>1 DEF Record
  <2>3. TypeOK'
    BY <1>1, <1>5, <2>2 DEF Conclude, Executes, procs, TypeOK, Stages
  <2>4. Moves(r) /\ Placed(r)' /\ Agrees(r)'
    BY <1>1, <1>5, <2>2 DEF Conclude, Executes, procs, TypeOK
  <2> QED BY <2>3, <2>4, MovesKeep
<1>6. CASE SaveLast(r)
  <2>1. TypeOK'
    BY <1>1, <1>6 DEF SaveLast, Save, Saves, FailsToSave, procs, TypeOK, Stages
  <2>2. Moves(r) /\ Placed(r)' /\ Agrees(r)'
    BY <1>1, <1>6 DEF SaveLast, Save, Saves, FailsToSave, procs, TypeOK
  <2> QED BY <2>1, <2>2, MovesKeep
<1>7. CASE Leave(r)
  <2>1. TypeOK'
    BY <1>1, <1>7 DEF Leave, TypeOK, Stages
  <2>2. Moves(r) /\ Placed(r)' /\ Agrees(r)'
    BY <1>1, <1>7 DEF Leave, TypeOK
  <2> QED BY <2>1, <2>2, MovesKeep
<1> QED BY <1>2, <1>3, <1>4, <1>5, <1>6, <1>7 DEF Works

\* What a change of a step puts in the record.
LEMMA ShownIsRecord ==
  ASSUME IInv, NEW r \in Runs, Begun(r), NEW s \in Steps, NEW status \in StepStatuses
  PROVE  /\ Shown(r, s, status) \in Record
         /\ Shown(r, s, status).status \in InProgress
         /\ Shown(r, s, status).pid = memory[r].pid
         /\ Shown(r, s, status).retryOf = memory[r].retryOf
<1>1. memory[r] \in Record /\ gives[r] \in [Steps -> Runs \cup {NoRun, Fresh}]
  BY InMemory DEF IInv, TypeOK
<1> DEFINE steps == [memory[r].steps EXCEPT ![s] = status]
           shown == IF \E t \in Steps : steps[t] = "paused" THEN "paused" ELSE "running"
           from  == IF status # "succeeded" THEN NoRun
                    ELSE IF gives[r][s] # Fresh THEN gives[r][s] ELSE r
           outputs == [memory[r].outputs EXCEPT ![s] = from]
<1>2. steps \in [Steps -> StepStatuses \cup {"interrupted"}]
  BY <1>1 DEF Record
<1>3. shown \in InProgress
  BY DEF InProgress
<1>4. from \in Runs \cup {NoRun}
  BY <1>1
<1>5. outputs \in [Steps -> Runs \cup {NoRun}]
  BY <1>1, <1>4 DEF Record
<1>6. Shown(r, s, status) = [memory[r] EXCEPT !.steps = steps, !.status = shown, !.outputs = outputs]
  BY <1>1 DEF Shown, Record
<1> HIDE DEF steps, shown, outputs
<1> QED BY <1>1, <1>2, <1>3, <1>5, <1>6 DEF Record

LEMMA StepChangesKeeps ==
  ASSUME IInv, NEW r \in Runs, StepChanges(r)
  PROVE  IInv'
<1>1. PICK s \in Steps, status \in StepStatuses :
        /\ Executes(r)
        /\ memory' = [memory EXCEPT ![r] = Shown(r, s, status)]
        /\ Save(r, Shown(r, s, status))
        /\ UNCHANGED <<procs, stage, host, gives, active, cancelled, ran, told>>
  BY DEF StepChanges
<1>2. PICK shown \in Record : shown = Shown(r, s, status)
  BY <1>1, ShownIsRecord DEF Executes, Begun
<1>3. shown.status \in InProgress /\ shown.pid = memory[r].pid /\ shown.retryOf = memory[r].retryOf
  BY <1>1, <1>2, ShownIsRecord DEF Executes, Begun
<1>4. /\ memory' = [memory EXCEPT ![r] = shown]
      /\ \/ file' = [file EXCEPT ![r] = shown] /\ unsaved' = unsaved
         \/ file' = file /\ unsaved' = unsaved \cup {r} /\ Cardinality(unsaved') <= MaxFailures
      /\ Executes(r)
      /\ UNCHANGED <<procs, stage, host, gives, active, cancelled, ran, told>>
  BY <1>1, <1>2 DEF Save, Saves, FailsToSave
<1> USE DEF IInv, Holds, Moves, Placed, Agrees, Begun, Settled, Hosts, Executes, procs
<1>5. TypeOK'
  BY <1>4 DEF TypeOK
<1>6. Moves(r)
  BY <1>3, <1>4 DEF TypeOK
<1>7. Placed(r)' /\ Agrees(r)'
  BY <1>3, <1>4 DEF TypeOK
<1> QED BY <1>5, <1>6, <1>7, MovesKeep

-----------------------------------------------------------------------------
(***************************************************************************)
(* A run that begins is the next one: nothing is known of it, and it is    *)
(* nobody's retry.                                                         *)
(***************************************************************************)
LEMMA CreateKeeps ==
  ASSUME IInv, NEW p \in Procs, NEW r \in Runs, NEW t \in {"manual", "schedule"},
         NEW retryOf \in Runs \cup {NoRun}, NEW reused \in [Steps -> Runs \cup {NoRun, Fresh}],
         Create(p, r, t, retryOf, reused),
         retryOf # NoRun =>
           /\ Settled(retryOf)
           /\ \A s \in Steps : file[retryOf].steps[s] = "succeeded" => reused[s] # Fresh
  PROVE  IInv'
<1> DEFINE created == [status |-> "running", pid |-> pid[p], steps |-> [s \in Steps |-> "pending"],
                       outputs |-> [s \in Steps |-> NoRun], graph |-> FALSE,
                       trigger |-> "none", retryOf |-> NoRun]
           described == [created EXCEPT !.graph = TRUE, !.trigger = t, !.retryOf = retryOf]
<1>1. /\ created \in Record /\ created.pid = pid[p] /\ created.status = "running"
      /\ described \in Record /\ described.pid = pid[p] /\ described.status = "running"
      /\ described.retryOf = retryOf
  BY DEF IInv, TypeOK, Record, InProgress, StepStatuses
<1>2. /\ ~Begun(r) /\ p \in alive
      /\ file' = [file EXCEPT ![r] = created]
      /\ memory' = [memory EXCEPT ![r] = described]
      /\ stage' = [stage EXCEPT ![r] = "recorded"]
      /\ host' = [host EXCEPT ![r] = p]
      /\ gives' = [gives EXCEPT ![r] = reused]
      /\ UNCHANGED <<kind, pid, alive, active, cancelled, ran, told, unsaved>>
  BY DEF Create, NextRun, MayStart, Begun, procs
<1> HIDE DEF created, described
<1>3. kind[p] # "none" /\ r \notin active
  BY <1>2, ProcAssumption DEF IInv, TypeOK, Begun, Hosts
<1>4. TypeOK'
  <2>1. /\ host' \in [Runs -> Procs \cup {NoProc}]
        /\ \A q \in Runs : host'[q] = NoProc <=> stage'[q] = "none"
    BY <1>2, ProcAssumption DEF IInv, TypeOK
  <2>2. active' \in SUBSET {q \in Runs : Hosts(q)' /\ kind'[host'[q]] = "server"}
    BY <1>2, <1>3 DEF IInv, TypeOK, Hosts
  <2>3. /\ file' \in [Runs -> Record \cup {NoRecord}] /\ memory' \in [Runs -> Record \cup {NoRecord}]
        /\ stage' \in [Runs -> Stages] /\ gives' \in [Runs -> [Steps -> Runs \cup {NoRun, Fresh}]]
    BY <1>1, <1>2 DEF IInv, TypeOK, Stages
  <2> QED BY <1>2, <2>1, <2>2, <2>3 DEF IInv, TypeOK
<1>5. PidsAreOwn'
  BY <1>2 DEF IInv, PidsAreOwn
<1>6. ASSUME NEW q \in Runs, Settled(q) PROVE q # r /\ Settled(q)' /\ file'[q] = file[q]
  BY <1>2, <1>6 DEF Settled, Begun, Hosts, IInv, TypeOK
<1>7. Placed(r)' /\ Agrees(r)' /\ RanFresh(r)'
  <2>1. file'[r] = created /\ memory'[r] = described /\ stage'[r] = "recorded" /\ host'[r] = p
    BY <1>2 DEF IInv, TypeOK
  <2>2. \A s \in Steps : <<r, s>> \notin ran
    BY <1>2 DEF IInv, Holds, RanFresh
  <2> QED BY <1>1, <1>2, <1>3, <2>1, <2>2 DEF Placed, Agrees, RanFresh, Begun, InProgress
<1>8. RetriesSettled(r)'
  BY <1>1, <1>2, <1>6, RunsAreNat DEF RetriesSettled, Begun, Settled, Hosts, IInv, TypeOK
<1>9. ASSUME NEW q \in Runs, q # r PROVE Holds(q)'
  <2>1. Holds(q)
    BY DEF IInv
  <2>2. /\ file'[q] = file[q] /\ memory'[q] = memory[q] /\ stage'[q] = stage[q]
        /\ host'[q] = host[q] /\ gives'[q] = gives[q]
    BY <1>2, <1>9 DEF IInv, TypeOK
  <2>3. Placed(q)' /\ Agrees(q)' /\ RanFresh(q)'
    BY <1>2, <2>1, <2>2 DEF Holds, Placed, Agrees, RanFresh, Begun
  <2>4. RetriesSettled(q)'
    <3>1. CASE ~Begun(q) \/ memory[q].retryOf = NoRun
      BY <2>2, <3>1 DEF RetriesSettled, Begun
    <3>2. CASE Begun(q) /\ memory[q].retryOf # NoRun
      <4>1. PICK o \in Runs : o = memory[q].retryOf
        BY <3>2, InMemory DEF Record
      <4>2. Settled(o) /\ \A s \in Steps : file[o].steps[s] = "succeeded" => gives[q][s] # Fresh
        BY <2>1, <3>2, <4>1 DEF Holds, RetriesSettled
      <4>3. Settled(o)' /\ file'[o] = file[o]
        BY <4>2, <1>6
      <4> QED BY <2>2, <4>1, <4>2, <4>3 DEF RetriesSettled, Settled, Begun, Hosts
    <3> QED BY <3>1, <3>2
  <2> QED BY <2>3, <2>4 DEF Holds
<1> QED BY <1>4, <1>5, <1>7, <1>8, <1>9 DEF IInv, Holds

\* A run is in progress for as long as its process lives and has not saved
\* the last record of it: who may be retried is settled.
LEMMA OverIsSettled ==
  ASSUME IInv, NEW r \in Runs, Exists(r), Reported(r).status \notin InProgress
  PROVE  Settled(r)
<1>1. Begun(r) /\ Placed(r) /\ Agrees(r) /\ host[r] \in Procs /\ stage[r] \in Stages
  BY DEF IInv, Holds, Placed, Exists, TypeOK, Begun
<1>2. CASE LeftBehind(r)
  BY <1>1, <1>2 DEF LeftBehind, ProcessAlive, Placed, Settled, Hosts
<1>3. CASE ~LeftBehind(r)
  <2>1. file[r].status \notin InProgress
    BY <1>3 DEF Reported
  <2> QED BY <1>1, <2>1 DEF Agrees, Settled, Stages, Begun
<1> QED BY <1>2, <1>3

\* What it reports as succeeded is what is on disk.
LEMMA ReportsItsSteps ==
  ASSUME IInv, NEW r \in Runs, Begun(r), NEW s \in Steps, file[r].steps[s] = "succeeded"
  PROVE  Reported(r).steps[s] = "succeeded" /\ Reported(r).outputs = file[r].outputs
BY InMemory DEF Reported, Unfinished, Record

LEMMA RetryKeeps ==
  ASSUME IInv, NEW p \in Procs, NEW r \in Runs, NEW previous \in Runs, Retry(p, r, previous)
  PROVE  IInv'
<1> DEFINE record == Reported(previous)
           reused == [s \in Steps |-> IF s \in Reusable(record) THEN record.outputs[s] ELSE Fresh]
<1>1. Create(p, r, "manual", previous, reused)
  BY DEF Retry
<1>2. Settled(previous)
  BY OverIsSettled DEF Retry, Retriable, InProgress
<1>3. record.outputs = file[previous].outputs /\ file[previous].outputs \in [Steps -> Runs \cup {NoRun}]
  BY <1>2, InMemory DEF Settled, Reported, Record
<1>4. reused \in [Steps -> Runs \cup {NoRun, Fresh}]
  BY <1>3
<1>5. \A s \in Steps : file[previous].steps[s] = "succeeded" => reused[s] # Fresh
  BY <1>2, <1>3, ReportsItsSteps, RunsAreNat DEF Reusable, Settled
<1> HIDE DEF reused
<1> QED BY <1>1, <1>2, <1>4, <1>5, CreateKeeps

LEMMA StartKeeps ==
  ASSUME IInv, NEW p \in Procs, NEW r \in Runs, NEW t \in {"manual", "schedule"}, Start(p, r, t)
  PROVE  IInv'
<1>1. [s \in Steps |-> Fresh] \in [Steps -> Runs \cup {NoRun, Fresh}]
  OBVIOUS
<1> QED BY <1>1, CreateKeeps DEF Start

LEMMA NextKeeps == IInv /\ [Next]_vars => IInv'
<1> SUFFICES ASSUME IInv, [Next]_vars PROVE IInv'
  OBVIOUS
<1>1. CASE \E p \in Procs, k \in {"server", "cli"}, n \in Pids : Boot(p, k, n)
  BY <1>1, BootKeeps
<1>2. CASE \E p \in Procs : Die(p)
  BY <1>2, DieKeeps
<1>3. CASE \E p \in Procs, r \in Runs, t \in {"manual", "schedule"} : Start(p, r, t)
  BY <1>3, StartKeeps
<1>4. CASE \E p \in Procs, r, previous \in Runs : Retry(p, r, previous)
  BY <1>4, RetryKeeps
<1>5. CASE \E r \in Runs, s \in Steps : TaskSucceeds(r, s)
  BY <1>5, TaskKeeps
<1>6. CASE \E r \in Runs : StepChanges(r) \/ Works(r) \/ Cancel(r) \/ Interrupt(r)
  BY <1>6, StepChangesKeeps, WorksKeeps, CancelKeeps
<1>7. CASE UNCHANGED vars
  BY <1>7 DEF vars, procs, IInv, TypeOK, PidsAreOwn, Holds, Placed, Agrees, RetriesSettled, RanFresh,
              Begun, Settled, Hosts
<1> QED BY <1>1, <1>2, <1>3, <1>4, <1>5, <1>6, <1>7 DEF Next

LEMMA AlwaysIInv == Spec => []IInv
BY InitHolds, NextKeeps, PTL DEF Spec

-----------------------------------------------------------------------------
(***************************************************************************)
(* The state keeps its types, the functions of active runs included.       *)
(***************************************************************************)
THEOREM TypeCorrect == Spec => []TypeOK
<1>1. IInv => TypeOK
  BY DEF IInv
<1> QED BY <1>1, AlwaysIInv, PTL

(***************************************************************************)
(* Where no process gets the id of another, a run that is reported in      *)
(* progress is being executed, or a save of it failed.                     *)
(***************************************************************************)
THEOREM ProgressIsReal == ASSUME ~Recycles PROVE Spec => []InProgressIsTrue
<1>1. IInv => InProgressIsTrue
  <2> SUFFICES ASSUME IInv, NEW r \in Runs,
                      Exists(r), r \notin unsaved, Reported(r).status \in InProgress
               PROVE  Hosts(r) /\ stage[r] \in {"recorded", "described", "executing", "concluded"}
    BY DEF InProgressIsTrue
  <2>1. Begun(r) /\ Placed(r) /\ Agrees(r) /\ host[r] \in Procs /\ stage[r] \in Stages
    BY DEF IInv, Holds, Placed, Exists, TypeOK, Begun
  <2>2. file[r].status \in InProgress /\ ~LeftBehind(r)
    <3>1. CASE LeftBehind(r)
      <4>1. Reported(r).status = "interrupted"
        BY <2>1, <3>1 DEF Reported, Placed, Record
      <4> QED BY <4>1 DEF InProgress
    <3>2. CASE ~LeftBehind(r)
      BY <3>2 DEF Reported
    <3> QED BY <3>1, <3>2
  <2>3. PICK p \in alive : pid[p] = pid[host[r]]
    BY <2>1, <2>2 DEF LeftBehind, ProcessAlive, Placed
  <2>4. Hosts(r)
    BY <2>1, <2>3 DEF IInv, TypeOK, PidsAreOwn, Placed, Hosts
  <2>5. stage[r] \notin {"saved", "over", "refused", "none"}
    BY <2>1, <2>2 DEF Agrees, Begun, InProgress, Final
  <2> QED BY <2>1, <2>4, <2>5 DEF Stages
<1> QED BY <1>1, AlwaysIInv, PTL

(***************************************************************************)
(* Whatever ids processes get, a retry begins where nothing goes on.       *)
(***************************************************************************)
THEOREM RetriesFollow == Spec => []RetriedIsOver
<1>1. IInv => RetriedIsOver
  BY DEF IInv, Holds, RetriesSettled, RetriedIsOver, Settled, Executes, Begun
<1> QED BY <1>1, AlwaysIInv, PTL

(***************************************************************************)
(* Whatever ids processes get, a retry runs nothing that its run recorded  *)
(* as succeeded.                                                           *)
(***************************************************************************)
THEOREM RetriesReuse == Spec => []NothingRedone
<1>1. IInv => NothingRedone
  BY DEF IInv, Holds, RetriesSettled, RanFresh, NothingRedone, Begun
<1> QED BY <1>1, AlwaysIInv, PTL

-----------------------------------------------------------------------------
\* No step of the system writes the record of a settled run.
LEMMA SettledIsKept ==
  ASSUME IInv, [Next]_vars, NEW q \in Runs, Settled(q) PROVE file'[q] = file[q]
<1> USE DEF IInv, TypeOK, Settled, Begun, Hosts, Executes, Saves, FailsToSave, Save
<1>1. CASE \E p \in Procs, k \in {"server", "cli"}, n \in Pids : Boot(p, k, n)
  BY <1>1 DEF Boot
<1>2. CASE \E p \in Procs : Die(p)
  BY <1>2 DEF Die
<1>3. ASSUME NEW p \in Procs, NEW r \in Runs, NEW t, NEW retryOf, NEW reused,
             Create(p, r, t, retryOf, reused)
      PROVE  file'[q] = file[q]
  BY <1>3 DEF Create, NextRun
<1>4. CASE \E p \in Procs, r \in Runs, t \in {"manual", "schedule"} : Start(p, r, t)
  BY <1>3, <1>4 DEF Start
<1>5. CASE \E p \in Procs, r, previous \in Runs : Retry(p, r, previous)
  BY <1>3, <1>5 DEF Retry
<1>6. CASE \E r \in Runs, s \in Steps : TaskSucceeds(r, s)
  BY <1>6 DEF TaskSucceeds
<1>7. CASE \E r \in Runs : Works(r)
  BY <1>7 DEF Works, Describe, Refuse, Launch, Conclude, SaveLast, Leave
<1>8. CASE \E r \in Runs : Cancel(r) \/ Interrupt(r)
  BY <1>8 DEF Cancel, Interrupt
<1>9. CASE \E r \in Runs : StepChanges(r)
  BY <1>9 DEF StepChanges
<1>10. CASE UNCHANGED vars
  BY <1>10 DEF vars
<1> QED BY <1>1, <1>2, <1>4, <1>5, <1>6, <1>7, <1>8, <1>9, <1>10 DEF Next

\* Only Boot adds to the processes that live.
LEMMA NobodyComesBack ==
  ASSUME IInv, [Next]_vars
  PROVE  \/ \E p \in Procs, k \in {"server", "cli"}, n \in Pids : Boot(p, k, n)
         \/ alive' \subseteq alive /\ pid' = pid
BY DEF Next, Die, Start, Retry, Create, TaskSucceeds, Works, Describe, Refuse, Launch, Conclude,
       SaveLast, Leave, Cancel, Interrupt, StepChanges, procs, vars

\* An id that nobody has any more stays free of anyone else.
LEMMA DeadPidsStayDead ==
  ASSUME IInv, [Next]_vars, ~Recycles, NEW p \in Procs, kind[p] # "none", ~ProcessAlive(pid[p])
  PROVE  pid'[p] = pid[p] /\ ~\E q \in alive' : pid'[q] = pid[p]
<1>1. ASSUME NEW b \in Procs, NEW k \in {"server", "cli"}, NEW n \in Pids, Boot(b, k, n)
      PROVE  pid'[p] = pid[p] /\ ~\E q \in alive' : pid'[q] = pid[p]
  BY <1>1 DEF Boot, Taken, ProcessAlive, IInv, TypeOK
<1>2. CASE alive' \subseteq alive /\ pid' = pid
  BY <1>2 DEF ProcessAlive
<1> QED BY <1>1, <1>2, NobodyComesBack

(***************************************************************************)
(* Where no process gets the id of another, what is once reported as over  *)
(* is reported the same way ever after.                                    *)
(***************************************************************************)
THEOREM OverStaysOver == ASSUME ~Recycles PROVE Spec => FinishedIsFinal
<1>1. ASSUME IInv, [Next]_vars, NEW r \in Runs, Exists(r), Reported(r).status \in Final
      PROVE  Reported(r)' = Reported(r)
  <2>1. Reported(r).status \notin InProgress
    BY <1>1 DEF InProgress, Final
  <2>2. Settled(r) /\ file'[r] = file[r]
    BY <1>1, <2>1, OverIsSettled, SettledIsKept
  <2>3. host[r] \in Procs /\ kind[host[r]] # "none" /\ file[r].pid = pid[host[r]]
    BY <1>1, <2>2 DEF Settled, IInv, Holds, Placed, TypeOK, Begun
  <2>4. CASE LeftBehind(r)
    <3>1. ~ProcessAlive(pid[host[r]])
      BY <2>3, <2>4 DEF LeftBehind
    <3>2. LeftBehind(r)'
      BY <1>1, <2>2, <2>3, <2>4, <3>1, DeadPidsStayDead DEF LeftBehind, ProcessAlive
    <3> QED BY <2>2, <2>4, <3>2 DEF Reported
  <2>5. CASE ~LeftBehind(r)
    <3>1. file[r].status \notin InProgress
      BY <2>1, <2>5 DEF Reported
    <3>2. ~LeftBehind(r)'
      BY <2>2, <3>1 DEF LeftBehind
    <3> QED BY <2>2, <2>5, <3>2 DEF Reported
  <2> QED BY <2>4, <2>5
<1>2. IInv /\ [Next]_vars =>
        [\A r \in Runs : Exists(r) /\ Reported(r).status \in Final => Reported(r)' = Reported(r)]_vars
  BY <1>1
<1> QED BY <1>2, AlwaysIInv, PTL DEF Spec, FinishedIsFinal
=============================================================================
