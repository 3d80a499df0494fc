----------------------------- MODULE RunRecords -----------------------------
(***************************************************************************)
(* The recorded runs (internal/app/run.go, internal/runs/store.go): the    *)
(* processes that host runs and may die at any moment, the record of every *)
(* run on disk, the status a reader is told, cancellation and retries.     *)
(*                                                                         *)
(* What the engine does inside a run is Workflow's; here it settles the    *)
(* steps of a run one at a time and shows each change to the record.       *)
(***************************************************************************)
EXTENDS Integers, FiniteSets

CONSTANTS
  Procs,         \* the processes of this program, each of which boots once
  NoProc,
  Pids,          \* the ids the operating system gives them
  NoPid,
  Recycles,      \* whether it gives the id of a dead process to a new one
  Steps,         \* the steps of the one workflow that runs
  Needs,         \* the steps that each step needs
  MaxRuns,       \* how many runs there are in all, which bounds the model
  MaxFailures    \* how many saves fail in all, which bounds the model

ASSUME NeedsAssumption == Needs \in [Steps -> SUBSET Steps]
ASSUME RunAssumption == MaxRuns \in Nat \ {0}
ASSUME FailureAssumption == MaxFailures \in Nat
ASSUME RecyclesAssumption == Recycles \in BOOLEAN
ASSUME ProcAssumption == NoProc \notin Procs
ASSUME PidAssumption == NoPid \notin Pids

\* Run ids sort by the time the run was created at.
Runs  == 1..MaxRuns
NoRun == 0
Fresh == -1     \* a step that a retry does not reuse

StepStatuses == {"pending", "running", "paused", "succeeded", "failed", "skipped"}
InProgress   == {"running", "paused"}
Final        == {"succeeded", "failed", "cancelled", "interrupted"}

\* outputs[s] is the run in which what step s recorded was made.
Record == [status  : InProgress \cup Final,
           pid     : Pids \cup {NoPid},
           steps   : [Steps -> StepStatuses \cup {"interrupted"}],
           outputs : [Steps -> Runs \cup {NoRun}],
           graph   : BOOLEAN,
           trigger : {"none", "manual", "schedule"},
           retryOf : Runs \cup {NoRun}]

\* The folder of a run without a run.json.
NoRecord == [status |-> "none"]

VARIABLES
  kind,       \* "server" or "cli" for a process that booted
  pid,        \* the id of each process
  alive,      \* the processes that live
  file,       \* run.json of each run
  memory,     \* the record as the process that executes the run holds it
  stage,      \* how far the run is in start, launch and execute
  host,       \* the process of each run
  gives,      \* whose outputs each step gives back, Fresh for one that runs
  active,     \* the runs in the server's map of cancel functions
  cancelled,  \* the runs whose context is cancelled
  ran,        \* history: the steps that really ran to success, by run
  told,       \* history: the runs a client was told are being cancelled
  unsaved     \* history: the runs of which a save failed

procs == <<kind, pid, alive>>
vars  == <<procs, file, memory, stage, host, gives, active, cancelled, ran, told, unsaved>>

Hosts(r) == host[r] \in alive

\* "recorded" and "described" are start's two saves.
Stages == {"none", "recorded", "refused", "described", "executing", "concluded", "saved", "over"}

TypeOK ==
  /\ kind \in [Procs -> {"none", "server", "cli"}]
  /\ pid \in [Procs -> Pids \cup {NoPid}]
  /\ alive \in SUBSET {p \in Procs : kind[p] # "none"}
  /\ file \in [Runs -> Record \cup {NoRecord}]
  /\ memory \in [Runs -> Record \cup {NoRecord}]
  /\ stage \in [Runs -> Stages]
  /\ host \in [Runs -> Procs \cup {NoProc}]
  /\ \A r \in Runs : host[r] = NoProc <=> stage[r] = "none"
  /\ gives \in [Runs -> [Steps -> Runs \cup {NoRun, Fresh}]]
  /\ active \in SUBSET {r \in Runs : Hosts(r) /\ kind[host[r]] = "server"}
  /\ cancelled \in SUBSET Runs
  /\ told \in SUBSET cancelled
  /\ ran \in SUBSET (Runs \X Steps)
  /\ unsaved \in SUBSET Runs
  /\ Cardinality(unsaved) <= MaxFailures

Init ==
  /\ kind = [p \in Procs |-> "none"]
  /\ pid = [p \in Procs |-> NoPid]
  /\ alive = {}
  /\ file = [r \in Runs |-> NoRecord]
  /\ memory = [r \in Runs |-> NoRecord]
  /\ stage = [r \in Runs |-> "none"]
  /\ host = [r \in Runs |-> NoProc]
  /\ gives = [r \in Runs |-> [s \in Steps |-> Fresh]]
  /\ active = {}
  /\ cancelled = {}
  /\ ran = {}
  /\ told = {}
  /\ unsaved = {}

-----------------------------------------------------------------------------
(***************************************************************************)
(* The store.                                                              *)
(***************************************************************************)
MutNeverAlive(n) == n = NoPid
ProcessAlive(n) == \E p \in alive : pid[p] = n

\* A step that was not over when its process died.
Unfinished(status) == status \in {"pending", "running", "paused"}

MutLeftRunning(r) == file[r].status = "running" /\ ~ProcessAlive(file[r].pid)
LeftBehind(r) == file[r].status \in InProgress /\ ~ProcessAlive(file[r].pid)

\* What Load, and so List and every endpoint, says of run r.
Reported(r) ==
  IF LeftBehind(r)
  THEN [file[r] EXCEPT !.status = "interrupted",
                       !.steps = [s \in Steps |-> IF Unfinished(@[s]) THEN "interrupted" ELSE @[s]]]
  ELSE file[r]

Exists(r) == file[r] # NoRecord

\* Save replaces the whole file, or fails and leaves it.
Saves(r, record) ==
  /\ file' = [file EXCEPT ![r] = record]
  /\ UNCHANGED unsaved

FailsToSave(r) ==
  /\ Cardinality(unsaved \cup {r}) <= MaxFailures
  /\ unsaved' = unsaved \cup {r}
  /\ UNCHANGED file

Save(r, record) == Saves(r, record) \/ FailsToSave(r)

-----------------------------------------------------------------------------
(***************************************************************************)
(* Processes.                                                              *)
(***************************************************************************)
Taken == {pid[p] : p \in IF Recycles THEN alive ELSE Procs}

Boot(p, k, n) ==
  /\ kind[p] = "none"
  /\ n \notin Taken
  /\ kind' = [kind EXCEPT ![p] = k]
  /\ pid' = [pid EXCEPT ![p] = n]
  /\ alive' = alive \cup {p}
  /\ UNCHANGED <<file, memory, stage, host, gives, active, cancelled, ran, told, unsaved>>

\* The process is killed, or its machine is switched off.
Die(p) ==
  /\ p \in alive
  /\ alive' = alive \ {p}
  /\ active' = {r \in active : host[r] # p}
  /\ UNCHANGED <<kind, pid, file, memory, stage, host, gives, cancelled, ran, told, unsaved>>

-----------------------------------------------------------------------------
(***************************************************************************)
(* Starting a run.                                                         *)
(***************************************************************************)
\* The command line runs one workflow and ends.
MayStart(p, trigger) ==
  /\ p \in alive
  /\ kind[p] = "cli" => trigger = "manual" /\ ~\E r \in Runs : host[r] = p

NextRun(r) == stage[r] = "none" /\ \A q \in 1..(r - 1) : stage[q] # "none"

\* Store.Create saves a record that says neither trigger nor workflow.
Create(p, r, trigger, retryOf, reused) ==
  LET created == [status |-> "running", pid |-> pid[p], steps |-> [s \in Steps |-> "pending"],
                  outputs |-> [s \in Steps |-> NoRun], graph |-> FALSE,
                  trigger |-> "none", retryOf |-> NoRun]
  IN /\ NextRun(r)
     /\ MayStart(p, trigger)
     /\ file' = [file EXCEPT ![r] = created]
     /\ memory' = [memory EXCEPT ![r] = [created EXCEPT !.graph = TRUE, !.trigger = trigger,
                                                        !.retryOf = retryOf]]
     /\ stage' = [stage EXCEPT ![r] = "recorded"]
     /\ host' = [host EXCEPT ![r] = p]
     /\ gives' = [gives EXCEPT ![r] = reused]
     /\ UNCHANGED <<procs, active, cancelled, ran, told, unsaved>>

Start(p, r, trigger) == Create(p, r, trigger, NoRun, [s \in Steps |-> Fresh])

MutRetriable(record) == record.status \notin {"succeeded", "running"} /\ record.graph
Retriable(record) == record.status \notin {"succeeded", "running", "paused"} /\ record.graph

MutReuseOfFailed(record) ==
  {s \in Steps : record.status = "failed" /\ record.steps[s] = "succeeded"}
Reusable(record) == {s \in Steps : record.steps[s] = "succeeded"}

Retry(p, r, previous) ==
  /\ Exists(previous)
  /\ Retriable(Reported(previous))
  /\ LET record == Reported(previous)
     IN Create(p, r, "manual", previous,
               [s \in Steps |-> IF s \in Reusable(record) THEN record.outputs[s] ELSE Fresh])

\* The second save.
Describe(r) ==
  /\ stage[r] = "recorded"
  /\ Hosts(r)
  /\ Saves(r, memory[r])
  /\ stage' = [stage EXCEPT ![r] = "described"]
  /\ UNCHANGED <<procs, memory, host, gives, active, cancelled, ran, told>>

\* It fails: start gives up a run whose record is on disk already.
Refuse(r) ==
  /\ stage[r] = "recorded"
  /\ Hosts(r)
  /\ FailsToSave(r)
  /\ stage' = [stage EXCEPT ![r] = "refused"]
  /\ alive' = IF kind[host[r]] = "cli" THEN alive \ {host[r]} ELSE alive
  /\ UNCHANGED <<kind, pid, memory, host, gives, active, cancelled, ran, told>>

\* The server can cancel the runs it launches for a request.
Cancellable(r) == kind[host[r]] = "server" /\ memory[r].trigger = "manual"

Launch(r) ==
  /\ stage[r] = "described"
  /\ Hosts(r)
  /\ stage' = [stage EXCEPT ![r] = "executing"]
  /\ active' = IF Cancellable(r) THEN active \cup {r} ELSE active
  /\ UNCHANGED <<procs, file, memory, host, gives, cancelled, ran, told, unsaved>>

-----------------------------------------------------------------------------
(***************************************************************************)
(* Executing it.  Each change of a step is put in the record and saved     *)
(* before the engine goes on.                                              *)
(***************************************************************************)
Executes(r) == stage[r] = "executing" /\ Hosts(r)

\* A task succeeds some time before the scheduler takes its report.
TaskSucceeds(r, s) ==
  /\ Executes(r)
  /\ memory[r].steps[s] = "running"
  /\ gives[r][s] = Fresh
  /\ ran' = ran \cup {<<r, s>>}
  /\ UNCHANGED <<procs, file, memory, stage, host, gives, active, cancelled, told, unsaved>>

Produced(r, s) == gives[r][s] # Fresh \/ <<r, s>> \in ran

\* Every step that s needs shows one of these.
NeedsAre(r, s, statuses) == \A n \in Needs[s] : memory[r].steps[n] \in statuses

Follows(r, s, status) ==
  CASE status = "running"   -> \/ memory[r].steps[s] = "pending" /\ NeedsAre(r, s, {"succeeded"})
                               \/ memory[r].steps[s] = "paused"
    [] status = "paused"    -> /\ memory[r].steps[s] = "pending" /\ NeedsAre(r, s, {"succeeded"})
                               /\ gives[r][s] = Fresh
    [] status = "succeeded" -> memory[r].steps[s] = "running" /\ Produced(r, s)
    [] status = "failed"    -> memory[r].steps[s] = "running" /\ ~Produced(r, s)
    [] status = "skipped"   -> \/ memory[r].steps[s] = "paused"
                               \/ r \in cancelled /\ Unfinished(memory[r].steps[s])
                               \/ /\ memory[r].steps[s] = "pending"
                                  /\ NeedsAre(r, s, {"succeeded", "failed", "skipped"})
                                  /\ ~NeedsAre(r, s, {"succeeded"})
    [] OTHER                -> FALSE

Shown(r, s, status) ==
  LET steps == [memory[r].steps EXCEPT ![s] = status]
  IN [memory[r] EXCEPT !.steps = steps,
        !.status = IF \E t \in Steps : steps[t] = "paused" THEN "paused" ELSE "running",
        !.outputs[s] = IF status # "succeeded" THEN NoRun
                       ELSE IF gives[r][s] # Fresh THEN gives[r][s] ELSE r]

StepChanges(r) ==
  \E s \in Steps, status \in StepStatuses :
    /\ Executes(r)
    /\ Follows(r, s, status)
    /\ memory' = [memory EXCEPT ![r] = Shown(r, s, status)]
    /\ Save(r, Shown(r, s, status))
    /\ UNCHANGED <<procs, stage, host, gives, active, cancelled, ran, told>>

\* The cancellation decides over what the steps say, until it is looked at.
Verdict(r) ==
  IF r \in cancelled THEN "cancelled"
  ELSE IF \E s \in Steps : memory[r].steps[s] = "failed" THEN "failed" ELSE "succeeded"

Conclude(r) ==
  /\ Executes(r)
  /\ \A s \in Steps : ~Unfinished(memory[r].steps[s])
  /\ memory' = [memory EXCEPT ![r].status = Verdict(r)]
  /\ stage' = [stage EXCEPT ![r] = "concluded"]
  /\ UNCHANGED <<procs, file, host, gives, active, cancelled, ran, told, unsaved>>

SaveLast(r) ==
  /\ stage[r] = "concluded"
  /\ Hosts(r)
  /\ Save(r, memory[r])
  /\ stage' = [stage EXCEPT ![r] = "saved"]
  /\ UNCHANGED <<procs, memory, host, gives, active, cancelled, ran, told>>

\* The goroutine of the run ends; so does the process of a command line.
Leave(r) ==
  /\ stage[r] = "saved"
  /\ Hosts(r)
  /\ stage' = [stage EXCEPT ![r] = "over"]
  /\ active' = active \ {r}
  /\ alive' = IF kind[host[r]] = "cli" THEN alive \ {host[r]} ELSE alive
  /\ UNCHANGED <<kind, pid, file, memory, host, gives, cancelled, ran, told, unsaved>>

-----------------------------------------------------------------------------
(***************************************************************************)
(* Cancelling it.                                                          *)
(***************************************************************************)
\* POST /api/runs/{id}/cancel, which answers "cancelling".
Cancel(r) ==
  /\ r \in active \ told
  /\ cancelled' = cancelled \cup {r}
  /\ told' = told \cup {r}
  /\ UNCHANGED <<procs, file, memory, stage, host, gives, active, ran, unsaved>>

\* The endpoint finds no such run here, and answers a conflict.
CancelRefused(r) == r \notin active

\* Ctrl-C in the terminal of a command line that executes its run.
Interrupt(r) ==
  /\ Executes(r)
  /\ kind[host[r]] = "cli"
  /\ r \notin cancelled
  /\ cancelled' = cancelled \cup {r}
  /\ UNCHANGED <<procs, file, memory, stage, host, gives, active, ran, told, unsaved>>

-----------------------------------------------------------------------------
Works(r) == Describe(r) \/ Refuse(r) \/ Launch(r) \/ Conclude(r) \/ SaveLast(r) \/ Leave(r)

Next == \/ \E p \in Procs, k \in {"server", "cli"}, n \in Pids : Boot(p, k, n)
        \/ \E p \in Procs : Die(p)
        \/ \E p \in Procs, r \in Runs, t \in {"manual", "schedule"} : Start(p, r, t)
        \/ \E p \in Procs, r, previous \in Runs : Retry(p, r, previous)
        \/ \E r \in Runs, s \in Steps : TaskSucceeds(r, s)
        \/ \E r \in Runs : StepChanges(r) \/ Works(r) \/ Cancel(r) \/ Interrupt(r)

(***************************************************************************)
(* Goroutines go on, and the engine ends a cancelled run (Engine,          *)
(* CancelEnds).                                                            *)
(***************************************************************************)
Spec == /\ Init
        /\ [][Next]_vars
        /\ \A r \in Runs : /\ WF_vars(Works(r))
                           /\ WF_vars(r \in cancelled /\ StepChanges(r))

-----------------------------------------------------------------------------
(***************************************************************************)
(* Load: a run that is reported in progress has a living process that is   *)
(* at it, whichever process died and whoever asks, unless its last words   *)
(* could not be written.                                                   *)
(***************************************************************************)
InProgressIsTrue ==
  \A r \in Runs : Exists(r) /\ r \notin unsaved /\ Reported(r).status \in InProgress =>
    Hosts(r) /\ stage[r] \in {"recorded", "described", "executing", "concluded"}

(***************************************************************************)
(* A run that was once reported as over is reported the same way ever      *)
(* after: no process that comes or goes and no late save changes it.       *)
(***************************************************************************)
FinishedIsFinal ==
  [][\A r \in Runs : Exists(r) /\ Reported(r).status \in Final => Reported(r)' = Reported(r)]_vars

(***************************************************************************)
(* A retry begins where nothing goes on any more: the run it takes its     *)
(* outputs from is no longer executed by anyone.                           *)
(***************************************************************************)
RetriedIsOver ==
  \A r \in Runs : stage[r] # "none" /\ memory[r].retryOf # NoRun => ~Executes(memory[r].retryOf)

(***************************************************************************)
(* A retry does not run again what its run recorded as succeeded.          *)
(***************************************************************************)
NothingRedone ==
  \A r \in Runs : stage[r] # "none" /\ memory[r].retryOf # NoRun =>
    \A s \in Steps : file[memory[r].retryOf].steps[s] = "succeeded" => <<r, s>> \notin ran

(***************************************************************************)
(* A run that someone was told is being cancelled ends, and is reported as *)
(* over, whatever its tasks do.                                            *)
(***************************************************************************)
CancelIsHeard ==
  \A r \in Runs : r \in told ~> Reported(r).status \in Final \/ r \in unsaved

(***************************************************************************)
(* README: "Cancel run stops the run in progress": a run that the server   *)
(* executes can be cancelled there.                                        *)
(***************************************************************************)
ExecutingCanBeCancelled ==
  \A r \in Runs : Executes(r) /\ kind[host[r]] = "server" => ~CancelRefused(r)

(***************************************************************************)
(* README: "either way the run is recorded as cancelled": a run that ended *)
(* after someone was told that it is being cancelled says so.              *)
(***************************************************************************)
ToldIsRecorded ==
  \A r \in told : stage[r] = "over" /\ r \notin unsaved => file[r].status = "cancelled"

(***************************************************************************)
(* README: in a retry "the steps that already succeeded give back their    *)
(* recorded outputs instead of running again": so they do in the retry of  *)
(* a retry.                                                                *)
(***************************************************************************)
RanOnceInItsChain ==
  \A r, q \in Runs :
    stage[r] # "none" /\ memory[r].retryOf # NoRun /\ memory[memory[r].retryOf].retryOf = q /\ q # NoRun =>
      \A s \in Steps : file[q].steps[s] = "succeeded" => <<r, s>> \notin ran
=============================================================================
