------------------------------ MODULE Schedules ------------------------------
(***************************************************************************)
(* The saved workflows and the schedules they run on: the files the store  *)
(* keeps (internal/app/workflow_store.go), the pages that save a graph or  *)
(* set a schedule, and the scheduler that looks at the clock once in each  *)
(* window and starts what is due in it (internal/app/scheduler.go).        *)
(*                                                                         *)
(* A window is `Size` instants long.  The clock may be set back while the  *)
(* server is up; the timer of the scheduler does not follow it.  What a    *)
(* started run does is RunRecords'.                                        *)
(***************************************************************************)
EXTENDS Integers, FiniteSets

CONSTANTS
  Workflows,
  Graphs,
  Broken,       \* the graphs no run can be planned of
  Expressions,  \* the cron expressions that parse
  Due,          \* the windows each of them is due in (cron)
  Off,          \* no schedule
  Size,         \* the instants of a window
  Windows,      \* how many windows there are, which bounds the model
  SetBack,      \* how far the clock may be set back at once
  MaxUpsets,    \* how often it is, or the server stops, which bounds the model
  Outlives      \* whether a tick may take longer than its window

ASSUME OffAssumption == Off \notin Expressions
ASSUME SizeAssumption == Size \in Nat \ {0} /\ Windows \in Nat /\ SetBack \in Nat /\ MaxUpsets \in Nat
ASSUME DueAssumption == Due \in [Expressions -> SUBSET (0..Windows)]
ASSUME BrokenAssumption == Broken \subseteq Graphs
ASSUME OutlivesAssumption == Outlives \in BOOLEAN

Instants     == 0..(Size * (Windows + 1) - 1)
Window(t)    == t \div Size
Boundary(t)  == Size * (Window(t) + 1)
Never        == -1     \* the zero time of `last`

File   == [graph : Graphs, schedule : Expressions \cup {Off}]
NoFile == [graph |-> "none"]

VARIABLES
  now,        \* the clock
  setBacks,   \* how often it was set back
  reached,    \* history: the last window it showed
  file,       \* the YAML file of each workflow
  setting,    \* what a request that sets a schedule has read, by workflow
  up,         \* whether the server is up
  stops,      \* how often it stopped
  pc,         \* where Scheduler.Run is
  timer,      \* how long until its timer fires
  last,       \* the window it last ticked in
  moment,     \* the moment of the tick
  todo,       \* the due workflows of the tick it has not come to
  starts,     \* history: how many runs of each workflow each window started
  upSince,    \* history: the window the server came up in
  sameSince   \* history: the window each file was last written in

clock     == <<now, setBacks, reached>>
files     == <<file, setting, sameSince>>
scheduler == <<up, stops, pc, timer, last, moment, todo, starts, upSince>>
vars      == <<clock, files, scheduler>>

TypeOK ==
  /\ now \in Instants
  /\ setBacks \in 0..MaxUpsets
  /\ reached \in 0..Windows
  /\ file \in [Workflows -> File \cup {NoFile}]
  /\ setting \in [Workflows -> File \cup {NoFile}]
  /\ up \in BOOLEAN
  /\ stops \in 0..(MaxUpsets - setBacks)
  /\ pc \in {"looking", "sleeping", "listing", "starting"}
  /\ timer \in 0..Size
  /\ last \in 0..Windows \cup {Never}
  /\ moment \in Instants
  /\ todo \in SUBSET Workflows /\ (todo # {} => pc = "starting")
  /\ starts \in [Workflows -> [0..Windows -> Nat]]
  /\ upSince \in 0..Windows
  /\ sameSince \in [Workflows -> 0..Windows]

Init ==
  /\ now = 0
  /\ setBacks = 0
  /\ reached = 0
  /\ file \in [Workflows -> File \cup {NoFile}]
  /\ setting = [n \in Workflows |-> NoFile]
  /\ up = TRUE
  /\ stops = 0
  /\ pc = "looking"
  /\ timer = 0
  /\ last = Never
  /\ moment = 0
  /\ todo = {}
  /\ starts = [n \in Workflows |-> [w \in 0..Windows |-> 0]]
  /\ upSince = 0
  /\ sameSince = [n \in Workflows |-> 0]

Exists(n) == file[n] # NoFile

-----------------------------------------------------------------------------
(***************************************************************************)
(* The files.  Save renames a whole file into place, so it is one step; it *)
(* accepts a graph that cannot run, and only schedules that parse.         *)
(***************************************************************************)
Saves(n, graph, schedule) ==
  /\ file' = [file EXCEPT ![n] = [graph |-> graph, schedule |-> schedule]]
  /\ sameSince' = [sameSince EXCEPT ![n] = reached]
  /\ UNCHANGED <<clock, scheduler>>

\* PUT /api/workflows/{name} by whoever sends a schedule along.
PutWorkflow(n, graph, schedule) ==
  /\ Saves(n, graph, schedule)
  /\ UNCHANGED setting

\* The editor's save: graph.toRequest sends a name, nodes and edges.
EditorSaves(n, graph) == PutWorkflow(n, graph, Off)

\* SetSchedule loads the workflow, and saves what it loaded some time later.
LoadToSet(n, schedule) ==
  /\ Exists(n)
  /\ setting[n] = NoFile
  /\ setting' = [setting EXCEPT ![n] = [file[n] EXCEPT !.schedule = schedule]]
  /\ UNCHANGED <<clock, scheduler, file, sameSince>>

SaveSet(n) ==
  /\ setting[n] # NoFile
  /\ Saves(n, setting[n].graph, setting[n].schedule)
  /\ setting' = [setting EXCEPT ![n] = NoFile]

-----------------------------------------------------------------------------
(***************************************************************************)
(* The clock.  Unless a tick may outlive its window, the scheduler is done *)
(* with what it does before the window is over.                            *)
(***************************************************************************)
Prompt == up /\ (pc # "sleeping" \/ timer = 0) /\ ~Outlives

Pass ==
  /\ now + 1 \in Instants
  /\ Prompt => Window(now + 1) = Window(now)
  /\ now' = now + 1
  /\ reached' = IF Window(now + 1) > reached THEN Window(now + 1) ELSE reached
  /\ timer' = IF timer > 0 THEN timer - 1 ELSE 0
  /\ UNCHANGED <<setBacks, files, up, stops, pc, last, moment, todo, starts, upSince>>

\* Someone, or the network's time, sets the clock back.
StepBack(d) ==
  /\ setBacks + stops < MaxUpsets
  /\ d <= now
  /\ now' = now - d
  /\ setBacks' = setBacks + 1
  /\ UNCHANGED <<reached, files, scheduler>>

-----------------------------------------------------------------------------
(***************************************************************************)
(* The scheduler.                                                          *)
(***************************************************************************)
Boot ==
  /\ ~up
  /\ up' = TRUE
  /\ pc' = "looking"
  /\ last' = Never
  /\ upSince' = reached
  /\ UNCHANGED <<clock, files, stops, timer, moment, todo, starts>>

Stop ==
  /\ up
  /\ setBacks + stops < MaxUpsets
  /\ stops' = stops + 1
  /\ up' = FALSE
  /\ pc' = "looking"
  /\ timer' = 0
  /\ todo' = {}
  /\ setting' = [n \in Workflows |-> NoFile]
  /\ UNCHANGED <<clock, file, sameSince, last, moment, starts, upSince>>

\* It sleeps until the boundary of the window it is in.
MutWakesAtOnce(t) == t
WakesAt(t) == Boundary(t)

Look ==
  /\ up /\ pc = "looking"
  /\ timer' = WakesAt(now) - now
  /\ pc' = "sleeping"
  /\ UNCHANGED <<clock, files, up, stops, last, moment, todo, starts, upSince>>

NewWindow(w) == w # last

\* A wake-up in the window it last ticked in goes back to sleep.
Wake ==
  /\ up /\ pc = "sleeping"
  /\ timer = 0
  /\ IF NewWindow(Window(now))
     THEN pc' = "listing" /\ last' = Window(now) /\ moment' = now
     ELSE pc' = "looking" /\ UNCHANGED <<last, moment>>
  /\ UNCHANGED <<clock, files, up, stops, timer, todo, starts, upSince>>

IsDue(n, w) == Exists(n) /\ file[n].schedule # Off /\ w \in Due[file[n].schedule]

\* Tick lists the files and keeps those that are due at its moment.
List ==
  /\ up /\ pc = "listing"
  /\ todo' = {n \in Workflows : IsDue(n, Window(moment))}
  /\ pc' = "starting"
  /\ UNCHANGED <<clock, files, up, stops, timer, last, moment, starts, upSince>>

\* start loads the file again.  One that cannot run leaves the rest alone.
MutStopsAtBroken(n) == IF file[n].graph \in Broken THEN {} ELSE todo \ {n}
Remaining(n) == todo \ {n}

StartRun(n) ==
  /\ up /\ pc = "starting"
  /\ n \in todo
  /\ todo' = Remaining(n)
  /\ starts' = IF Exists(n) /\ file[n].graph \notin Broken
               THEN [starts EXCEPT ![n][Window(moment)] = @ + 1]
               ELSE starts
  /\ UNCHANGED <<clock, files, up, stops, pc, timer, last, moment, upSince>>

EndTick ==
  /\ up /\ pc = "starting"
  /\ todo = {}
  /\ pc' = "looking"
  /\ UNCHANGED <<clock, files, up, stops, timer, last, moment, todo, starts, upSince>>

-----------------------------------------------------------------------------
Requests == \E n \in Workflows :
  \/ \E g \in Graphs : EditorSaves(n, g)
  \/ \E g \in Graphs, e \in Expressions : PutWorkflow(n, g, e)
  \/ \E e \in Expressions \cup {Off} : LoadToSet(n, e)
  \/ SaveSet(n)

Run == Look \/ Wake \/ List \/ (\E n \in Workflows : StartRun(n)) \/ EndTick

Next == \/ Requests
        \/ Pass
        \/ \E d \in 1..SetBack : StepBack(d)
        \/ Boot \/ Stop
        \/ Run

Spec == Init /\ [][Next]_vars

-----------------------------------------------------------------------------
(***************************************************************************)
(* Scheduler.Every: "a schedule is due at most once in each of these       *)
(* windows": no workflow is started twice for one window, whatever wakes   *)
(* the scheduler, however long it takes and across restarts.               *)
(***************************************************************************)
OnceInAWindow == \A n \in Workflows, w \in 0..Windows : starts[n][w] <= 1

(***************************************************************************)
(* A workflow that was saved, on a schedule and able to run since before a *)
(* window in which it was due was started in it, whatever else was due     *)
(* then, if the server was up and in time.                                 *)
(***************************************************************************)
NoneIsMissed ==
  \A n \in Workflows, w \in 0..Windows :
    /\ up /\ upSince < w /\ w < Window(now)
    /\ sameSince[n] < w /\ IsDue(n, w) /\ file[n].graph \notin Broken
    => starts[n][w] = 1

(***************************************************************************)
(* Nothing is caught up: a server that comes up starts nothing for the     *)
(* window it comes up in, nor for those before, as long as its clock only  *)
(* goes forward.                                                           *)
(***************************************************************************)
NothingCaughtUp ==
  [][setBacks = 0 =>
       \A n \in Workflows, w \in 0..Windows :
         starts'[n][w] # starts[n][w] => w > upSince]_vars

(***************************************************************************)
(* SetSchedule changes the schedule of a workflow, "leaving the graph it   *)
(* is on alone".                                                           *)
(***************************************************************************)
LeavesGraphAlone ==
  [][\A n \in Workflows : SaveSet(n) => file'[n].graph = file[n].graph]_vars

(***************************************************************************)
(* README: a schedule is kept in the file of its workflow: saving the      *)
(* graph from the editor leaves it there.                                  *)
(***************************************************************************)
SavingKeepsTheSchedule ==
  [][\A n \in Workflows, g \in Graphs :
       Exists(n) /\ EditorSaves(n, g) => file'[n].schedule = file[n].schedule]_vars
=============================================================================
