-------------------------- MODULE SchedulesProofs ---------------------------
(***************************************************************************)
(* Proofs about Schedules, for every number and length of windows, every   *)
(* set of workflows and expressions, and however often anyone saves.       *)
(***************************************************************************)
EXTENDS Schedules, TLAPS

-----------------------------------------------------------------------------
(***************************************************************************)
(* Windows and instants.                                                   *)
(***************************************************************************)
LEMMA InWindow ==
  ASSUME NEW t \in Nat
  PROVE  /\ Window(t) \in Nat
         /\ Size * Window(t) <= t
         /\ t < Size * (Window(t) + 1)
BY SizeAssumption DEF Window

\* A window ends where the next one begins.
LEMMA Boundaries ==
  ASSUME NEW t \in Nat, NEW k \in Nat
  PROVE  t < Size * (k + 1) <=> Window(t) <= k
<1>1. /\ Window(t) \in Nat
      /\ Size * Window(t) <= t
      /\ t < Size * (Window(t) + 1)
  BY InWindow
<1>2. \A a, b \in Nat : a <= b => Size * a <= Size * b
  BY SizeAssumption
<1>3. CASE Window(t) <= k
  <2>1. Size * (Window(t) + 1) <= Size * (k + 1)
    BY <1>1, <1>2, <1>3
  <2>2. Size * (Window(t) + 1) \in Nat /\ Size * (k + 1) \in Nat
    BY <1>1, SizeAssumption
  <2> QED BY <1>1, <1>3, <2>1, <2>2
<1>4. CASE k < Window(t)
  <2>1. Size * (k + 1) <= Size * Window(t)
    BY <1>1, <1>2, <1>4
  <2>2. Size * Window(t) \in Nat /\ Size * (k + 1) \in Nat
    BY <1>1, SizeAssumption
  <2> QED BY <1>1, <1>4, <2>1, <2>2
<1> QED BY <1>1, <1>3, <1>4

LEMMA LaterWindow ==
  ASSUME NEW t \in Nat, NEW u \in Nat, t <= u
  PROVE  Window(t) <= Window(u)
<1>1. Window(u) \in Nat /\ u < Size * (Window(u) + 1) /\ Size * (Window(u) + 1) \in Nat
  BY InWindow, SizeAssumption
<1>2. t < Size * (Window(u) + 1)
  BY <1>1
<1> QED BY <1>1, <1>2, Boundaries

\* Less than a window back is at most one window back.
LEMMA EarlierWindow ==
  ASSUME NEW t \in Nat, NEW d \in Nat, d <= t, d <= Size
  PROVE  Window(t) <= Window(t - d) + 1
<1> DEFINE k == Window(t - d)
<1>1. t - d \in Nat /\ Size \in Nat
  BY SizeAssumption
<1>2. k \in Nat /\ t - d < Size * (k + 1)
  BY <1>1, InWindow
<1> HIDE DEF k
<1>3. Size * (k + 1 + 1) = Size * (k + 1) + Size /\ Size * (k + 1) \in Nat
  BY <1>1, <1>2
<1>4. t < Size * (k + 1 + 1)
  BY <1>1, <1>2, <1>3
<1> QED BY <1>2, <1>4, Boundaries DEF k

LEMMA TheInstants ==
  ASSUME NEW t \in Instants
  PROVE  t \in Nat /\ Window(t) \in 0..Windows
<1>1. t \in Nat /\ t < Size * (Windows + 1) /\ Windows \in Nat
  <2>1. Size * (Windows + 1) \in Nat
    BY SizeAssumption
  <2> QED BY <2>1, SizeAssumption DEF Instants
<1>2. Window(t) <= Windows /\ Window(t) \in Nat
  BY <1>1, Boundaries, InWindow
<1> QED BY <1>1, <1>2

\* The scheduler sleeps at least one instant and at most a window.
LEMMA TheSleep ==
  ASSUME NEW t \in Nat
  PROVE  /\ Boundary(t) - t \in 1..Size
         /\ t + (Boundary(t) - t) = Boundary(t)
         /\ Window(Boundary(t)) = Window(t) + 1
         /\ Window(Boundary(t) - 1) <= Window(t)
<1>1. Window(t) \in Nat /\ Size * Window(t) <= t /\ t < Size * (Window(t) + 1) /\ Size \in Nat \ {0}
  BY InWindow, SizeAssumption
<1> DEFINE k == Window(t)
<1>2. k \in Nat
  BY <1>1
<1>3. Size * (k + 1) = Size * k + Size /\ Size * k \in Nat
  BY <1>1, <1>2
<1>4. Boundary(t) = Size * (k + 1) /\ Boundary(t) \in Nat
  BY <1>2, <1>3, SizeAssumption DEF Boundary
<1>5. Boundary(t) - t \in 1..Size /\ t + (Boundary(t) - t) = Boundary(t)
  BY <1>1, <1>3, <1>4
<1>6. Window(Boundary(t)) = k + 1
  <2>1. Size * (k + 1 + 1) = Size * (k + 1) + Size /\ Size * (k + 1) \in Nat
    BY <1>1, <1>2
  <2>2. Boundary(t) < Size * (k + 1 + 1) /\ ~(Boundary(t) < Size * (k + 1))
    BY <1>1, <1>4, <2>1
  <2>3. Window(Boundary(t)) <= k + 1 /\ ~(Window(Boundary(t)) <= k)
    BY <1>2, <1>4, <2>2, Boundaries
  <2> QED BY <1>2, <1>4, <2>3, InWindow
<1>7. Window(Boundary(t) - 1) <= k
  <2>1. Boundary(t) - 1 \in Nat /\ Boundary(t) - 1 < Size * (k + 1)
    BY <1>1, <1>3, <1>4
  <2> QED BY <1>2, <2>1, Boundaries
<1> QED BY <1>5, <1>6, <1>7
-----------------------------------------------------------------------------
(***************************************************************************)
(* What the scheduler remembers of the clock.                              *)
(***************************************************************************)
Ticking == pc \in {"listing", "starting"}

Timing ==
  /\ Window(now) <= reached
  /\ upSince <= reached
  /\ last <= reached
  /\ Ticking => last = Window(moment)
  /\ ~up => pc = "looking" /\ stops > 0

Sound == TypeOK /\ Timing

LEMMA InitSound == Init => Sound
<1> SUFFICES ASSUME Init PROVE Sound
  OBVIOUS
<1>1. 0 \in Instants /\ 0 \in 0..MaxUpsets /\ 0 \in 0..Windows
  <2>1. Size * (Windows + 1) \in Nat /\ Size * (Windows + 1) >= Size
    BY SizeAssumption
  <2> QED BY <2>1, SizeAssumption DEF Instants
<1>2. Window(0) = 0
  <2>1. 0 < Size * (0 + 1)
    BY SizeAssumption
  <2> QED BY <2>1, Boundaries, InWindow
<1>3. TypeOK
  BY <1>1, SizeAssumption DEF Init, TypeOK
<1>4. Timing
  BY <1>2 DEF Init, Timing, Ticking, Never
<1> QED BY <1>3, <1>4 DEF Sound

LEMMA RequestsKeepSound == ASSUME Sound, Requests PROVE Sound'
<1> USE DEF clock, scheduler, Saves, PutWorkflow
<1>1. /\ UNCHANGED <<clock, scheduler>>
      /\ file' \in [Workflows -> File \cup {NoFile}]
      /\ setting' \in [Workflows -> File \cup {NoFile}]
      /\ sameSince' \in [Workflows -> 0..Windows]
  <2>1. ASSUME NEW n \in Workflows, NEW g \in Graphs, NEW e \in Expressions \cup {Off}, PutWorkflow(n, g, e)
        PROVE  <1>1!:
    <3>1. [graph |-> g, schedule |-> e] \in File
      BY DEF File
    <3> QED BY <2>1, <3>1 DEF Sound, TypeOK
  <2>2. ASSUME NEW n \in Workflows, NEW e \in Expressions \cup {Off}, LoadToSet(n, e)
        PROVE  <1>1!:
    <3>1. file[n] \in File
      BY <2>2 DEF LoadToSet, Exists, Sound, TypeOK
    <3>2. [file[n] EXCEPT !.schedule = e] \in File
      BY <3>1 DEF File
    <3> QED BY <2>2, <3>2 DEF LoadToSet, Sound, TypeOK
  <2>3. ASSUME NEW n \in Workflows, SaveSet(n)
        PROVE  <1>1!:
    <3>1. [graph |-> setting[n].graph, schedule |-> setting[n].schedule] \in File
      BY <2>3 DEF SaveSet, File, Sound, TypeOK
    <3> QED BY <2>3, <3>1 DEF SaveSet, Sound, TypeOK
  <2> QED BY <2>1, <2>2, <2>3 DEF Requests, EditorSaves
<1> QED BY <1>1 DEF Sound, TypeOK, Timing, Ticking, Window

LEMMA ClockKeepsSound == ASSUME Sound, Pass \/ \E d \in 1..SetBack : StepBack(d) PROVE Sound'
<1> USE DEF files, scheduler
<1>1. now' \in Instants /\ reached' \in 0..Windows /\ Window(now') <= reached' /\ reached <= reached'
  <2>1. now \in Nat /\ reached \in 0..Windows /\ Window(now) <= reached /\ reached \in Int
    BY TheInstants, SizeAssumption DEF Sound, TypeOK, Timing
  <2>2. CASE Pass
    <3>1. now' = now + 1 /\ now + 1 \in Instants /\ Window(now + 1) \in 0..Windows
      BY <2>2, TheInstants DEF Pass
    <3>2. reached' = IF Window(now + 1) > reached THEN Window(now + 1) ELSE reached
      BY <2>2 DEF Pass
    <3> QED BY <2>1, <3>1, <3>2, SizeAssumption
  <2>3. CASE \E d \in 1..SetBack : StepBack(d)
    <3>1. PICK d \in 1..SetBack : StepBack(d)
      BY <2>3
    <3>2. d \in Nat /\ now - d \in Nat /\ now - d <= now /\ now' = now - d /\ reached' = reached
      BY <2>1, <3>1, SizeAssumption DEF StepBack
    <3>3. now - d \in Instants
      BY <2>1, <3>2, SizeAssumption DEF Instants, Sound, TypeOK
    <3>4. Window(now - d) <= Window(now) /\ Window(now) \in Nat /\ Window(now - d) \in Nat
      BY <2>1, <3>2, LaterWindow, InWindow
    <3> QED BY <2>1, <3>2, <3>3, <3>4
  <2> QED BY <2>2, <2>3
<1>2. timer' \in 0..Size
  BY SizeAssumption DEF Sound, TypeOK, Pass, StepBack
<1>3. setBacks' \in 0..MaxUpsets /\ stops' \in 0..(MaxUpsets - setBacks')
  BY SizeAssumption DEF Sound, TypeOK, Pass, StepBack
<1>4. UNCHANGED <<files, up, stops, pc, last, moment, todo, starts, upSince>>
  BY DEF Pass, StepBack
<1>5. TypeOK'
  BY <1>1, <1>2, <1>3, <1>4 DEF Sound, TypeOK
<1>6. Timing'
  <2>1. last \in Int /\ upSince \in Int /\ reached \in Int /\ reached' \in Int
    BY <1>1, SizeAssumption DEF Sound, TypeOK, Never
  <2> QED BY <1>1, <1>4, <2>1 DEF Sound, Timing, Ticking, Window
<1> QED BY <1>5, <1>6 DEF Sound

LEMMA ServerKeepsSound == ASSUME Sound, Boot \/ Stop PROVE Sound'
<1> USE DEF clock, files
<1>1. TypeOK'
  <2>1. stops' \in 0..(MaxUpsets - setBacks) /\ timer' \in 0..Size /\ setBacks' = setBacks
    BY SizeAssumption DEF Sound, TypeOK, Boot, Stop
  <2>2. setting' \in [Workflows -> File \cup {NoFile}]
    BY DEF Sound, TypeOK, Boot, Stop
  <2>3. last' \in 0..Windows \cup {Never} /\ upSince' \in 0..Windows /\ up' \in BOOLEAN
    BY DEF Sound, TypeOK, Boot, Stop
  <2>4. pc' = "looking" /\ todo' \in SUBSET Workflows /\ (todo' # {} => pc' = "starting")
    BY DEF Sound, TypeOK, Timing, Boot, Stop
  <2> QED BY <2>1, <2>2, <2>3, <2>4 DEF Sound, TypeOK, Boot, Stop
<1>2. Timing'
  <2>1. reached \in Nat /\ stops \in Nat
    BY SizeAssumption DEF Sound, TypeOK
  <2> QED BY <2>1 DEF Sound, Timing, Ticking, Boot, Stop, Window, Never
<1> QED BY <1>1, <1>2 DEF Sound

LEMMA OneMore ==
  ASSUME NEW D, NEW f \in [D -> Nat], NEW d \in D
  PROVE  /\ [f EXCEPT ![d] = @ + 1] \in [D -> Nat]
         /\ \A e \in D : [f EXCEPT ![d] = @ + 1][e] = IF e = d THEN f[e] + 1 ELSE f[e]
OBVIOUS

LEMMA StartCounts ==
  ASSUME TypeOK, NEW n \in Workflows, StartRun(n)
  PROVE  /\ starts' \in [Workflows -> [0..Windows -> Nat]]
         /\ Window(moment) \in 0..Windows
         /\ \A m \in Workflows, v \in 0..Windows :
              starts'[m][v] = IF m = n /\ v = Window(moment) /\ Exists(n) /\ file[n].graph \notin Broken
                              THEN starts[m][v] + 1
                              ELSE starts[m][v]
<1> DEFINE w == Window(moment)
           count == [starts[n] EXCEPT ![w] = @ + 1]
<1>1. w \in 0..Windows /\ starts \in [Workflows -> [0..Windows -> Nat]]
  BY TheInstants DEF TypeOK
<1>2. /\ starts' = IF Exists(n) /\ file[n].graph \notin Broken THEN [starts EXCEPT ![n] = count] ELSE starts
  BY DEF StartRun
<1> HIDE DEF w
<1>3. /\ count \in [0..Windows -> Nat]
      /\ \A v \in 0..Windows : count[v] = IF v = w THEN starts[n][v] + 1 ELSE starts[n][v]
  BY <1>1, OneMore
<1> HIDE DEF count
<1>4. CASE Exists(n) /\ file[n].graph \notin Broken
  <2>1. starts' = [starts EXCEPT ![n] = count]
    BY <1>2, <1>4
  <2>2. \A m \in Workflows : starts'[m] = IF m = n THEN count ELSE starts[m]
    BY <1>1, <2>1
  <2>3. starts' \in [Workflows -> [0..Windows -> Nat]]
    BY <1>1, <1>3, <2>1
  <2> QED BY <1>1, <1>3, <1>4, <2>2, <2>3 DEF w
<1>5. CASE ~(Exists(n) /\ file[n].graph \notin Broken)
  BY <1>1, <1>2, <1>5 DEF w
<1> QED BY <1>4, <1>5

LEMMA RunKeepsSound == ASSUME Sound, Run PROVE Sound'
<1> USE DEF clock, files
<1>0. now \in Nat /\ Window(now) \in 0..Windows /\ Window(moment) \in 0..Windows
  BY TheInstants DEF Sound, TypeOK
<1>1. CASE Look
  <2>1. timer' \in 0..Size
    BY <1>0, <1>1, TheSleep, SizeAssumption DEF Look, WakesAt
  <2> QED BY <1>1, <2>1 DEF Look, Sound, TypeOK, Timing, Ticking, Window
<1>2. CASE Wake
  BY <1>0, <1>2 DEF Wake, Sound, TypeOK, Timing, Ticking, Window
<1>3. CASE List
  BY <1>3 DEF List, Sound, TypeOK, Timing, Ticking, Window
<1>4. ASSUME NEW n \in Workflows, StartRun(n) PROVE Sound'
  <2>1. starts' \in [Workflows -> [0..Windows -> Nat]]
    BY <1>4, StartCounts DEF Sound
  <2>2. todo' \in SUBSET Workflows
    BY <1>4 DEF StartRun, Remaining, Sound, TypeOK
  <2> QED BY <1>4, <2>1, <2>2 DEF StartRun, Sound, TypeOK, Timing, Ticking, Window
<1>5. CASE EndTick
  BY <1>5 DEF EndTick, Sound, TypeOK, Timing, Ticking, Window
<1> QED BY <1>1, <1>2, <1>3, <1>4, <1>5 DEF Run

LEMMA NextKeepsSound == Sound /\ [Next]_vars => Sound'
<1>1. ASSUME Sound, UNCHANGED vars PROVE Sound'
  BY <1>1 DEF vars, clock, files, scheduler, Sound, TypeOK, Timing, Ticking, Window
<1> QED
  BY <1>1, RequestsKeepSound, ClockKeepsSound, ServerKeepsSound, RunKeepsSound DEF Next

LEMMA SoundAlways == Spec => []Sound
BY InitSound, NextKeepsSound, PTL DEF Spec

(***************************************************************************)
(* Types: of the clock, the files and the scheduler.                       *)
(***************************************************************************)
THEOREM TypeCorrect == Spec => []TypeOK
<1>1. Sound => TypeOK
  BY DEF Sound
<1> QED BY <1>1, SoundAlways, PTL

\* A request changes files, and those it changes are new in the window.
LEMMA RequestsWrite ==
  ASSUME Sound, Requests
  PROVE  /\ UNCHANGED <<clock, scheduler>>
         /\ \A n \in Workflows : \/ file'[n] = file[n] /\ sameSince'[n] = sameSince[n]
                               \/ sameSince'[n] = reached
<1> USE DEF clock, scheduler, Saves, PutWorkflow, Sound, TypeOK
<1> DEFINE Written == /\ UNCHANGED <<clock, scheduler>>
                      /\ \A n \in Workflows : \/ file'[n] = file[n] /\ sameSince'[n] = sameSince[n]
                                            \/ sameSince'[n] = reached
<1>1. ASSUME NEW n \in Workflows, NEW g \in Graphs, NEW e \in Expressions \cup {Off}, PutWorkflow(n, g, e)
      PROVE  Written
  BY <1>1
<1>2. ASSUME NEW n \in Workflows, NEW e \in Expressions \cup {Off}, LoadToSet(n, e)
      PROVE  Written
  BY <1>2 DEF LoadToSet
<1>3. ASSUME NEW n \in Workflows, SaveSet(n)
      PROVE  Written
  BY <1>3 DEF SaveSet
<1> QED BY <1>1, <1>2, <1>3 DEF Requests, EditorSaves

\* Time passes, and what is left to sleep passes with it.
LEMMA TimePasses ==
  ASSUME Sound, Pass
  PROVE  /\ now \in Nat /\ timer \in Nat /\ now' = now + 1
         /\ Window(now) <= Window(now')
         /\ Window(now + timer) <= Window(now' + timer')
         /\ timer > 0 => timer' = timer - 1 /\ now' + timer' = now + timer
         /\ timer = 0 => timer' = 0
         /\ Window(now) \in Nat /\ Window(now') \in Nat
         /\ Window(now + timer) \in Nat /\ Window(now' + timer') \in Nat
         /\ UNCHANGED <<setBacks, files, up, stops, pc, last, moment, todo, starts, upSince>>
         /\ reached' = IF Window(now') > reached THEN Window(now') ELSE reached
<1>1. now \in Nat /\ timer \in Nat
  BY TheInstants, SizeAssumption DEF Sound, TypeOK
<1>2. now' = now + 1 /\ timer' = IF timer > 0 THEN timer - 1 ELSE 0
  BY DEF Pass
<1>3. now' \in Nat /\ now <= now' /\ now + timer \in Nat /\ now' + timer' \in Nat /\ now + timer <= now' + timer'
  BY <1>1, <1>2
<1>4. /\ Window(now) <= Window(now') /\ Window(now + timer) <= Window(now' + timer')
      /\ Window(now) \in Nat /\ Window(now') \in Nat
      /\ Window(now + timer) \in Nat /\ Window(now' + timer') \in Nat
  BY <1>1, <1>3, LaterWindow, InWindow
<1> QED BY <1>1, <1>2, <1>3, <1>4 DEF Pass, files

LEMMA Numbers ==
  ASSUME Sound
  PROVE  /\ now \in Nat /\ timer \in Nat /\ reached \in Nat /\ upSince \in Nat
         /\ last \in Int /\ setBacks \in Nat /\ stops \in Nat
         /\ Window(now) \in 0..Windows /\ Window(moment) \in 0..Windows
         /\ Window(now + timer) \in Nat
         /\ \A n \in Workflows, w \in 0..Windows : starts[n][w] \in Nat
         /\ \A n \in Workflows : sameSince[n] \in Nat
<1>1. now \in Nat /\ timer \in Nat /\ Window(now) \in 0..Windows /\ Window(moment) \in 0..Windows
  BY TheInstants, SizeAssumption DEF Sound, TypeOK
<1>2. Window(now + timer) \in Nat
  BY <1>1, InWindow
<1> QED BY <1>1, <1>2, SizeAssumption DEF Sound, TypeOK, Never

-----------------------------------------------------------------------------
(***************************************************************************)
(* Nothing is caught up.                                                   *)
(***************************************************************************)
Ahead ==
  setBacks = 0 => /\ reached = Window(now)
                  /\ pc = "sleeping" => upSince < Window(now + timer)
                  /\ Ticking => upSince < Window(moment)

LEMMA NextAhead ==
  ASSUME Sound, Ahead, [Next]_vars
  PROVE  Ahead'
<1> USE DEF clock, files, scheduler
<1>1. CASE UNCHANGED vars \/ Requests
  <2>1. UNCHANGED <<clock, scheduler>>
    BY <1>1, RequestsWrite DEF vars
  <2> QED BY <2>1 DEF Ahead, Ticking, Window
<1>2. CASE Pass
  BY <1>2, TimePasses, Numbers DEF Ahead, Ticking, Window
<1>3. CASE \E d \in 1..SetBack : StepBack(d)
  BY <1>3, Numbers DEF StepBack, Ahead
<1>4. CASE Boot \/ Stop
  BY <1>4 DEF Boot, Stop, Ahead, Ticking, Window
<1>5. CASE Look
  <2>1. now + timer' = Boundary(now) /\ Window(Boundary(now)) = Window(now) + 1
    BY <1>5, Numbers, TheSleep DEF Look, WakesAt
  <2>2. setBacks = 0 => upSince < Window(now + timer')
    BY <2>1, Numbers DEF Sound, Timing, Ahead
  <2> QED BY <1>5, <2>2 DEF Look, Ahead, Ticking, Window
<1>6. CASE Wake
  <2>1. now + timer = now
    BY <1>6, Numbers DEF Wake
  <2> QED BY <1>6, <2>1 DEF Wake, Ahead, Ticking, Window
<1>7. CASE List \/ EndTick \/ \E n \in Workflows : StartRun(n)
  BY <1>7 DEF List, EndTick, StartRun, Ahead, Ticking, Window
<1> QED BY <1>1, <1>2, <1>3, <1>4, <1>5, <1>6, <1>7 DEF Next, Run

(***************************************************************************)
(* A server that comes up starts nothing for the window it comes up in or  *)
(* an earlier one, as long as nobody sets its clock back: it first sleeps  *)
(* to the end of that window, and its clock never shows it again.          *)
(***************************************************************************)
THEOREM StartsAfreshAlways == Spec => NothingCaughtUp
<1>1. Init => Ahead
  <2>1. ASSUME Init PROVE Window(now) = 0
    <3>1. Window(0) <= 0 /\ Window(0) \in Nat
      BY SizeAssumption, Boundaries, InWindow
    <3> QED BY <2>1, <3>1 DEF Init
  <2> QED BY <2>1 DEF Init, Ahead, Ticking
<1>2. Sound /\ Ahead /\ [Next]_vars =>
        [setBacks = 0 => \A n \in Workflows, w \in 0..Windows :
                            starts'[n][w] # starts[n][w] => w > upSince]_vars
  <2> SUFFICES ASSUME Sound, Ahead, Next, setBacks = 0, NEW n \in Workflows, NEW w \in 0..Windows,
                      starts'[n][w] # starts[n][w]
               PROVE  w > upSince
    OBVIOUS
  <2>1. starts' # starts
    OBVIOUS
  <2>2. PICK m \in Workflows : StartRun(m)
    BY <2>1, RequestsWrite DEF Next, Run, Pass, StepBack, Boot, Stop, Look, Wake, List, EndTick, scheduler
  <2>3. w = Window(moment)
    BY <2>2, StartCounts DEF Sound
  <2> QED BY <2>2, <2>3, Numbers DEF StartRun, Ahead, Ticking
<1> QED BY <1>1, <1>2, NextAhead, SoundAlways, PTL DEF Spec, NothingCaughtUp

-----------------------------------------------------------------------------
(***************************************************************************)
(* Once in a window.  It takes few upsets: restarts only, however many, or *)
(* one clock set back, by no more than a window.  A clock set back further *)
(* (MCSchedulesGaps.cfg), or by one instant twice or before a restart,     *)
(* makes the scheduler tick in a window it has served.                     *)
(***************************************************************************)
FewUpsets == setBacks = 0 \/ (setBacks + stops <= 1 /\ SetBack <= Size)

\* Whatever was started is behind the next window the scheduler looks at.
Behind(w) ==
  /\ setBacks = 0 => /\ w <= Window(now)
                     /\ pc = "sleeping" => w < Window(now + timer)
  /\ stops = 0 => w <= last
  /\ Ticking => w <= last /\ (pc = "listing" => w # last)

Unique ==
  /\ last <= Window(now) + setBacks
  /\ pc = "sleeping" => last < Window(now + timer) + setBacks
  /\ \A n \in Workflows, w \in 0..Windows :
       /\ starts[n][w] <= 1
       /\ starts[n][w] > 0 => Behind(w)
       /\ starts[n][w] > 0 /\ n \in todo => w # last

\* Steps after which everything that was started is still behind.
LEMMA StaysUnique ==
  ASSUME Unique, UNCHANGED <<starts, todo>>,
         last' <= Window(now)' + setBacks',
         pc' = "sleeping" => last' < Window(now + timer)' + setBacks',
         todo # {} => last' = last,
         \A w \in 0..Windows : Behind(w) => Behind(w)'
  PROVE  Unique'
BY DEF Unique

LEMMA ClockKeepsUnique ==
  ASSUME FewUpsets', Sound, Unique, Pass \/ \E d \in 1..SetBack : StepBack(d)
  PROVE  Unique'
<1> USE DEF scheduler, files
<1>1. CASE Pass
  <2>1. UNCHANGED <<starts, todo, last, setBacks, stops, pc, moment>>
    BY <1>1 DEF Pass
  <2>2. last' <= Window(now') + setBacks' /\ (pc' = "sleeping" => last' < Window(now' + timer') + setBacks')
    BY <1>1, <2>1, TimePasses, Numbers DEF Unique
  <2>3. \A w \in 0..Windows : Behind(w) => Behind(w)'
    BY <1>1, <2>1, TimePasses, Numbers DEF Behind, Ticking, Window
  <2>4. Window(now)' = Window(now') /\ Window(now + timer)' = Window(now' + timer')
    BY DEF Window
  <2> QED BY <2>1, <2>2, <2>3, <2>4, StaysUnique
<1>2. CASE \E d \in 1..SetBack : StepBack(d)
  <2>1. PICK d \in 1..SetBack : StepBack(d)
    BY <1>2
  <2>2. /\ d \in Nat /\ d <= Size /\ d <= now /\ setBacks = 0 /\ stops = 0
        /\ now' = now - d /\ setBacks' = 1
        /\ UNCHANGED <<starts, todo, last, stops, pc, timer, moment>>
    BY <2>1, Numbers, SizeAssumption DEF StepBack, FewUpsets
  <2>3. /\ Window(now) <= Window(now') + 1 /\ Window(now + timer) <= Window(now' + timer') + 1
        /\ Window(now') \in Nat /\ Window(now' + timer') \in Nat
    <3>1. now \in Nat /\ now + timer \in Nat /\ d <= now + timer
          /\ now' \in Nat /\ now' + timer' = (now + timer) - d /\ (now + timer) - d \in Nat
      BY <2>2, Numbers
    <3> QED BY <2>2, <3>1, EarlierWindow, InWindow
  <2>4. last' <= Window(now') + setBacks' /\ (pc' = "sleeping" => last' < Window(now' + timer') + setBacks')
    BY <2>2, <2>3, Numbers DEF Unique
  <2>5. \A w \in 0..Windows : Behind(w) => Behind(w)'
    BY <2>2 DEF Behind, Ticking
  <2>6. Window(now)' = Window(now') /\ Window(now + timer)' = Window(now' + timer')
    BY DEF Window
  <2> QED BY <2>2, <2>4, <2>5, <2>6, StaysUnique
<1> QED BY <1>1, <1>2

LEMMA ServerKeepsUnique ==
  ASSUME FewUpsets, FewUpsets', Sound, Unique, Boot \/ Stop
  PROVE  Unique'
<1> USE DEF clock, files
<1>1. /\ setBacks' = setBacks /\ stops' \in Nat /\ stops' > 0 /\ pc' = "looking"
      /\ UNCHANGED <<clock, starts>> /\ todo' = {}
      /\ last' \in {last, Never} /\ ~Ticking'
  BY Numbers DEF Boot, Stop, Sound, Timing, TypeOK, Ticking
<1>2. setBacks = 0
  BY Numbers, SizeAssumption DEF Boot, Stop, FewUpsets, Sound, Timing
<1>3. last' <= Window(now) + setBacks
  BY <1>1, Numbers DEF Unique, Never
<1> QED BY <1>1, <1>2, <1>3 DEF Unique, Behind, Window

LEMMA RunKeepsUnique ==
  ASSUME FewUpsets, Sound, Unique, Run
  PROVE  Unique'
<1> USE DEF clock, files
<1>1. CASE Look
  <2>1. now + timer' = Boundary(now) /\ Window(Boundary(now)) = Window(now) + 1
    BY <1>1, Numbers, TheSleep DEF Look, WakesAt
  <2>2. /\ UNCHANGED <<now, starts, todo, last, setBacks, stops, moment>>
        /\ pc' = "sleeping" /\ Window(now + timer)' = Window(now) + 1 /\ Window(now)' = Window(now)
    BY <1>1, <2>1 DEF Look, Window
  <2>3. \A w \in 0..Windows : Behind(w) => Behind(w)'
    BY <2>2, Numbers DEF Behind, Ticking
  <2>4. last' <= Window(now)' + setBacks' /\ last' < Window(now + timer)' + setBacks'
    BY <2>2, Numbers DEF Unique
  <2> QED BY <2>2, <2>3, <2>4, StaysUnique
<1>2. CASE Wake
  <2>1. now + timer = now /\ pc = "sleeping" /\ todo = {} /\ last <= reached
    BY <1>2, Numbers DEF Wake, Sound, TypeOK, Timing
  <2>2. /\ UNCHANGED <<now, starts, todo, setBacks, stops>> /\ Window(now)' = Window(now)
        /\ \/ pc' = "listing" /\ last' = Window(now) /\ last' # last
           \/ pc' = "looking" /\ last' = last
    BY <1>2 DEF Wake, NewWindow, Window
  <2>3. last' <= Window(now) + setBacks
    BY <2>2, Numbers DEF Unique
  <2>4. \A w \in 0..Windows : Behind(w) => Behind(w)'
    <3> SUFFICES ASSUME NEW w \in 0..Windows, Behind(w) PROVE Behind(w)'
      OBVIOUS
    <3>1. CASE pc' = "looking"
      BY <2>1, <2>2, <3>1 DEF Behind, Ticking
    <3>2. CASE pc' = "listing"
      <4>1. last' = Window(now) /\ last' # last /\ last < Window(now) + setBacks
        BY <2>1, <2>2, <3>2 DEF Unique
      <4>2. w < last'
        <5>1. CASE setBacks = 0
          BY <2>1, <4>1, <5>1 DEF Behind
        <5>2. CASE setBacks = 1 /\ stops = 0
          BY <4>1, <5>2, Numbers DEF Behind
        <5> QED BY <5>1, <5>2, Numbers DEF FewUpsets
      <4> QED BY <2>2, <3>2, <4>1, <4>2, Numbers DEF Behind, Ticking
    <3> QED BY <2>2, <3>1, <3>2
  <2> QED BY <2>1, <2>2, <2>3, <2>4, StaysUnique
<1>3. CASE List
  <2>1. /\ UNCHANGED <<now, timer, starts, last, setBacks, stops>> /\ pc = "listing" /\ pc' = "starting"
    BY <1>3 DEF List
  <2> QED BY <2>1 DEF Unique, Behind, Ticking, Window
<1>4. ASSUME NEW n \in Workflows, StartRun(n) PROVE Unique'
  <2>1. /\ UNCHANGED <<now, timer, last, setBacks, stops, pc>> /\ pc = "starting" /\ last = Window(moment)
        /\ n \in todo /\ todo' = todo \ {n}
    BY <1>4 DEF StartRun, Remaining, Sound, Timing, Ticking
  <2>2. \A w \in 0..Windows : Behind(w)' <=> Behind(w)
    BY <2>1 DEF Behind, Ticking, Window
  <2>3. Behind(last)
    BY <2>1, Numbers DEF Behind, Unique, Ticking
  <2>4. ASSUME NEW m \in Workflows, NEW w \in 0..Windows
        PROVE  /\ starts'[m][w] <= 1
               /\ starts'[m][w] > 0 => Behind(w)
               /\ starts'[m][w] > 0 /\ m \in todo' => w # last
    <3>1. starts'[m][w] = starts[m][w] \/ (m = n /\ w = last /\ starts'[m][w] = starts[m][w] + 1)
      BY <1>4, <2>1, StartCounts DEF Sound
    <3>2. CASE starts'[m][w] = starts[m][w]
      BY <2>1, <3>2 DEF Unique
    <3>3. CASE m = n /\ w = last /\ starts'[m][w] = starts[m][w] + 1
      <4>1. starts[m][w] = 0
        BY <2>1, <3>3, Numbers DEF Unique
      <4> QED BY <2>1, <2>3, <3>3, <4>1
    <3> QED BY <3>1, <3>2, <3>3
  <2>5. Window(now)' = Window(now)
    BY <2>1 DEF Window
  <2> QED BY <2>1, <2>2, <2>4, <2>5 DEF Unique
<1>5. CASE EndTick
  BY <1>5 DEF EndTick, Unique, Behind, Ticking, Window
<1> QED BY <1>1, <1>2, <1>3, <1>4, <1>5 DEF Run

LEMMA UniqueAlways == Spec => [](FewUpsets => Unique)
<1>1. Init => Unique
  <2> SUFFICES ASSUME Init PROVE Unique
    OBVIOUS
  <2>1. Window(now) \in Nat /\ ~(\E n \in Workflows, w \in 0..Windows : starts[n][w] > 0)
    BY InWindow DEF Init
  <2>2. \A n \in Workflows, w \in 0..Windows : starts[n][w] = 0
    BY DEF Init
  <2> QED BY <2>1, <2>2 DEF Init, Unique, Never
<1>2. ASSUME Sound, Unique, UNCHANGED vars \/ Requests PROVE Unique'
  <2>1. UNCHANGED <<clock, scheduler>>
    BY <1>2, RequestsWrite DEF vars
  <2> QED BY <1>2, <2>1 DEF Unique, Behind, Ticking, Window, clock, scheduler
<1>3. Sound /\ [Next]_vars /\ FewUpsets' => FewUpsets
  <2> SUFFICES ASSUME Sound, [Next]_vars, FewUpsets' PROVE FewUpsets
    OBVIOUS
  <2>1. setBacks' \in {setBacks, setBacks + 1} /\ stops' \in {stops, stops + 1}
    BY RequestsWrite DEF Next, Run, vars, clock, scheduler, Pass, StepBack, Boot, Stop, Look, Wake, List,
       StartRun, EndTick
  <2> QED BY <2>1, Numbers DEF FewUpsets
<1>4. Sound /\ (FewUpsets => Unique) /\ [Next]_vars => (FewUpsets => Unique)'
  <2> SUFFICES ASSUME Sound, Unique, [Next]_vars, FewUpsets, FewUpsets' PROVE Unique'
    BY <1>3
  <2> QED BY <1>2, ClockKeepsUnique, ServerKeepsUnique, RunKeepsUnique DEF Next
<1> QED BY <1>1, <1>4, SoundAlways, PTL DEF Spec

(***************************************************************************)
(* No window starts a workflow twice, whatever wakes the scheduler and     *)
(* however long its ticks take: each tick is of a later window than any    *)
(* that was served, across restarts as across a clock set back once.       *)
(***************************************************************************)
THEOREM AtMostOnce == Spec => [](FewUpsets => OnceInAWindow)
<1>1. Unique => OnceInAWindow
  BY DEF Unique, OnceInAWindow
<1> QED BY <1>1, UniqueAlways, PTL

-----------------------------------------------------------------------------
(***************************************************************************)
(* None is missed.  It needs ticks that keep up with the windows, and no   *)
(* bound on the upsets: UpTo(m) says that the scheduler has served every   *)
(* window it was up for up to m, or is serving m, and that it wakes up     *)
(* before the clock leaves m + 1 for the first time.                       *)
(***************************************************************************)
Owed(n, w) == sameSince[n] < w /\ IsDue(n, w) /\ file[n].graph \notin Broken

Coming(n, w) == Ticking /\ Window(moment) = w /\ (pc = "listing" \/ n \in todo)

UpTo(m) ==
  /\ last <= m
  /\ Window(now) <= m \/ (Window(now) = m + 1 /\ pc = "sleeping" /\ timer = 0)
  /\ pc = "sleeping" /\ timer > 0 => Window(now + timer - 1) <= m
  /\ \A n \in Workflows, w \in 0..m :
       upSince < w /\ Owed(n, w) => starts[n][w] > 0 \/ (w = m /\ Coming(n, m))

Served == up => \E m \in upSince..reached : UpTo(m)

LEMMA RequestsKeepServed ==
  ASSUME Sound, Served, Requests
  PROVE  Served'
<1> SUFFICES ASSUME up, NEW m \in upSince..reached, UpTo(m) PROVE UpTo(m)'
  BY RequestsWrite DEF Served, clock, scheduler
<1>1. UNCHANGED <<clock, scheduler>>
  BY RequestsWrite
<1>2. ASSUME NEW n \in Workflows, NEW w \in 0..m, Owed(n, w)' PROVE Owed(n, w)
  BY <1>2, RequestsWrite, Numbers DEF Owed, IsDue, Exists, clock
<1> QED BY <1>1, <1>2 DEF UpTo, Coming, Ticking, Window, clock, scheduler

LEMMA PassKeepsServed ==
  ASSUME ~Outlives, Sound, Served, Pass
  PROVE  Served'
<1>1. UNCHANGED <<setBacks, file, setting, sameSince, up, stops, pc, last, moment, todo, starts, upSince>>
  BY TimePasses DEF files
<1> SUFFICES ASSUME up, NEW m \in upSince..reached, UpTo(m) PROVE UpTo(m)'
  <2>1. reached <= reached' /\ reached' \in Nat
    BY TimePasses, Numbers
  <2>2. upSince..reached \subseteq upSince'..reached'
    BY <1>1, <2>1, Numbers
  <2> QED BY <1>1, <2>2 DEF Served
<1>2. m \in Nat /\ upSince <= m
  BY Numbers
<1>3. \/ Window(now') <= m
      \/ Window(now') = m + 1 /\ pc = "sleeping" /\ timer' = 0
  <2>1. CASE pc = "sleeping" /\ timer = 1
    <3>1. now + timer - 1 = now /\ now' \in Nat /\ now' - 1 = now /\ timer' = 0
      BY <2>1, TimePasses
    <3>2. Window(now) <= m
      BY <2>1, <3>1 DEF UpTo
    <3>3. Window(now') <= Window(now' - 1) + 1
      <4>1. 1 \in Nat /\ 1 <= now' /\ 1 <= Size
        BY <3>1, TimePasses, SizeAssumption
      <4> QED BY <3>1, <4>1, EarlierWindow
    <3> QED BY <1>2, <2>1, <3>1, <3>2, <3>3, TimePasses
  <2>2. CASE pc = "sleeping" /\ timer > 1
    <3>1. now + timer - 1 \in Nat /\ now' \in Nat /\ now' <= now + timer - 1
      BY <2>2, TimePasses
    <3>2. Window(now + timer - 1) <= m /\ Window(now') <= Window(now + timer - 1)
      BY <2>2, <3>1, TimePasses, LaterWindow DEF UpTo
    <3>3. Window(now + timer - 1) \in Nat
      BY <3>1, InWindow
    <3> QED BY <1>2, <3>2, <3>3, TimePasses
  <2>3. CASE ~(pc = "sleeping" /\ timer > 0)
    <3>1. (Window(now') = Window(now) /\ timer' = 0) \/ pc # "sleeping"
      BY <2>3, TimePasses DEF Pass, Prompt
    <3>2. Window(now') = Window(now)
      BY <2>3, TimePasses DEF Pass, Prompt
    <3> QED BY <2>3, <3>1, <3>2 DEF UpTo
  <2> QED BY <2>1, <2>2, <2>3, Numbers
<1>4. pc' = "sleeping" /\ timer' > 0 => Window(now' + timer' - 1) <= m
  <2> SUFFICES ASSUME pc' = "sleeping", timer' > 0 PROVE Window(now' + timer' - 1) <= m
    OBVIOUS
  <2>1. pc = "sleeping" /\ timer > 0 /\ now' + timer' - 1 = now + timer - 1
    BY <1>1, TimePasses
  <2> QED BY <2>1 DEF UpTo
<1>5. \A n \in Workflows, w \in 0..m :
        /\ Owed(n, w)' <=> Owed(n, w)
        /\ Coming(n, w)' <=> Coming(n, w)
  BY <1>1 DEF Owed, IsDue, Exists, Coming, Ticking, Window
<1>6. Window(now)' = Window(now') /\ Window(now + timer - 1)' = Window(now' + timer' - 1)
  BY DEF Window
<1> QED BY <1>1, <1>2, <1>3, <1>4, <1>5, <1>6 DEF UpTo

LEMMA StepBackKeepsServed ==
  ASSUME Sound, Served, NEW d \in 1..SetBack, StepBack(d)
  PROVE  Served'
<1>1. /\ UNCHANGED <<reached, file, setting, sameSince, up, stops, pc, timer, last, moment, todo, starts, upSince>>
      /\ d \in Nat /\ d >= 1 /\ d <= now /\ now' = now - d
  BY SizeAssumption DEF StepBack, files, scheduler
<1> SUFFICES ASSUME up, NEW m \in upSince..reached, UpTo(m) PROVE UpTo(m)'
  BY <1>1 DEF Served
<1>2. m \in Nat /\ now' \in Nat /\ now' <= now
  BY <1>1, Numbers
<1>3. Window(now') <= Window(now) /\ Window(now') \in Nat /\ Window(now) \in Nat
  BY <1>2, Numbers, LaterWindow, InWindow
<1>4. pc' = "sleeping" /\ timer' > 0 => Window(now' + timer' - 1) <= m
  <2> SUFFICES ASSUME pc' = "sleeping", timer' > 0 PROVE Window(now' + timer' - 1) <= m
    OBVIOUS
  <2>1. pc = "sleeping" /\ timer > 0 /\ now' + timer' - 1 \in Nat /\ now + timer - 1 \in Nat
        /\ now' + timer' - 1 <= now + timer - 1
    BY <1>1, <1>2, Numbers
  <2>2. Window(now + timer - 1) <= m /\ Window(now' + timer' - 1) <= Window(now + timer - 1)
        /\ Window(now + timer - 1) \in Nat /\ Window(now' + timer' - 1) \in Nat
    BY <2>1, LaterWindow, InWindow DEF UpTo
  <2> QED BY <1>2, <2>2
<1>5. \A n \in Workflows, w \in 0..m :
        /\ Owed(n, w)' <=> Owed(n, w)
        /\ Coming(n, w)' <=> Coming(n, w)
  BY <1>1 DEF Owed, IsDue, Exists, Coming, Ticking, Window
<1>6. Window(now)' = Window(now') /\ Window(now + timer - 1)' = Window(now' + timer' - 1)
  BY DEF Window
<1>7. Window(now') <= m \/ (Window(now') = m + 1 /\ pc' = "sleeping" /\ timer' = 0)
  BY <1>1, <1>2, <1>3 DEF UpTo
<1> QED BY <1>1, <1>4, <1>5, <1>6, <1>7 DEF UpTo

LEMMA ServerKeepsServed ==
  ASSUME Sound, Served, Boot \/ Stop
  PROVE  Served'
<1>1. CASE Stop
  BY <1>1 DEF Stop, Served
<1>2. CASE Boot
  <2>1. PICK m \in Nat : m = reached
    BY Numbers
  <2>2. /\ pc' = "looking" /\ upSince' = m /\ last' <= m
        /\ Window(now') <= m /\ reached' = m /\ now' = now
    BY <1>2, <2>1, Numbers DEF Boot, clock, Sound, Timing, Never
  <2>3. Window(now)' = Window(now')
    BY DEF Window
  <2>4. UpTo(m)'
    BY <2>2, <2>3 DEF UpTo
  <2>5. m \in upSince'..reached'
    BY <2>2
  <2> QED BY <2>4, <2>5 DEF Served
<1> QED BY <1>1, <1>2

LEMMA LookKeepsServed ==
  ASSUME Sound, Served, Look
  PROVE  Served'
<1>1. /\ UNCHANGED <<now, reached, file, sameSince, up, last, moment, todo, starts, upSince>>
      /\ pc = "looking" /\ pc' = "sleeping" /\ timer' = Boundary(now) - now
  BY DEF Look, WakesAt, clock, files
<1> SUFFICES ASSUME NEW m \in upSince..reached, UpTo(m) PROVE UpTo(m)'
  BY <1>1 DEF Look, Served
<1>2. Window(now) <= m
  BY <1>1 DEF UpTo
<1>3. now' + timer' - 1 = Boundary(now) - 1 /\ Window(Boundary(now) - 1) <= Window(now)
      /\ Window(Boundary(now) - 1) \in Nat
  <2>1. timer' \in Nat /\ timer' > 0 /\ Boundary(now) = now + timer'
    BY <1>1, Numbers, TheSleep, SizeAssumption
  <2>2. now' + timer' - 1 = Boundary(now) - 1 /\ Boundary(now) - 1 \in Nat
    BY <1>1, <2>1, Numbers
  <2> QED BY <2>2, Numbers, TheSleep, InWindow
<1>4. Window(now' + timer' - 1) <= m
  BY <1>2, <1>3, Numbers
<1>5. \A n \in Workflows, w \in 0..m :
        /\ Owed(n, w)' <=> Owed(n, w)
        /\ ~Coming(n, w)
  BY <1>1 DEF Owed, IsDue, Exists, Coming, Ticking
<1>6. Window(now)' = Window(now) /\ Window(now + timer - 1)' = Window(now' + timer' - 1)
  BY <1>1 DEF Window
<1> QED BY <1>1, <1>2, <1>4, <1>5, <1>6 DEF UpTo

\* In the window after m the scheduler has not ticked, so it does: m + 1 is next.
LEMMA WakeKeepsServed ==
  ASSUME Sound, Served, Wake
  PROVE  Served'
<1>1. /\ UNCHANGED <<now, reached, file, sameSince, up, timer, todo, starts, upSince>>
      /\ up /\ pc = "sleeping" /\ ~Ticking
      /\ \/ pc' = "listing" /\ last' = Window(now) /\ moment' = now /\ last # Window(now)
         \/ pc' = "looking" /\ last' = last /\ last = Window(now)
  BY DEF Wake, NewWindow, clock, files, Ticking
<1>2. PICK m \in upSince..reached : UpTo(m)
  BY <1>1 DEF Served
<1>3. \A n \in Workflows, w \in 0..m : upSince < w /\ Owed(n, w)' => starts'[n][w] > 0
  BY <1>1, <1>2 DEF UpTo, Owed, IsDue, Exists, Coming
<1>4. Window(now)' = Window(now) /\ Window(now) <= reached /\ Window(now) \in Nat /\ m \in Nat
      /\ reached' = reached /\ reached \in Nat /\ upSince \in Nat /\ last \in Int
  BY <1>1, Numbers DEF Window, Sound, Timing
<1>5. CASE Window(now) <= m
  <2>1. UpTo(m)'
    BY <1>1, <1>2, <1>3, <1>4, <1>5 DEF UpTo
  <2> QED BY <1>1, <2>1 DEF Served
<1>6. CASE Window(now) = m + 1
  <2>1. last <= m /\ last # Window(now)
    BY <1>2, <1>4, <1>6 DEF UpTo
  <2>2. pc' = "listing" /\ last' = m + 1 /\ moment' = now
    BY <1>1, <1>6, <2>1
  <2>3. PICK k \in upSince..reached : k = m + 1
    BY <1>4, <1>6
  <2>4. \A n \in Workflows : Coming(n, k)'
    BY <1>6, <2>2, <2>3 DEF Coming, Ticking, Window
  <2>5. \A w \in 0..k : w \in 0..m \/ w = k
    BY <1>4, <2>3
  <2>6. UpTo(k)'
    BY <1>1, <1>3, <1>4, <1>6, <2>2, <2>3, <2>4, <2>5 DEF UpTo
  <2> QED BY <1>1, <2>6 DEF Served
<1> QED BY <1>2, <1>5, <1>6 DEF UpTo

LEMMA TickKeepsServed ==
  ASSUME Sound, Served, List \/ EndTick \/ \E n \in Workflows : StartRun(n)
  PROVE  Served'
<1>1. /\ UNCHANGED <<now, reached, file, sameSince, up, timer, last, moment, upSince>>
      /\ Ticking /\ pc' # "sleeping" /\ up
  BY DEF List, EndTick, StartRun, clock, files, Ticking
<1> SUFFICES ASSUME NEW m \in upSince..reached, UpTo(m) PROVE UpTo(m)'
  BY <1>1 DEF Served
<1>2. Window(now)' = Window(now) /\ Window(now) <= m /\ m \in Nat
  BY <1>1, Numbers DEF UpTo, Ticking, Window
<1>3. ASSUME NEW n \in Workflows, NEW w \in 0..m, upSince < w, Owed(n, w)
      PROVE  starts'[n][w] > 0 \/ (w = m /\ Coming(n, m)')
  <2>1. starts[n][w] > 0 \/ (w = m /\ Coming(n, m))
    BY <1>3 DEF UpTo
  <2>2. m <= Windows /\ w \in 0..Windows /\ starts[n][w] \in Nat
    <3>1. reached <= Windows /\ Windows \in Nat
      BY SizeAssumption DEF Sound, TypeOK
    <3>2. m <= Windows /\ w \in 0..Windows
      BY <1>2, <3>1, Numbers
    <3> QED BY <3>2, Numbers
  <2>3. CASE List
    <3>1. todo' = {k \in Workflows : IsDue(k, Window(moment))} /\ pc' = "starting"
          /\ starts' = starts /\ moment' = moment
      BY <2>3 DEF List
    <3>2. w = m /\ Coming(n, m) => n \in todo' /\ Window(moment)' = m
      BY <1>3, <3>1 DEF Coming, Owed, Window
    <3> QED BY <2>1, <3>1, <3>2 DEF Coming, Ticking
  <2>4. CASE EndTick
    BY <2>1, <2>4 DEF EndTick, Coming
  <2>5. ASSUME NEW k \in Workflows, StartRun(k)
        PROVE  starts'[n][w] > 0 \/ (w = m /\ Coming(n, m)')
    <3>1. pc = "starting" /\ pc' = "starting" /\ todo' = todo \ {k}
      BY <2>5 DEF StartRun, Remaining
    <3>2. starts'[n][w] = starts[n][w] \/ starts'[n][w] = starts[n][w] + 1
      BY <2>2, <2>5, StartCounts DEF Sound
    <3>3. CASE starts[n][w] > 0
      BY <2>2, <3>2, <3>3
    <3>4. CASE w = m /\ Coming(n, m) /\ n # k
      BY <1>1, <3>1, <3>4 DEF Coming, Ticking, Window
    <3>5. CASE w = m /\ Coming(n, m) /\ n = k
      <4>1. Exists(n) /\ file[n].graph \notin Broken /\ w = Window(moment)
        BY <1>3, <3>5 DEF Owed, IsDue, Coming
      <4>2. starts'[n][w] = starts[n][w] + 1
        BY <2>2, <2>5, <3>5, <4>1, StartCounts DEF Sound
      <4> QED BY <2>2, <4>2
    <3> QED BY <2>1, <3>3, <3>4, <3>5
  <2> QED BY <2>3, <2>4, <2>5
<1>4. \A n \in Workflows, w \in 0..m : Owed(n, w)' <=> Owed(n, w)
  BY <1>1 DEF Owed, IsDue, Exists
<1> QED BY <1>1, <1>2, <1>3, <1>4 DEF UpTo

LEMMA ServedAlways == ASSUME ~Outlives PROVE Spec => []Served
<1>1. Init => Served
  <2> SUFFICES ASSUME Init PROVE UpTo(0) /\ 0 \in upSince..reached
    BY DEF Served
  <2>1. Window(now) <= 0 /\ Window(now) \in Nat
    <3>1. Window(0) <= 0 /\ Window(0) \in Nat
      BY SizeAssumption, Boundaries, InWindow
    <3> QED BY <3>1 DEF Init
  <2>2. \A w \in 0..0 : ~(upSince < w)
    BY DEF Init
  <2> QED BY <2>1, <2>2 DEF Init, UpTo, Never
<1>2. ASSUME Served, UNCHANGED vars PROVE Served'
  BY <1>2 DEF Served, UpTo, Owed, IsDue, Exists, Coming, Ticking, Window, vars, clock, files, scheduler
<1>3. Sound /\ Served /\ [Next]_vars => Served'
  BY <1>2, RequestsKeepServed, PassKeepsServed, StepBackKeepsServed, ServerKeepsServed,
     LookKeepsServed, WakeKeepsServed, TickKeepsServed DEF Next, Run
<1> QED BY <1>1, <1>3, SoundAlways, PTL DEF Spec

(***************************************************************************)
(* A workflow that was saved, on a schedule and able to run since before a *)
(* window in which it was due was started in it exactly once, if the       *)
(* server was up and in time: the window is one the scheduler has served.  *)
(***************************************************************************)
THEOREM NoneMissed == ASSUME ~Outlives PROVE Spec => [](FewUpsets => NoneIsMissed)
<1>1. Sound /\ Served /\ Unique => NoneIsMissed
  <2> SUFFICES ASSUME Sound, Served, Unique, NEW n \in Workflows, NEW w \in 0..Windows,
                      up, upSince < w, w < Window(now),
                      sameSince[n] < w, IsDue(n, w), file[n].graph \notin Broken
               PROVE  starts[n][w] = 1
    BY DEF NoneIsMissed
  <2>1. PICK m \in upSince..reached : UpTo(m)
    BY DEF Served
  <2>2. m \in Nat /\ w \in 0..m /\ (w = m => pc = "sleeping")
    BY <2>1, Numbers DEF UpTo
  <2>3. starts[n][w] > 0
    BY <2>1, <2>2 DEF UpTo, Owed, Coming, Ticking
  <2> QED BY <2>3, Numbers DEF Unique
<1> QED BY <1>1, SoundAlways, ServedAlways, UniqueAlways, PTL
=============================================================================
