-------------------------- MODULE PlannedRunProofs --------------------------
(***************************************************************************)
(* Proofs about PlannedRun, for every set of graphs.                       *)
(***************************************************************************)
EXTENDS PlannedRun, FiniteSetTheorems, WellFoundedInduction, TLAPS

LEMMA Smallest ==
  ASSUME NEW T \in SUBSET Nat, T # {}
  PROVE  \E x \in T : \A y \in T : ~(y < x)
<1> DEFINE R == {ss \in Nat \X Nat : ss[1] < ss[2]}
<1>1. IsWellFoundedOn(R, Nat)
  BY NatLessThanWellFounded DEF OpToRel
<1> HIDE DEF R
<1>2. \E x \in T : \A y \in T : ~(<<y, x>> \in R)
  BY <1>1, WFMin, Zenon
<1>3. \A x \in Nat, y \in Nat : <<y, x>> \in R <=> y < x
  BY DEF R
<1> QED BY <1>2, <1>3

\* What holds at 0 and goes on from each number to the next holds up to n.
LEMMA UpTo ==
  ASSUME NEW n \in Nat, NEW S \in SUBSET (0..n), 0 \in S,
         \A k \in 1..n : k - 1 \in S => k \in S
  PROVE  S = 0..n
<1> SUFFICES ASSUME NEW j \in 0..n, j \notin S PROVE FALSE
  OBVIOUS
<1> DEFINE T == (0..n) \ S
<1>1. T \in SUBSET Nat /\ T # {}
  OBVIOUS
<1>2. PICK x \in T : \A y \in T : ~(y < x)
  BY <1>1, Smallest
<1>3. x \in 1..n /\ x - 1 \in 0..n /\ x - 1 < x
  BY <1>2
<1> QED BY <1>2, <1>3

First(g) == [todo |-> Starts(g), included |-> {}]

WalkUpTo(w, g, n) ==
  w = [k \in 0..n |-> IF k = 0 THEN First(g) ELSE Visit(g, w[k - 1])]

LEMMA WalkGoesOn ==
  ASSUME NEW g, NEW n \in Nat
  PROVE  \E w : WalkUpTo(w, g, n)
<1> DEFINE Goes(w, m) == WalkUpTo(w, g, m)
           S == {m \in 0..n : \E w : Goes(w, m)}
<1>1. 0 \in S
  <2> DEFINE w == [k \in 0..0 |-> First(g)]
  <2>1. Goes(w, 0)
    BY DEF WalkUpTo
  <2> HIDE DEF w, Goes
  <2> QED BY <2>1
<1>2. ASSUME NEW m \in 1..n, m - 1 \in S PROVE m \in S
  <2>1. PICK w : Goes(w, m - 1)
    BY <1>2
  <2> DEFINE v == [k \in 0..m |-> IF k = m THEN Visit(g, w[m - 1]) ELSE w[k]]
  <2>2. \A k \in 0..m-1 : w[k] = IF k = 0 THEN First(g) ELSE Visit(g, w[k - 1])
    BY <2>1 DEF WalkUpTo
  <2>3. \A k \in 0..m-1 : v[k] = w[k]
    OBVIOUS
  <2>4. \A k \in 0..m : v[k] = IF k = 0 THEN First(g) ELSE Visit(g, v[k - 1])
    <3> TAKE k \in 0..m
    <3>1. CASE k = m
      <4>1. v[k] = Visit(g, w[m - 1]) /\ k # 0 /\ k - 1 \in 0..m-1
        BY <3>1
      <4> QED BY <4>1, <2>3, <3>1
    <3>2. CASE k # m /\ k # 0
      <4>1. k \in 0..m-1 /\ k - 1 \in 0..m-1
        BY <3>2
      <4> HIDE DEF v
      <4> QED BY <4>1, <2>2, <2>3, <3>2
    <3>3. CASE k # m /\ k = 0
      <4>1. k \in 0..m-1
        BY <3>3
      <4> HIDE DEF v
      <4> QED BY <4>1, <2>2, <2>3, <3>3
    <3> QED BY <3>1, <3>2, <3>3
  <2>5. v = [k \in 0..m |-> v[k]]
    OBVIOUS
  <2>6. Goes(v, m)
    <3> HIDE DEF v
    <3> QED BY <2>4, <2>5 DEF WalkUpTo
  <2> HIDE DEF v, Goes
  <2> QED BY <2>6
<1> HIDE DEF Goes
<1>3. S = 0..n
  <2>1. S \in SUBSET (0..n)
    OBVIOUS
  <2> HIDE DEF S
  <2> QED BY <2>1, <1>1, <1>2, UpTo
<1>4. n \in S
  BY <1>3
<1> QED BY <1>4 DEF Goes

LEMMA WalkSteps ==
  ASSUME NEW g, LongestWalk(g) \in Nat
  PROVE  /\ Walk(g)[0] = First(g)
         /\ \A k \in 1..LongestWalk(g) : Walk(g)[k] = Visit(g, Walk(g)[k - 1])
<1> DEFINE n == LongestWalk(g)
<1>1. PICK w : WalkUpTo(w, g, n)
  BY WalkGoesOn
<1>2. Walk(g) = [k \in 0..n |-> IF k = 0 THEN First(g) ELSE Visit(g, Walk(g)[k - 1])]
  BY <1>1 DEF Walk, First, WalkUpTo
<1> HIDE DEF n
<1>3. n \in Nat
  BY DEF n
<1> QED BY <1>2, <1>3 DEF n

PassingUpTo(w, g, included, n) ==
  w = [k \in 0..n |-> IF k = 0 THEN Makers(g) ELSE Further(g, included, w[k - 1])]

LEMMA PassingGoesOn ==
  ASSUME NEW g, NEW included, NEW n \in Nat
  PROVE  \E w : PassingUpTo(w, g, included, n)
<1> DEFINE Goes(w, m) == PassingUpTo(w, g, included, m)
           S == {m \in 0..n : \E w : Goes(w, m)}
<1>1. 0 \in S
  <2> DEFINE w == [k \in 0..0 |-> Makers(g)]
  <2>1. Goes(w, 0)
    BY DEF PassingUpTo
  <2> HIDE DEF w, Goes
  <2> QED BY <2>1
<1>2. ASSUME NEW m \in 1..n, m - 1 \in S PROVE m \in S
  <2>1. PICK w : Goes(w, m - 1)
    BY <1>2
  <2> DEFINE v == [k \in 0..m |-> IF k = m THEN Further(g, included, w[m - 1]) ELSE w[k]]
  <2>2. \A k \in 0..m-1 : w[k] = IF k = 0 THEN Makers(g) ELSE Further(g, included, w[k - 1])
    BY <2>1 DEF PassingUpTo
  <2>3. \A k \in 0..m-1 : v[k] = w[k]
    OBVIOUS
  <2>4. \A k \in 0..m : v[k] = IF k = 0 THEN Makers(g) ELSE Further(g, included, v[k - 1])
    <3> TAKE k \in 0..m
    <3>1. CASE k = m
      <4>1. v[k] = Further(g, included, w[m - 1]) /\ k # 0 /\ k - 1 \in 0..m-1
        BY <3>1
      <4> QED BY <4>1, <2>3, <3>1
    <3>2. CASE k # m /\ k # 0
      <4>1. k \in 0..m-1 /\ k - 1 \in 0..m-1
        BY <3>2
      <4> HIDE DEF v
      <4> QED BY <4>1, <2>2, <2>3, <3>2
    <3>3. CASE k # m /\ k = 0
      <4>1. k \in 0..m-1
        BY <3>3
      <4> HIDE DEF v
      <4> QED BY <4>1, <2>2, <2>3, <3>3
    <3> QED BY <3>1, <3>2, <3>3
  <2>5. v = [k \in 0..m |-> v[k]]
    OBVIOUS
  <2>6. Goes(v, m)
    <3> HIDE DEF v
    <3> QED BY <2>4, <2>5 DEF PassingUpTo
  <2> HIDE DEF v, Goes
  <2> QED BY <2>6
<1> HIDE DEF Goes
<1>3. S = 0..n
  <2>1. S \in SUBSET (0..n)
    OBVIOUS
  <2> HIDE DEF S
  <2> QED BY <2>1, <1>1, <1>2, UpTo
<1>4. n \in S
  BY <1>3
<1> QED BY <1>4 DEF Goes

LEMMA PassingSteps ==
  ASSUME NEW g, NEW included, Len(g.nodes) \in Nat
  PROVE  /\ Passes(g, included)[0] = Makers(g)
         /\ \A k \in 1..Len(g.nodes) : Passes(g, included)[k] = Further(g, included, Passes(g, included)[k - 1])
<1> DEFINE n == Len(g.nodes)
<1>1. PICK w : PassingUpTo(w, g, included, n)
  BY PassingGoesOn
<1>2. Passes(g, included) = [k \in 0..n |-> IF k = 0 THEN Makers(g) ELSE Further(g, included, Passes(g, included)[k - 1])]
  BY <1>1 DEF Passes, PassingUpTo
<1> HIDE DEF n
<1>3. n \in Nat
  BY DEF n
<1> QED BY <1>2, <1>3 DEF n

-----------------------------------------------------------------------------
LEMMA Sizes ==
  ASSUME NEW g \in Graphs
  PROVE  /\ Blocks(g) = 1..Len(g.nodes)
         /\ Len(g.nodes) \in Nat
         /\ LongestWalk(g) = Len(g.nodes)
         /\ None \notin Blocks(g)
<1>1. Blocks(g) = 1..Len(g.nodes) /\ Len(g.nodes) \in Nat /\ Len(g.edges) \in Nat
  BY GraphsAssumption
<1>2. LongestWalk(g) = Len(g.nodes)
  BY DEF LongestWalk
<1>3. None \notin Blocks(g)
  BY <1>1 DEF None
<1> QED BY <1>1, <1>2, <1>3

\* A block inside a loop is not the loop itself, and none of it is a loop.
LEMMA LoopsHoldNoLoops ==
  ASSUME NEW g \in Graphs, ValidGraph(g), NEW i \in Blocks(g), Type(g, i) = "loop"
  PROVE  LoopOf(g, i) = None
<1>1. Holder(g, i) = "project" \/ Holder(g, i) \in {"project"}
  BY DEF ValidGraph, Holders
<1>2. CheckedAgent(g, i) = None
  BY DEF CheckedAgent
<1>3. Type(g, Parent(g, i)) # "loop"
  <2>1. CASE Parent(g, i) = None
    BY <2>1, Sizes DEF Type
  <2>2. CASE Parent(g, i) # None
    BY <2>2, <1>1 DEF Holder
  <2> QED BY <2>1, <2>2
<1> QED BY <1>2, <1>3 DEF LoopOf

LEMMA BodiesAreInLoops ==
  ASSUME NEW g \in Graphs, NEW l, NEW i \in LoopBody(g, l), Type(g, l) = "loop"
  PROVE  /\ l \in Blocks(g) /\ l # None
         /\ LoopOf(g, i) = l
         /\ i \in Runnable(g)
BY Sizes DEF LoopBody, Type, Runnable

\* A run starts at executable blocks outside of every loop.
LEMMA StartsAreOutside ==
  ASSUME NEW g \in Graphs, NEW k \in Blocks(g)
  PROVE  \/ Starts(g)[k] = None
         \/ Starts(g)[k] \in Runnable(g) /\ LoopOf(g, Starts(g)[k]) = None
<1>1. CASE Flagged(g, k, "agent")
  BY <1>1 DEF Starts, Flagged, Runnable, Executable
<1>2. CASE ~Flagged(g, k, "agent") /\ Flagged(g, k, "github") /\ FlaggedActions(g, k) # {}
  <2> DEFINE S == FlaggedActions(g, k)
  <2>1. S \in SUBSET Nat
    BY Sizes DEF FlaggedActions, Children
  <2>2. \E i \in S : \A j \in S : i <= j
    <3> HIDE DEF S
    <3>1. PICK i \in S : \A j \in S : ~(j < i)
      BY <2>1, <1>2, Smallest DEF S
    <3> QED BY <3>1, <2>1
  <2>3. Earliest(S) \in S
    <3> HIDE DEF S
    <3> QED BY <2>2 DEF Earliest
  <2>4. Starts(g)[k] = Earliest(S)
    BY <1>2 DEF Starts
  <2>5. \A c \in S : c \in Blocks(g) /\ Type(g, c) = "action" /\ Parent(g, c) = k /\ Type(g, k) = "github"
    BY <1>2 DEF FlaggedActions, Children, Flagged
  <2>6. \A c \in S : LoopOf(g, c) = None /\ c \in Runnable(g)
    BY <2>5 DEF LoopOf, CheckedAgent, Runnable, Executable
  <2> QED BY <2>3, <2>4, <2>6
<1>3. CASE ~Flagged(g, k, "agent") /\ ~(Flagged(g, k, "github") /\ FlaggedActions(g, k) # {})
  BY <1>3 DEF Starts
<1> QED BY <1>1, <1>2, <1>3

LEMMA StartsInTurn ==
  ASSUME NEW g \in Graphs
  PROVE  /\ Starts(g) \in Seq({Starts(g)[k] : k \in Blocks(g)})
         /\ Len(Starts(g)) = Len(g.nodes)
         /\ DOMAIN Starts(g) = Blocks(g)
<1>1. Starts(g) = [k \in 1..Len(g.nodes) |-> Starts(g)[k]] /\ DOMAIN Starts(g) = Blocks(g)
  BY Sizes DEF Starts
<1> HIDE DEF Starts
<1> DEFINE s == Starts(g)
           E == {s[k] : k \in Blocks(g)}
<1>2. s = [k \in 1..Len(g.nodes) |-> s[k]] /\ \A k \in 1..Len(g.nodes) : s[k] \in E
  BY <1>1, Sizes
<1>3. Len(g.nodes) \in Nat
  BY Sizes
<1> HIDE DEF s, E
<1>4. s \in [1..Len(g.nodes) -> E]
  BY <1>2
<1>5. s \in Seq(E) /\ Len(s) = Len(g.nodes)
  BY <1>3, <1>4
<1> QED BY <1>1, <1>5 DEF s, E

-----------------------------------------------------------------------------
(***************************************************************************)
(* What the walk of include comes to: lists of blocks.                     *)
(***************************************************************************)
Items(s) == {s[k] : k \in 1..Len(s)}

LEMMA Joined ==
  ASSUME NEW E, NEW s \in Seq(E), NEW t \in Seq(E)
  PROVE  /\ s \o t \in Seq(E) /\ Len(s \o t) = Len(s) + Len(t)
         /\ Items(s \o t) = Items(s) \cup Items(t)
<1>1. s \o t \in Seq(E) /\ Len(s \o t) = Len(s) + Len(t) /\ Len(s) \in Nat /\ Len(t) \in Nat
  OBVIOUS
<1>2. \A k \in 1..Len(s) : (s \o t)[k] = s[k] /\ k \in 1..Len(s \o t)
  BY <1>1
<1>3. \A k \in 1..Len(t) : (s \o t)[Len(s) + k] = t[k] /\ Len(s) + k \in 1..Len(s \o t)
  BY <1>1
<1>4. \A k \in 1..Len(s \o t) : \/ k \in 1..Len(s) /\ (s \o t)[k] = s[k]
                                \/ k - Len(s) \in 1..Len(t) /\ (s \o t)[k] = t[k - Len(s)]
  BY <1>1
<1>5. ASSUME NEW x \in Items(s \o t) PROVE x \in Items(s) \cup Items(t)
  <2>1. PICK k \in 1..Len(s \o t) : x = (s \o t)[k]
    BY <1>5 DEF Items
  <2> QED BY <1>4, <2>1 DEF Items
<1>6. Items(s) \subseteq Items(s \o t) /\ Items(t) \subseteq Items(s \o t)
  BY <1>2, <1>3 DEF Items
<1> QED BY <1>1, <1>5, <1>6

\* The blocks that one leads to itself.
Leads(g, i) == {j \in Runnable(g) : \/ CheckedAgent(g, j) = i
                                    \/ \E a \in Arrows(g) : a.from = i /\ a.to = j}

LEMMA LeadsToLeads ==
  ASSUME NEW g \in Graphs, ValidGraph(g), NEW i \in Runnable(g)
  PROVE  /\ LeadsTo(g, i) \in Seq(Blocks(g) \cup {None})
         /\ Items(LeadsTo(g, i)) \cap Runnable(g) = Leads(g, i)
<1> DEFINE E == Blocks(g) \cup {None}
           checks == [c \in Blocks(g) |-> IF CheckedAgent(g, c) = i THEN c ELSE None]
           arrows == [k \in DOMAIN g.edges |-> IF g.edges[k].from = i THEN g.edges[k].to ELSE None]
           m == Len(g.nodes)
           n == Len(g.edges)
<1>1. /\ Blocks(g) = 1..m /\ DOMAIN g.edges = 1..n /\ m \in Nat /\ n \in Nat
      /\ LeadsTo(g, i) = checks \o arrows
  BY GraphsAssumption DEF LeadsTo
<1>2. \A k \in 1..n : g.edges[k].to \in Blocks(g)
  BY <1>1 DEF ValidGraph, Arrows
<1>3. checks \in [1..m -> E] /\ arrows \in [1..n -> E]
  <2> HIDE DEF m, n
  <2> QED BY <1>1, <1>2
<1>4. \A c \in 1..m : checks[c] = IF CheckedAgent(g, c) = i THEN c ELSE None
  BY <1>1
<1>5. \A k \in 1..n : arrows[k] = IF g.edges[k].from = i THEN g.edges[k].to ELSE None
  BY <1>1
<1> HIDE DEF checks, arrows, m, n
<1>6. checks \in Seq(E) /\ arrows \in Seq(E) /\ Len(checks) = m /\ Len(arrows) = n
  <2>1. \A q \in Nat : \A f \in [1..q -> E] : f \in Seq(E) /\ Len(f) = q
    <3> HIDE DEF E
    <3> QED OBVIOUS
  <2> HIDE DEF E
  <2> QED BY <1>1, <1>3, <2>1
<1>7. None \notin Runnable(g)
  BY Sizes DEF Runnable
<1>8. Items(checks) \cap Runnable(g) = {j \in Runnable(g) : CheckedAgent(g, j) = i}
  <2>1. Runnable(g) \subseteq 1..m
    BY <1>1 DEF Runnable
  <2>2. Items(checks) = {checks[c] : c \in 1..m}
    BY <1>6 DEF Items
  <2> QED BY <1>4, <1>7, <2>1, <2>2
<1>9. Items(arrows) \cap Runnable(g) = {j \in Runnable(g) : \E a \in Arrows(g) : a.from = i /\ a.to = j}
  <2>1. Items(arrows) = {arrows[k] : k \in 1..n}
    BY <1>6 DEF Items
  <2>2. Arrows(g) = {g.edges[k] : k \in 1..n}
    BY <1>1 DEF Arrows
  <2> QED BY <1>5, <1>7, <2>1, <2>2
<1>10. /\ checks \o arrows \in Seq(E)
       /\ Items(checks \o arrows) = Items(checks) \cup Items(arrows)
  <2> HIDE DEF E
  <2> QED BY <1>6, Joined
<1> QED BY <1>1, <1>8, <1>9, <1>10 DEF Leads

\* A list: what it comes to next and what is behind that.
LEMMA NextAndRest ==
  ASSUME NEW E, NEW s \in Seq(E), NEW T \in SUBSET (1..Len(s)), T # {}
  PROVE  LET k    == Earliest(T)
             rest == SubSeq(s, k + 1, Len(s))
         IN  /\ k \in T /\ s[k] \in E
             /\ rest \in Seq(E)
             /\ Items(rest) \subseteq Items(s)
             /\ \A j \in T : j = k \/ s[j] \in Items(rest)
<1> DEFINE k    == Earliest(T)
           n    == Len(s)
           rest == SubSeq(s, k + 1, n)
<1>1. n \in Nat /\ T \in SUBSET Nat
  OBVIOUS
<1>2. PICK x \in T : \A y \in T : ~(y < x)
  BY <1>1, Smallest
<1>3. \A y \in T : x <= y
  BY <1>1, <1>2
<1>4. k \in T /\ \A y \in T : k <= y
  BY <1>3, Zenon DEF Earliest
<1> HIDE DEF k
<1>5. k \in 1..n
  BY <1>4
<1>6. rest \in Seq(E) /\ Len(rest) = n - k /\ \A j \in 1..n - k : rest[j] = s[k + j]
  BY <1>1, <1>5
<1>7. s[k] \in E
  BY <1>5
<1> HIDE DEF rest, n
<1>8. \A j \in 1..n - k : k + j \in 1..n
  BY <1>1, <1>5
<1>9. Items(rest) \subseteq Items(s)
  BY <1>6, <1>8 DEF Items, n
<1>10. ASSUME NEW j \in T, j # k PROVE s[j] \in Items(rest)
  <2>1. j - k \in 1..n - k /\ s[j] = s[k + (j - k)]
    BY <1>1, <1>4, <1>5, <1>10 DEF n
  <2> QED BY <1>6, <2>1 DEF Items
<1> QED BY <1>4, <1>6, <1>7, <1>9, <1>10 DEF k, rest, n

\* A walk: what it has included, outside of every loop something if anything.
Walked(g, w) ==
  /\ w.todo \in Seq(Blocks(g) \cup {None})
  /\ w.included \subseteq Runnable(g)
  /\ \A i \in w.included : Inside(g, i) \subseteq w.included
  /\ w.included = {} => w.todo \in Seq({Starts(g)[k] : k \in Blocks(g)})
  /\ w.included # {} => \E i \in w.included : LoopOf(g, i) = None

\* A step comes to one block, and keeps on its list what was behind that.
ComesTo(g, w, i, rest) ==
  /\ i \in Runnable(g) \ w.included
  /\ i \in Items(w.todo)
  /\ rest \in Seq(Blocks(g) \cup {None})
  /\ Items(rest) \subseteq Items(w.todo)
  /\ Items(w.todo) \cap Runnable(g) \subseteq w.included \cup {i} \cup Items(rest)
  /\ Visit(g, w).todo \in Seq(Blocks(g) \cup {None})
  /\ Items(Visit(g, w).todo) = Items(LeadsTo(g, i)) \cup Items(rest)
  /\ Visit(g, w).included = w.included \cup {i} \cup Inside(g, i)

LEMMA VisitComes ==
  ASSUME NEW g \in Graphs, ValidGraph(g), NEW w, Walked(g, w), Fresh(g, w) # {}
  PROVE  \E i \in Runnable(g) : i \notin w.included /\ \E rest : ComesTo(g, w, i, rest)
<1> DEFINE E    == Blocks(g) \cup {None}
           T    == Fresh(g, w)
           k    == Earliest(T)
           i    == w.todo[k]
           rest == SubSeq(w.todo, k + 1, Len(w.todo))
<1>1. w.todo \in Seq(E)
  BY DEF Walked
<1>2. T \in SUBSET (1..Len(w.todo)) /\ T # {}
  BY <1>1 DEF Fresh
<1>3. \A j \in 1..Len(w.todo) : w.todo[j] \in Runnable(g) => w.todo[j] \in w.included \/ j \in T
  BY <1>1 DEF Fresh, Runnable
<1>4. \A j \in T : Type(g, w.todo[j]) \in Executable /\ w.todo[j] \notin w.included
  BY DEF Fresh
<1>5. Visit(g, w) = [todo |-> LeadsTo(g, i) \o rest, included |-> w.included \cup {i} \cup Inside(g, i)]
  BY DEF Visit
<1> HIDE DEF E, T
<1>6. /\ k \in T /\ i \in E
      /\ rest \in Seq(E)
      /\ Items(rest) \subseteq Items(w.todo)
      /\ \A j \in T : j = k \/ w.todo[j] \in Items(rest)
  BY <1>1, <1>2, NextAndRest
<1> HIDE DEF k, rest
<1>7. i \in Items(w.todo)
  BY <1>2, <1>6 DEF Items
<1>8. Items(w.todo) \cap Runnable(g) \subseteq w.included \cup {i} \cup Items(rest)
  BY <1>3, <1>6 DEF Items
<1>9. i \in Runnable(g) /\ i \notin w.included
  BY <1>4, <1>6 DEF Runnable, Type, Executable
<1> HIDE DEF i
<1>10. PICK s, t, d : s = LeadsTo(g, i) /\ t = rest /\ d = s \o t
  OBVIOUS
<1>11. s \in Seq(E) /\ t \in Seq(E)
  BY <1>6, <1>9, <1>10, LeadsToLeads DEF E
<1>12. d \in Seq(E) /\ Items(d) = Items(s) \cup Items(t)
  BY <1>10, <1>11, Joined
<1>13. Visit(g, w).todo = d /\ Visit(g, w).included = w.included \cup {i} \cup Inside(g, i)
  BY <1>5, <1>10
<1> QED BY <1>6, <1>7, <1>8, <1>9, <1>10, <1>12, <1>13 DEF ComesTo, E

LEMMA NothingFresh ==
  ASSUME NEW g \in Graphs, NEW w, Walked(g, w), Fresh(g, w) = {}
  PROVE  /\ Visit(g, w) = w
         /\ Items(w.todo) \cap Runnable(g) \subseteq w.included
<1>1. DOMAIN w.todo = 1..Len(w.todo)
  BY DEF Walked
<1> QED BY <1>1 DEF Visit, Fresh, Items, Runnable

LEMMA VisitKeepsWalked ==
  ASSUME NEW g \in Graphs, ValidGraph(g), NEW w, Walked(g, w)
  PROVE  Walked(g, Visit(g, w))
<1> SUFFICES ASSUME Fresh(g, w) # {} PROVE Walked(g, Visit(g, w))
  BY NothingFresh
<1>0. PICK i \in Runnable(g) : \E rest : ComesTo(g, w, i, rest)
  BY VisitComes
<1>1. PICK rest : ComesTo(g, w, i, rest)
  BY <1>0
<1> DEFINE now == w.included \cup {i} \cup Inside(g, i)
<1>2. \A j \in Inside(g, i) : j \in Runnable(g) /\ Inside(g, j) = {}
  <2> SUFFICES ASSUME NEW j \in Inside(g, i) PROVE j \in Runnable(g) /\ Inside(g, j) = {}
    OBVIOUS
  <2>1. Type(g, i) = "loop" /\ j \in LoopBody(g, i)
    BY DEF Inside
  <2>2. j \in Runnable(g) /\ LoopOf(g, j) = i /\ i # None
    BY <2>1, BodiesAreInLoops
  <2>3. Type(g, j) # "loop"
    BY <2>2, LoopsHoldNoLoops DEF Runnable
  <2> QED BY <2>2, <2>3 DEF Inside
<1>3. now \subseteq Runnable(g)
  BY <1>2 DEF Walked
<1>4. \A j \in now : Inside(g, j) \subseteq now
  BY <1>2 DEF Walked
<1>5. \E j \in now : LoopOf(g, j) = None
  <2>1. CASE w.included = {}
    <3>1. i \in {Starts(g)[k] : k \in Blocks(g)}
      <4> DEFINE D == {Starts(g)[k] : k \in Blocks(g)}
      <4>1. w.todo \in Seq(D) /\ i \in Items(w.todo)
        BY <1>1, <2>1 DEF Walked, ComesTo
      <4> HIDE DEF D
      <4>2. i \in D
        BY <4>1 DEF Items
      <4> QED BY <4>2 DEF D
    <3>2. i # None
      BY Sizes DEF Runnable
    <3> QED BY <3>1, <3>2, StartsAreOutside
  <2>2. CASE w.included # {}
    BY <2>2 DEF Walked
  <2> QED BY <2>1, <2>2
<1>6. now # {} /\ Visit(g, w).included = now
  BY <1>1 DEF ComesTo
<1>7. Visit(g, w).todo \in Seq(Blocks(g) \cup {None})
  BY <1>1 DEF ComesTo
<1> HIDE DEF now
<1> QED BY <1>3, <1>4, <1>5, <1>6, <1>7 DEF Walked

LEMMA FirstIsWalked ==
  ASSUME NEW g \in Graphs
  PROVE  Walked(g, First(g))
<1> DEFINE D == {Starts(g)[k] : k \in Blocks(g)}
           E == Blocks(g) \cup {None}
<1>1. Starts(g) \in Seq(D)
  BY StartsInTurn
<1>2. D \subseteq E
  BY StartsAreOutside DEF Runnable
<1>3. Starts(g) \in Seq(E)
  <2> HIDE DEF D, E
  <2> QED BY <1>1, <1>2
<1> QED BY <1>1, <1>3 DEF Walked, First

(***************************************************************************)
(* The walk of include marks nothing but executable blocks, marks what a   *)
(* loop holds together with the loop, and something outside of every loop. *)
(***************************************************************************)
LEMMA IncludedBlocks ==
  ASSUME NEW g \in Graphs, ValidGraph(g)
  PROVE  /\ Included(g) \subseteq Runnable(g)
         /\ \A i \in Included(g) : Inside(g, i) \subseteq Included(g)
         /\ Included(g) # {} => \E i \in Included(g) : LoopOf(g, i) = None
<1> DEFINE n == LongestWalk(g)
           S == {k \in 0..n : Walked(g, Walk(g)[k])}
<1>1. n \in Nat /\ 0 \in 0..n
  BY Sizes
<1>2. /\ Walk(g)[0] = First(g)
      /\ \A k \in 1..n : Walk(g)[k] = Visit(g, Walk(g)[k - 1])
  BY <1>1, WalkSteps
<1>3. Walked(g, First(g))
  BY FirstIsWalked
<1> HIDE DEF n
<1>4. \A k \in 1..n : k - 1 \in S => k \in S
  <2> SUFFICES ASSUME NEW k \in 1..n, Walked(g, Walk(g)[k - 1]) PROVE Walked(g, Walk(g)[k])
    BY <1>1
  <2> QED BY <1>2, VisitKeepsWalked
<1>5. S = 0..n
  <2>1. 0 \in S /\ S \in SUBSET (0..n)
    BY <1>1, <1>2, <1>3
  <2> HIDE DEF S
  <2> QED BY <2>1, <1>1, <1>4, UpTo
<1>6. Walked(g, Walk(g)[n])
  BY <1>1, <1>5
<1> QED BY <1>6 DEF Walked, Included, n

-----------------------------------------------------------------------------
(***************************************************************************)
(* The walk comes to all that it leads to, and to its end.                 *)
(***************************************************************************)
\* Without arrows across the edge of a loop a block leads to blocks beside it.
LEMMA LeadsStayInside ==
  ASSUME NEW g \in Graphs, ValidGraph(g), OneLevel(g), NEW i \in Runnable(g), NEW j \in Leads(g, i)
  PROVE  j \in Runnable(g) /\ LoopOf(g, j) = LoopOf(g, i)
<1>1. i # None
  BY Sizes DEF Runnable
<1>2. CASE CheckedAgent(g, j) = i
  <2>1. Type(g, i) = "agent" /\ CheckedAgent(g, i) = None
    BY <1>1, <1>2 DEF CheckedAgent
  <2> QED BY <1>1, <1>2, <2>1 DEF LoopOf, Leads
<1>3. CASE \E a \in Arrows(g) : a.from = i /\ a.to = j
  BY <1>3 DEF Leads, OneLevel
<1> QED BY <1>2, <1>3 DEF Leads

Came(w) == w.included \cup Items(w.todo)

Traced(g, w) ==
  /\ Items(Starts(g)) \cap Runnable(g) \subseteq Came(w)
  /\ \A i \in Came(w) \cap Runnable(g) : LoopOf(g, i) # None => LoopOf(g, i) \in w.included
  /\ \A i \in w.included : Leads(g, i) \subseteq Came(w)

LEMMA VisitKeepsTraced ==
  ASSUME NEW g \in Graphs, ValidGraph(g), OneLevel(g), NEW w, Walked(g, w), Traced(g, w)
  PROVE  Traced(g, Visit(g, w))
<1> SUFFICES ASSUME Fresh(g, w) # {}, NEW v, v = Visit(g, w) PROVE Traced(g, v)
  BY NothingFresh
<1>0. PICK i \in Runnable(g) : \E rest : ComesTo(g, w, i, rest)
  BY VisitComes
<1>1. PICK rest : ComesTo(g, w, i, rest)
  BY <1>0
<1>2. v.included = w.included \cup {i} \cup Inside(g, i)
  BY <1>1 DEF ComesTo
<1>3. Items(LeadsTo(g, i)) \cap Runnable(g) = Leads(g, i)
  BY LeadsToLeads
<1>4. \A j \in Inside(g, i) : j \in Runnable(g) /\ LoopOf(g, j) = i
  BY BodiesAreInLoops DEF Inside
<1>5. \A j \in Inside(g, i) : Leads(g, j) \subseteq Inside(g, i)
  <2> SUFFICES ASSUME NEW j \in Inside(g, i), NEW k \in Leads(g, j) PROVE k \in Inside(g, i)
    OBVIOUS
  <2>1. k \in Runnable(g) /\ LoopOf(g, k) = i /\ Type(g, i) = "loop"
    BY <1>4, LeadsStayInside DEF Inside
  <2> QED BY <2>1 DEF Inside, LoopBody, Runnable
<1>6. i \in Came(w) /\ Came(w) \cap Runnable(g) \subseteq w.included \cup {i} \cup Items(rest)
  BY <1>1 DEF Came, ComesTo, Walked
<1>7. Came(v) = w.included \cup {i} \cup Inside(g, i) \cup Items(LeadsTo(g, i)) \cup Items(rest)
  BY <1>1, <1>2 DEF Came, ComesTo
<1>8. Came(w) \cap Runnable(g) \subseteq Came(v)
  BY <1>6, <1>7
<1>9. ASSUME NEW j \in Came(v) \cap Runnable(g), LoopOf(g, j) # None
      PROVE  LoopOf(g, j) \in v.included
  <2>1. CASE j \in Came(w)
    BY <1>2, <1>9, <2>1 DEF Traced
  <2>2. CASE j \in Inside(g, i)
    BY <1>2, <1>4, <2>2
  <2>3. CASE j \in Leads(g, i)
    <3>1. LoopOf(g, j) = LoopOf(g, i)
      BY <2>3, LeadsStayInside
    <3> QED BY <1>2, <1>6, <1>9, <3>1 DEF Traced
  <2>4. Items(rest) \subseteq Came(w) /\ w.included \cup {i} \subseteq Came(w)
    BY <1>1, <1>6 DEF Came, ComesTo
  <2> QED BY <1>3, <1>7, <1>9, <2>1, <2>2, <2>3, <2>4
<1>10. ASSUME NEW j \in v.included PROVE Leads(g, j) \subseteq Came(v)
  <2>1. CASE j \in w.included
    BY <1>8, <2>1 DEF Traced, Leads
  <2>2. CASE j = i
    BY <1>3, <1>7, <2>2
  <2>3. CASE j \in Inside(g, i)
    BY <1>5, <1>7, <2>3
  <2> QED BY <1>2, <1>10, <2>1, <2>2, <2>3
<1> QED BY <1>8, <1>9, <1>10 DEF Traced

\* It comes to nothing else: all is in what holds the starts and what they lead to.
Within(g, S, w) == w.included \subseteq S /\ Came(w) \cap Runnable(g) \subseteq S

LEMMA VisitStaysWithin ==
  ASSUME NEW g \in Graphs, ValidGraph(g), NEW S, ClosedUnder(g, S), NEW w, Walked(g, w),
         Within(g, S, w)
  PROVE  Within(g, S, Visit(g, w))
<1> SUFFICES ASSUME Fresh(g, w) # {}, NEW v, v = Visit(g, w) PROVE Within(g, S, v)
  BY NothingFresh
<1>0. PICK i \in Runnable(g) : \E rest : ComesTo(g, w, i, rest)
  BY VisitComes
<1>1. PICK rest : ComesTo(g, w, i, rest)
  BY <1>0
<1>2. i \in S /\ Items(rest) \cap Runnable(g) \subseteq S
  BY <1>1 DEF Within, Came, ComesTo
<1>3. Items(LeadsTo(g, i)) \cap Runnable(g) = Leads(g, i)
  BY LeadsToLeads
<1>4. Leads(g, i) \subseteq S
  BY <1>2 DEF Leads, ClosedUnder, Runnable
<1>5. Inside(g, i) \subseteq S
  <2> SUFFICES ASSUME NEW j \in Inside(g, i) PROVE j \in S
    OBVIOUS
  <2>1. j \in Runnable(g) /\ LoopOf(g, j) = i
    BY BodiesAreInLoops DEF Inside
  <2> QED BY <1>2, <2>1 DEF ClosedUnder
<1>6. /\ v.included = w.included \cup {i} \cup Inside(g, i)
      /\ Items(v.todo) = Items(LeadsTo(g, i)) \cup Items(rest)
  BY <1>1 DEF ComesTo
<1> QED BY <1>2, <1>3, <1>4, <1>5, <1>6 DEF Within, Came

\* Each step comes to another block, as long as there is one to come to.
Ahead(g, w, k) ==
  Fresh(g, w) = {} \/ Cardinality(Blocks(g) \ w.included) + k <= Len(g.nodes)

LEMMA VisitGetsOn ==
  ASSUME NEW g \in Graphs, ValidGraph(g), NEW w, Walked(g, w), NEW k \in Nat, Ahead(g, w, k)
  PROVE  Ahead(g, Visit(g, w), k + 1)
<1> SUFFICES ASSUME Fresh(g, w) # {}, NEW v, v = Visit(g, w)
             PROVE  Cardinality(Blocks(g) \ v.included) + (k + 1) <= Len(g.nodes)
  BY NothingFresh DEF Ahead
<1>0. PICK i \in Runnable(g) : \E rest : ComesTo(g, w, i, rest)
  BY VisitComes
<1>1. PICK rest : ComesTo(g, w, i, rest)
  BY <1>0
<1> DEFINE A == Blocks(g) \ w.included
           B == Blocks(g) \ v.included
<1>2. i \in A /\ B \subseteq A \ {i}
  BY <1>1 DEF ComesTo, Runnable
<1>3. IsFiniteSet(A)
  <2>1. Blocks(g) = 1..Len(g.nodes) /\ 1 \in Int /\ Len(g.nodes) \in Int
    BY Sizes
  <2> QED BY <2>1, FS_Interval, FS_Difference
<1>4. Cardinality(A) + k <= Len(g.nodes)
  BY DEF Ahead
<1> HIDE DEF A, B
<1>5. IsFiniteSet(A \ {i}) /\ Cardinality(A \ {i}) = Cardinality(A) - 1
  BY <1>2, <1>3, FS_RemoveElement
<1>6. Cardinality(B) <= Cardinality(A \ {i}) /\ IsFiniteSet(B)
  BY <1>2, <1>5, FS_Subset
<1>7. Cardinality(A) \in Nat /\ Cardinality(B) \in Nat /\ Len(g.nodes) \in Nat
  BY <1>3, <1>6, FS_CardinalityType, Sizes
<1>8. Cardinality(B) + (k + 1) <= Len(g.nodes)
  BY <1>4, <1>5, <1>6, <1>7
<1> QED BY <1>8 DEF B

LEMMA FirstIsTraced ==
  ASSUME NEW g \in Graphs, ValidGraph(g)
  PROVE  Walked(g, First(g)) /\ Traced(g, First(g)) /\ Ahead(g, First(g), 0)
<1>1. First(g).todo = Starts(g) /\ First(g).included = {}
  BY DEF First
<1>2. Len(Starts(g)) = Len(g.nodes) /\ Blocks(g) = 1..Len(g.nodes) /\ Len(g.nodes) \in Nat
  BY StartsInTurn, Sizes
<1>3. Items(Starts(g)) = {Starts(g)[k] : k \in Blocks(g)}
  BY <1>2 DEF Items
<1>4. Traced(g, First(g))
  <2>1. \A i \in Items(Starts(g)) \cap Runnable(g) : LoopOf(g, i) = None
    <3>1. None \notin Runnable(g)
      BY Sizes DEF Runnable
    <3> QED BY <1>3, <3>1, StartsAreOutside
  <2> QED BY <1>1, <2>1 DEF Traced, Came
<1>5. Ahead(g, First(g), 0)
  <2> DEFINE n == Len(g.nodes)
  <2>1. Cardinality(1..n) = IF 1 > n THEN 0 ELSE n - 1 + 1
    <3>1. 1 \in Int /\ n \in Int
      BY <1>2
    <3> QED BY <3>1, FS_Interval
  <2>2. Cardinality(Blocks(g)) = n /\ Blocks(g) \ {} = Blocks(g)
    BY <1>2, <2>1
  <2> QED BY <1>1, <1>2, <2>2 DEF Ahead
<1> QED BY <1>4, <1>5, FirstIsWalked

LEMMA WalkEnds ==
  ASSUME NEW g \in Graphs, ValidGraph(g), OneLevel(g)
  PROVE  /\ Items(Starts(g)) \cap Runnable(g) \subseteq Included(g)
         /\ \A i \in Included(g) : Leads(g, i) \subseteq Included(g)
         /\ \A i \in Included(g) : LoopOf(g, i) # None => LoopOf(g, i) \in Included(g)
         /\ \A S : /\ ClosedUnder(g, S)
                   /\ Items(Starts(g)) \cap Runnable(g) \subseteq S
                   => Included(g) \subseteq S
<1> DEFINE n == LongestWalk(g)
           w(k) == Walk(g)[k]
<1>1. n \in Nat /\ 0 \in 0..n
  BY Sizes
<1>2. w(0) = First(g) /\ \A k \in 1..n : w(k) = Visit(g, w(k - 1))
  BY <1>1, WalkSteps
<1> HIDE DEF n, w
<1> DEFINE Good(k) == Walked(g, w(k)) /\ Traced(g, w(k)) /\ Ahead(g, w(k), k)
           G == {k \in 0..n : Good(k)}
<1>3. G = 0..n
  <2>1. 0 \in G
    BY <1>1, <1>2, FirstIsTraced
  <2>2. ASSUME NEW k \in 1..n, k - 1 \in G PROVE k \in G
    <3>1. k - 1 \in Nat /\ (k - 1) + 1 = k /\ k \in 0..n
      BY <1>1
    <3>2. Walked(g, w(k - 1)) /\ Traced(g, w(k - 1)) /\ Ahead(g, w(k - 1), k - 1)
      BY <2>2
    <3>4. Ahead(g, w(k), k)
      <4>1. PICK h, x : h = k - 1 /\ x = w(k - 1)
        OBVIOUS
      <4>2. Ahead(g, Visit(g, x), h + 1)
        BY <3>1, <3>2, <4>1, VisitGetsOn
      <4> QED BY <1>2, <3>1, <4>1, <4>2
    <3>5. Walked(g, w(k)) /\ Traced(g, w(k))
      BY <1>2, <3>2, VisitKeepsWalked, VisitKeepsTraced
    <3> QED BY <3>1, <3>4, <3>5
  <2>3. G \in SUBSET (0..n)
    OBVIOUS
  <2> HIDE DEF G
  <2> QED BY <2>1, <2>2, <2>3, <1>1, UpTo
<1>4. \A k \in 0..n : Good(k)
  BY <1>3
<1>5. Good(n) /\ Included(g) = w(n).included
  BY <1>1, <1>4 DEF Included, w, n
<1>6. Fresh(g, w(n)) = {}
  <2> SUFFICES ASSUME Fresh(g, w(n)) # {} PROVE FALSE
    OBVIOUS
  <2>1. PICK i \in Runnable(g) : i \notin w(n).included
    BY <1>5, VisitComes
  <2>2. n = Len(g.nodes) /\ Blocks(g) = 1..n /\ IsFiniteSet(Blocks(g))
    <3>1. 1 \in Int /\ n \in Int
      BY <1>1
    <3> QED BY <3>1, Sizes, FS_Interval DEF n
  <2>3. Cardinality(Blocks(g) \ w(n).included) \in Nat /\ Blocks(g) \ w(n).included # {}
    BY <2>1, <2>2, FS_Difference, FS_CardinalityType DEF Runnable
  <2>4. Cardinality(Blocks(g) \ w(n).included) # 0
    BY <2>2, <2>3, FS_Difference, FS_EmptySet
  <2>5. Cardinality(Blocks(g) \ w(n).included) + n <= n
    BY <1>5, <2>2 DEF Ahead
  <2> QED BY <1>1, <2>3, <2>4, <2>5
<1>7. Came(w(n)) \cap Runnable(g) \subseteq Included(g)
  BY <1>5, <1>6, NothingFresh DEF Came
<1>8. Included(g) \subseteq Runnable(g)
  BY <1>5 DEF Walked
<1>9. ASSUME NEW S, ClosedUnder(g, S), Items(Starts(g)) \cap Runnable(g) \subseteq S
      PROVE  Included(g) \subseteq S
  <2> DEFINE H == {k \in 0..n : Within(g, S, w(k))}
  <2>1. 0 \in H
    BY <1>1, <1>2, <1>9 DEF Within, Came, First
  <2>2. ASSUME NEW k \in 1..n, k - 1 \in H PROVE k \in H
    <3>1. k - 1 \in 0..n /\ k \in 0..n
      BY <1>1
    <3>2. Walked(g, w(k - 1))
      BY <1>4, <3>1
    <3>3. Within(g, S, w(k - 1))
      BY <2>2
    <3> QED BY <1>2, <1>9, <3>1, <3>2, <3>3, VisitStaysWithin
  <2>3. H \in SUBSET (0..n)
    OBVIOUS
  <2>4. H = 0..n
    <3> HIDE DEF H
    <3> QED BY <2>1, <2>2, <2>3, <1>1, UpTo
  <2>5. Within(g, S, w(n))
    <3>1. n \in H
      BY <1>1, <2>4
    <3> QED BY <3>1
  <2> QED BY <1>5, <2>5 DEF Within
<1>10. \A i : Leads(g, i) \subseteq Runnable(g)
  BY DEF Leads
<1> QED BY <1>5, <1>7, <1>8, <1>9, <1>10 DEF Traced, Came

-----------------------------------------------------------------------------
(***************************************************************************)
(* Who passes a workspace on makes one, or takes in and hands on that of a *)
(* block before it that does.                                              *)
(***************************************************************************)
LEMMA PassingBlocks ==
  ASSUME NEW g \in Graphs, NEW included, NEW i \in PassesWorkspace(g, included)
  PROVE  \/ i \in Makers(g)
         \/ i \in Blocks(g) /\ Receives(g, included, i, PassesWorkspace(g, included))
<1> DEFINE n == Len(g.nodes)
           P(k) == Passes(g, included)[k]
           Good(T) == \A j \in T : j \in Makers(g) \/ (j \in Blocks(g) /\ Receives(g, included, j, T))
           S == {k \in 0..n : Good(P(k))}
<1>1. n \in Nat /\ 0 \in 0..n
  BY Sizes
<1>2. P(0) = Makers(g) /\ \A k \in 1..n : P(k) = Further(g, included, P(k - 1))
  BY <1>1, PassingSteps
<1> HIDE DEF n, P
<1>3. \A k \in 1..n : k - 1 \in S => k \in S
  <2> SUFFICES ASSUME NEW k \in 1..n, Good(P(k - 1)) PROVE Good(P(k))
    BY <1>1
  <2>1. P(k) = P(k - 1) \cup {j \in Blocks(g) : Receives(g, included, j, P(k - 1))}
    BY <1>2 DEF Further
  <2>2. \A j : Receives(g, included, j, P(k - 1)) => Receives(g, included, j, P(k))
    BY <2>1 DEF Receives
  <2> QED BY <2>1, <2>2
<1>4. S = 0..n
  <2>1. 0 \in S /\ S \in SUBSET (0..n)
    BY <1>1, <1>2
  <2> HIDE DEF S
  <2> QED BY <2>1, <1>1, <1>3, UpTo
<1>5. Good(P(n))
  <2>1. n \in S
    BY <1>1, <1>4
  <2> HIDE DEF Good
  <2> QED BY <2>1
<1> QED BY <1>5 DEF PassesWorkspace, P, n

-----------------------------------------------------------------------------
(***************************************************************************)
(* What a plan is made of.                                                 *)
(***************************************************************************)
LEMMA PlannerFields ==
  ASSUME NEW g
  PROVE  /\ PlannerOf(g).graph = g
         /\ PlannerOf(g).included = Included(g)
         /\ PlannerOf(g).passing = PassesWorkspace(g, Included(g))
BY DEF PlannerOf

LEMMA PlanFields ==
  ASSUME NEW g
  PROVE  /\ PlanOf(g).planner = PlannerOf(g)
         /\ PlanOf(g).top = TopTasks(PlannerOf(g))
         /\ PlanOf(g).body = [l \in Loops(PlannerOf(g)) |-> LoopBody(g, l)]
         /\ PlanOf(g).needs = [i \in Steps(PlannerOf(g)) |-> NeedsOf(PlannerOf(g), i)]
         /\ \A i : i \in PlanOf(g).any <=>
                    /\ i \in Steps(PlannerOf(g))
                    /\ \/ Type(g, i) \in {"agent", "command"} /\ WaitsForAny(PlannerOf(g), i)
                       \/ Type(g, i) = "loop" /\ Node(PlannerOf(g), i).any
BY Zenon DEF PlanOf

LEMMA NothingFails ==
  ASSUME NEW g, PlanFailures(g) = {}
  PROVE  /\ ValidGraph(g)
         /\ BlockFailures(PlannerOf(g)) = {}
         /\ PlainFetches(g) # {} \/ Included(g) # {}
<1>1. ValidGraph(g)
  BY Zenon DEF PlanFailures
<1>2. StartFailures(g) \cup BlockFailures(PlannerOf(g)) = {}
  BY <1>1, Zenon DEF PlanFailures
<1>3. PlainFetches(g) # {} \/ PlannerOf(g).included # {}
  BY <1>1, <1>2, Zenon DEF PlanFailures
<1> QED BY <1>1, <1>2, <1>3, PlannerFields, Zenon

Shaped(g, p) ==
  /\ \A i \in p.top : LoopOf(g, i) = None
  /\ \A i \in p.top : Type(g, i) = "loop" => i \in DOMAIN p.body
  /\ DOMAIN p.body \subseteq p.top
  /\ \A l \in DOMAIN p.body :
       /\ l # None
       /\ Type(g, l) = "loop"
       /\ p.body[l] = LoopBody(g, l)
       /\ \A i \in p.body[l] : LoopOf(g, i) = l /\ Type(g, i) # "loop"

LEMMA PlansAreShaped ==
  ASSUME NEW g \in Graphs, ValidGraph(g)
  PROVE  Shaped(g, PlanOf(g))
<1> DEFINE p == PlannerOf(g)
<1>1. /\ PlanOf(g).top = TopTasks(p)
      /\ PlanOf(g).body = [l \in Loops(p) |-> LoopBody(g, l)]
      /\ p.graph = g
      /\ p.included = Included(g)
  BY PlanFields, PlannerFields
<1> HIDE DEF p
<1>2. \A i \in TopTasks(p) : LoopOf(g, i) = None
  BY <1>1 DEF TopTasks, TopLevel, PlainFetches, Flagged
<1>3. \A i \in TopTasks(p) : Type(g, i) = "loop" => i \in Loops(p)
  BY <1>1 DEF TopTasks, Loops, PlainFetches, Flagged
<1>4. \A l \in Loops(p) : l \in TopTasks(p) /\ Type(g, l) = "loop" /\ l \in Blocks(g)
  BY <1>1, IncludedBlocks DEF TopTasks, Loops, TopLevel, Runnable
<1>5. ASSUME NEW l \in Loops(p), NEW i \in LoopBody(g, l)
      PROVE  l # None /\ LoopOf(g, i) = l /\ Type(g, i) # "loop"
  <2>1. l # None /\ LoopOf(g, i) = l /\ i \in Blocks(g)
    BY <1>4, BodiesAreInLoops DEF Runnable
  <2> QED BY <2>1, LoopsHoldNoLoops
<1>6. \A l \in Loops(p) : l # None
  BY <1>4, Sizes
<1> QED BY <1>1, <1>2, <1>3, <1>4, <1>5, <1>6 DEF Shaped

LEMMA StepsOfPlan ==
  ASSUME NEW g
  PROVE  StepsOf(PlanOf(g), {}) = Steps(PlannerOf(g))
<1> DEFINE p == PlannerOf(g)
           L == Loops(p)
           B == PlanOf(g).body
<1>1. /\ B = [l \in L |-> LoopBody(g, l)]
      /\ PlanOf(g).top = TopTasks(p)
      /\ p.graph = g
  BY PlanFields, PlannerFields
<1> HIDE DEF p, L, B
<1>2. \A i : (\E l \in (DOMAIN B) \ {} : i \in B[l]) <=> (\E l \in L : i \in LoopBody(g, l))
  BY <1>1
<1>3. UNION {B[l] : l \in (DOMAIN B) \ {}} = UNION {LoopBody(g, l) : l \in L}
  BY <1>2
<1> QED BY <1>1, <1>3 DEF StepsOf, Steps, p, L, B

(***************************************************************************)
(* The task of every need is the source of an arrow into the block, or     *)
(* into the loop around it, or the agent whose reply it checks.            *)
(***************************************************************************)
LEMMA NeedsFollowArrows ==
  ASSUME NEW g, NEW i, NEW n \in NeedsOf(PlannerOf(g), i)
  PROVE  /\ i \notin PlainFetches(g)
         /\ n.task \in Included(g)
         /\ \/ \E a \in ArrowsTo(g, i) : a.from = n.task /\ CheckedAgent(g, i) = None
            \/ CheckedAgent(g, i) # None /\ n.task = CheckedAgent(g, i)
            \/ LoopOf(g, i) # None /\ \E a \in ArrowsTo(g, LoopOf(g, i)) : a.from = n.task
<1> DEFINE p == PlannerOf(g)
<1>1. p.graph = g /\ p.included = Included(g)
  BY PlannerFields
<1> HIDE DEF p
<1>2. n \in IncomingNeeds(p, i) \/ n \in ContinuedNeeds(p, i)
  BY DEF NeedsOf, p
<1>3. i \notin PlainFetches(g)
  BY <1>1 DEF NeedsOf, p
<1>4. CASE n \in IncomingNeeds(p, i)
  <2>1. PICK a \in Received(p, i) : n.task = a.from
    BY <1>4 DEF IncomingNeeds
  <2>2. a \in ArrowsInto(g, i) /\ a.from \in Included(g)
    BY <1>1 DEF Received
  <2>3. CASE CheckedAgent(g, i) # None
    BY <2>1, <2>2, <2>3, <1>3 DEF ArrowsInto
  <2>4. CASE CheckedAgent(g, i) = None /\ ArrowsTo(g, i) = {} /\ LoopOf(g, i) # None
    BY <2>1, <2>2, <2>4, <1>3 DEF ArrowsInto
  <2>5. CASE CheckedAgent(g, i) = None /\ ~(ArrowsTo(g, i) = {} /\ LoopOf(g, i) # None)
    BY <2>1, <2>2, <2>5, <1>3 DEF ArrowsInto
  <2> QED BY <2>3, <2>4, <2>5
<1>5. CASE n \in ContinuedNeeds(p, i)
  <2>1. PICK a \in AgentsBefore(p, i) : n.task = a.from
    BY <1>5 DEF ContinuedNeeds
  <2>2. CheckedAgent(g, i) = None
    BY <1>1, <1>5 DEF ContinuedNeeds, CheckedAgent
  <2>3. \/ a \in AgentArrows(p, i)
        \/ LoopOf(g, i) # None /\ a \in AgentArrows(p, LoopOf(g, i))
    BY <1>1 DEF AgentsBefore
  <2> QED BY <1>1, <1>3, <2>1, <2>2, <2>3 DEF AgentArrows
<1> QED BY <1>2, <1>4, <1>5

LEMMA StepsAreBlocks ==
  ASSUME NEW g \in Graphs, ValidGraph(g), NEW i \in Steps(PlannerOf(g)), i \notin PlainFetches(g)
  PROVE  i \in Runnable(g)
<1> DEFINE p == PlannerOf(g)
<1>1. p.graph = g /\ p.included = Included(g)
  BY PlannerFields
<1> HIDE DEF p
<1>2. \A l \in Loops(p) : Type(g, l) = "loop"
  BY <1>1 DEF Loops
<1>3. \A l \in Loops(p) : \A j \in LoopBody(g, l) : j \in Runnable(g)
  BY <1>2, BodiesAreInLoops
<1>4. \A j \in TopLevel(p) : j \in Runnable(g)
  BY <1>1, IncludedBlocks DEF TopLevel
<1>5. i \in TopTasks(p) \/ \E l \in Loops(p) : i \in LoopBody(g, l)
  BY <1>1 DEF Steps, p
<1> QED BY <1>1, <1>3, <1>4, <1>5 DEF TopTasks

(***************************************************************************)
(* Where no arrow crosses the edge of a loop, what a task needs is beside  *)
(* it or, of a block that nothing in its loop feeds, needed by the loop.   *)
(***************************************************************************)
LEMMA NeedsStayInside ==
  ASSUME NEW g \in Graphs, ValidGraph(g), OneLevel(g), NEW i \in Runnable(g), 
         i \in Steps(PlannerOf(g)), NEW n \in NeedsOf(PlannerOf(g), i)
  PROVE  /\ n.task \in Included(g) /\ n.task \in Runnable(g)
         /\ \/ /\ LoopOf(g, n.task) = LoopOf(g, i)
               /\ \/ \E a \in ArrowsTo(g, i) : a.from = n.task
                  \/ n.task = CheckedAgent(g, i) /\ CheckedAgent(g, i) # None
            \/ LoopOf(g, i) # None /\ \E a \in ArrowsTo(g, LoopOf(g, i)) : a.from = n.task
<1>1. n.task \in Included(g) /\ n.task \in Runnable(g)
  BY NeedsFollowArrows, IncludedBlocks
<1>2. ASSUME NEW a \in ArrowsTo(g, i), a.from = n.task
      PROVE  LoopOf(g, n.task) = LoopOf(g, i)
  <2>1. a \in Arrows(g) /\ a.to = i
    BY DEF ArrowsTo
  <2> QED BY <2>1, <1>1, <1>2 DEF OneLevel
<1>3. ASSUME CheckedAgent(g, i) # None, n.task = CheckedAgent(g, i)
      PROVE  LoopOf(g, n.task) = LoopOf(g, i)
  <2>1. n.task = Parent(g, i) /\ Type(g, n.task) = "agent"
    BY <1>3 DEF CheckedAgent
  <2>2. CheckedAgent(g, n.task) = None
    BY <2>1 DEF CheckedAgent
  <2> QED BY <1>3, <2>2 DEF LoopOf
<1> QED BY <1>1, <1>2, <1>3, NeedsFollowArrows

LEMMA TasksAreThere ==
  ASSUME NEW g \in Graphs, PlanFailures(g) = {}
  PROVE  TopTasks(PlannerOf(g)) # {}
<1>1. ValidGraph(g) /\ (PlainFetches(g) # {} \/ Included(g) # {})
  BY NothingFails
<1>2. Included(g) # {} => \E i \in Included(g) : LoopOf(g, i) = None
  BY <1>1, IncludedBlocks
<1> QED BY <1>1, <1>2, PlannerFields DEF TopTasks, TopLevel

LEMMA LoopsEndInside ==
  ASSUME NEW g \in Graphs, PlanFailures(g) = {}, NEW l \in Loops(PlannerOf(g))
  PROVE  /\ LoopBody(g, l) # {}
         /\ g.nodes[l].until \in LoopBody(g, l)
<1> DEFINE p == PlannerOf(g)
           until == g.nodes[l].until
<1>1. p.graph = g
  BY PlannerFields
<1>2. BlockFailures(p) = {}
  BY NothingFails
<1> HIDE DEF p
<1>3. l \in TopLevel(p) /\ Type(g, l) = "loop"
  BY <1>1 DEF Loops, p
<1>4. ~BlockFails(p, l)
  BY <1>2, <1>3 DEF BlockFailures
<1>5. ~LoopFails(p, l)
  BY <1>1, <1>3, <1>4 DEF BlockFails
<1>6. /\ LoopBody(g, l) # {}
      /\ LoopOf(g, until) = l
      /\ g.nodes[l].untilPort \in Choices(g, until)
  BY <1>1, <1>5 DEF LoopFails, Node
<1> HIDE DEF until
<1>7. Type(g, until) \in {"jsonschema", "command", "loop", "router"}
  BY <1>6 DEF Choices
<1>8. until \in LoopBody(g, l)
  BY <1>6, <1>7 DEF LoopBody, Executable, Type
<1> QED BY <1>6, <1>8 DEF until

(***************************************************************************)
(* A plan without failures, of a graph in which no arrow crosses the edge  *)
(* of a loop and no block leads to itself, is one the engine takes.        *)
(***************************************************************************)
LEMMA PlansAreValid ==
  ASSUME NEW g \in Graphs, PlanFailures(g) = {}, OneLevel(g), NoCycle(g)
  PROVE  Validate(g, PlanOf(g))
<1> DEFINE p == PlannerOf(g)
           P == PlanOf(g)
<1>1. /\ ValidGraph(g)
      /\ p.graph = g
      /\ p.included = Included(g)
  BY NothingFails, PlannerFields
<1>2. /\ P.top = TopTasks(p)
      /\ P.body = [l \in Loops(p) |-> LoopBody(g, l)]
      /\ P.needs = [i \in Steps(p) |-> NeedsOf(p, i)]
  BY PlanFields
<1>3. Shaped(g, P)
  BY <1>1, PlansAreShaped
<1>4. \A l \in Loops(p) : LoopBody(g, l) # {} /\ g.nodes[l].until \in LoopBody(g, l)
  BY LoopsEndInside
<1>5. P.top # {}
  BY <1>2, TasksAreThere
<1>6. \A i \in Steps(p) : P.needs[i] = NeedsOf(p, i)
  BY <1>2
<1>7. \A i \in PlainFetches(g) : NeedsOf(p, i) = {}
  BY NeedsFollowArrows
<1>8. \A i \in Steps(p) \ PlainFetches(g) : i \in Runnable(g)
  BY <1>1, StepsAreBlocks
<1>9. ASSUME NEW i \in Steps(p), NEW n \in NeedsOf(p, i)
      PROVE  /\ i \in Runnable(g) /\ n.task \in Included(g) /\ n.task \in Runnable(g)
             /\ \/ /\ LoopOf(g, n.task) = LoopOf(g, i)
                   /\ \/ \E a \in ArrowsTo(g, i) : a.from = n.task
                      \/ n.task = CheckedAgent(g, i) /\ CheckedAgent(g, i) # None
                \/ LoopOf(g, i) # None /\ \E a \in ArrowsTo(g, LoopOf(g, i)) : a.from = n.task
  BY <1>1, <1>7, <1>8, NeedsStayInside
<1> HIDE DEF p, P
<1>10. \A i \in TopTasks(p) : i \in Steps(p) /\ LoopOf(g, i) = None
  BY <1>2, <1>3 DEF Steps, Shaped
<1>11. \A l \in Loops(p) : \A i \in LoopBody(g, l) :
         i \in Steps(p) /\ LoopOf(g, i) = l /\ l # None /\ Type(g, l) = "loop"
         /\ l \in TopTasks(p) /\ i \in Runnable(g)
  BY <1>1, <1>2, <1>3, BodiesAreInLoops DEF Steps, Shaped
<1>12. Known(P.top, P.needs, {})
  <2> SUFFICES ASSUME NEW i \in TopTasks(p), NEW n \in NeedsOf(p, i) PROVE n.task \in TopTasks(p)
    BY <1>2, <1>6, <1>10 DEF Known
  <2> QED BY <1>1, <1>9, <1>10 DEF TopTasks, TopLevel
<1>13. ASSUME NEW S \in SUBSET Steps(p), S # {},
              \A i \in S : \A n \in NeedsOf(p, i) : n.task \in S =>
                \/ \E a \in ArrowsTo(g, i) : a.from = n.task
                \/ n.task = CheckedAgent(g, i) /\ CheckedAgent(g, i) # None
       PROVE  \E i \in S : \A n \in P.needs[i] : n.task \notin S
  <2>1. CASE S \cap PlainFetches(g) # {}
    BY <2>1, <1>6, <1>7
  <2>2. CASE S \cap PlainFetches(g) = {}
    <3> DEFINE leads == [i \in Runnable(g) |->
                           {[task |-> a.from] : a \in ArrowsTo(g, i)} \cup
                           {[task |-> j] : j \in {CheckedAgent(g, i)} \ {None}}]
    <3>1. S \in (SUBSET Runnable(g)) \ {{}}
      BY <2>2, <1>8, <1>13
    <3>2. PICK i \in S : \A n \in leads[i] : n.task \notin S
      BY <3>1 DEF NoCycle, AcyclicIn
    <3>3. /\ \A a \in ArrowsTo(g, i) : a.from \notin S
          /\ CheckedAgent(g, i) # None => CheckedAgent(g, i) \notin S
      <4>1. \A a \in ArrowsTo(g, i) : [task |-> a.from] \in leads[i]
        BY <3>1
      <4>2. CheckedAgent(g, i) # None => [task |-> CheckedAgent(g, i)] \in leads[i]
        BY <3>1
      <4> HIDE DEF leads
      <4> QED BY <3>2, <4>1, <4>2
    <3> QED BY <3>3, <1>6, <1>13
  <2> QED BY <2>1, <2>2
<1>14. AcyclicIn(P.top, P.needs)
  <2> SUFFICES ASSUME NEW S \in (SUBSET P.top) \ {{}}
               PROVE  \E i \in S : \A n \in P.needs[i] : n.task \notin S
    BY DEF AcyclicIn
  <2>1. S \in SUBSET Steps(p) /\ \A i \in S : LoopOf(g, i) = None
    BY <1>2, <1>10
  <2> QED BY <2>1, <1>9, <1>13
<1>15. ASSUME NEW l \in Loops(p)
       PROVE  ValidLoop(P, l, g.nodes[l].until)
  <2>1. P.body[l] = LoopBody(g, l) /\ l \in Steps(p) /\ LoopOf(g, l) = None
    BY <1>2, <1>4, <1>10, <1>11
  <2>2. ASSUME NEW i \in LoopBody(g, l), NEW n \in NeedsOf(p, i)
        PROVE  \/ n.task \in LoopBody(g, l)
               \/ \E m \in NeedsOf(p, l) : m.task = n.task
    <3>1. i \in Steps(p) /\ LoopOf(g, i) = l /\ l # None /\ Type(g, l) = "loop"
      BY <1>11
    <3>2. CASE LoopOf(g, n.task) = l
      BY <3>1, <3>2, <1>9 DEF LoopBody, Runnable
    <3>3. CASE \E a \in ArrowsTo(g, l) : a.from = n.task
      <4>1. PICK a \in ArrowsTo(g, l) : a.from = n.task
        BY <3>3
      <4>2. ArrowsInto(g, l) = ArrowsTo(g, l)
        BY <3>1, <2>1 DEF ArrowsInto, CheckedAgent
      <4>3. a \in Received(p, l)
        BY <3>1, <4>1, <4>2, <1>1, <1>9 DEF Received
      <4>4. [task |-> a.from, port |-> SourcePort(g, a)] \in IncomingNeeds(p, l)
        BY <4>3, <1>1 DEF IncomingNeeds
      <4>5. l \notin PlainFetches(p.graph)
        BY <3>1, <1>1 DEF PlainFetches, Flagged
      <4>6. [task |-> a.from, port |-> SourcePort(g, a)] \in NeedsOf(p, l)
        BY <4>4, <4>5, <1>1, <3>1 DEF NeedsOf
      <4> QED BY <4>1, <4>6
    <3> QED BY <3>1, <3>2, <3>3, <1>9
  <2>3. Known(P.body[l], P.needs, {n.task : n \in P.needs[l]})
    BY <2>1, <2>2, <1>6, <1>11 DEF Known
  <2>4. AcyclicIn(P.body[l], P.needs)
    <3> SUFFICES ASSUME NEW S \in (SUBSET LoopBody(g, l)) \ {{}}
                 PROVE  \E i \in S : \A n \in P.needs[i] : n.task \notin S
      BY <2>1 DEF AcyclicIn
    <3>1. S \in SUBSET Steps(p) /\ \A i \in S : LoopOf(g, i) = l /\ Type(g, l) = "loop" /\ l # None
      BY <1>11
    <3>2. \A a \in ArrowsTo(g, l) : a.from \in Runnable(g) => LoopOf(g, a.from) = None
      <4>1. l \in Runnable(g)
        BY <3>1, BodiesAreInLoops DEF Runnable, Type, Executable
      <4> QED BY <4>1, <2>1 DEF OneLevel, ArrowsTo
    <3>3. \A i \in S : \A n \in NeedsOf(p, i) : n.task \in S =>
                \/ \E a \in ArrowsTo(g, i) : a.from = n.task
                \/ n.task = CheckedAgent(g, i) /\ CheckedAgent(g, i) # None
      BY <3>1, <3>2, <1>9
    <3> QED BY <3>1, <3>3, <1>13
  <2> QED BY <2>1, <2>3, <2>4, <1>4 DEF ValidLoop
<1> QED BY <1>2, <1>5, <1>12, <1>14, <1>15 DEF Validate, P

-----------------------------------------------------------------------------
(***************************************************************************)
(* The inductive invariant of a run.                                       *)
(***************************************************************************)
Live == phase \in {"running", "over"}

Shape ==
  /\ graph \in Graphs
  /\ phase \in {"asked", "refused", "running", "over"}
  /\ ~Live => plan = NoPlan /\ DOMAIN step = {} /\ DOMAIN recorded = {} /\ DOMAIN repeat = {}
  /\ Live => /\ Accepted(graph)
             /\ plan = PlanOf(graph)
             /\ DOMAIN recorded \subseteq plan.top
             /\ DOMAIN step = StepsOf(plan, DOMAIN recorded)
             /\ DOMAIN repeat = DOMAIN plan.body

Joins == JoinsAgree(plan.planner) /\ SessionsComeAlong(plan.planner)

\* What is said of one task: only what has all it waits for begins or is skipped.
Met(i) == \A n \in plan.needs[i] : Settled(n.task)

Sound(i) ==
  /\ Status(i) \in {"pending", "running", "succeeded", "failed", "skipped"}
  /\ Status(i) # "succeeded" => step[i].outputs = {}
  /\ Status(i) = "running" => i \in DOMAIN plan.body
  /\ Status(i) # "pending" => Met(i)
  /\ Status(i) # "pending" /\ LoopOf(graph, i) # None => Status(LoopOf(graph, i)) # "pending"
  /\ Status(i) \in {"running", "succeeded", "failed"} => Arrives(i)
  /\ Status(i) = "skipped" => \/ ~Arrives(i)
                              \/ LoopOf(graph, i) # None /\ Status(LoopOf(graph, i)) = "skipped"
  /\ Status(i) = "succeeded" /\ Joins /\ i \in plan.planner.passing => "workspace" \in step[i].outputs

\* What is said of a recorded step: with what is recorded of the others it arrives again.
Had(n)  == n.task \in DOMAIN recorded /\ (n.port # NoPort => n.port \in recorded[n.task])
Lost(i) == {n.task : n \in {m \in plan.needs[i] : ~Had(m)}}

Returns(i) ==
  \/ Lost(i) = {}
  \/ i \in plan.any /\ \E n \in plan.needs[i] : /\ n.port # NoPort
                                               /\ Had(n)
                                               /\ \A t \in Lost(i) : ~SameName(i, t, n.task)

Kept(i) ==
  /\ Returns(i)
  /\ Status(i) \in {"pending", "succeeded"}
  /\ Status(i) = "succeeded" => step[i] = Done(recorded[i])
  /\ Joins /\ i \in plan.planner.passing => "workspace" \in recorded[i]

Counted ==
  /\ tries \in 0..MaxTries
  /\ \A l \in DOMAIN repeat :
       /\ repeat[l] \in 0..graph.nodes[l].repeats
       /\ Status(l) = "pending" => repeat[l] = 0

RunInv ==
  /\ Shape
  /\ \A i \in Tasks : Sound(i)
  /\ \A i \in DOMAIN recorded : Kept(i)
  /\ Counted
  /\ phase = "over" => \A i \in plan.top : Settled(i)

-----------------------------------------------------------------------------
(***************************************************************************)
(* Where a task is and what it waits for.                                  *)
(***************************************************************************)
LEMMA Places ==
  ASSUME Shape, Live
  PROVE  /\ Shaped(graph, plan)
         /\ plan.top \subseteq Tasks
         /\ \A i \in plan.top : Peers(i) = plan.top
         /\ \A l \in DOMAIN plan.body \ DOMAIN recorded : plan.body[l] \subseteq Tasks
         /\ \A l \in DOMAIN plan.body : \A i \in plan.body[l] :
              i \notin plan.top /\ LoopOf(graph, i) = l /\ Peers(i) = plan.body[l]
         /\ \A i \in Tasks :
              \/ i \in plan.top
              \/ /\ LoopOf(graph, i) \in DOMAIN plan.body \ DOMAIN recorded
                 /\ i \in plan.body[LoopOf(graph, i)]
<1>1. ValidGraph(graph)
  BY NothingFails DEF Shape, Accepted
<1>2. Shaped(graph, plan)
  BY <1>1, PlansAreShaped DEF Shape
<1>3. \A i : i \in Tasks <=> \/ i \in plan.top
                           \/ \E l \in DOMAIN plan.body \ DOMAIN recorded : i \in plan.body[l]
  BY DEF Shape, Tasks, StepsOf
<1>4. \A l \in DOMAIN plan.body : \A i \in plan.body[l] : i \notin plan.top /\ LoopOf(graph, i) = l
  BY <1>2 DEF Shaped
<1>5. \A l \in DOMAIN plan.body : \A i \in plan.body[l] : Peers(i) = plan.body[l]
  BY <1>2, <1>4 DEF Peers, Shaped
<1>6. \A i \in plan.top : Peers(i) = plan.top
  BY <1>2 DEF Peers, Shaped
<1> QED BY <1>2, <1>3, <1>4, <1>5, <1>6

LEMMA NeedsAreTasks ==
  ASSUME Shape, Live, NEW i \in Tasks, NEW n \in plan.needs[i]
  PROVE  /\ n.task \in Tasks
         /\ i \in plan.top => n.task \in plan.top
         /\ i \notin plan.top => \/ n.task \in plan.body[LoopOf(graph, i)]
                                \/ /\ n.task \in plan.top
                                   /\ \E m \in plan.needs[LoopOf(graph, i)] : m.task = n.task
<1>1. Validate(graph, plan)
  BY DEF Shape, Accepted
<1>2. ASSUME NEW j \in plan.top, NEW m \in plan.needs[j] PROVE m.task \in plan.top
  BY <1>1 DEF Validate, Known
<1>3. CASE i \in plan.top
  BY <1>2, <1>3, Places
<1>4. CASE i \notin plan.top
  <2>1. PICK l \in DOMAIN plan.body \ DOMAIN recorded : l = LoopOf(graph, i) /\ i \in plan.body[l]
    BY <1>4, Places
  <2>2. n.task \in plan.body[l] \/ \E m \in plan.needs[l] : m.task = n.task
    BY <1>1, <2>1 DEF Validate, ValidLoop, Known
  <2>3. l \in plan.top
    BY <2>1, Places DEF Shaped
  <2>4. \A m \in plan.needs[l] : m.task \in plan.top
    BY <2>3, <1>2
  <2> QED BY <1>4, <2>1, <2>2, <2>4, Places
<1> QED BY <1>3, <1>4

LEMMA ReadyIsMet ==
  ASSUME RunInv, NEW i \in Tasks, Ready(i)
  PROVE  Met(i) /\ Live
<1>1. phase = "running" /\ Live /\ Shape
  BY DEF Ready, RunInv, Live
<1>2. SUFFICES ASSUME NEW n \in plan.needs[i] PROVE Settled(n.task)
  BY <1>1 DEF Met
<1>3. CASE n.task \in Peers(i)
  BY <1>3 DEF Ready
<1>4. CASE n.task \notin Peers(i)
  <2>1. i \notin plan.top
    BY <1>1, <1>4, NeedsAreTasks, Places
  <2>2. PICK l \in DOMAIN plan.body : l = LoopOf(graph, i) /\ Peers(i) = plan.body[l] /\ l # None
    BY <1>1, <2>1, Places DEF Shaped
  <2>3. PICK m \in plan.needs[l] : m.task = n.task
    BY <1>1, <1>4, <2>1, <2>2, NeedsAreTasks
  <2>4. l \in Tasks /\ Status(l) = "running"
    BY <1>1, <2>2, Places DEF Ready, Shaped
  <2>5. Met(l)
    BY <2>4 DEF RunInv, Sound
  <2> QED BY <2>3, <2>5 DEF Met
<1> QED BY <1>3, <1>4

(***************************************************************************)
(* What has arrived at a task depends on the tasks it needs only.          *)
(***************************************************************************)
LEMMA SameArrival ==
  ASSUME NEW i, UNCHANGED <<graph, plan>>, \A n \in plan.needs[i] : step'[n.task] = step[n.task]
  PROVE  /\ Arrives(i)' <=> Arrives(i)
         /\ Met(i)' <=> Met(i)
<1>1. Peers(i)' = Peers(i) /\ plan.needs'[i] = plan.needs[i] /\ plan.any' = plan.any
  BY DEF Peers
<1>2. \A n \in plan.needs[i] : Lacking(i, n)' <=> Lacking(i, n)
  BY <1>1 DEF Lacking, Gone, Status
<1>3. Missing(i)' = Missing(i)
  BY <1>1, <1>2 DEF Missing
<1>4. \A t, u : SameName(i, t, u)' <=> SameName(i, t, u)
  BY <1>1 DEF SameName
<1>5. Inputs(i)' = Inputs(i)
  BY <1>1, <1>2, <1>3, <1>4 DEF Inputs
<1>6. Met(i)' <=> Met(i)
  BY <1>1 DEF Met, Settled, Status
<1> QED BY <1>1, <1>3, <1>5, <1>6 DEF Arrives

\* A step leaves what is true of a task whose needs it does not touch.
LEMMA Untouched ==
  ASSUME UNCHANGED <<graph, plan>>, NEW i \in Tasks, Sound(i), step'[i] = step[i],
         Status(i) # "pending" => \A n \in plan.needs[i] : step'[n.task] = step[n.task],
         Status(i) # "pending" /\ LoopOf(graph, i) # None =>
           /\ Status(LoopOf(graph, i))' # "pending"
           /\ Status(LoopOf(graph, i)) = "skipped" => Status(LoopOf(graph, i))' = "skipped"
  PROVE  Sound(i)'
<1>1. Joins' <=> Joins
  BY DEF Joins
<1>2. Status(i)' = Status(i)
  BY DEF Status
<1>3. LoopOf(graph, i)' = LoopOf(graph, i)
  OBVIOUS
<1>4. CASE Status(i) = "pending"
  BY <1>2, <1>4 DEF Sound
<1>5. CASE Status(i) # "pending"
  <2>1. (Arrives(i)' <=> Arrives(i)) /\ (Met(i)' <=> Met(i))
    BY <1>5, SameArrival
  <2> QED BY <1>1, <1>2, <1>3, <1>5, <2>1 DEF Sound
<1> QED BY <1>4, <1>5

(***************************************************************************)
(* A recorded step whose needs have settled has arrived, for what is       *)
(* recorded of them is what they gave back.                                *)
(***************************************************************************)
LEMMA RecordedArrive ==
  ASSUME RunInv, Live, NEW i \in DOMAIN recorded, Met(i)
  PROVE  Arrives(i)
<1>1. i \in plan.top /\ i \in Tasks /\ Peers(i) = plan.top /\ Returns(i)
  BY Places DEF RunInv, Shape, Kept
<1>2. \A n \in plan.needs[i] : n.task \in plan.top
  BY <1>1, NeedsAreTasks DEF RunInv
<1>3. ASSUME NEW n \in plan.needs[i], Had(n) PROVE ~Lacking(i, n)
  <2>1. n.task \in DOMAIN recorded /\ Settled(n.task)
    BY <1>3 DEF Had, Met
  <2>2. Status(n.task) = "succeeded" /\ step[n.task] = Done(recorded[n.task])
    BY <2>1 DEF RunInv, Kept, Settled
  <2>3. step[n.task].outputs = recorded[n.task]
    BY <2>2 DEF Done
  <2> QED BY <1>3, <2>2, <2>3 DEF Lacking, Gone, Had
<1>4. Missing(i) \subseteq Lost(i)
  BY <1>3 DEF Missing, Lost
<1>5. CASE Lost(i) = {}
  BY <1>4, <1>5 DEF Arrives
<1>6. CASE i \in plan.any /\ \E n \in plan.needs[i] : /\ n.port # NoPort
                                               /\ Had(n)
                                               /\ \A t \in Lost(i) : ~SameName(i, t, n.task)
  <2>1. PICK n \in plan.needs[i] : /\ n.port # NoPort
                                  /\ Had(n)
                                  /\ \A t \in Lost(i) : ~SameName(i, t, n.task)
    BY <1>6
  <2>2. n \in Inputs(i)
    BY <2>1, <1>3, <1>4 DEF Inputs
  <2> QED BY <1>6, <2>2 DEF Arrives
<1> QED BY <1>1, <1>5, <1>6 DEF Returns

-----------------------------------------------------------------------------
(***************************************************************************)
(* Workspaces.  A task that is to pass one on and makes none has one on    *)
(* every arrow that arrived, if its sources agree.                         *)
(***************************************************************************)
LEMMA TasksAreIncluded ==
  ASSUME NEW g \in Graphs, ValidGraph(g), NEW i \in Steps(PlannerOf(g)), i \notin PlainFetches(g)
  PROVE  /\ i \in Included(g)
         /\ LoopOf(g, i) # None => LoopOf(g, i) \in Included(g) /\ LoopOf(g, LoopOf(g, i)) = None
<1> DEFINE p == PlannerOf(g)
<1>1. p.graph = g /\ p.included = Included(g)
  BY PlannerFields
<1> HIDE DEF p
<1>2. CASE i \in TopTasks(p)
  BY <1>1, <1>2 DEF TopTasks, TopLevel
<1>3. ASSUME NEW l \in Loops(p), i \in LoopBody(g, l)
      PROVE  i \in Included(g) /\ l \in Included(g) /\ LoopOf(g, i) = l /\ LoopOf(g, l) = None
  <2>1. l \in Included(g) /\ Type(g, l) = "loop" /\ LoopOf(g, l) = None
    BY <1>1 DEF Loops, TopLevel
  <2>2. LoopBody(g, l) \subseteq Included(g)
    BY <2>1, IncludedBlocks DEF Inside
  <2> QED BY <2>1, <2>2, <1>3, BodiesAreInLoops
<1>4. i \in TopTasks(p) \/ \E l \in Loops(p) : i \in LoopBody(g, l)
  BY <1>1 DEF Steps, p
<1>5. i \in TopTasks(p) => LoopOf(g, i) = None
  BY <1>1 DEF TopTasks, TopLevel, PlainFetches, Flagged
<1> QED BY <1>2, <1>3, <1>4, <1>5

LEMMA PlanOfTasks ==
  ASSUME Shape, Live, NEW i \in Tasks
  PROVE  /\ plan.planner = PlannerOf(graph)
         /\ plan.planner.graph = graph
         /\ plan.planner.included = Included(graph)
         /\ plan.planner.passing = PassesWorkspace(graph, Included(graph))
         /\ i \in Steps(PlannerOf(graph))
         /\ plan.needs[i] = NeedsOf(PlannerOf(graph), i)
         /\ ValidGraph(graph)
<1>1. i \in StepsOf(plan, {})
  BY DEF Shape, Tasks, StepsOf
<1>2. i \in Steps(PlannerOf(graph))
  BY <1>1, StepsOfPlan DEF Shape
<1>3. ValidGraph(graph)
  BY NothingFails DEF Shape, Accepted
<1>4. plan.planner = PlannerOf(graph) /\ plan.needs = [j \in Steps(PlannerOf(graph)) |-> NeedsOf(PlannerOf(graph), j)]
  BY PlanFields DEF Shape
<1>5. plan.needs[i] = NeedsOf(PlannerOf(graph), i)
  BY <1>2, <1>4
<1> QED BY <1>2, <1>3, <1>4, <1>5, PlannerFields

LEMMA WorkspaceArrives ==
  ASSUME RunInv, Live, Joins, NEW i \in Tasks, Arrives(i),
         i \in plan.planner.passing, i \notin Makers(graph)
  PROVE  "workspace" \in Along(i) /\ Type(graph, i) \in PassingTypes
<1> DEFINE p == plan.planner
           Comes(b) == [task |-> b.from, port |-> "workspace"]
<1>1. /\ Shape
      /\ p = PlannerOf(graph) /\ p.graph = graph /\ p.included = Included(graph)
      /\ p.passing = PassesWorkspace(graph, Included(graph))
      /\ i \in Steps(PlannerOf(graph))
      /\ plan.needs[i] = NeedsOf(PlannerOf(graph), i)
      /\ graph \in Graphs /\ ValidGraph(graph)
  BY PlanOfTasks DEF RunInv, Shape
<1> HIDE DEF p
<1>2. PICK a \in ArrowsInto(graph, i) :
        /\ Type(graph, i) \in PassingTypes /\ i \in Blocks(graph)
        /\ a.from \in p.included /\ a.from \in p.passing
  BY <1>1, PassingBlocks DEF Receives, p
<1>3. Type(graph, i) # "jsonschema" /\ Type(graph, i) # "github" /\ CheckedAgent(graph, i) = None
  BY <1>2 DEF PassingTypes, CheckedAgent
<1>4. i \notin PlainFetches(graph)
  BY <1>3 DEF PlainFetches, Flagged
<1>5. /\ i \in Included(graph)
      /\ LoopOf(graph, i) # None => /\ LoopOf(graph, i) \in Included(graph)
                                   /\ LoopOf(graph, LoopOf(graph, i)) = None
  BY <1>1, <1>4, TasksAreIncluded
<1>6. plan.needs[i] = IncomingNeeds(p, i) \cup ContinuedNeeds(p, i)
  BY <1>1, <1>3, <1>4 DEF NeedsOf
<1>7. \A b \in Received(p, i) : b.from \in p.passing => Comes(b) \in plan.needs[i]
  BY <1>6 DEF IncomingNeeds
<1>8. a \in Received(p, i) /\ a \in Arrows(graph)
  BY <1>1, <1>2, <1>3 DEF Received, ArrowsInto, ArrowsTo
<1>9. \A b : Comes(b).task = b.from /\ Comes(b).port = "workspace" /\ "workspace" # NoPort
  BY DEF NoPort
<1> HIDE DEF Comes
<1>10. ASSUME NEW b \in Received(p, i), Comes(b) \in Inputs(i) PROVE "workspace" \in Along(i)
  BY <1>9, <1>10 DEF Along
<1>11. CASE Missing(i) = {}
  <2>1. ~Lacking(i, Comes(a))
    BY <1>2, <1>7, <1>8, <1>9, <1>11 DEF Missing
  <2>2. Comes(a) \in Inputs(i)
    BY <2>1, <1>2, <1>7, <1>8, <1>9, <1>11 DEF Inputs
  <2> QED BY <2>2, <1>2, <1>8, <1>10
<1>12. CASE i \in plan.any /\ Inputs(i) # {}
  <2>1. PICK n \in Inputs(i) : TRUE
    BY <1>12
  <2>2. /\ n \in plan.needs[i] /\ n.port # NoPort /\ ~Lacking(i, n)
        /\ \A t \in Missing(i) : ~SameName(i, t, n.task)
    BY <2>1, <1>12 DEF Inputs
  <2>3. n.task \in Tasks /\ Sound(n.task)
    BY <1>1, <2>2, NeedsAreTasks DEF RunInv
  <2>4. Status(n.task) = "succeeded"
    BY <2>2, <2>3 DEF Lacking, Sound
  <2>5. \/ Node(p, i).any
        \/ LoopOf(graph, i) # None /\ Node(p, LoopOf(graph, i)).any /\ ArrowsTo(graph, i) = {}
    <3>1. i \in PlanOf(graph).any /\ p = PlannerOf(graph)
      BY <1>1, <1>12 DEF Shape, Live
    <3>2. WaitsForAny(p, i) \/ Node(p, i).any
      BY <3>1, PlanFields
    <3> QED BY <3>2, <1>1 DEF WaitsForAny
  <2> DEFINE carries == {b \in Arrows(graph) : b.from \in p.included \cap p.passing}
  <2>6. a \in carries
    BY <1>2, <1>8
  <2>7. /\ \A b \in Received(p, i) : b.from \in p.passing
        /\ \A m \in ContinuedNeeds(p, i) : \E b \in Received(p, i) : b.from = m.task
    <3>1. CASE Node(p, i).any
      <4>1. Received(p, i) \subseteq carries
        BY <1>1, <1>5, <1>8, <2>6, <3>1 DEF Joins, JoinsAgree, p
      <4>2. \A m \in ContinuedNeeds(p, i) : \E b \in Received(p, i) : b.from = m.task
        BY <1>1, <1>5, <3>1 DEF Joins, SessionsComeAlong, p
      <4> QED BY <4>1, <4>2
    <3>2. CASE LoopOf(graph, i) # None /\ Node(p, LoopOf(graph, i)).any /\ ArrowsTo(graph, i) = {}
      <4> DEFINE l == LoopOf(graph, i)
      <4>1. l \in p.included /\ LoopOf(graph, l) = None /\ Node(p, l).any
        BY <1>1, <1>5, <3>2
      <4>2. ArrowsInto(graph, i) = ArrowsTo(graph, l)
        BY <1>3, <3>2 DEF ArrowsInto
      <4>3. Type(graph, l) = "loop"
        BY <3>2 DEF LoopOf
      <4>4. ArrowsInto(graph, l) = ArrowsTo(graph, l)
        BY <4>1, <4>3 DEF ArrowsInto, CheckedAgent
      <4>5. Received(p, i) = Received(p, l)
        BY <1>1, <4>2, <4>4 DEF Received
      <4>6. Received(p, l) \subseteq carries
        BY <1>1, <1>8, <2>6, <4>1, <4>5 DEF Joins, JoinsAgree, p
      <4>7. \A m \in ContinuedNeeds(p, i) : \E b \in Received(p, l) : b.from = m.task
        <5>1. AgentArrows(p, i) = {}
          BY <1>1, <3>2 DEF AgentArrows
        <5>2. AgentsBefore(p, i) = AgentArrows(p, l)
          BY <1>1, <3>2, <5>1 DEF AgentsBefore
        <5>3. AgentArrows(p, l) \subseteq Received(p, l)
          BY <1>1, <4>4 DEF AgentArrows, Received
        <5> QED BY <5>2, <5>3 DEF ContinuedNeeds
      <4> QED BY <4>5, <4>6, <4>7
    <3> QED BY <2>5, <3>1, <3>2
  <2>8. \E b \in Received(p, i) : b.from = n.task
    BY <2>2, <2>7, <1>6 DEF IncomingNeeds
  <2>9. PICK b \in Received(p, i) : b.from = n.task /\ n.task \in p.passing
    BY <2>7, <2>8
  <2>10. "workspace" \in step[n.task].outputs
    BY <2>3, <2>4, <2>9 DEF Sound, p
  <2>11. ~Lacking(i, Comes(b))
    BY <1>9, <2>4, <2>9, <2>10 DEF Lacking, Gone
  <2>12. Comes(b) \in Inputs(i)
    BY <1>7, <1>9, <2>2, <2>9, <2>11 DEF Inputs
  <2> QED BY <2>12, <1>2, <1>10
<1> QED BY <1>2, <1>11, <1>12 DEF Arrives

LEMMA PassersPutOut ==
  ASSUME RunInv, Live, Joins, NEW i \in Tasks, Arrives(i), i \in plan.planner.passing,
         Type(graph, i) # "loop", NEW outputs \in Puts(i)
  PROVE  "workspace" \in outputs
<1>1. CASE i \in Makers(graph)
  <2>1. Type(graph, i) = "action" /\ graph.nodes[i].action \in WorksIn \cup {"worktree"}
    BY <1>1 DEF Makers
  <2>2. outputs = ActionOutputs[graph.nodes[i].action]
    BY <2>1 DEF Puts
  <2>3. \A kind \in WorksIn \cup {"worktree"} : "workspace" \in ActionOutputs[kind]
    BY DEF WorksIn, ActionOutputs
  <2> QED BY <2>1, <2>2, <2>3
<1>2. CASE i \notin Makers(graph)
  <2>1. "workspace" \in Along(i) /\ Type(graph, i) \in {"agent", "command", "router"}
    BY <1>2, WorkspaceArrives DEF PassingTypes
  <2>2. CASE Type(graph, i) = "agent"
    <3>1. Puts(i) = {{"result"} \cup Along(i) \cup s : s \in {{}, {"session"}}}
      BY <2>2 DEF Puts
    <3> QED BY <2>1, <3>1
  <2>3. CASE Type(graph, i) \in {"command", "router"}
    <3>1. Puts(i) = {{o} \cup Along(i) : o \in Choices(graph, i)}
      BY <2>3 DEF Puts
    <3> QED BY <2>1, <3>1
  <2> QED BY <2>1, <2>2, <2>3
<1> QED BY <1>1, <1>2

LEMMA LoopsPassOn ==
  ASSUME RunInv, Live, Joins, NEW l \in Tasks, Arrives(l), l \in plan.planner.passing,
         Type(graph, l) = "loop"
  PROVE  "workspace" \in Along(l)
BY WorkspaceArrives DEF Makers

-----------------------------------------------------------------------------
(***************************************************************************)
(* Every action keeps the invariant.                                       *)
(***************************************************************************)
LEMMA SameShape ==
  ASSUME RunInv, UNCHANGED <<graph, phase, plan, recorded>>,
         DOMAIN step' = DOMAIN step, DOMAIN repeat' = DOMAIN repeat
  PROVE  Shape'
BY DEF RunInv, Shape, Live

LEMMA SameKept ==
  ASSUME UNCHANGED <<graph, plan, recorded>>, NEW i, Kept(i), step'[i] = step[i]
  PROVE  Kept(i)'
<1>1. \A n : Had(n)' <=> Had(n)
  BY DEF Had
<1>2. Lost(i)' = Lost(i)
  BY <1>1 DEF Lost
<1>3. \A t, u : SameName(i, t, u)' <=> SameName(i, t, u)
  BY DEF SameName, Peers
<1>4. Returns(i)' <=> Returns(i)
  BY <1>1, <1>2, <1>3 DEF Returns
<1>5. (Joins' <=> Joins) /\ Status(i)' = Status(i)
  BY DEF Joins, Status
<1> QED BY <1>4, <1>5 DEF Kept

\* A task that has all it waits for comes to an end.
LEMMA SettleKeeps ==
  ASSUME RunInv, phase = "running", NEW i \in Tasks, NEW o, Settles(i, o),
         Status(i) \in {"pending", "running"}, Met(i), Arrives(i),
         LoopOf(graph, i) # None => Status(LoopOf(graph, i)) # "pending",
         o.status \in {"succeeded", "failed"},
         o.status = "failed" => o.outputs = {},
         o.status = "succeeded" /\ Joins /\ i \in plan.planner.passing => "workspace" \in o.outputs,
         i \in DOMAIN recorded => o = Done(recorded[i])
  PROVE  RunInv'
<1>1. /\ UNCHANGED <<graph, phase, plan, repeat, recorded, tries>>
      /\ step' = [step EXCEPT ![i] = o] /\ DOMAIN step' = DOMAIN step
      /\ step'[i] = o
      /\ \A j \in Tasks \ {i} : step'[j] = step[j]
  BY DEF Settles, Tasks
<1>2. Shape' /\ Shape /\ Live /\ Tasks' = Tasks
  BY <1>1, SameShape DEF RunInv, Live, Tasks
<1>3. \A j \in Tasks : \A n \in plan.needs[j] : n.task \in Tasks
  BY <1>2, NeedsAreTasks
<1>4. \A j \in Tasks : Met(j) => \A n \in plan.needs[j] : step'[n.task] = step[n.task]
  BY <1>1, <1>3 DEF Met, Settled
<1>5. (Joins' <=> Joins) /\ Status(i)' = o.status
  BY <1>1 DEF Joins, Status
<1>6. Sound(i)'
  <2>1. (Arrives(i)' <=> Arrives(i)) /\ (Met(i)' <=> Met(i))
    BY <1>1, <1>4, SameArrival
  <2>2. LoopOf(graph, i) # None => Status(LoopOf(graph, i))' # "pending"
    <3>1. LoopOf(graph, i) # None => LoopOf(graph, i) \in Tasks
      BY <1>2, Places DEF Shaped
    <3> QED BY <1>1, <1>5, <3>1 DEF Status
  <2> QED BY <1>1, <1>5, <2>1, <2>2 DEF Sound, Status
<1>7. ASSUME NEW j \in Tasks \ {i} PROVE Sound(j)'
  <2>1. Sound(j)
    BY DEF RunInv
  <2>2. Status(j) # "pending" => Met(j)
    BY <2>1 DEF Sound
  <2>3. Status(j) # "pending" /\ LoopOf(graph, j) # None =>
           /\ Status(LoopOf(graph, j))' # "pending"
           /\ Status(LoopOf(graph, j)) = "skipped" => Status(LoopOf(graph, j))' = "skipped"
    <3>1. LoopOf(graph, j) # None => LoopOf(graph, j) \in Tasks
      BY <1>2, Places DEF Shaped
    <3> QED BY <1>1, <1>5, <2>1, <3>1 DEF Sound, Status
  <2> QED BY <1>1, <1>4, <2>1, <2>2, <2>3, Untouched
<1>8. \A j \in DOMAIN recorded : Kept(j)'
  <2>1. CASE i \in DOMAIN recorded
    <3>1. o = [status |-> "succeeded", outputs |-> recorded[i]] /\ Kept(i)
      BY <2>1 DEF RunInv, Done
    <3>2. \A n : Had(n)' <=> Had(n)
      BY <1>1 DEF Had
    <3>3. Lost(i)' = Lost(i)
      BY <1>1, <3>2 DEF Lost
    <3>4. \A t, u : SameName(i, t, u)' <=> SameName(i, t, u)
      BY <1>1 DEF SameName, Peers
    <3>5. Returns(i)' <=> Returns(i)
      BY <1>1, <3>2, <3>3, <3>4 DEF Returns
    <3>6. Kept(i)'
      BY <1>1, <1>5, <2>1, <3>1, <3>5 DEF Kept, Done
    <3> QED BY <1>1, <1>2, <3>6, SameKept, Places DEF RunInv, Shape
  <2>2. CASE i \notin DOMAIN recorded
    BY <1>1, <1>2, <2>2, SameKept, Places DEF RunInv, Shape
  <2> QED BY <2>1, <2>2
<1>9. Counted'
  <2>1. \A l \in DOMAIN repeat : l \in Tasks
    BY <1>2, Places DEF Shape, Shaped
  <2> QED BY <1>1, <1>5, <2>1 DEF RunInv, Counted, Status
<1>10. phase' # "over"
  BY <1>1
<1> QED BY <1>1, <1>2, <1>6, <1>7, <1>8, <1>9, <1>10 DEF RunInv

\* Another repeat of a loop begins.
LEMMA RepeatsKeep ==
  ASSUME RunInv, phase = "running", NEW l \in Loop, Repeats(l),
         Status(l) \in {"pending", "running"}, Met(l), Arrives(l),
         l \notin DOMAIN recorded, repeat[l] # graph.nodes[l].repeats
  PROVE  RunInv'
<1>1. Shape /\ Live /\ l \in Tasks /\ l \in DOMAIN plan.body /\ l \in DOMAIN repeat
  BY DEF RunInv, Shape, Live, Loop, Tasks
<1>2. /\ l \in plan.top /\ LoopOf(graph, l) = None /\ Type(graph, l) = "loop"
      /\ \A i \in Body(l) : i \in Tasks /\ i # l /\ i \notin plan.top /\ LoopOf(graph, i) = l
  BY <1>1, Places DEF Shaped, Body
<1>3. /\ UNCHANGED <<graph, phase, plan, recorded, tries>>
      /\ DOMAIN step' = DOMAIN step /\ DOMAIN repeat' = DOMAIN repeat
      /\ repeat'[l] = repeat[l] + 1
      /\ \A k \in DOMAIN repeat \ {l} : repeat'[k] = repeat[k]
  BY <1>1 DEF Repeats
<1>4. step'[l] = Bare("running")
  BY <1>1, <1>2 DEF Repeats, Tasks
<1>5. \A i \in Body(l) : step'[i] = NoOutcome
  BY <1>2 DEF Repeats, Tasks
<1>6. \A j \in Tasks \ ({l} \cup Body(l)) : step'[j] = step[j]
  BY <1>1 DEF Repeats, Tasks
<1>7. Shape' /\ Tasks' = Tasks
  BY <1>3, SameShape DEF Tasks
<1>8. Status(l)' = "running" /\ \A i \in Body(l) : Status(i)' = "pending"
  BY <1>4, <1>5 DEF Status, Bare, NoOutcome
<1>9. ASSUME NEW j \in Tasks \ Body(l), NEW n \in plan.needs[j]
      PROVE  n.task \in Tasks \ Body(l)
  <2>1. n.task \in Tasks
    BY <1>1, NeedsAreTasks
  <2>2. CASE j \in plan.top
    BY <1>1, <1>2, <2>1, <2>2, NeedsAreTasks
  <2>3. CASE j \notin plan.top
    <3>1. PICK k \in DOMAIN plan.body : k = LoopOf(graph, j) /\ j \in plan.body[k]
      BY <1>1, <2>3, Places
    <3>2. k # l
      BY <3>1 DEF Body
    <3>3. n.task \in plan.body[k] \/ n.task \in plan.top
      BY <1>1, <2>3, <3>1, NeedsAreTasks
    <3>4. n.task \in plan.body[k] => LoopOf(graph, n.task) = k
      BY <1>1, <3>1, Places
    <3> QED BY <1>2, <2>1, <3>2, <3>3, <3>4
  <2> QED BY <2>2, <2>3
<1>10. \A j \in Tasks \ Body(l) : Met(j) => \A n \in plan.needs[j] : step'[n.task] = step[n.task]
  <2> SUFFICES ASSUME NEW j \in Tasks \ Body(l), Met(j), NEW n \in plan.needs[j]
               PROVE  step'[n.task] = step[n.task]
    OBVIOUS
  <2>1. n.task # l
    BY DEF Met, Settled
  <2> QED BY <1>6, <1>9, <2>1
<1>11. Sound(l)'
  <2>1. (Arrives(l)' <=> Arrives(l)) /\ (Met(l)' <=> Met(l))
    BY <1>1, <1>2, <1>3, <1>10, SameArrival
  <2>2. step'[l].outputs = {}
    BY <1>4 DEF Bare
  <2>3. l \in DOMAIN plan'.body /\ LoopOf(graph', l) = None
    BY <1>1, <1>2, <1>3
  <2> QED BY <1>8, <2>1, <2>2, <2>3 DEF Sound
<1>12. ASSUME NEW i \in Body(l) PROVE Sound(i)'
  <2>1. step'[i].outputs = {}
    BY <1>5 DEF NoOutcome
  <2> QED BY <1>8, <2>1 DEF Sound
<1>13. ASSUME NEW j \in Tasks \ ({l} \cup Body(l)) PROVE Sound(j)'
  <2>1. Sound(j)
    BY DEF RunInv
  <2>2. Status(j) # "pending" => Met(j)
    BY <2>1 DEF Sound
  <2>3. LoopOf(graph, j) # None => LoopOf(graph, j) \in Tasks \ ({l} \cup Body(l))
    <3>1. LoopOf(graph, j) # None =>
            /\ LoopOf(graph, j) \in plan.top /\ LoopOf(graph, j) \in Tasks
            /\ j \in plan.body[LoopOf(graph, j)]
      BY <1>1, Places DEF Shaped
    <3> QED BY <1>2, <3>1 DEF Body
  <2>4. Status(j) # "pending" /\ LoopOf(graph, j) # None =>
           /\ Status(LoopOf(graph, j))' # "pending"
           /\ Status(LoopOf(graph, j)) = "skipped" => Status(LoopOf(graph, j))' = "skipped"
    BY <1>3, <1>6, <2>1, <2>3 DEF Sound, Status
  <2>5. step'[j] = step[j]
    BY <1>6
  <2> QED BY <1>3, <1>10, <2>1, <2>2, <2>4, <2>5, Untouched
<1>14. ASSUME NEW j \in DOMAIN recorded PROVE Kept(j)'
  <2>1. j \in plan.top /\ j \in Tasks /\ j # l /\ Kept(j)
    BY <1>1, Places DEF Shape, RunInv
  <2>2. step'[j] = step[j]
    BY <1>2, <1>6, <2>1
  <2> QED BY <1>3, <2>1, <2>2, SameKept
<1>15. Counted'
  <2>1. Counted
    BY DEF RunInv
  <2>2. repeat[l] \in 0..graph.nodes[l].repeats /\ graph.nodes[l].repeats \in Nat
    <3>1. l \in Blocks(graph)
      BY <1>2 DEF Type
    <3> QED BY <1>1, <2>1, <3>1, GraphsAssumption DEF Counted, Shape
  <2>3. repeat'[l] \in 0..graph.nodes[l].repeats
    BY <1>3, <2>2
  <2>4. \A k \in DOMAIN repeat \ {l} : k \in Tasks \ ({l} \cup Body(l))
    BY <1>1, <1>2, Places DEF Shape, Shaped
  <2>5. \A k \in DOMAIN repeat \ {l} : repeat'[k] = repeat[k] /\ Status(k)' = Status(k)
    BY <1>3, <1>6, <2>4 DEF Status
  <2> QED BY <1>3, <1>8, <2>1, <2>3, <2>5 DEF Counted
<1>16. phase' # "over"
  BY <1>3
<1> QED BY <1>3, <1>7, <1>11, <1>12, <1>13, <1>14, <1>15, <1>16 DEF RunInv

\* A block for which not all arrived that it waits for is skipped.
LEMMA SkipKeeps ==
  ASSUME RunInv, NEW i \in Tasks, Skip(i)
  PROVE  RunInv'
<1>1. /\ UNCHANGED <<graph, phase, plan, repeat, recorded, tries>>
      /\ Ready(i) /\ ~Arrives(i) /\ phase = "running" /\ Status(i) = "pending"
      /\ LoopOf(graph, i) # None => Status(LoopOf(graph, i)) = "running"
  BY DEF Skip, Ready
<1>2. Met(i) /\ Shape /\ Live
  BY <1>1, ReadyIsMet DEF RunInv
<1> DEFINE C == {i} \cup Inside(graph, i)
<1>3. ASSUME NEW j \in Inside(graph, i)
      PROVE  /\ j \in Tasks /\ LoopOf(graph, j) = i /\ Status(j) = "pending"
             /\ i # None /\ i \in plan.top /\ i \in DOMAIN plan.body /\ j \in plan.body[i]
             /\ j \notin plan.top
  <2>1. Type(graph, i) = "loop" /\ j \in LoopBody(graph, i)
    BY <1>3 DEF Inside
  <2>2. i \in plan.top
    BY <1>2, <2>1, Places DEF Shaped
  <2>3. i \in DOMAIN plan.body /\ plan.body[i] = LoopBody(graph, i) /\ i # None
    BY <1>2, <2>1, <2>2, Places DEF Shaped
  <2>4. i \notin DOMAIN recorded
    BY <1>1, <1>2, RecordedArrive
  <2>5. j \in Tasks /\ LoopOf(graph, j) = i /\ j \notin plan.top
    BY <1>2, <2>1, <2>3, <2>4, Places
  <2>6. Status(j) = "pending"
    BY <1>1, <2>3, <2>5 DEF RunInv, Sound
  <2> QED BY <2>1, <2>2, <2>3, <2>5, <2>6
<1>4. /\ DOMAIN step' = DOMAIN step
      /\ \A j \in C : j \in Tasks /\ Status(j) = "pending" /\ step'[j] = Bare("skipped")
      /\ \A j \in Tasks \ C : step'[j] = step[j]
  BY <1>1, <1>3 DEF Skip, Tasks
<1> HIDE DEF C
<1>5. Shape' /\ Tasks' = Tasks
  BY <1>1, <1>4, SameShape DEF Tasks
<1>6. \A j \in C : Status(j)' = "skipped" /\ step'[j].outputs = {}
  BY <1>4 DEF Status, Bare
<1>7. \A j \in Tasks \ C : Status(j)' = Status(j)
  BY <1>4 DEF Status
<1>8. \A j \in Tasks : \A n \in plan.needs[j] : n.task \in Tasks
  BY <1>2, NeedsAreTasks
<1>9. \A j \in Tasks : Met(j) => \A n \in plan.needs[j] : step'[n.task] = step[n.task]
  <2> SUFFICES ASSUME NEW j \in Tasks, Met(j), NEW n \in plan.needs[j]
               PROVE  step'[n.task] = step[n.task]
    OBVIOUS
  <2>1. Settled(n.task)
    BY DEF Met
  <2>2. n.task \notin C
    BY <1>4, <2>1 DEF Settled
  <2> QED BY <1>4, <1>8, <2>2
<1>10. \A j \in Tasks : LoopOf(graph, j) # None => LoopOf(graph, j) \in Tasks
  BY <1>2, Places DEF Shaped
<1>11. Sound(i)'
  <2>1. (Arrives(i)' <=> Arrives(i)) /\ (Met(i)' <=> Met(i))
    BY <1>1, <1>2, <1>9, SameArrival
  <2>2. LoopOf(graph, i) # None => Status(LoopOf(graph, i))' # "pending"
    BY <1>1, <1>4, <1>7, <1>10
  <2>3. Status(i)' = "skipped" /\ step'[i].outputs = {}
    BY <1>6 DEF C
  <2> QED BY <1>1, <1>2, <2>1, <2>2, <2>3 DEF Sound
<1>12. ASSUME NEW j \in Inside(graph, i) PROVE Sound(j)'
  <2>1. Status(j)' = "skipped" /\ step'[j].outputs = {} /\ Status(i)' = "skipped"
    BY <1>6 DEF C
  <2>2. LoopOf(graph', j) = i
    BY <1>1, <1>3
  <2>3. ASSUME NEW n \in plan.needs[j] PROVE Settled(n.task)'
    <3>1. \/ n.task \in Inside(graph, i)
          \/ n.task \in plan.top /\ \E m \in plan.needs[i] : m.task = n.task
      <4>1. Inside(graph, i) = plan.body[i]
        BY <1>2, <1>3, Places DEF Inside, Shaped
      <4> QED BY <1>2, <1>3, <4>1, NeedsAreTasks
    <3>2. CASE n.task \in Inside(graph, i)
      <4>1. Status(n.task)' = "skipped"
        BY <1>6, <3>2 DEF C
      <4> QED BY <4>1 DEF Settled
    <3>3. CASE \E m \in plan.needs[i] : m.task = n.task
      <4>1. Settled(n.task) /\ step'[n.task] = step[n.task]
        BY <1>2, <1>9, <3>3 DEF Met
      <4> QED BY <4>1 DEF Settled, Status
    <3> QED BY <3>1, <3>2, <3>3
  <2>4. Met(j)'
    BY <1>1, <2>3 DEF Met
  <2> QED BY <1>3, <2>1, <2>2, <2>4 DEF Sound
<1>13. ASSUME NEW j \in Tasks \ C PROVE Sound(j)'
  <2>1. Sound(j)
    BY DEF RunInv
  <2>2. Status(j) # "pending" => Met(j)
    BY <2>1 DEF Sound
  <2>3. Status(j) # "pending" /\ LoopOf(graph, j) # None =>
           /\ Status(LoopOf(graph, j))' # "pending"
           /\ Status(LoopOf(graph, j)) = "skipped" => Status(LoopOf(graph, j))' = "skipped"
    <3>1. Status(j) # "pending" /\ LoopOf(graph, j) # None =>
            Status(LoopOf(graph, j)) # "pending" /\ LoopOf(graph, j) \in Tasks
      BY <1>10, <2>1 DEF Sound
    <3>2. Status(j) # "pending" /\ LoopOf(graph, j) # None =>
            step'[LoopOf(graph, j)] = step[LoopOf(graph, j)]
      BY <1>4, <3>1
    <3> QED BY <1>1, <3>1, <3>2 DEF Status
  <2>4. step'[j] = step[j]
    BY <1>4
  <2> QED BY <1>1, <1>9, <2>1, <2>2, <2>3, <2>4, Untouched
<1>14. \A j \in Tasks : Sound(j)'
  BY <1>11, <1>12, <1>13 DEF C
<1>15. ASSUME NEW j \in DOMAIN recorded PROVE Kept(j)'
  <2>1. j \in plan.top /\ j \in Tasks /\ Kept(j)
    BY <1>2, Places DEF Shape, RunInv
  <2>2. j \notin C
    BY <1>1, <1>2, <1>3, <2>1, RecordedArrive DEF C
  <2> QED BY <1>1, <1>4, <2>1, <2>2, SameKept
<1>16. Counted'
  <2>1. \A k \in DOMAIN repeat : k \in Tasks
    BY <1>2, Places DEF Shape, Shaped
  <2> QED BY <1>1, <1>6, <1>7, <2>1 DEF RunInv, Counted
<1>17. phase' # "over"
  BY <1>1
<1> QED BY <1>1, <1>5, <1>14, <1>15, <1>16, <1>17 DEF RunInv

LEMMA StartKeeps ==
  ASSUME RunInv, Start
  PROVE  RunInv'
<1>1. /\ phase = "asked" /\ ~Live /\ graph \in Graphs /\ graph' = graph
      /\ DOMAIN recorded = {} /\ recorded' = recorded
  BY DEF Start, Accept, Refuse, RunInv, Shape, Live
<1>2. CASE Refuse
  <2>1. UNCHANGED <<graph, plan, step, repeat, recorded, tries>> /\ phase' = "refused"
    BY <1>2 DEF Refuse
  <2>2. Shape' /\ Tasks = {} /\ Tasks' = {}
    BY <1>1, <2>1 DEF RunInv, Shape, Live, Tasks
  <2>3. Counted'
    BY <1>1, <2>1 DEF RunInv, Shape, Counted
  <2> QED BY <1>1, <2>1, <2>2, <2>3 DEF RunInv
<1>3. CASE Accepted(graph) /\ Accept
  <2>1. /\ plan' = PlanOf(graph) /\ phase' = "running" /\ tries' = 1
        /\ step' = Pending(StepsOf(plan', {}))
        /\ repeat' = [l \in DOMAIN plan'.body |-> 0]
    BY <1>3 DEF Accept
  <2>2. Shape' /\ Live'
    <3>1. DOMAIN step' = StepsOf(plan', {})
      BY <2>1 DEF Pending
    <3>2. DOMAIN step' = StepsOf(plan', DOMAIN recorded')
      BY <1>1, <3>1
    <3> QED BY <1>1, <1>3, <2>1, <3>2 DEF Shape, Live
  <2>3. \A i \in Tasks' : step'[i] = NoOutcome
    BY <2>1 DEF Tasks, Pending
  <2>4. \A i \in Tasks' : Sound(i)'
    BY <2>3 DEF NoOutcome, Sound, Status
  <2>5. Counted'
    <3>1. \A l \in DOMAIN plan'.body : graph.nodes[l].repeats \in Nat
      <4>1. Shaped(graph, PlanOf(graph))
        BY <1>1, <1>3, NothingFails, PlansAreShaped DEF Accepted
      <4>2. \A l \in DOMAIN plan'.body : l \in Blocks(graph)
        BY <2>1, <4>1 DEF Shaped, Type
      <4> QED BY <1>1, <4>2, GraphsAssumption
    <3> QED BY <1>1, <2>1, <3>1, TriesAssumption DEF Counted
  <2> QED BY <1>1, <2>1, <2>2, <2>4, <2>5 DEF RunInv
<1> QED BY <1>2, <1>3 DEF Start

LEMMA FinishKeeps ==
  ASSUME RunInv, Finish
  PROVE  RunInv'
<1>1. /\ UNCHANGED <<graph, plan, step, repeat, recorded, tries>>
      /\ phase = "running" /\ phase' = "over" /\ \A i \in plan.top : Settled(i)
  BY DEF Finish
<1>2. Shape'
  BY <1>1 DEF RunInv, Shape, Live
<1>3. \A i \in Tasks : Sound(i)'
  <2>1. ASSUME NEW i \in Tasks PROVE Sound(i)'
    <3>1. Sound(i)
      BY DEF RunInv
    <3> QED BY <1>1, <3>1, Untouched DEF Sound, Status
  <2> QED BY <2>1
<1>4. \A i \in DOMAIN recorded : Kept(i)'
  BY <1>1, SameKept DEF RunInv
<1>5. Counted' /\ (\A i \in plan.top : Settled(i))'
  BY <1>1 DEF RunInv, Counted, Settled, Status
<1> QED BY <1>1, <1>2, <1>3, <1>4, <1>5 DEF RunInv, Tasks

LEMMA RetryKeeps ==
  ASSUME RunInv, Retry
  PROVE  RunInv'
<1>1. /\ UNCHANGED <<graph, plan>> /\ phase = "over" /\ Shape /\ Live
      /\ tries < MaxTries /\ tries' = tries + 1 /\ phase' = "running"
      /\ step' = Pending(StepsOf(plan, DOMAIN recorded'))
      /\ repeat' = [l \in DOMAIN plan.body |-> 0]
      /\ DOMAIN recorded' = {j \in plan.top : Status(j) = "succeeded"}
      /\ \A i \in DOMAIN recorded' : recorded'[i] = step[i].outputs
  BY DEF Retry, RunInv, Live
<1>2. Shape'
  <2>1. DOMAIN step' = StepsOf(plan', DOMAIN recorded')
    BY <1>1 DEF Pending
  <2> QED BY <1>1, <2>1 DEF Shape, Live
<1>3. \A i \in Tasks' : step'[i] = NoOutcome
  BY <1>1 DEF Tasks, Pending
<1>4. \A i \in Tasks' : Sound(i)' /\ Status(i)' = "pending"
  BY <1>3 DEF NoOutcome, Sound, Status
<1>5. ASSUME NEW i \in DOMAIN recorded' PROVE Kept(i)'
  <2>1. /\ i \in plan.top /\ Status(i) = "succeeded" /\ i \in Tasks /\ Peers(i) = plan.top
        /\ plan.top \subseteq Tasks
    BY <1>1, Places
  <2>2. Sound(i) /\ Arrives(i)
    BY <2>1 DEF RunInv, Sound
  <2>3. ASSUME NEW n \in plan.needs[i], ~Lacking(i, n) PROVE Had(n)'
    <3>1. n.task \in plan.top
      BY <1>1, <2>1, NeedsAreTasks
    <3>2. Status(n.task) = "succeeded"
      BY <1>1, <2>1, <2>3, <3>1 DEF RunInv, Settled, Lacking, Gone
    <3> QED BY <1>1, <2>3, <3>1, <3>2 DEF Had, Lacking
  <2>4. Lost(i)' \subseteq Missing(i)
    BY <1>1, <2>3 DEF Lost, Missing
  <2>5. Returns(i)'
    <3>1. CASE Missing(i) = {}
      BY <2>4, <3>1 DEF Returns
    <3>2. CASE i \in plan.any /\ Inputs(i) # {}
      <4>1. PICK n \in plan.needs[i] : /\ n.port # NoPort /\ ~Lacking(i, n)
                                      /\ \A t \in Missing(i) : ~SameName(i, t, n.task)
        BY <3>2 DEF Inputs
      <4>2. \A t \in Lost(i)' : ~SameName(i, t, n.task)'
        BY <1>1, <2>4, <4>1 DEF SameName, Peers
      <4> QED BY <1>1, <2>3, <3>2, <4>1, <4>2 DEF Returns
    <3> QED BY <2>2, <3>1, <3>2 DEF Arrives
  <2>6. Status(i)' = "pending"
    <3>1. i \in Tasks'
      BY <1>1, <2>1 DEF Pending, StepsOf, Tasks
    <3> QED BY <1>4, <3>1
  <2>7. Joins' /\ i \in plan'.planner.passing => "workspace" \in recorded'[i]
    BY <1>1, <2>1, <2>2 DEF Sound, Joins
  <2> QED BY <2>5, <2>6, <2>7 DEF Kept
<1>6. Counted'
  <2>1. tries' \in 0..MaxTries
    BY <1>1, TriesAssumption DEF RunInv, Counted
  <2>2. \A l \in DOMAIN plan.body : graph.nodes[l].repeats \in Nat
    <3>1. \A l \in DOMAIN plan.body : l \in Blocks(graph)
      BY <1>1, Places DEF Shaped, Type
    <3> QED BY <1>1, <3>1, GraphsAssumption DEF Shape
  <2> QED BY <1>1, <2>1, <2>2 DEF Counted
<1>7. phase' # "over"
  BY <1>1
<1> QED BY <1>2, <1>4, <1>5, <1>6, <1>7 DEF RunInv

-----------------------------------------------------------------------------
(***************************************************************************)
(* The step as a whole.                                                    *)
(***************************************************************************)
LEMMA InitHolds ==
  ASSUME Init
  PROVE  RunInv
<1>1. DOMAIN step = {} /\ DOMAIN recorded = {} /\ DOMAIN repeat = {}
  BY DEF Init
<1>2. Shape
  BY <1>1 DEF Init, Shape, Live
<1>3. Counted
  BY <1>1, TriesAssumption DEF Init, Counted
<1> QED BY <1>1, <1>2, <1>3 DEF Init, RunInv, Tasks

\* What runs puts out what it passes on, or fails.
LEMMA RunKeeps ==
  ASSUME RunInv, NEW i \in Tasks, Run(i)
  PROVE  RunInv'
<1>1. /\ Ready(i) /\ Arrives(i) /\ i \notin DOMAIN recorded /\ Type(graph, i) # "loop"
      /\ phase = "running" /\ Status(i) = "pending"
      /\ LoopOf(graph, i) # None => Status(LoopOf(graph, i)) = "running"
  BY DEF Run, Runs, Ready
<1>2. Met(i) /\ Live
  BY <1>1, ReadyIsMet
<1>3. CASE Settles(i, Bare("failed"))
  BY <1>1, <1>2, <1>3, SettleKeeps DEF Bare
<1>4. ASSUME NEW outputs \in Puts(i),
             Settles(i, IF Taken(i, outputs) THEN Done(outputs) ELSE Bare("failed"))
      PROVE  RunInv'
  <2>1. CASE ~Taken(i, outputs)
    BY <1>1, <1>2, <1>4, <2>1, SettleKeeps DEF Bare
  <2>2. CASE Taken(i, outputs)
    <3>1. Joins /\ i \in plan.planner.passing => "workspace" \in outputs
      BY <1>1, <1>2, <1>4, PassersPutOut
    <3>2. Settles(i, Done(outputs))
      BY <1>4, <2>2
    <3> QED BY <1>1, <1>2, <3>1, <3>2, SettleKeeps DEF Done
  <2> QED BY <2>1, <2>2
<1> QED BY <1>3, <1>4 DEF Run

LEMMA ReuseKeeps ==
  ASSUME RunInv, NEW i \in Tasks, Reuse(i)
  PROVE  RunInv'
<1>1. /\ Ready(i) /\ Arrives(i) /\ i \in DOMAIN recorded /\ phase = "running" /\ Status(i) = "pending"
      /\ LoopOf(graph, i) # None => Status(LoopOf(graph, i)) = "running"
      /\ Settles(i, Done(Restored(recorded[i])))
  BY DEF Reuse, Ready
<1>2. Met(i) /\ Kept(i)
  BY <1>1, ReadyIsMet DEF RunInv
<1>3. Joins /\ i \in plan.planner.passing => "workspace" \in recorded[i]
  BY <1>2 DEF Kept
<1>4. Restored(recorded[i]) = recorded[i]
  BY DEF Restored
<1> QED BY <1>1, <1>2, <1>3, <1>4, SettleKeeps DEF Done

\* A loop that runs has not been recorded, and all it needs has settled and arrived.
LEMMA LoopsArrived ==
  ASSUME RunInv, NEW l \in Loop, RepeatOver(l)
  PROVE  /\ l \in Tasks /\ l \notin DOMAIN recorded /\ phase = "running" /\ Status(l) = "running"
         /\ Met(l) /\ Arrives(l) /\ Live
         /\ LoopOf(graph, l) = None /\ Type(graph, l) = "loop"
<1>1. l \in Tasks /\ phase = "running" /\ Status(l) = "running" /\ Live /\ Sound(l) /\ Shape
  BY DEF RepeatOver, Loop, Tasks, RunInv, Live
<1>2. LoopOf(graph, l) = None /\ Type(graph, l) = "loop"
  BY <1>1, Places DEF Sound, Shaped
<1>3. l \notin DOMAIN recorded
  BY <1>1 DEF RunInv, Kept
<1> QED BY <1>1, <1>2, <1>3 DEF Sound

LEMMA LoopKeeps ==
  ASSUME RunInv, NEW l \in Loop, BeginLoop(l) \/ StopLoop(l) \/ RepeatLoop(l) \/ EndLoop(l)
  PROVE  RunInv'
<1>1. CASE BeginLoop(l)
  <2>1. /\ Ready(l) /\ Arrives(l) /\ l \notin DOMAIN recorded /\ Repeats(l)
        /\ phase = "running" /\ Status(l) = "pending" /\ l \in Tasks
    BY <1>1 DEF BeginLoop, Runs, Ready, Loop, Tasks
  <2>2. Met(l) /\ Live
    BY <2>1, ReadyIsMet
  <2>3. repeat[l] # graph.nodes[l].repeats
    <3>1. l \in Blocks(graph) /\ graph \in Graphs
      BY <1>1 DEF BeginLoop, Type, RunInv, Shape
    <3>2. repeat[l] = 0
      BY <2>1 DEF RunInv, Counted, Loop
    <3> QED BY <3>1, <3>2, GraphsAssumption
  <2> QED BY <2>1, <2>2, <2>3, RepeatsKeep
<1>2. CASE RepeatLoop(l)
  <2>1. RepeatOver(l) /\ Repeats(l) /\ repeat[l] # graph.nodes[l].repeats
    BY <1>2 DEF RepeatLoop, Spent
  <2> QED BY <2>1, LoopsArrived, RepeatsKeep
<1>3. CASE StopLoop(l)
  <2>1. RepeatOver(l) /\ Settles(l, Bare("failed"))
    BY <1>3 DEF StopLoop
  <2> QED BY <2>1, LoopsArrived, SettleKeeps DEF Bare
<1>4. CASE EndLoop(l)
  <2>1. /\ RepeatOver(l)
        /\ \/ Settles(l, Done({"done"} \cup Along(l)))
           \/ Settles(l, Done({"exhausted"} \cup Along(l)))
           \/ Settles(l, Bare("failed"))
    BY <1>4, Zenon DEF EndLoop
  <2>2. Joins /\ l \in plan.planner.passing => "workspace" \in Along(l)
    BY <2>1, LoopsArrived, LoopsPassOn
  <2>3. CASE Settles(l, Bare("failed"))
    BY <2>1, <2>3, LoopsArrived, SettleKeeps DEF Bare
  <2>4. ASSUME NEW port, Settles(l, Done({port} \cup Along(l))) PROVE RunInv'
    <3>1. Joins /\ l \in plan.planner.passing => "workspace" \in {port} \cup Along(l)
      BY <2>2
    <3> QED BY <2>1, <2>4, <3>1, LoopsArrived, SettleKeeps DEF Done
  <2> QED BY <2>1, <2>3, <2>4
<1> QED BY <1>1, <1>2, <1>3, <1>4

LEMMA NextKeeps ==
  ASSUME RunInv, Next
  PROVE  RunInv'
<1>1. CASE Start
  BY <1>1, StartKeeps
<1>2. CASE Finish
  BY <1>2, FinishKeeps
<1>3. CASE \E i \in Tasks : Skip(i) \/ Run(i) \/ Reuse(i)
  BY <1>3, SkipKeeps, RunKeeps, ReuseKeeps
<1>4. CASE \E l \in Loop : BeginLoop(l) \/ StopLoop(l) \/ RepeatLoop(l) \/ EndLoop(l)
  BY <1>4, LoopKeeps
<1>5. CASE Retry
  BY <1>5, RetryKeeps
<1> QED BY <1>1, <1>2, <1>3, <1>4, <1>5 DEF Next, Going

LEMMA StutterKeeps ==
  ASSUME RunInv, UNCHANGED vars
  PROVE  RunInv'
<1>1. UNCHANGED <<graph, phase, plan, step, repeat, recorded, tries>>
  BY DEF vars
<1>2. Shape'
  BY <1>1, SameShape
<1>3. \A i \in Tasks : Sound(i)'
  <2>1. ASSUME NEW i \in Tasks PROVE Sound(i)'
    <3>1. Sound(i)
      BY DEF RunInv
    <3> QED BY <1>1, <3>1, Untouched DEF Sound, Status
  <2> QED BY <2>1
<1>4. \A i \in DOMAIN recorded : Kept(i)'
  BY <1>1, SameKept DEF RunInv
<1>5. Counted' /\ (phase = "over" => \A i \in plan.top : Settled(i))'
  BY <1>1 DEF RunInv, Counted, Settled, Status
<1> QED BY <1>1, <1>2, <1>3, <1>4, <1>5 DEF RunInv, Tasks

LEMMA RunInvariant == Spec => []RunInv
<1>1. Init => RunInv
  BY InitHolds
<1>2. RunInv /\ [Next]_vars => RunInv'
  BY NextKeeps, StutterKeeps
<1> QED BY <1>1, <1>2, PTL DEF Spec

-----------------------------------------------------------------------------
(***************************************************************************)
(* The theorems.  A run is in one of its states: what its tasks are, what  *)
(* became of each and how often its loops repeated fit its plan.           *)
(***************************************************************************)
THEOREM TypeCorrect == Spec => []TypeOK
<1>1. ASSUME RunInv PROVE TypeOK
  <2>1. Shape /\ Counted
    BY <1>1 DEF RunInv
  <2>2. (plan.top = {}) = (phase \in {"asked", "refused"})
    <3>1. CASE Live
      BY <2>1, <3>1 DEF Shape, Live, Accepted, Validate
    <3>2. CASE ~Live
      BY <2>1, <3>2 DEF Shape, Live, NoPlan
    <3> QED BY <3>1, <3>2
  <2>3. DOMAIN step = StepsOf(plan, DOMAIN recorded)
    <3>1. CASE Live
      BY <2>1, <3>1 DEF Shape
    <3>2. CASE ~Live
      <4>1. plan.top = {} /\ plan.body = <<>> /\ DOMAIN step = {}
        BY <2>1, <3>2 DEF Shape, NoPlan
      <4> QED BY <4>1 DEF StepsOf
    <3> QED BY <3>1, <3>2
  <2>4. ASSUME NEW i \in Tasks
        PROVE  /\ Status(i) \in {"pending", "running", "succeeded", "failed", "skipped"}
               /\ Status(i) = "running" => i \in Loop
               /\ Status(i) # "succeeded" => step[i].outputs = {}
    <3>1. Sound(i) /\ Live
      BY <1>1, <2>1 DEF RunInv, Shape, Tasks
    <3> QED BY <2>1, <3>1 DEF Sound, Shape, Loop, Tasks
  <2> QED BY <2>1, <2>2, <2>3, <2>4 DEF TypeOK, Shape, Counted
<1> QED BY <1>1, RunInvariant, PTL

(***************************************************************************)
(* What plan builds of a graph without problems passes Validate, whatever  *)
(* the graph, if no arrow crosses the edge of a loop and no block leads to *)
(* itself: a run is refused for a problem of a block only.                 *)
(***************************************************************************)
Refusal == phase = "refused" => ~Accepted(graph)

THEOREM ProblemsExplainRefusals == Spec => []PlannedIsValid
<1>1. Init => Refusal
  BY DEF Init, Refusal
<1>2. Refusal /\ [Next]_vars => Refusal'
  <2> SUFFICES ASSUME Refusal, [Next]_vars PROVE Refusal'
    OBVIOUS
  <2>1. CASE Start
    <3>1. graph' = graph /\ (phase' = "refused" => ~Accepted(graph))
      BY <2>1, Zenon DEF Start, Accept, Refuse
    <3> QED BY <3>1 DEF Refusal
  <2>2. CASE UNCHANGED <<graph, phase>>
    BY <2>2 DEF Refusal
  <2>3. CASE graph' = graph /\ phase' # "refused"
    BY <2>3 DEF Refusal
  <2>4. CASE Finish \/ Retry
    BY <2>3, <2>4 DEF Finish, Retry
  <2>5. ASSUME NEW i, Skip(i) \/ Run(i) \/ Reuse(i) PROVE UNCHANGED <<graph, phase>>
    BY <2>5 DEF Skip, Run, Reuse, Settles
  <2>6. ASSUME NEW l, BeginLoop(l) \/ StopLoop(l) \/ RepeatLoop(l) \/ EndLoop(l)
        PROVE  UNCHANGED <<graph, phase>>
    BY <2>6 DEF BeginLoop, StopLoop, RepeatLoop, EndLoop, Settles, Repeats
  <2> QED BY <2>1, <2>2, <2>4, <2>5, <2>6 DEF Next, Going, vars
<1>3. RunInv /\ Refusal => PlannedIsValid
  <2> SUFFICES ASSUME RunInv, Refusal, phase = "refused", OneLevel(graph), NoCycle(graph),
                      PlanFailures(graph) = {}
               PROVE  FALSE
    BY DEF PlannedIsValid
  <2>1. graph \in Graphs /\ ~Validate(graph, PlanOf(graph))
    BY DEF RunInv, Shape, Refusal, Accepted
  <2> QED BY <2>1, PlansAreValid
<1> QED BY <1>1, <1>2, <1>3, RunInvariant, PTL DEF Spec

(***************************************************************************)
(* The walk of include, which marks what a loop holds and does not follow  *)
(* it, ends and finds exactly what the starts lead to, whatever the graph, *)
(* if no arrow crosses the edge of a loop.                                 *)
(***************************************************************************)
LEMMA ReachedAreIncluded ==
  ASSUME NEW g \in Graphs, ValidGraph(g), OneLevel(g)
  PROVE  Reached(g) = Included(g)
<1> DEFINE first  == {Starts(g)[k] : k \in DOMAIN Starts(g)} \ {None}
           others == Runnable(g) \ first
           closed == {S \in {first \cup more : more \in SUBSET others} : ClosedUnder(g, S)}
<1>1. first \subseteq Runnable(g) /\ first = Items(Starts(g)) \cap Runnable(g)
  <2>1. /\ DOMAIN Starts(g) = Blocks(g) /\ Len(Starts(g)) = Len(g.nodes)
        /\ Blocks(g) = 1..Len(g.nodes) /\ None \notin Runnable(g)
    BY StartsInTurn, Sizes DEF Runnable
  <2>2. Items(Starts(g)) = {Starts(g)[k] : k \in Blocks(g)}
    BY <2>1 DEF Items
  <2>3. first \subseteq Runnable(g)
    BY <2>1, StartsAreOutside
  <2> QED BY <2>1, <2>2, <2>3
<1>2. first \subseteq Included(g) /\ Included(g) \subseteq Runnable(g)
  BY <1>1, WalkEnds, IncludedBlocks
<1>3. ClosedUnder(g, Included(g))
  <2> SUFFICES ASSUME NEW i \in Included(g)
               PROVE  /\ \A a \in Arrows(g) : a.from = i /\ a.to \in Runnable(g) => a.to \in Included(g)
                      /\ \A c \in Runnable(g) : i \in {CheckedAgent(g, c), LoopOf(g, c)} => c \in Included(g)
    BY DEF ClosedUnder
  <2>1. Leads(g, i) \subseteq Included(g) /\ Inside(g, i) \subseteq Included(g) /\ i # None
    BY <1>2, WalkEnds, IncludedBlocks, Sizes DEF Runnable
  <2>2. ASSUME NEW c \in Runnable(g), LoopOf(g, c) = i PROVE c \in Inside(g, i)
    BY <2>1, <2>2 DEF Inside, LoopBody, LoopOf, Runnable
  <2> QED BY <2>1, <2>2 DEF Leads
<1>4. Included(g) \in closed
  <2>1. Included(g) \ first \in SUBSET others /\ Included(g) = first \cup (Included(g) \ first)
    BY <1>2
  <2> HIDE DEF first, others
  <2> QED BY <1>3, <2>1
<1>5. \A S \in closed : Included(g) \subseteq S
  <2>1. \A S \in closed : ClosedUnder(g, S) /\ first \subseteq S
    <3> HIDE DEF first, others
    <3> QED OBVIOUS
  <2> HIDE DEF first, others, closed
  <2> QED BY <1>1, <2>1, WalkEnds
<1>6. Reached(g) = {i \in Runnable(g) : \A S \in closed : i \in S}
  BY DEF Reached
<1> HIDE DEF closed, first, others
<1> QED BY <1>2, <1>4, <1>5, <1>6

THEOREM StepsAreReached == Spec => []ReachedIsPlanned
<1>1. RunInv => ReachedIsPlanned
  <2> SUFFICES ASSUME RunInv, OneLevel(graph), Accepted(graph)
               PROVE  StepsOf(PlanOf(graph), {}) = Reached(graph) \cup PlainFetches(graph)
    BY DEF ReachedIsPlanned
  <2> DEFINE p == PlannerOf(graph)
  <2>1. graph \in Graphs /\ ValidGraph(graph)
    BY NothingFails DEF RunInv, Shape, Accepted
  <2>2. /\ p.graph = graph /\ p.included = Included(graph)
        /\ StepsOf(PlanOf(graph), {}) = Steps(p)
    BY PlannerFields, StepsOfPlan
  <2>3. Reached(graph) = Included(graph)
    BY <2>1, ReachedAreIncluded
  <2> HIDE DEF p
  <2>4. ASSUME NEW i \in Steps(p) PROVE i \in Included(graph) \cup PlainFetches(graph)
    BY <2>1, <2>2, <2>4, TasksAreIncluded DEF p
  <2>5. ASSUME NEW i \in Included(graph) PROVE i \in Steps(p)
    <3>1. CASE LoopOf(graph, i) = None
      BY <2>2, <3>1 DEF Steps, TopTasks, TopLevel
    <3>2. CASE LoopOf(graph, i) # None
      <4>1. PICK l \in Included(graph) : l = LoopOf(graph, i)
        BY <2>1, <3>2, WalkEnds
      <4>2. Type(graph, l) = "loop" /\ l \in Blocks(graph) /\ i \in Runnable(graph)
        BY <2>1, <3>2, <4>1, IncludedBlocks DEF LoopOf, Runnable
      <4>3. LoopOf(graph, l) = None
        BY <2>1, <4>2, LoopsHoldNoLoops
      <4>4. l \in Loops(p) /\ i \in LoopBody(graph, l)
        BY <2>2, <4>1, <4>2, <4>3 DEF Loops, TopLevel, LoopBody, Runnable
      <4> QED BY <2>2, <4>4 DEF Steps
    <3> QED BY <3>1, <3>2
  <2>6. PlainFetches(graph) \subseteq Steps(p)
    BY <2>2 DEF Steps, TopTasks
  <2> QED BY <2>2, <2>3, <2>4, <2>5, <2>6
<1>2. Spec => []RunInv
  BY RunInvariant
<1> QED BY <1>1, <1>2, PTL

(***************************************************************************)
(* A block is skipped for its own arrows, never for a workspace that the   *)
(* plan said would come along: what a block passes on arrives at it first. *)
(***************************************************************************)
THEOREM SkipsAreExplained == Spec => []SkippedForItsArrows
<1>1. RunInv => SkippedForItsArrows
  <2> SUFFICES ASSUME RunInv, Live, Joins, NEW i \in Tasks, Status(i) = "skipped"
               PROVE  \/ LoopOf(graph, i) \in Tasks /\ Status(LoopOf(graph, i)) = "skipped"
                      \/ \E a \in ArrowsInto(graph, i) : a.from \in Tasks /\ NotTaken(a)
                      \/ \E n \in plan.needs[i] : n.port = "session" /\ Lacking(i, n)
    BY DEF SkippedForItsArrows, Live, Joins
  <2>1. Shape /\ Sound(i)
    BY DEF RunInv
  <2>2. CASE LoopOf(graph, i) # None /\ Status(LoopOf(graph, i)) = "skipped"
    BY <2>1, <2>2, Places DEF Shaped
  <2>3. CASE ~Arrives(i)
    <3>1. PICK n \in plan.needs[i] : Lacking(i, n)
      BY <2>3 DEF Arrives, Missing
    <3>2. /\ plan.planner.graph = graph
          /\ plan.planner.passing = PassesWorkspace(graph, Included(graph))
          /\ plan.needs[i] = NeedsOf(plan.planner, i)
      BY <2>1, PlanOfTasks
    <3>3. n \in IncomingNeeds(plan.planner, i) \/ n \in ContinuedNeeds(plan.planner, i)
      BY <3>1, <3>2 DEF NeedsOf
    <3>4. n.task \in Tasks /\ Settled(n.task) /\ Sound(n.task)
      BY <2>1, <3>1, NeedsAreTasks DEF Sound, Met, RunInv
    <3>5. CASE n \in ContinuedNeeds(plan.planner, i)
      BY <3>1, <3>5 DEF ContinuedNeeds
    <3>6. CASE n \in IncomingNeeds(plan.planner, i)
      <4>1. PICK a \in ArrowsInto(graph, i) :
              /\ a.from = n.task
              /\ n.port = SourcePort(graph, a) \/ (n.port = "workspace" /\ a.from \in plan.planner.passing)
        BY <3>2, <3>6 DEF IncomingNeeds, Received
      <4>2. Gone(n.task) \/ (n.port # NoPort /\ n.port \notin step[n.task].outputs)
        BY <3>1 DEF Lacking
      <4>3. NotTaken(a)
        BY <3>4, <4>1, <4>2 DEF NotTaken, Sound, Settled, Gone
      <4> QED BY <3>4, <4>1, <4>3
    <3> QED BY <3>3, <3>5, <3>6
  <2> QED BY <2>1, <2>2, <2>3 DEF Sound
<1> QED BY <1>1, RunInvariant, PTL

(***************************************************************************)
(* What checkTemplate accepted of a block that takes all of its arrows     *)
(* arrives in every run of the graph, in every repeat and in a retry.      *)
(***************************************************************************)
LEMMA AcceptedBlocks ==
  ASSUME NEW g \in Graphs, PlanFailures(g) = {}, NEW i \in Steps(PlannerOf(g)), i \notin PlainFetches(g)
  PROVE  ~BlockFails(PlannerOf(g), i)
<1> DEFINE p == PlannerOf(g)
<1>1. p.graph = g /\ p.included = Included(g)
  BY PlannerFields
<1>2. BlockFailures(p) = {} /\ ValidGraph(g)
  BY NothingFails
<1> HIDE DEF p
<1>3. CASE i \in TopLevel(p)
  BY <1>2, <1>3 DEF BlockFailures, p
<1>4. ASSUME NEW l \in Loops(p), i \in LoopBody(g, l) PROVE ~BlockFails(p, i)
  <2>1. l \in TopLevel(p) /\ Type(g, l) = "loop"
    BY <1>1 DEF Loops
  <2>2. ~BlockFails(p, l)
    BY <1>2, <2>1 DEF BlockFailures
  <2>3. ~LoopFails(p, l)
    BY <1>1, <2>1, <2>2 DEF BlockFails
  <2>4. LoopOf(g, i) = l /\ i \in Blocks(g)
    BY <1>4 DEF LoopBody
  <2> QED BY <1>1, <1>2, <1>4, <2>3, <2>4 DEF BlockFailures
<1>5. i \in TopTasks(p) \/ \E l \in Loops(p) : i \in LoopBody(g, l)
  BY <1>1 DEF Steps, p
<1> QED BY <1>1, <1>3, <1>4, <1>5 DEF TopTasks, p

THEOREM PromisedArrives == Spec => []PlaceholdersHaveValues
<1>1. RunInv => PlaceholdersHaveValues
  <2> SUFFICES ASSUME RunInv, NEW i \in Tasks, Ran(i), i \notin plan.any, NEW use \in Uses(i)
               PROVE  HasValue(i, use)
    BY DEF PlaceholdersHaveValues
  <2> DEFINE p == plan.planner
  <2>1. Shape /\ Live /\ Sound(i)
    BY DEF RunInv, Shape, Tasks
  <2>2. /\ p = PlannerOf(graph) /\ p.graph = graph
        /\ i \in Steps(p) /\ plan.needs[i] = NeedsOf(p, i) /\ graph \in Graphs /\ ValidGraph(graph)
    BY <2>1, PlanOfTasks DEF Shape
  <2>3. Missing(i) = {}
    BY <2>1 DEF Sound, Ran, Arrives
  <2> HIDE DEF p
  <2>4. i \in Blocks(graph)
    BY <2>2, StepsAreBlocks DEF PlainFetches, Runnable
  <2>5. Type(graph, i) \in {"agent", "command", "action"}
    BY <2>2, <2>4, GraphsAssumption DEF Uses
  <2>6. i \notin PlainFetches(graph)
    BY <2>5 DEF PlainFetches, Flagged
  <2>7. ~BlockFails(p, i)
    BY <2>1, <2>2, <2>6, AcceptedBlocks DEF Shape, Accepted
  <2>8. \A n \in IncomingNeeds(p, i) : n.port # NoPort => n \in Inputs(i)
    <3>1. IncomingNeeds(p, i) \subseteq plan.needs[i]
      BY <2>2, <2>5, <2>6 DEF NeedsOf
    <3> QED BY <3>1, <2>3 DEF Inputs, Missing
  <2>9. ~WaitsForAny(p, i) \/ Type(graph, i) = "action"
    <3>1. i \notin PlanOf(graph).any
      BY <2>1 DEF Shape
    <3> QED BY <2>2, <2>5, <3>1, PlanFields
  <2>10. FitsTemplate(p, i, FALSE)
    <3>1. CASE Type(graph, i) = "agent"
      <4>1. FitsTemplate(p, i, WaitsForAny(p, i))
        BY <2>2, <2>7, <3>1 DEF BlockFails, AgentFails
      <4> QED BY <2>9, <3>1, <4>1 DEF FitsTemplate
    <3>2. CASE Type(graph, i) = "command"
      <4>1. FitsTemplate(p, i, WaitsForAny(p, i))
        BY <2>2, <2>7, <3>2 DEF BlockFails, CommandFails
      <4> QED BY <2>9, <3>2, <4>1 DEF FitsTemplate
    <3>3. CASE Type(graph, i) = "action"
      BY <2>2, <2>7, <3>3 DEF BlockFails, ActionFails
    <3> QED BY <2>5, <3>1, <3>2, <3>3
  <2>11. \/ use = "workspace" /\ ReceivesWorkspace(p, i)
         \/ use = "result" /\ Cardinality(ResultNames(p, i)) = 1
         \/ use \notin {"workspace", "result"} /\ use \in ResultNames(p, i)
    <3>1. CASE use \in graph.nodes[i].uses
      BY <2>2, <2>10, <3>1 DEF FitsTemplate, Node
    <3>2. CASE graph.nodes[i].action \in WorksIn /\ use = "workspace"
      <4>1. Type(graph, i) = "action"
        BY <2>2, <2>4, <3>2, GraphsAssumption
      <4> QED BY <2>2, <2>7, <3>2, <4>1 DEF BlockFails, ActionFails, Node
    <3> QED BY <3>1, <3>2 DEF Uses
  <2>12. CASE use = "workspace"
    <3>1. PICK n \in IncomingNeeds(p, i) : n.port = "workspace"
      BY <2>11, <2>12 DEF ReceivesWorkspace
    <3> QED BY <2>8, <2>12, <3>1 DEF HasValue, NoPort
  <2>13. CASE use = "result"
    <3>1. ResultNames(p, i) # {}
      <4>1. Cardinality(ResultNames(p, i)) = 1
        BY <2>11, <2>13
      <4>2. Cardinality({}) = 0
        BY FS_EmptySet
      <4> QED BY <4>1, <4>2
    <3>2. PICK n \in IncomingNeeds(p, i) : n.port \notin {NoPort, "workspace", "session"}
      BY <3>1 DEF ResultNames
    <3> QED BY <2>8, <2>13, <3>2 DEF HasValue
  <2>14. CASE use \notin {"workspace", "result"}
    <3>1. PICK n \in IncomingNeeds(p, i) : /\ n.port \notin {NoPort, "workspace", "session"}
                                           /\ Node(p, n.task).name = use
      BY <2>11, <2>14 DEF ResultNames
    <3> QED BY <2>2, <2>8, <2>14, <3>1 DEF HasValue, Node
  <2> QED BY <2>12, <2>13, <2>14
<1> QED BY <1>1, RunInvariant, PTL

(***************************************************************************)
(* What a step that succeeded put out is given back in every retry, for    *)
(* all it arrived with is recorded with it.                                *)
(***************************************************************************)
THEOREM NothingIsLost == Spec => []ReusedGiveBack
<1>1. RunInv => ReusedGiveBack
  <2> SUFFICES ASSUME RunInv, phase = "over", NEW i \in DOMAIN recorded
               PROVE  step[i] = Done(recorded[i])
    BY DEF ReusedGiveBack
  <2>1. i \in plan.top /\ Settled(i) /\ Kept(i)
    BY DEF RunInv, Shape, Live
  <2> QED BY <2>1 DEF Kept, Settled
<1> QED BY <1>1, RunInvariant, PTL

=============================================================================
