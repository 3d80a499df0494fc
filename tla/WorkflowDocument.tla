-------------------------- MODULE WorkflowDocument --------------------------
(***************************************************************************)
(* The file a workflow is kept in and the graph it is drawn as: what the   *)
(* editor saves (BuildWorkflowYAML in internal/app/workflow.go) is read    *)
(* back to be edited, to be put on a schedule and to be run                *)
(* (ParseWorkflowYAML in workflow_import.go).                              *)
(*                                                                         *)
(* A block has an id in the graph, a UUID or what the file called it.  In  *)
(* the file it has an identifier made from its name: the name's slug, with *)
(* a number when the slug is taken.  A slug is here its words and the      *)
(* numbers after them, "agent-2" is "agent" and 2, so that a slug may end  *)
(* in a number of its own; a name is its slug and whether it               *)
(* is written like it.  What a block is set to goes through unchanged, and *)
(* is left out, the block that ends a loop excepted.                       *)
(***************************************************************************)
EXTENDS Integers, Sequences, SequencesExt, Functions, FiniteSets

CONSTANTS
  Words,      \* what names are made of
  Names,      \* what the blocks may be named
  MaxBlocks,  \* how many blocks a graph may have, which bounds the model,
  MaxLinks    \* and how many arrows and blocks that end a loop, together

Slug(words, numbers) == [words |-> words, numbers |-> numbers]
Slugs   == [words : Words, numbers : Seq(Nat)]
Nowhere == Slug("", <<>>)                    \* no parent, or no block that ends it
Blank   == [slug |-> Nowhere, plain |-> TRUE]  \* a name of no characters

ASSUME BoundAssumption == MaxBlocks \in Nat /\ MaxLinks \in Nat

ASSUME WordsAssumption == {"", "node", "uuid"} \subseteq Words

ASSUME NamesAssumption ==
  /\ Names \subseteq [slug : Slugs, plain : BOOLEAN]
  /\ \A name \in Names \ {Blank} : name.slug # Nowhere

Uuid(i) == Slug("uuid", <<i>>)

NoGraph == [blocks |-> <<>>, arrows |-> <<>>]

VARIABLES
  graph,    \* what the editor shows
  file,     \* the saved entries, in the file's order
  saved,    \* history: the graph the file was saved from
  settled   \* history: whether that graph had been read from a file

vars == <<graph, file, saved, settled>>

Ids(g) == {g.blocks[i].id : i \in DOMAIN g.blocks}

-----------------------------------------------------------------------------
(***************************************************************************)
(* Identifiers: `used` counts how often a slug was asked for, and every    *)
(* identifier given out counts as once.                                    *)
(***************************************************************************)
UsedCount(used, slug) == IF slug \in DOMAIN used THEN used[slug] ELSE 0
SlugOf(name)          == IF name = Blank THEN Slug("node", <<>>) ELSE name.slug
Numbered(slug, n)     == Slug(slug.words, Append(slug.numbers, n))

MutNoSuffix(used, slug) == slug
Identifier(used, slug) ==
  IF UsedCount(used, slug) > 0 THEN Numbered(slug, UsedCount(used, slug) + 1) ELSE slug

GiveOut(given, block) ==
  LET slug == SlugOf(block.name)
      key  == Identifier(given.used, slug)
  IN [used |-> [x \in DOMAIN given.used \cup {slug, key} |->
                  IF x = key THEN 1
                  ELSE IF x = slug THEN UsedCount(given.used, slug) + 1 ELSE given.used[x]],
      keys |-> [id \in DOMAIN given.keys \cup {block.id} |->
                  IF id = block.id THEN key ELSE given.keys[id]]]

\* In the order of the graph.
GivenOut(g) ==
  LET given[n \in 0..Len(g.blocks)] ==
        IF n = 0 THEN [used |-> <<>>, keys |-> <<>>] ELSE GiveOut(given[n - 1], g.blocks[n])
  IN given

Identifiers(g) == GivenOut(g)[Len(g.blocks)].keys

-----------------------------------------------------------------------------
(***************************************************************************)
(* Saving: a block is written under its identifier, with its name when it  *)
(* differs, the blocks it needs, and its children under it.                *)
(***************************************************************************)
\* The numbers up to n that S has, in their order.
Ascending(S, n) ==
  LET up[k \in 0..n] ==
        IF k = 0 THEN <<>> ELSE IF k \in S THEN Append(up[k - 1], k) ELSE up[k - 1]
  IN up[n]

Into(g, id) ==
  LET into == Ascending({k \in DOMAIN g.arrows : g.arrows[k].to = id}, Len(g.arrows))
  IN [k \in DOMAIN into |-> g.arrows[into[k]]]

Entry(g, keys, block) ==
  LET into == Into(g, block.id) IN
  [key    |-> keys[block.id],
   name   |-> IF block.name = [slug |-> keys[block.id], plain |-> TRUE] THEN Blank ELSE block.name,
   parent |-> IF block.parent = Nowhere THEN Nowhere ELSE keys[block.parent],
   until  |-> IF block.until = Nowhere THEN Nowhere ELSE keys[block.until],
   needs  |-> [i \in DOMAIN into |-> [from |-> keys[into[i].from], port |-> into[i].port]]]

Inside(g, id) == Ascending({i \in DOMAIN g.blocks : g.blocks[i].parent = id}, Len(g.blocks))

\* A block is followed by what is inside it, and that by what comes after it.
EmitNode(g, emitted) ==
  IF emitted.todo = <<>> THEN emitted
  ELSE [done |-> Append(emitted.done, Head(emitted.todo)),
        todo |-> Inside(g, g.blocks[Head(emitted.todo)].id) \o Tail(emitted.todo)]

Emitted(g) ==
  LET emitted[n \in 0..Len(g.blocks)] ==
        IF n = 0 THEN [done |-> <<>>, todo |-> Inside(g, Nowhere)] ELSE EmitNode(g, emitted[n - 1])
  IN emitted

FileOrder(g) == Emitted(g)[Len(g.blocks)].done

BuildWorkflowYAML(g) ==
  LET keys  == Identifiers(g)
      order == FileOrder(g)
  IN [i \in DOMAIN order |-> Entry(g, keys, g.blocks[order[i]])]

-----------------------------------------------------------------------------
(***************************************************************************)
(* Reading it back: identifiers become ids, and each need an arrow.        *)
(***************************************************************************)
Keys(entries) == {entries[i].key : i \in DOMAIN entries}

DeclaredOnce(entries) == \A i, j \in DOMAIN entries : entries[i].key = entries[j].key => i = j
NeedsAreKnown(entries) ==
  \A i \in DOMAIN entries : \A k \in DOMAIN entries[i].needs : entries[i].needs[k].from \in Keys(entries)
CanParse(entries) == DeclaredOnce(entries) /\ NeedsAreKnown(entries)

ImportedNode(entry) ==
  [id     |-> entry.key,
   name   |-> IF entry.name = Blank THEN [slug |-> entry.key, plain |-> TRUE] ELSE entry.name,
   parent |-> entry.parent,
   until  |-> entry.until]

MutPrepended(entry) ==
  Reverse([i \in DOMAIN entry.needs |-> [from |-> entry.needs[i].from, to |-> entry.key, port |-> entry.needs[i].port]])
ImportedNeeds(entry) ==
  [i \in DOMAIN entry.needs |-> [from |-> entry.needs[i].from, to |-> entry.key, port |-> entry.needs[i].port]]

AllNeeds(entries) ==
  LET needs[n \in 0..Len(entries)] ==
        IF n = 0 THEN <<>> ELSE needs[n - 1] \o ImportedNeeds(entries[n])
  IN needs

ParseWorkflowYAML(entries) ==
  [blocks |-> [i \in DOMAIN entries |-> ImportedNode(entries[i])],
   arrows |-> AllNeeds(entries)[Len(entries)]]

-----------------------------------------------------------------------------
(***************************************************************************)
(* The graphs the editor draws: blocks in the order they were added,       *)
(* inside one another, with arrows, one for a pair, and loops ended by one *)
(* of the other blocks.  An arrow is made between blocks of one level, or  *)
(* out of a container or into one; but the blocks are moved in and out of  *)
(* containers afterwards and keep their arrows, and a block that ends a    *)
(* loop may be taken out of it.  So any two blocks may come to be joined.  *)
(***************************************************************************)
Nested(parents) ==
  \E depth \in [DOMAIN parents -> 1..MaxBlocks] :
    \A i \in DOMAIN parents : parents[i] # 0 => depth[parents[i]] < depth[i]

Joining(n) == {a \in (1..n) \X (1..n) \X {"only", "second"} : a[1] # a[2]}

Ending(n, most) ==
  {u \in [1..n -> 0..n] : /\ \A i \in 1..n : u[i] # i
                         /\ Cardinality({i \in 1..n : u[i] # 0}) <= most}

Apart(arrows) ==
  \A k, l \in DOMAIN arrows : {arrows[k][1], arrows[k][2]} = {arrows[l][1], arrows[l][2]} => k = l

IdAt(i) == IF i = 0 THEN Nowhere ELSE Uuid(i)

Drawn(names, parents, arrows, untils) ==
  [blocks |-> [i \in DOMAIN names |->
                 [id |-> Uuid(i), name |-> names[i], parent |-> IdAt(parents[i]), until |-> IdAt(untils[i])]],
   arrows |-> [k \in DOMAIN arrows |->
                 [from |-> Uuid(arrows[k][1]), to |-> Uuid(arrows[k][2]), port |-> arrows[k][3]]]]

Init ==
  /\ \E n \in 1..MaxBlocks, m \in 0..MaxLinks :
       \E parents \in {p \in [1..n -> 0..n] : Nested(p)} :
         \E arrows \in {a \in [1..m -> Joining(n)] : Apart(a)},
            untils \in Ending(n, MaxLinks - m),
            names \in [1..n -> Names] :
           graph = Drawn(names, parents, arrows, untils)
  /\ file = <<>>
  /\ saved = NoGraph
  /\ settled = FALSE

\* The editor saves what it shows (WorkflowStore.Save).
Save ==
  /\ file' = BuildWorkflowYAML(graph)
  /\ saved' = graph
  /\ settled' = (Ids(graph) \cap {Uuid(i) : i \in 1..MaxBlocks} = {})
  /\ UNCHANGED graph

\* It opens the file, or says that it cannot.
Open ==
  /\ file # <<>> /\ CanParse(file)
  /\ graph' = ParseWorkflowYAML(file)
  /\ UNCHANGED <<file, saved, settled>>

\* The schedules page reads the file, sets its schedule and saves it.
SetSchedule ==
  /\ file # <<>> /\ CanParse(file)
  /\ file' = BuildWorkflowYAML(ParseWorkflowYAML(file))
  /\ saved' = ParseWorkflowYAML(file)
  /\ settled' = TRUE
  /\ UNCHANGED graph

Next == Save \/ Open \/ SetSchedule

Spec == Init /\ [][Next]_vars

-----------------------------------------------------------------------------
\* The same drawing under other ids: the same blocks inside one another with
\* the same names, and into each the same arrows in the same order.
Moved(f, id) == IF id = Nowhere THEN Nowhere ELSE f[id]

SameUnder(f, g, h) ==
  /\ \A i \in DOMAIN g.blocks : \E j \in DOMAIN h.blocks :
       /\ h.blocks[j].id = f[g.blocks[i].id]
       /\ g.blocks[i].name # Blank => h.blocks[j].name = g.blocks[i].name
       /\ h.blocks[j].parent = Moved(f, g.blocks[i].parent)
       /\ h.blocks[j].until = Moved(f, g.blocks[i].until)
  /\ \A id \in Ids(g) :
       Into(h, f[id]) = [k \in DOMAIN Into(g, id) |->
                           [from |-> f[Into(g, id)[k].from], to |-> f[id], port |-> Into(g, id)[k].port]]

SameDrawing(g, h) == \E f \in Bijection(Ids(g), Ids(h)) : SameUnder(f, g, h)

(***************************************************************************)
(* workflow_import.go: the file is read back as it was drawn, "so a        *)
(* workflow drawn in the editor can run headless", when no name is another *)
(* name with a number after it, nor one that unnamed blocks are given.     *)
(***************************************************************************)
ReadsAsDrawn == file # <<>> => CanParse(file) /\ SameDrawing(saved, ParseWorkflowYAML(file))

(***************************************************************************)
(* identifierSet: "collision suffixes can never collide with a later slug  *)
(* or a previous suffix".                                                  *)
(***************************************************************************)
SuffixesNeverCollide == DeclaredOnce(file)

(***************************************************************************)
(* Identifiers are given out in the order of the drawing and read in the   *)
(* order of the file; once a graph that was read is saved, reading and     *)
(* saving it changes nothing any more.                                     *)
(***************************************************************************)
Settles == [][settled /\ settled' => file' = file]_vars

(***************************************************************************)
(* SetSchedule: "leaving the graph it is on alone", its identifiers too.   *)
(***************************************************************************)
KeepsIdentifiers == [][SetSchedule => file' = file]_vars
=============================================================================
