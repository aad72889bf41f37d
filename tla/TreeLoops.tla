------------------------------- MODULE TreeLoops -------------------------------
(***************************************************************************)
(* From a table to trees and back: the recursion of the server that builds *)
(* the trees of storages or of object types, and the loops of the browser  *)
(* that take them apart.  Each stage works on what the one before has left;*)
(* one action is one call, one return or one turn of a loop.  Lists are    *)
(* sets where nothing depends on their order.                              *)
(***************************************************************************)
EXTENDS Forest, Naturals, Sequences, FiniteSets

CONSTANT Nodes   \* ids of rows

ASSUME NodesAssumption == NoParent \notin Nodes

\* Any rows: with cycles, and with parents that the query has left out.
Sources == UNION {[S -> [parent : Nodes \cup {NoParent}]] : S \in SUBSET Nodes}

VARIABLES
  locs,      \* the rows that the query returned
  stage,     \* what runs
  calls,     \* calls of buildSubTree that have not returned, the outermost first
  kids,      \* the trees: the children of each element, those of NoParent the roots
  todo,      \* locToAdd, then the entries of map, then the level a view looks at
  map,       \* treesMap$: its keys
  entry,     \* storagesWithParents$: the entry in work, NoParent if none
  elem,      \* where its loop has come to, NoParent if nowhere
  path,      \* its chain of elements, from elem's child down to the entry
  returnMap, \* the chains that are done
  opened     \* nodes the view has expanded

treeVars == <<locs, stage, calls, kids, todo, map, entry, elem, path, returnMap, opened>>

Elements == Nodes \cup {NoParent}

TreeTypeOK ==
  /\ locs \in Sources
  /\ stage \in {"build", "flatten", "climb", "open", "over"}
  /\ calls \in Seq([id : Elements, left : SUBSET Nodes, made : SUBSET Nodes])
  /\ DOMAIN kids \subseteq Elements /\ kids \in [DOMAIN kids -> SUBSET Nodes]
  /\ todo \subseteq Nodes /\ map \subseteq Nodes /\ opened \subseteq Nodes
  /\ entry \in Elements /\ elem \in Elements
  /\ path \in Seq(Nodes)
  /\ DOMAIN returnMap \subseteq Nodes /\ returnMap \in [DOMAIN returnMap -> Seq(Nodes)]

\* map.set(k, x)
Set(m, k, x) == [n \in DOMAIN m \cup {k} |-> IF n = k THEN x ELSE m[n]]

EmptyMap == [n \in {} |-> {}]

\* A call with its children to build and those that are built.
CallOf(n) == [id |-> n, left |-> ChildrenOf(locs, n), made |-> {}]

TreesInit ==
  /\ locs \in Sources
  /\ stage = "build"
  /\ calls = <<CallOf(NoParent)>>
  /\ kids = EmptyMap /\ returnMap = EmptyMap
  /\ todo = {} /\ map = {} /\ opened = {}
  /\ entry = NoParent /\ elem = NoParent /\ path = <<>>

----------------------------------------------------------------------------
\* buildSubTree, from the rows without a parent.

Top == calls[Len(calls)]

Call ==
  /\ stage = "build"
  /\ \E c \in Top.left :
       calls' = Append([calls EXCEPT ![Len(calls)].left = @ \ {c}], CallOf(c))
  /\ UNCHANGED <<locs, stage, kids, todo, map, entry, elem, path, returnMap, opened>>

Return ==
  /\ stage = "build" /\ Len(calls) > 1
  /\ Top.left = {}
  /\ kids' = Set(kids, Top.id, Top.made)
  /\ calls' = [i \in 1 .. Len(calls) - 1 |->
                 IF i = Len(calls) - 1
                 THEN [calls[i] EXCEPT !.made = @ \cup {Top.id}] ELSE calls[i]]
  /\ UNCHANGED <<locs, stage, todo, map, entry, elem, path, returnMap, opened>>

\* The answer: the browser starts treesMap$ with the roots.
Answer ==
  /\ stage = "build" /\ Len(calls) = 1
  /\ Top.left = {}
  /\ kids' = Set(kids, Top.id, Top.made)
  /\ calls' = <<>>
  /\ stage' = "flatten" /\ todo' = Top.made
  /\ UNCHANGED <<locs, map, entry, elem, path, returnMap, opened>>

----------------------------------------------------------------------------
\* treesMap$: one element at a time, its children join those to do.

\* Mutant: the element is read, not taken from the list.
TakenNever(elements, e) == elements \cup kids[e]

Taken(elements, e) == (elements \ {e}) \cup kids[e]

Flatten ==
  /\ stage = "flatten"
  /\ \E e \in todo : todo' = Taken(todo, e) /\ map' = map \cup {e}
  /\ UNCHANGED <<locs, stage, calls, kids, entry, elem, path, returnMap, opened>>

Flattened ==
  /\ stage = "flatten" /\ todo = {}
  /\ stage' = "climb" /\ todo' = map
  /\ UNCHANGED <<locs, calls, kids, map, entry, elem, path, returnMap, opened>>

----------------------------------------------------------------------------
\* storagesWithParents$, typesWithParents$: from each entry up to its root.

NextEntry ==
  /\ stage = "climb" /\ elem = NoParent
  /\ \E n \in todo : todo' = todo \ {n} /\ entry' = n /\ elem' = n
  /\ path' = <<>>
  /\ UNCHANGED <<locs, stage, calls, kids, map, returnMap, opened>>

\* Mutant: the loop looks up the parent of its entry each time.
ParentOfEntry(e) == IF locs[entry].parent \in map THEN locs[entry].parent ELSE NoParent

\* m.get(elem.parentStorageId)
GetParent(e) == IF locs[e].parent \in map THEN locs[e].parent ELSE NoParent

\* The copy of an element with the chain as its only child.
Grown(chain, e) == <<e>> \o chain

Climb ==
  /\ stage = "climb" /\ elem # NoParent
  /\ path' = Grown(path, elem)
  /\ elem' = GetParent(elem)
  /\ returnMap' = IF elem' = NoParent THEN Set(returnMap, entry, path') ELSE returnMap
  /\ UNCHANGED <<locs, stage, calls, kids, todo, map, entry, opened>>

Climbed ==
  /\ stage = "climb" /\ elem = NoParent /\ todo = {}
  /\ stage' = "open" /\ todo' = kids[NoParent]
  /\ UNCHANGED <<locs, calls, kids, map, entry, elem, path, returnMap, opened>>

\* The end of a chain of single children.
lastChild(chain) == chain[Len(chain)]

objectHasParent(chain, n) == \E i \in DOMAIN chain : chain[i] = n

\* Mutant: the root of the page is shown too.
LabelWithRoot(chain, root) ==
  {chain[i] : i \in {j \in DOMAIN chain : \A k \in 1 .. j - 1 : chain[k] # root}}

\* The elements whose names are shown: those before the root of the page.
Label(chain, root) ==
  {chain[i] : i \in {j \in DOMAIN chain : \A k \in 1 .. j : chain[k] # root}}

----------------------------------------------------------------------------
\* The nodes a tree view opens when expandSingle is set: a lone root, and the
\* only way down from it.

Expand ==
  /\ stage = "open"
  /\ \E t \in todo : todo = {t} /\ opened' = opened \cup {t} /\ todo' = kids[t]
  /\ UNCHANGED <<locs, stage, calls, kids, map, entry, elem, path, returnMap>>

Shown ==
  /\ stage = "open" /\ \A t \in todo : todo # {t}
  /\ stage' = "over"
  /\ UNCHANGED <<locs, calls, kids, todo, map, entry, elem, path, returnMap, opened>>

----------------------------------------------------------------------------

TreesNext ==
  \/ Call \/ Return \/ Answer
  \/ Flatten \/ Flattened
  \/ NextEntry \/ Climb \/ Climbed
  \/ Expand \/ Shown

TreesSpec == TreesInit /\ [][TreesNext]_treeVars

----------------------------------------------------------------------------
\* What the loops compute.

\* The server's trees hold the rows that Listed names and no other, with all
\* their children: rows of a cycle, or below a row that is left out, are in
\* none, and the recursion never meets them.
TreesAreTable ==
  stage # "build" =>
    /\ DOMAIN kids = DOMAIN Listed(locs) \cup {NoParent}
    /\ \A n \in DOMAIN kids : kids[n] = ChildrenOf(locs, n)

\* No element is built while or after it is built, none is put on locToAdd
\* that is there or has been taken from it: a set may stand for that list.
NothingTwice ==
  /\ stage = "build" =>
       \A i \in DOMAIN calls :
         /\ calls[i].id \notin DOMAIN kids
         /\ \A j \in DOMAIN calls : calls[i].id = calls[j].id => i = j
  /\ stage = "flatten" => /\ todo \cap map = {}
                          /\ \A e \in todo : kids[e] \cap (todo \cup map) = {}

\* treesMap$ has an entry for each element of the trees.
MapIsTrees ==
  stage \notin {"build", "flatten"} => map = DOMAIN Listed(locs)

\* From the root, through the parent of each, to the entry itself; up to each
\* place a chain holds the ancestors of the element there, each once.
PathsAreAncestries ==
  /\ stage \in {"open", "over"} => DOMAIN returnMap = map
  /\ \A n \in DOMAIN returnMap :
       LET chain == returnMap[n] IN
       /\ Len(chain) > 0 /\ lastChild(chain) = n
       /\ locs[chain[1]].parent = NoParent
       /\ \A i \in 2 .. Len(chain) : locs[chain[i]].parent = chain[i - 1]
       /\ \A a \in Nodes : objectHasParent(chain, a) <=> HasAncestor(locs, n, a)
       /\ \A i, j \in DOMAIN chain : chain[i] = chain[j] => i = j

\* On the page of a storage the name of a place under it is shown down to that
\* storage: the storage's own ancestors and nothing else.
LabelsEndAtRoot ==
  \A n \in DOMAIN returnMap : \A root \in Nodes :
    objectHasParent(returnMap[n], root) =>
      Label(returnMap[n], root) = {a \in Nodes \ {root} : HasAncestor(locs, root, a)}

\* A node is opened when neither it nor an ancestor of it has a sibling.
OnlyWay ==
  {n \in map : \A a \in map :
     HasAncestor(locs, n, a) => ChildrenOf(locs, locs[a].parent) = {a}}

OpenedIsOnlyWay == stage = "over" => opened = OnlyWay

\* What the browser takes the trees of any table apart into is what the table
\* says.
TakenApart ==
  /\ TreesAreTable /\ NothingTwice /\ MapIsTrees
  /\ PathsAreAncestries /\ LabelsEndAtRoot /\ OpenedIsOnlyWay

\* What is left to do in a stage: elements to build and to call, to flatten, to
\* climb from and to climb to, to open.
Work ==
  LET inTrees == Below(locs, NoParent)
      called == {calls[i].id : i \in DOMAIN calls}
      above == {a \in inTrees : HasAncestor(locs, elem, a)}
  IN CASE stage = "build" ->
            Cardinality(inTrees \ DOMAIN kids) + Cardinality(inTrees \ (DOMAIN kids \cup called))
       [] stage = "flatten" -> Cardinality(inTrees \ map)
       [] stage = "climb" -> Cardinality(todo) * (Cardinality(inTrees) + 1) + Cardinality(above)
       [] stage = "open" -> Cardinality(inTrees \ opened)
       [] stage = "over" -> 0

After == [build |-> 4, flatten |-> 3, climb |-> 2, open |-> 1, over |-> 0]

\* No call and no turn of a loop is in vain: each leaves less to do, or ends its
\* stage.  A loop that goes round a cycle, or takes an element again, would not.
WorkShrinks ==
  [][\/ After[stage'] < After[stage]
     \/ stage' = stage /\ Work' < Work]_treeVars

\* The recursion and the loops end, on every table.
LoopsEnd == <>(stage = "over")
=============================================================================
