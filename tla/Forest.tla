-------------------------------- MODULE Forest --------------------------------
(***************************************************************************)
(* Trees of storages or of object types, as a table whose rows name their  *)
(* parent.  Nothing here is recursive: what lies below a row is a least    *)
(* set, as it is for WITH RECURSIVE.  TreeLoops has the code that builds   *)
(* and walks the trees, and compares it with these definitions.            *)
(***************************************************************************)

NoParent == "no parent"

ChildrenOf(v, n) == {c \in DOMAIN v : v[c].parent = n}

\* The rows of v that have everything below n among them.
ClosedBelow(v, n, S) == \A c \in DOMAIN v : v[c].parent \in S \cup {n} => c \in S

\* The rows below n: its children, and the children of those.
Below(v, n) ==
  {d \in DOMAIN v : \A S \in SUBSET DOMAIN v : ClosedBelow(v, n, S) => d \in S}

\* Mutant: every row is in the tree, wherever its ancestors are.
EveryRow(v) == v

\* A row whose ancestors are not all there is in no tree, and neither is one
\* of a cycle: the trees are built from the rows without a parent.
Listed(v) == [n \in Below(v, NoParent) |-> v[n]]

\* a is n itself or one of its ancestors.
HasAncestor(v, n, a) == n = a \/ n \in Below(v, a)

RootsOf(v, n) == {r \in DOMAIN v : v[r].parent = NoParent /\ HasAncestor(v, n, r)}
=============================================================================
