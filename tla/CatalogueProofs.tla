--------------------------- MODULE CatalogueProofs ---------------------------
(***************************************************************************)
(* Theorems about Catalogue, for every set of rows, every first table and  *)
(* every bound: the browser's copy is the table when nothing is on its     *)
(* way, rows stay a forest, and a storage has its parent's event.  Then    *)
(* theorems about TreeLoops, for any rows: the trees and what the browser  *)
(* takes them apart into are what Forest says of the table.                *)
(***************************************************************************)
EXTENDS MCCatalogue, FiniteSetTheorems, TLAPS

(* The parts of the invariant. *)

\* What the browser has heard of was in the table, and is never unmade.
SeenRows ==
  \A copy \in {trees, answer, request.basis} : \A n \in DOMAIN copy : rows[n].state # "none"

\* A request is about rows of the tree it was decided on, and what the page
\* offers: no descendant as a parent, and a parent's event.
Decided ==
  /\ request.stage # "none" => request.op # "none"
  /\ request.op \in {"update", "delete"} => request.id \in DOMAIN request.basis
  /\ request.op # "none" /\ request.parent # NoParent =>
       /\ request.parent \in DOMAIN request.basis
       /\ request.op = "update" => ~HasAncestor(request.basis, request.parent, request.id)
       /\ kind = "storage" => \E r \in RootsOf(request.basis, request.parent) :
                                 request.scope = request.basis[r].scope

\* Between the two statements of an update the row has its new scope, and
\* only its children may differ from it.
HalfDone ==
  ~excused /\ request.stage = "row" /\ kind = "storage" =>
    /\ request.id \in InTable(kind, rows) /\ rows[request.id].scope = request.scope
    /\ \A n \in InTable(kind, rows) :
         rows[n].parent \in Ids \ {request.id} => rows[n].scope = rows[rows[n].parent].scope

\* Unless a change is told to nobody, the copy is the table, or the answer
\* is, or a GET is due.
NewsUnderWay ==
  \/ silent \/ ended \/ stream = "lost" \/ told \cap Listened # {}
  \/ request.stage \in {"row", "made"}
  \/ ask = "asked"
  \/ ask = "none" /\ trees = Tree
  \/ ask = "read" /\ answer = Tree

RowsInv ==
  /\ CatalogueTypeOK /\ SeenRows /\ Decided /\ ParentsKept(kind, rows)
  /\ KeepsForest /\ ScopeInherited /\ HalfDone

----------------------------------------------------------------------------
\* What lies below a row.

LEMMA BelowClosed ==
  ASSUME NEW v, NEW n, NEW c \in DOMAIN v, v[c].parent \in Below(v, n) \cup {n}
  PROVE  c \in Below(v, n)
<1> SUFFICES ASSUME NEW S \in SUBSET DOMAIN v, ClosedBelow(v, n, S) PROVE c \in S
  BY DEF Below
<1>1. Below(v, n) \subseteq S
  BY DEF Below
<1> QED
  BY <1>1 DEF ClosedBelow

LEMMA BelowLeast ==
  ASSUME NEW v, NEW n, NEW S \in SUBSET DOMAIN v, ClosedBelow(v, n, S)
  PROVE  Below(v, n) \subseteq S
  BY DEF Below

LEMMA BelowUnfold ==
  ASSUME NEW v, NEW n, NEW d \in Below(v, n)
  PROVE  d \in DOMAIN v /\ v[d].parent \in Below(v, n) \cup {n}
<1> DEFINE S == {c \in DOMAIN v : v[c].parent \in Below(v, n) \cup {n}}
<1>1. \A c \in S : c \in Below(v, n)
  BY BelowClosed
<1>2. ClosedBelow(v, n, S)
  BY <1>1 DEF ClosedBelow
<1>3. Below(v, n) \subseteq S
  <2> HIDE DEF S
  <2>1. S \in SUBSET DOMAIN v
    BY DEF S
  <2> QED
    BY <1>2, <2>1, BelowLeast
<1> QED
  BY <1>3

LEMMA BelowTransitive ==
  ASSUME NEW v, NEW n, NEW m \in Below(v, n), NEW d \in Below(v, m)
  PROVE  d \in Below(v, n)
<1>1. ClosedBelow(v, m, Below(v, n))
  BY BelowClosed DEF ClosedBelow
<1>2. Below(v, n) \in SUBSET DOMAIN v
  BY DEF Below
<1> QED
  BY <1>1, <1>2, BelowLeast

\* Rows that go take nothing with them, and what a row has below it depends
\* on the parents alone.
LEMMA BelowShrinks ==
  ASSUME NEW v, NEW w, NEW n, DOMAIN w \subseteq DOMAIN v,
         \A c \in DOMAIN w : w[c].parent = v[c].parent
  PROVE  Below(w, n) \subseteq Below(v, n)
<1> DEFINE S == Below(v, n) \cap DOMAIN w
<1>1. ClosedBelow(w, n, S)
  <2> SUFFICES ASSUME NEW c \in DOMAIN w, w[c].parent \in S \cup {n} PROVE c \in S
    BY DEF ClosedBelow
  <2>1. c \in DOMAIN v /\ v[c].parent \in Below(v, n) \cup {n}
    OBVIOUS
  <2> QED
    BY <2>1, BelowClosed
<1>2. Below(w, n) \subseteq S
  <2> HIDE DEF S
  <2>1. S \in SUBSET DOMAIN w
    BY DEF S
  <2> QED
    BY <1>1, <2>1, BelowLeast
<1> QED
  BY <1>2

\* One row is given a parent that is neither itself nor below it, or comes
\* with one: what lies below any other row grows by that row and what it has
\* below it, and by nothing else.
LEMMA BelowReparented ==
  ASSUME NEW v, NEW w, NEW n, NEW m,
         DOMAIN w = DOMAIN v \cup {n}, \A c \in DOMAIN v \ {n} : w[c].parent = v[c].parent,
         ~HasAncestor(v, w[n].parent, n)
  PROVE  Below(w, m) \subseteq Below(v, m) \cup (IF HasAncestor(v, w[n].parent, m)
                                               THEN {n} \cup Below(v, n) ELSE {})
<1> DEFINE p == w[n].parent
           More == IF HasAncestor(v, p, m) THEN {n} \cup Below(v, n) ELSE {}
           S == Below(v, m) \cup More
<1>0. p # n /\ p \notin Below(v, n)
  BY DEF HasAncestor
<1>1. S \in SUBSET DOMAIN w
  BY DEF Below
<1>2. ClosedBelow(w, m, S)
  <2> SUFFICES ASSUME NEW c \in DOMAIN w, w[c].parent \in S \cup {m} PROVE c \in S
    BY DEF ClosedBelow
  <2>1. CASE c = n
    <3>1. p \in Below(v, m) \cup {m}
      BY <1>0, <2>1
    <3>2. HasAncestor(v, p, m)
      BY <3>1 DEF HasAncestor
    <3> QED
      BY <2>1, <3>2
  <2>2. CASE c # n
    <3>1. c \in DOMAIN v /\ v[c].parent = w[c].parent
      BY <2>2
    <3>2. CASE v[c].parent \in Below(v, m) \cup {m}
      BY <3>1, <3>2, BelowClosed
    <3>3. CASE v[c].parent \in More
      <4>1. HasAncestor(v, p, m) /\ v[c].parent \in {n} \cup Below(v, n)
        BY <3>3
      <4>2. c \in Below(v, n)
        BY <3>1, <4>1, BelowClosed
      <4> QED
        BY <4>1, <4>2
    <3> QED
      BY <3>1, <3>2, <3>3
  <2> QED
    BY <2>1, <2>2
<1> HIDE DEF S
<1>3. Below(w, m) \subseteq S
  BY <1>1, <1>2, BelowLeast
<1> QED
  BY <1>3 DEF S

\* Such a row closes no cycle.
LEMMA ReparentedForest ==
  ASSUME NEW v, NEW w, NEW n,
         DOMAIN w = DOMAIN v \cup {n}, \A c \in DOMAIN v \ {n} : w[c].parent = v[c].parent,
         ~HasAncestor(v, w[n].parent, n), \A m \in DOMAIN v : m \notin Below(v, m)
  PROVE  \A m \in DOMAIN w : m \notin Below(w, m)
<1> SUFFICES ASSUME NEW m \in DOMAIN w, m \in Below(w, m) PROVE FALSE
  OBVIOUS
<1> DEFINE p == w[n].parent
<1>0. p # n /\ p \notin Below(v, n)
  BY DEF HasAncestor
<1>1. m \notin Below(v, m)
  BY BelowUnfold
<1>2. HasAncestor(v, p, m) /\ m \in {n} \cup Below(v, n)
  BY <1>1, BelowReparented
<1>3. CASE m = n
  BY <1>0, <1>2, <1>3 DEF HasAncestor
<1>4. CASE m \in Below(v, n)
  <2>1. p = m \/ p \in Below(v, m)
    BY <1>2 DEF HasAncestor
  <2>2. p \in Below(v, n)
    BY <1>4, <2>1, BelowTransitive
  <2> QED
    BY <1>0, <2>2
<1> QED
  BY <1>2, <1>3, <1>4

\* The parent of a row of a tree is in the tree.
LEMMA ListedFacts ==
  ASSUME NEW v
  PROVE  /\ DOMAIN Listed(v) \subseteq DOMAIN v
         /\ \A n \in DOMAIN Listed(v) :
              /\ Listed(v)[n] = v[n]
              /\ v[n].parent \in DOMAIN Listed(v) \cup {NoParent}
<1>1. DOMAIN Listed(v) = Below(v, NoParent)
  BY DEF Listed
<1>2. \A n \in Below(v, NoParent) : Listed(v)[n] = v[n]
  BY DEF Listed
<1> QED
  BY <1>1, <1>2, BelowUnfold

\* What the table has below a row, of what is in a tree, the tree has too.
LEMMA AncestorsListed ==
  ASSUME NEW v, NEW w, DOMAIN w \subseteq DOMAIN v, NoParent \notin DOMAIN v,
         \A c \in DOMAIN w : w[c].parent = v[c].parent,
         NEW n, n # NoParent, NEW d \in DOMAIN Listed(w), d \in Below(v, n)
  PROVE  d \in Below(Listed(w), n)
<1> DEFINE T == Listed(w)
           S == {c \in DOMAIN v : c \in DOMAIN T => c \in Below(T, n)}
<1>1. ClosedBelow(v, n, S)
  <2> SUFFICES ASSUME NEW c \in DOMAIN v, v[c].parent \in S \cup {n}, c \in DOMAIN T
               PROVE  c \in Below(T, n)
    BY DEF ClosedBelow
  <2>1. c \in DOMAIN w /\ T[c] = w[c] /\ w[c].parent \in DOMAIN T \cup {NoParent}
    BY ListedFacts
  <2>2. T[c].parent = v[c].parent
    BY <2>1
  <2>3. CASE v[c].parent = n
    BY <2>2, <2>3, BelowClosed
  <2>4. CASE v[c].parent # n /\ v[c].parent \in DOMAIN T
    BY <2>2, <2>4, BelowClosed
  <2>5. v[c].parent # NoParent
    BY <2>2
  <2> QED
    BY <2>1, <2>2, <2>3, <2>4, <2>5
<1>2. Below(v, n) \subseteq S
  <2> HIDE DEF S
  <2>1. S \in SUBSET DOMAIN v
    BY DEF S
  <2> QED
    BY <1>1, <2>1, BelowLeast
<1> QED
  BY <1>2

----------------------------------------------------------------------------
\* The table.

TableRows(k, table) == [n \in InTable(k, table) |-> table[n]]

LEMMA TableFacts ==
  ASSUME NEW k, NEW table
  PROVE  /\ DOMAIN TableRows(k, table) = InTable(k, table)
         /\ \A n \in InTable(k, table) : TableRows(k, table)[n] = table[n]
         /\ \A n : Descendants(k, table, n) = Below(TableRows(k, table), n)
         /\ InTable(k, table) \subseteq Ids /\ NoParent \notin InTable(k, table)
  BY CatalogueAssumption DEF TableRows, InTable, Descendants

\* A row that comes under a row of the table, or to the first level, closes no
\* cycle, and neither does one that moves under what is not below it.
LEMMA ForestKept ==
  ASSUME NEW k, NEW before, NEW after, NEW n,
         NoCycle(k, before),
         InTable(k, after) = InTable(k, before) \cup {n},
         \A c \in InTable(k, before) \ {n} : after[c].parent = before[c].parent,
         after[n].parent # n, after[n].parent \notin Descendants(k, before, n)
  PROVE  NoCycle(k, after)
<1> DEFINE v == TableRows(k, before)
           w == TableRows(k, after)
<1>1. /\ DOMAIN v = InTable(k, before) /\ DOMAIN w = InTable(k, after)
      /\ \A m : Descendants(k, before, m) = Below(v, m) /\ Descendants(k, after, m) = Below(w, m)
      /\ \A m \in DOMAIN v : v[m] = before[m]
      /\ \A m \in DOMAIN w : w[m] = after[m]
  BY TableFacts
<1> HIDE DEF v, w
<1>2. ~HasAncestor(v, w[n].parent, n)
  BY <1>1 DEF HasAncestor
<1>3. \A c \in DOMAIN v \ {n} : w[c].parent = v[c].parent
  BY <1>1
<1>4. \A m \in DOMAIN v : m \notin Below(v, m)
  BY <1>1 DEF NoCycle
<1>5. \A m \in DOMAIN w : m \notin Below(w, m)
  BY <1>1, <1>2, <1>3, <1>4, ReparentedForest
<1> QED
  BY <1>1, <1>5 DEF NoCycle

\* Rows that go, or change anything but their parent, close no cycle either.
LEMMA ForestKeptBelow ==
  ASSUME NEW k, NEW before, NEW after,
         InTable(k, after) \subseteq InTable(k, before),
         \A c \in InTable(k, after) : after[c].parent = before[c].parent,
         NEW n
  PROVE  Descendants(k, after, n) \subseteq Descendants(k, before, n)
<1> DEFINE v == TableRows(k, before)
           w == TableRows(k, after)
<1>1. /\ DOMAIN v = InTable(k, before) /\ DOMAIN w = InTable(k, after)
      /\ Descendants(k, before, n) = Below(v, n) /\ Descendants(k, after, n) = Below(w, n)
      /\ \A m \in DOMAIN v : v[m] = before[m]
      /\ \A m \in DOMAIN w : w[m] = after[m]
  BY TableFacts
<1> HIDE DEF v, w
<1> QED
  BY <1>1, BelowShrinks

LEMMA ForestKeptWithout ==
  ASSUME NEW k, NEW before, NEW after,
         InTable(k, after) \subseteq InTable(k, before),
         \A c \in InTable(k, after) : after[c].parent = before[c].parent,
         NoCycle(k, before)
  PROVE  NoCycle(k, after)
  BY ForestKeptBelow DEF NoCycle

\* A row's descendants are its children and theirs.
LEMMA DescendantsFacts ==
  ASSUME NEW k, NEW table, NEW n
  PROVE  /\ Descendants(k, table, n) \subseteq InTable(k, table)
         /\ \A c \in InTable(k, table) :
              c \in Descendants(k, table, n) <=>
                table[c].parent \in Descendants(k, table, n) \cup {n}
<1> DEFINE v == TableRows(k, table)
<1>1. /\ DOMAIN v = InTable(k, table) /\ Descendants(k, table, n) = Below(v, n)
      /\ \A m \in DOMAIN v : v[m] = table[m]
  BY TableFacts
<1> HIDE DEF v
<1> QED
  BY <1>1, BelowClosed, BelowUnfold

\* What is pushed down to all of a storage's descendants makes them agree with
\* it: of the rows before, only those of its children need not.
LEMMA PushAgrees ==
  ASSUME NEW table \in [Ids -> Row], NEW n \in InTable("storage", table), NEW scope \in Scopes,
         table[n].scope = scope,
         \A c \in InTable("storage", table) :
            table[c].parent \in Ids \ {n} => table[c].scope = table[table[c].parent].scope,
         ParentsKept("storage", table)
  PROVE  ScopesAgree("storage", Pushed("storage", table, n, scope))
<1> DEFINE k == "storage"
           D == Descendants(k, table, n)
           after == Pushed(k, table, n, scope)
<1>1. D \subseteq InTable(k, table)
      /\ \A c \in InTable(k, table) : c \in D <=> table[c].parent \in D \cup {n}
  BY DescendantsFacts
<1>2. /\ PushedTo(k, table, n) = {n} \cup D
      /\ InTable(k, table) \subseteq Ids /\ NoParent \notin Ids
  BY CatalogueAssumption DEF PushedTo, InTable
<1> HIDE DEF D
<1>3. \A m \in Ids : after[m] = IF m \in {n} \cup D THEN [table[m] EXCEPT !.scope = scope] ELSE table[m]
  BY <1>1, <1>2 DEF Pushed
<1>4. \A m \in Ids : /\ after[m].state = table[m].state /\ after[m].parent = table[m].parent
                     /\ after[m].scope = IF m \in {n} \cup D THEN scope ELSE table[m].scope
  <2> SUFFICES ASSUME NEW m \in Ids
               PROVE  /\ after[m].state = table[m].state /\ after[m].parent = table[m].parent
                      /\ after[m].scope = IF m \in {n} \cup D THEN scope ELSE table[m].scope
    OBVIOUS
  <2>1. after[m] = IF m \in {n} \cup D THEN [table[m] EXCEPT !.scope = scope] ELSE table[m]
    BY <1>3
  <2>2. table[m] \in Row
    OBVIOUS
  <2> HIDE DEF after
  <2> QED
    BY <2>1, <2>2 DEF Row
<1> HIDE DEF after
<1>5. InTable(k, after) = InTable(k, table)
  BY <1>4 DEF InTable
<1>6. ASSUME NEW c \in InTable(k, after), after[c].parent \in Ids
      PROVE  after[c].scope = after[after[c].parent].scope
  <2> DEFINE q == table[c].parent
  <2>1. c \in Ids /\ c \in InTable(k, table) /\ q \in Ids /\ after[c].parent = q
    BY <1>2, <1>4, <1>5, <1>6
  <2>2. CASE c = n
    BY <1>4, <2>1, <2>2
  <2>3. CASE c # n /\ c \in D
    BY <1>1, <1>4, <2>1, <2>3
  <2>4. CASE c # n /\ c \notin D
    <3>1. q \notin {n} \cup D
      BY <1>1, <2>1, <2>4
    <3> QED
      BY <1>4, <2>1, <2>4, <3>1
  <2> QED
    BY <2>2, <2>3, <2>4
<1> QED
  BY <1>6 DEF ScopesAgree, after

\* A row that is nobody's parent has nothing below it.
LEMMA Childless ==
  ASSUME NEW k, NEW table, NEW n, \A c \in InTable(k, table) : table[c].parent # n
  PROVE  Descendants(k, table, n) = {}
<1> DEFINE v == TableRows(k, table)
<1>1. /\ DOMAIN v = InTable(k, table) /\ Descendants(k, table, n) = Below(v, n)
      /\ \A m \in DOMAIN v : v[m] = table[m]
  BY TableFacts
<1> HIDE DEF v
<1>2. ClosedBelow(v, n, {})
  BY <1>1 DEF ClosedBelow
<1> QED
  BY <1>1, <1>2, BelowLeast

----------------------------------------------------------------------------
\* The statements.

LEMMA InsertSound ==
  ASSUME NEW k, NEW table \in [Ids -> Row], NEW n \in Ids, table[n].state = "none",
         NEW parent \in InTable(k, table) \cup {NoParent}, NEW scope \in Scopes,
         ParentsKept(k, table)
  PROVE  LET after == Inserted(table, n, parent, scope) IN
         /\ after \in [Ids -> Row]
         /\ \A m \in Ids : table[m].state # "none" => after[m].state # "none"
         /\ ParentsKept(k, after)
         /\ NoCycle(k, table) => NoCycle(k, after)
         /\ ScopesAgree(k, table) /\ (k = "storage" /\ parent # NoParent => scope = table[parent].scope)
              => ScopesAgree(k, after)
<1> DEFINE after == Inserted(table, n, parent, scope)
<1>1. InTable(k, table) \subseteq Ids /\ NoParent \notin Ids /\ n \notin InTable(k, table)
  BY CatalogueAssumption DEF InTable
<1>2. /\ after \in [Ids -> Row]
      /\ after[n] = [state |-> "live", parent |-> parent, scope |-> scope]
      /\ \A m \in Ids \ {n} : after[m] = table[m]
  BY <1>1 DEF Inserted, Row
<1> HIDE DEF after
<1>3. InTable(k, after) = InTable(k, table) \cup {n}
  BY <1>1, <1>2 DEF InTable
<1>4. \A m \in Ids : table[m].state # "none" => after[m].state # "none"
  BY <1>2
<1>5. ParentsKept(k, after)
  BY <1>1, <1>2, <1>3 DEF ParentsKept
<1>6. ASSUME NoCycle(k, table) PROVE NoCycle(k, after)
  <2>1. Descendants(k, table, n) = {}
    BY <1>1, Childless DEF ParentsKept
  <2> QED
    BY <1>1, <1>2, <1>3, <1>6, <2>1, ForestKept
<1>7. ASSUME ScopesAgree(k, table), k = "storage" /\ parent # NoParent => scope = table[parent].scope
      PROVE  ScopesAgree(k, after)
  <2> SUFFICES ASSUME k = "storage", NEW c \in InTable(k, after), after[c].parent \in Ids
               PROVE  after[c].scope = after[after[c].parent].scope
    BY DEF ScopesAgree
  <2>1. CASE c = n
    <3>1. after[c].parent = parent /\ parent # n /\ parent # NoParent
      BY <1>1, <1>2, <2>1
    <3> QED
      BY <1>1, <1>2, <1>7, <2>1, <3>1
  <2>2. CASE c # n
    <3>1. c \in InTable(k, table) /\ after[c] = table[c]
      BY <1>1, <1>2, <1>3, <2>2
    <3>2. table[c].parent \in InTable(k, table)
      BY <1>1, <3>1 DEF ParentsKept
    <3> QED
      BY <1>1, <1>2, <1>7, <3>1, <3>2 DEF ScopesAgree
  <2> QED
    BY <2>1, <2>2
<1> QED
  BY <1>2, <1>4, <1>5, <1>6, <1>7 DEF after

\* Of a storage that takes its parent's scope, only its children may differ.
LEMMA UpdateAgrees ==
  ASSUME NEW table \in [Ids -> Row], NEW n \in InTable("storage", table),
         NEW parent \in InTable("storage", table) \cup {NoParent}, NEW scope \in Scopes,
         ParentsKept("storage", table), ScopesAgree("storage", table),
         parent # NoParent => scope = table[parent].scope,
         NEW c \in InTable("storage", table),
         Updated("storage", table, n, parent, scope)[c].parent \in Ids \ {n}
  PROVE  LET after == Updated("storage", table, n, parent, scope) IN
         after[c].scope = after[after[c].parent].scope
<1> DEFINE k == "storage"
           after == Updated(k, table, n, parent, scope)
<1>1. InTable(k, table) \subseteq Ids /\ NoParent \notin Ids
  BY CatalogueAssumption DEF InTable
<1>2. /\ after \in [Ids -> Row]
      /\ after[n] = [state |-> table[n].state, parent |-> parent, scope |-> scope]
      /\ \A m \in Ids \ {n} : after[m] = table[m]
  BY <1>1 DEF Updated, Row
<1>0. after[n].parent = parent /\ after[n].scope = scope
  <2> HIDE DEF after
  <2> QED
    BY <1>2
<1>3. after[c].parent \in Ids \ {n}
  OBVIOUS
<1> SUFFICES after[c].scope = after[after[c].parent].scope
  OBVIOUS
<1> HIDE DEF after
<1>4. CASE c = n
  BY <1>0, <1>1, <1>2, <1>3, <1>4
<1>5. CASE c # n
  <2>1. after[c] = table[c] /\ table[c].parent \in InTable(k, table)
    BY <1>1, <1>2, <1>3, <1>5 DEF ParentsKept
  <2>2. table[c].scope = table[table[c].parent].scope
    BY <1>1, <2>1 DEF ScopesAgree
  <2>3. table[c].parent \in Ids \ {n}
    BY <1>3, <2>1
  <2> QED
    BY <1>2, <2>1, <2>2, <2>3
<1> QED
  BY <1>4, <1>5

LEMMA UpdateSound ==
  ASSUME NEW k, NEW table \in [Ids -> Row], NEW n \in InTable(k, table),
         NEW parent \in InTable(k, table) \cup {NoParent}, NEW scope \in Scopes,
         ParentsKept(k, table)
  PROVE  LET after == Updated(k, table, n, parent, scope) IN
         /\ after \in [Ids -> Row]
         /\ InTable(k, after) = InTable(k, table)
         /\ after[n].parent = parent /\ after[n].scope = scope
         /\ \A m \in Ids \ {n} : after[m] = table[m]
         /\ \A m \in Ids : table[m].state # "none" => after[m].state # "none"
         /\ ParentsKept(k, after)
         /\ NoCycle(k, table) /\ parent # n /\ parent \notin Descendants(k, table, n)
              => NoCycle(k, after)
<1> DEFINE after == Updated(k, table, n, parent, scope)
<1>1. InTable(k, table) \subseteq Ids /\ NoParent \notin Ids
  BY CatalogueAssumption DEF InTable
<1>2. /\ after \in [Ids -> Row]
      /\ after[n] = [state |-> table[n].state, parent |-> parent, scope |-> scope]
      /\ \A m \in Ids \ {n} : after[m] = table[m]
  BY <1>1 DEF Updated, Row
<1> HIDE DEF after
<1>3. InTable(k, after) = InTable(k, table)
  BY <1>1, <1>2 DEF InTable
<1>4. \A m \in Ids : table[m].state # "none" => after[m].state # "none"
  BY <1>2
<1>5. ParentsKept(k, after)
  BY <1>1, <1>2, <1>3 DEF ParentsKept
<1>6. ASSUME NoCycle(k, table), parent # n, parent \notin Descendants(k, table, n)
      PROVE  NoCycle(k, after)
  BY <1>1, <1>2, <1>3, <1>6, ForestKept
<1> QED
  BY <1>1, <1>2, <1>3, <1>4, <1>5, <1>6 DEF after

LEMMA PushSound ==
  ASSUME NEW k, NEW table \in [Ids -> Row], NEW n, NEW scope \in Scopes,
         ParentsKept(k, table)
  PROVE  LET after == Pushed(k, table, n, scope) IN
         /\ after \in [Ids -> Row]
         /\ \A m \in Ids : table[m].state # "none" => after[m].state # "none"
         /\ ParentsKept(k, after)
         /\ NoCycle(k, table) => NoCycle(k, after)
<1> DEFINE after == Pushed(k, table, n, scope)
<1>1. \A m \in Ids : after[m] \in {[table[m] EXCEPT !.scope = scope], table[m]}
  BY DEF Pushed
<1>2. \A m \in Ids : after[m] \in Row /\ after[m].state = table[m].state /\ after[m].parent = table[m].parent
  <2> SUFFICES ASSUME NEW m \in Ids
               PROVE  after[m] \in Row /\ after[m].state = table[m].state /\ after[m].parent = table[m].parent
    OBVIOUS
  <2>1. after[m] \in {[table[m] EXCEPT !.scope = scope], table[m]} /\ table[m] \in Row
    BY <1>1
  <2> HIDE DEF after
  <2> QED
    BY <2>1 DEF Row
<1>3. after \in [Ids -> Row]
  <2>1. after = [m \in Ids |-> after[m]]
    BY DEF Pushed
  <2> HIDE DEF after
  <2> QED
    BY <1>2, <2>1
<1> HIDE DEF after
<1>4. InTable(k, after) = InTable(k, table) /\ InTable(k, table) \subseteq Ids
  BY <1>2 DEF InTable
<1>5. ParentsKept(k, after)
  BY <1>2, <1>4 DEF ParentsKept
<1>6. NoCycle(k, table) => NoCycle(k, after)
  BY <1>2, <1>4, ForestKeptWithout
<1> QED
  BY <1>2, <1>3, <1>5, <1>6 DEF after

LEMMA DeleteSound ==
  ASSUME NEW k \in Kinds, NEW table \in [Ids -> Row], NEW n \in Ids, table[n].state # "none",
         k = "storage" => \A c \in InTable(k, table) : table[c].parent # n,
         ParentsKept(k, table)
  PROVE  LET after == [table EXCEPT ![n].state = "gone"] IN
         /\ after \in [Ids -> Row]
         /\ \A m \in Ids : table[m].state # "none" => after[m].state # "none"
         /\ ParentsKept(k, after)
         /\ NoCycle(k, table) => NoCycle(k, after)
         /\ ScopesAgree(k, table) => ScopesAgree(k, after)
<1> DEFINE after == [table EXCEPT ![n].state = "gone"]
<1>1. table[n] \in Row
  OBVIOUS
<1>2. /\ after \in [Ids -> Row]
      /\ after[n].state = "gone" /\ after[n].parent = table[n].parent /\ after[n].scope = table[n].scope
      /\ \A m \in Ids \ {n} : after[m] = table[m]
  BY <1>1 DEF Row
<1> HIDE DEF after
<1>3. InTable(k, table) \subseteq Ids /\ NoParent \notin Ids
  BY CatalogueAssumption DEF InTable
<1>4. InTable(k, after) = IF k = "storage" THEN InTable(k, table) \ {n} ELSE InTable(k, table)
  BY <1>1, <1>2 DEF InTable, Row, Kinds
<1>5. \A m \in Ids : after[m].parent = table[m].parent /\ after[m].scope = table[m].scope
  BY <1>2
<1>6. \A m \in Ids : table[m].state # "none" => after[m].state # "none"
  BY <1>2
<1>7. ParentsKept(k, after)
  BY <1>3, <1>4, <1>5 DEF ParentsKept
<1>8. NoCycle(k, table) => NoCycle(k, after)
  BY <1>3, <1>4, <1>5, ForestKeptWithout
<1>9. ScopesAgree(k, table) => ScopesAgree(k, after)
  BY <1>3, <1>4, <1>5 DEF ScopesAgree
<1> QED
  BY <1>2, <1>6, <1>7, <1>8, <1>9 DEF after

----------------------------------------------------------------------------
\* The tree the browser is given, and what a page makes of it.

LEMMA TreeFacts ==
  ASSUME CatalogueTypeOK
  PROVE  /\ DOMAIN Visible \subseteq InTable(kind, rows) /\ DOMAIN Tree \subseteq DOMAIN Visible
         /\ \A n \in DOMAIN Visible : Visible[n].parent = rows[n].parent
         /\ \A n \in DOMAIN Tree : /\ n \in Ids /\ n \in InTable(kind, rows)
                                   /\ rows[n].state = "live" /\ Tree[n] \in TreeRow
                                   /\ Tree[n].parent = rows[n].parent
                                   /\ Tree[n].scope = rows[n].scope
                                   /\ rows[n].parent \in DOMAIN Tree \cup {NoParent}
<1>1. /\ DOMAIN Visible = {n \in Ids : rows[n].state = "live" /\ (hasEvent \/ rows[n].scope = "all")}
      /\ \A n \in DOMAIN Visible : Visible[n] = [parent |-> rows[n].parent, scope |-> rows[n].scope]
  BY DEF Visible
<1>2. \A n \in DOMAIN Visible : /\ n \in Ids /\ n \in InTable(kind, rows) /\ rows[n].state = "live"
                                /\ Visible[n].parent = rows[n].parent
                                /\ Visible[n].scope = rows[n].scope
  <2> SUFFICES ASSUME NEW n \in DOMAIN Visible
               PROVE  /\ n \in Ids /\ n \in InTable(kind, rows) /\ rows[n].state = "live"
                      /\ Visible[n].parent = rows[n].parent /\ Visible[n].scope = rows[n].scope
    OBVIOUS
  <2>1. n \in Ids /\ rows[n].state = "live"
    BY <1>1
  <2>2. Visible[n] = [parent |-> rows[n].parent, scope |-> rows[n].scope]
    BY <1>1
  <2>3. Visible[n].parent = rows[n].parent /\ Visible[n].scope = rows[n].scope
    BY <2>2
  <2> QED
    BY <2>1, <2>3 DEF InTable
<1>3. \A n \in DOMAIN Visible : Visible[n] \in TreeRow
  <2> SUFFICES ASSUME NEW n \in DOMAIN Visible PROVE Visible[n] \in TreeRow
    OBVIOUS
  <2>1. rows[n] \in Row
    BY <1>2 DEF CatalogueTypeOK
  <2>2. rows[n].parent \in Ids \cup {NoParent} /\ rows[n].scope \in Scopes
    BY <2>1 DEF Row
  <2>3. Visible[n] = [parent |-> rows[n].parent, scope |-> rows[n].scope]
    BY <1>1
  <2> QED
    BY <2>2, <2>3 DEF TreeRow
<1>4. /\ DOMAIN Tree \subseteq DOMAIN Visible
      /\ \A n \in DOMAIN Tree : /\ Tree[n] = Visible[n]
                                /\ Visible[n].parent \in DOMAIN Tree \cup {NoParent}
  BY ListedFacts DEF Tree
<1> QED
  BY <1>2, <1>3, <1>4

\* The browser's copies are trees, and so is what the GET answers.
LEMMA CopyFacts ==
  /\ \A copy \in Copies : DOMAIN copy \subseteq Ids /\ \A n \in DOMAIN copy : copy[n] \in TreeRow
  /\ NoTree \in Copies /\ DOMAIN NoTree = {}
<1>1. DOMAIN NoTree = {} /\ NoTree \in [{} -> TreeRow]
  BY DEF NoTree
<1>2. {} \in SUBSET Ids
  OBVIOUS
<1> QED
  BY <1>1, <1>2 DEF Copies

LEMMA TreeIsCopy == CatalogueTypeOK => Tree \in Copies
<1> SUFFICES ASSUME CatalogueTypeOK PROVE Tree \in Copies
  OBVIOUS
<1>1. Tree = [n \in DOMAIN Tree |-> Tree[n]]
  BY DEF Tree, Listed
<1>2. DOMAIN Tree \in SUBSET Ids /\ \A n \in DOMAIN Tree : Tree[n] \in TreeRow
  BY TreeFacts
<1>3. Tree \in [DOMAIN Tree -> TreeRow]
  <2> DEFINE D == DOMAIN Tree
  <2> HIDE DEF D
  <2>1. Tree = [n \in D |-> Tree[n]] /\ \A n \in D : Tree[n] \in TreeRow
    BY <1>1, <1>2 DEF D
  <2>2. Tree \in [D -> TreeRow]
    BY <2>1
  <2> QED
    BY <2>2 DEF D
<1> QED
  BY <1>2, <1>3 DEF Copies

\* The scope of a first-level storage is that of all below it.
LEMMA RootScope ==
  ASSUME CatalogueTypeOK, kind = "storage", ScopesAgree(kind, rows),
         NEW p \in DOMAIN Tree, NEW r \in RootsOf(Tree, p)
  PROVE  Tree[r].scope = rows[p].scope
<1> DEFINE S == {d \in DOMAIN Tree : Tree[d].scope = Tree[r].scope}
<1>1. r \in DOMAIN Tree /\ HasAncestor(Tree, p, r)
  BY DEF RootsOf
<1>2. ClosedBelow(Tree, r, S)
  <2> SUFFICES ASSUME NEW c \in DOMAIN Tree, Tree[c].parent \in S \cup {r}
               PROVE  Tree[c].scope = Tree[r].scope
    BY DEF ClosedBelow
  <2> DEFINE q == Tree[c].parent
  <2>1. q \in DOMAIN Tree /\ Tree[q].scope = Tree[r].scope
    BY <1>1
  <2>2. rows[c].parent = q /\ q \in Ids /\ c \in InTable(kind, rows)
        /\ rows[c].scope = Tree[c].scope /\ rows[q].scope = Tree[q].scope
    BY <2>1, TreeFacts
  <2> QED
    BY <2>1, <2>2 DEF ScopesAgree
<1>3. Below(Tree, r) \subseteq S
  <2> HIDE DEF S
  <2>1. S \in SUBSET DOMAIN Tree
    BY DEF S
  <2> QED
    BY <1>2, <2>1, BelowLeast
<1>4. Tree[p].scope = Tree[r].scope
  BY <1>1, <1>3 DEF HasAncestor
<1> QED
  BY <1>4, TreeFacts

\* A row of the tree that is no descendant there is none in the table.
LEMMA OfferedOfTable ==
  ASSUME CatalogueTypeOK, NEW n \in Ids, NEW p \in DOMAIN Tree, ~HasAncestor(Tree, p, n)
  PROVE  p # n /\ p \notin Descendants(kind, rows, n)
<1> DEFINE v == TableRows(kind, rows)
<1>1. /\ DOMAIN v = InTable(kind, rows) /\ NoParent \notin DOMAIN v
      /\ Descendants(kind, rows, n) = Below(v, n)
      /\ \A m \in DOMAIN v : v[m] = rows[m]
  BY TableFacts
<1> HIDE DEF v
<1>2. DOMAIN Visible \subseteq DOMAIN v /\ \A c \in DOMAIN Visible : Visible[c].parent = v[c].parent
  BY <1>1, TreeFacts
<1>3. p # n /\ p \notin Below(Tree, n)
  BY DEF HasAncestor
<1>4. n # NoParent
  BY CatalogueAssumption
<1>5. ASSUME p \in Below(v, n) PROVE FALSE
  BY <1>1, <1>2, <1>3, <1>4, <1>5, AncestorsListed DEF Tree
<1> QED
  BY <1>1, <1>3, <1>5

\* An edit decided on the tree as it is.
LEMMA DecidedOnTree ==
  ASSUME CatalogueTypeOK, Decided, request.stage # "none", request.basis = Tree
  PROVE  /\ request.op \in {"update", "delete"} =>
              request.id \in Ids /\ rows[request.id].state = "live" /\ request.id \in InTable(kind, rows)
         /\ request.parent # NoParent =>
              /\ request.parent \in Ids
              /\ request.op = "update" => /\ request.parent # request.id
                                          /\ request.parent \notin Descendants(kind, rows, request.id)
              /\ kind = "storage" /\ ScopesAgree(kind, rows) =>
                   request.scope = rows[request.parent].scope
<1>1. request.op \in {"update", "delete"} =>
        request.id \in Ids /\ rows[request.id].state = "live" /\ request.id \in InTable(kind, rows)
  BY TreeFacts DEF Decided
<1>2. ASSUME request.parent # NoParent
      PROVE  request.parent \in DOMAIN Tree /\ request.parent \in Ids
  BY <1>2, TreeFacts DEF Decided
<1>3. ASSUME request.parent # NoParent, request.op = "update"
      PROVE  request.parent # request.id /\ request.parent \notin Descendants(kind, rows, request.id)
  <2>1. ~HasAncestor(Tree, request.parent, request.id)
    BY <1>3 DEF Decided
  <2> QED
    BY <1>1, <1>2, <1>3, <2>1, OfferedOfTable
<1>4. ASSUME request.parent # NoParent, kind = "storage", ScopesAgree(kind, rows)
      PROVE  request.scope = rows[request.parent].scope
  <2>1. PICK r \in RootsOf(Tree, request.parent) : request.scope = Tree[r].scope
    BY <1>4 DEF Decided
  <2> QED
    BY <1>2, <1>4, <2>1, RootScope
<1> QED
  BY <1>1, <1>2, <1>3, <1>4

----------------------------------------------------------------------------
\* Types, of themselves an invariant.

LEMMA TypeInit == CatalogueInit => CatalogueTypeOK
<1> SUFFICES ASSUME CatalogueInit PROVE CatalogueTypeOK
  OBVIOUS
<1>1. rows \in [Ids -> Row] /\ edits \in 0 .. MaxEdits /\ faults \in 0 .. MaxFaults
  BY CatalogueAssumption DEF CatalogueInit
<1>2. NoRequest \in Request
  BY CopyFacts DEF NoRequest, Request, Scopes
<1> QED
  BY <1>1, <1>2, CopyFacts DEF CatalogueInit, CatalogueTypeOK, Request, Kinds, Scopes, Streams

\* What the statements make of a table is one.
LEMMA StatementTypes ==
  ASSUME NEW k, NEW table \in [Ids -> Row], NEW n,
         NEW parent \in Ids \cup {NoParent}, NEW scope \in Scopes
  PROVE  /\ Inserted(table, n, parent, scope) \in [Ids -> Row]
         /\ Updated(k, table, n, parent, scope) \in [Ids -> Row]
         /\ Pushed(k, table, n, scope) \in [Ids -> Row]
         /\ [table EXCEPT ![n].state = "gone"] \in [Ids -> Row]
<1>1. \A m \in Ids : table[m] \in Row
  OBVIOUS
<1>2. \A m \in Ids : [table[m] EXCEPT !.scope = scope] \in Row /\ [table[m] EXCEPT !.state = "gone"] \in Row
  BY <1>1 DEF Row
<1>3. [state |-> "live", parent |-> parent, scope |-> scope] \in Row
  BY DEF Row
<1>4. Inserted(table, n, parent, scope) \in [Ids -> Row]
  BY <1>3 DEF Inserted
<1>5. Updated(k, table, n, parent, scope) \in [Ids -> Row]
  <2>1. CASE n \in InTable(k, table)
    <3>1. n \in Ids /\ table[n].state \in {"none", "live", "gone"}
      BY <2>1 DEF InTable, Row
    <3>2. [state |-> table[n].state, parent |-> parent, scope |-> scope] \in Row
      BY <3>1 DEF Row
    <3> QED
      BY <2>1, <3>2 DEF Updated
  <2> QED
    BY <2>1 DEF Updated
<1>6. Pushed(k, table, n, scope) \in [Ids -> Row]
  BY <1>1, <1>2 DEF Pushed
<1>7. [table EXCEPT ![n].state = "gone"] \in [Ids -> Row]
  BY <1>1, <1>2
<1> QED
  BY <1>4, <1>5, <1>6, <1>7

LEMMA RequestFacts ==
  /\ NoRequest \in Request
  /\ \A r \in Request :
       /\ r.op \in {"none", "create", "update", "delete"} /\ r.stage \in {"none", "sent", "row", "made"}
       /\ r.id \in Ids \cup {NoParent} /\ r.parent \in Ids \cup {NoParent}
       /\ r.scope \in Scopes /\ r.basis \in Copies
  /\ \A r \in Request, s \in {"none", "sent", "row", "made"} :
       LET later == [r EXCEPT !.stage = s] IN
       /\ later \in Request /\ later.stage = s /\ later.op = r.op /\ later.id = r.id
       /\ later.parent = r.parent /\ later.scope = r.scope /\ later.basis = r.basis
<1>1. NoRequest \in Request
  BY CopyFacts DEF NoRequest, Request, Scopes
<1> QED
  BY <1>1 DEF Request

LEMMA TypeStep == CatalogueTypeOK /\ [CatalogueNext]_catalogueVars => CatalogueTypeOK'
<1> SUFFICES ASSUME CatalogueTypeOK, [CatalogueNext]_catalogueVars PROVE CatalogueTypeOK'
  OBVIOUS
<1> USE CatalogueAssumption DEF CatalogueTypeOK
<1> USE CopyFacts, RequestFacts
<1>0. /\ request.op \in {"none", "create", "update", "delete"}
      /\ request.parent \in Ids \cup {NoParent} /\ request.scope \in Scopes
  OBVIOUS
<1>1. ASSUME NEW op \in {"create", "update", "delete"}, NEW id \in DOMAIN trees \cup {NoParent},
             NEW parent \in Parents, NEW scope \in Scopes, Submit(op, id, parent, scope)
      PROVE  CatalogueTypeOK'
  <2>1. /\ id \in Ids \cup {NoParent} /\ parent \in Ids \cup {NoParent}
    BY DEF Parents
  <2>2. request' = [op |-> op, stage |-> "sent", id |-> id, parent |-> parent,
                    scope |-> scope, basis |-> trees]
    BY <1>1 DEF Submit
  <2>3. request' \in Request
    BY <2>1, <2>2 DEF Request
  <2>4. edits' \in 0 .. MaxEdits
    BY <1>1 DEF Submit
  <2> QED
    BY <1>1, <2>3, <2>4 DEF Submit
<1>2. ASSUME NEW parent \in Parents PROVE ScopesFor(parent) \subseteq Scopes
  <2>1. \A r \in DOMAIN trees : trees[r].scope \in Scopes
    <3>1. \A r \in DOMAIN trees : trees[r] \in TreeRow
      OBVIOUS
    <3> QED
      BY <3>1 DEF TreeRow
  <2> QED
    BY <2>1 DEF ScopesFor, Scopes, RootsOf
<1>3. CASE SubmitCreate
  BY <1>1, <1>2, <1>3 DEF SubmitCreate
<1>4. CASE SubmitUpdate
  BY <1>1, <1>2, <1>4 DEF SubmitUpdate
<1>5. CASE SubmitDelete
  <2>1. NoParent \in Parents /\ "all" \in Scopes
    BY DEF Parents, Scopes
  <2> QED
    BY <1>1, <1>5, <2>1 DEF SubmitDelete
<1>6. CASE FirstStatement
  <2>1. rows' \in [Ids -> Row]
    <3>1. /\ \A n : Inserted(rows, n, request.parent, request.scope) \in [Ids -> Row]
          /\ Updated(kind, rows, request.id, request.parent, request.scope) \in [Ids -> Row]
          /\ [rows EXCEPT ![request.id].state = "gone"] \in [Ids -> Row]
      BY <1>0, StatementTypes
    <3>2. \/ \E n \in Ids : rows' = Inserted(rows, n, request.parent, request.scope)
          \/ rows' = Updated(kind, rows, request.id, request.parent, request.scope)
          \/ rows' = [rows EXCEPT ![request.id].state = "gone"]
      <4> HIDE CatalogueAssumption, CopyFacts, RequestFacts DEF CatalogueTypeOK
      <4> QED
        BY <1>6 DEF FirstStatement
    <3> HIDE CatalogueAssumption, CopyFacts, RequestFacts DEF CatalogueTypeOK
    <3> QED
      BY <3>1, <3>2, Zenon
  <2>2. \/ request' = [request EXCEPT !.stage = "made"]
        \/ request' = [request EXCEPT !.stage = "row"]
    BY <1>6 DEF FirstStatement
  <2>3. request' \in Request
    <3>1. /\ [request EXCEPT !.stage = "made"] \in Request
          /\ [request EXCEPT !.stage = "row"] \in Request
      OBVIOUS
    <3> QED
      BY <2>2, <3>1
  <2> QED
    BY <1>6, <2>1, <2>3 DEF FirstStatement
<1>7. CASE Refused
  <2>1. request' = NoRequest
    BY <1>7 DEF Refused
  <2> QED
    BY <1>7, <2>1 DEF Refused
<1>8. CASE SecondStatement
  <2>1. rows' \in [Ids -> Row]
    <3>1. Pushed(kind, rows, request.id, request.scope) \in [Ids -> Row]
      BY <1>0, StatementTypes
    <3> QED
      BY <1>8, <3>1 DEF SecondStatement
  <2>2. request' = [request EXCEPT !.stage = "made"]
    BY <1>8 DEF SecondStatement
  <2>3. request' \in Request
    BY <2>2
  <2> QED
    BY <1>8, <2>1, <2>3 DEF SecondStatement
<1>9. CASE StatementFails
  <2>1. request' = NoRequest /\ faults' \in 0 .. MaxFaults
    BY <1>9 DEF StatementFails
  <2> QED
    BY <1>9, <2>1 DEF StatementFails
<1>10. CASE Announce
  <2>1. AnnouncementOf(request.op) \in Announcements
    BY DEF AnnouncementOf, Announcements, Kinds
  <2>2. request' = NoRequest
    BY <1>10 DEF Announce
  <2> QED
    BY <1>10, <2>1, <2>2 DEF Announce, Tell
<1>11. ASSUME NEW op \in {"create", "update", "delete"}, NEW n \in Ids,
              NEW parent \in Ids \cup {NoParent}, NEW scope \in Scopes,
              EditedElsewhere(op, n, parent, scope)
       PROVE  CatalogueTypeOK'
  <2>1. AnnouncementOf(op) \in Announcements
    BY DEF AnnouncementOf, Announcements, Kinds
  <2>2. rows' \in [Ids -> Row]
    <3>1. /\ Inserted(rows, n, parent, scope) \in [Ids -> Row]
          /\ Updated(kind, rows, n, parent, scope) \in [Ids -> Row]
          /\ [rows EXCEPT ![n].state = "gone"] \in [Ids -> Row]
      BY StatementTypes
    <3>2. Pushed(kind, Updated(kind, rows, n, parent, scope), n, scope) \in [Ids -> Row]
      BY <3>1, StatementTypes
    <3> QED
      <4>1. \/ rows' = Inserted(rows, n, parent, scope)
            \/ rows' = Pushed(kind, Updated(kind, rows, n, parent, scope), n, scope)
            \/ rows' = [rows EXCEPT ![n].state = "gone"]
        BY <1>11 DEF EditedElsewhere
      <4> QED
        <5>1. CASE rows' = Inserted(rows, n, parent, scope)
          BY <3>1, <5>1
        <5>2. CASE rows' = Pushed(kind, Updated(kind, rows, n, parent, scope), n, scope)
          BY <3>2, <5>2
        <5>3. CASE rows' = [rows EXCEPT ![n].state = "gone"]
          BY <3>1, <5>3
        <5> QED
          BY <4>1, <5>1, <5>2, <5>3
  <2>3. edits' \in 0 .. MaxEdits
    BY <1>11 DEF EditedElsewhere
  <2>4. TellUnlessFailed(op)
    BY <1>11 DEF EditedElsewhere
  <2>7. faults' \in 0 .. MaxFaults /\ told' \subseteq Announcements
    <3>1. faults \in 0 .. MaxFaults /\ told \subseteq Announcements /\ MaxFaults \in Nat
      OBVIOUS
    <3>2. told' \subseteq told \cup {AnnouncementOf(op)}
      BY <2>4 DEF TellUnlessFailed, Tell
    <3>3. faults' = faults \/ (faults < MaxFaults /\ faults' = faults + 1)
      BY <2>4 DEF TellUnlessFailed
    <3>4. faults' \in 0 .. MaxFaults
      BY <3>1, <3>3
    <3> QED
      BY <2>1, <3>1, <3>2, <3>4
  <2>8. silent' \in BOOLEAN
    BY <2>4 DEF TellUnlessFailed, Tell
  <2>5. excused' \in BOOLEAN
    BY <1>11 DEF EditedElsewhere
  <2>6. UNCHANGED <<kind, hasEvent, request, trees, ask, answer, ended, stream>>
    BY <1>11 DEF EditedElsewhere
  <2> QED
    BY <2>2, <2>3, <2>5, <2>6, <2>7, <2>8
<1>12. ASSUME NEW name \in Announcements, Hear(name) PROVE CatalogueTypeOK'
  BY <1>12 DEF Hear, AskWhenTold, AskAgain
<1>13. CASE Tick
  BY <1>13 DEF Tick, TickDue
<1>14. CASE ServeGet
  BY <1>14, TreeIsCopy DEF ServeGet
<1>15. CASE Arrive
  BY <1>15 DEF Arrive
<1>16. CASE GetFails
  <2>1. faults' \in 0 .. MaxFaults /\ answer' \in Copies
    BY <1>16 DEF GetFails
  <2> QED
    BY <1>16, <2>1 DEF GetFails
<1>17. CASE Subscribe
  BY <1>17 DEF Subscribe
<1>18. CASE Disconnect
  <2>1. faults' \in 0 .. MaxFaults /\ told' = {} /\ stream' = "lost"
    BY <1>18 DEF Disconnect
  <2> QED
    BY <1>18, <2>1 DEF Disconnect, Streams
<1>19. CASE Reconnect
  BY <1>19 DEF Reconnect, AskAgain, Streams
<1>21. CASE FirstOpen
  BY <1>21 DEF FirstOpen, Streams
<1>22. CASE Drop
  <2>1. faults' \in 0 .. MaxFaults /\ stream' = "dropped"
    BY <1>22 DEF Drop
  <2> QED
    BY <1>22, <2>1 DEF Drop, Streams
<1>20. CASE UNCHANGED catalogueVars
  BY <1>20 DEF catalogueVars
<1> QED
  BY <1>3, <1>4, <1>5, <1>6, <1>7, <1>8, <1>9, <1>10, <1>11, <1>12, <1>13, <1>14, <1>15,
     <1>16, <1>17, <1>18, <1>19, <1>20, <1>21, <1>22 DEF CatalogueNext

\* Every value is of its kind.
THEOREM CatalogueTypeCorrect == CatalogueSpec => []CatalogueTypeOK
  BY TypeInit, TypeStep, PTL DEF CatalogueSpec

----------------------------------------------------------------------------
\* The table stays a forest, and a storage has its parent's event.

LEMMA RowsInit == CatalogueInit => RowsInv
<1> SUFFICES ASSUME CatalogueInit PROVE RowsInv
  OBVIOUS
<1>1. /\ kind \in Kinds /\ rows \in FirstTables /\ request = NoRequest
      /\ trees = NoTree /\ answer = NoTree
  BY DEF CatalogueInit, Kinds
<1>2. CatalogueTypeOK
  BY TypeInit
<1>3. ParentsKept(kind, rows) /\ NoCycle(kind, rows) /\ ScopesAgree(kind, rows)
  BY <1>1, CatalogueAssumption
<1>4. request.op = "none" /\ request.stage = "none" /\ request.basis = NoTree
  BY <1>1 DEF NoRequest
<1>5. SeenRows
  BY <1>1, <1>4, CopyFacts DEF SeenRows
<1>6. Decided
  BY <1>4 DEF Decided
<1> QED
  BY <1>2, <1>3, <1>4, <1>5, <1>6 DEF RowsInv, KeepsForest, ScopeInherited, HalfDone

\* The browser's own steps leave the table and the request alone, and take
\* copies of the tree as it is.
LEMMA CopyStep ==
  ASSUME RowsInv, CatalogueTypeOK', UNCHANGED <<kind, rows, request, excused>>,
         trees' \in {trees, answer}, answer' \in {answer, Tree, NoTree}
  PROVE  RowsInv'
<1>1. CatalogueTypeOK /\ SeenRows /\ DOMAIN NoTree = {}
  BY CopyFacts DEF RowsInv
<1>2. SeenRows'
  <2> SUFFICES ASSUME NEW copy \in {trees, answer, request.basis, Tree, NoTree}, NEW n \in DOMAIN copy
               PROVE  rows[n].state # "none"
    BY DEF SeenRows
  <2>1. CASE copy = Tree
    BY <1>1, <2>1, TreeFacts
  <2>2. CASE copy = NoTree
    BY <1>1, <2>2
  <2>3. CASE copy \in {trees, answer, request.basis}
    BY <1>1, <2>3 DEF SeenRows
  <2> QED
    BY <2>1, <2>2, <2>3
<1>3. Decided'
  BY DEF RowsInv, Decided
<1>4. ParentsKept(kind, rows)' /\ KeepsForest' /\ ScopeInherited' /\ HalfDone'
  BY DEF RowsInv, KeepsForest, ScopeInherited, HalfDone
<1> QED
  BY <1>2, <1>3, <1>4 DEF RowsInv

\* A new request, or none any more: a failure between the two statements is
\* an edit made by half.
LEMMA RequestStep ==
  ASSUME RowsInv, CatalogueTypeOK', Decided', UNCHANGED <<kind, rows, trees, answer>>,
         request.stage # "row" \/ excused',
         request'.stage # "row", request'.basis \in {trees, NoTree}, excused => excused'
  PROVE  RowsInv'
<1>1. SeenRows'
  BY CopyFacts DEF RowsInv, SeenRows
<1>2. ParentsKept(kind, rows)' /\ KeepsForest' /\ ScopeInherited' /\ HalfDone'
  BY DEF RowsInv, KeepsForest, ScopeInherited, HalfDone
<1> QED
  BY <1>1, <1>2 DEF RowsInv

LEMMA DecidedNone == ASSUME request' = NoRequest PROVE Decided'
<1>1. request'.op = "none" /\ request'.stage = "none"
  BY DEF NoRequest
<1> QED
  BY <1>1 DEF Decided

\* What the pages offer.
LEMMA SubmitDecided ==
  ASSUME CatalogueTypeOK, NEW op \in {"create", "update", "delete"}, NEW id,
         NEW parent \in Parents, NEW scope, Submit(op, id, parent, scope),
         op # "create" => id \in DOMAIN trees, op # "delete" => scope \in ScopesFor(parent),
         op = "delete" => parent = NoParent, op = "update" => ParentOffered(id, parent)
  PROVE  Decided' /\ request'.basis = trees /\ request'.stage = "sent"
<1>1. /\ request'.op = op /\ request'.stage = "sent" /\ request'.id = id
      /\ request'.parent = parent /\ request'.scope = scope /\ request'.basis = trees
      /\ kind' = kind
  BY DEF Submit
<1>2. ASSUME parent # NoParent
      PROVE  /\ parent \in DOMAIN trees
             /\ op = "update" => ~HasAncestor(trees, parent, id)
             /\ kind = "storage" => \E r \in RootsOf(trees, parent) : scope = trees[r].scope
  BY <1>2 DEF Parents, ParentOffered, ScopesFor
<1> QED
  BY <1>1, <1>2 DEF Decided

\* A statement that leaves every row there was.
LEMMA TableStep ==
  ASSUME RowsInv, CatalogueTypeOK', UNCHANGED <<kind, trees, answer>>,
         request'.basis = request.basis, request'.op = request.op, request'.id = request.id,
         request'.parent = request.parent, request'.scope = request.scope,
         request.stage = "none" => request'.stage = "none",
         \A n \in Ids : rows[n].state # "none" => rows'[n].state # "none"
  PROVE  SeenRows' /\ Decided'
<1>1. \A copy \in {trees, answer, request.basis} : DOMAIN copy \subseteq Ids
  BY CopyFacts, RequestFacts DEF RowsInv, CatalogueTypeOK
<1>2. SeenRows'
  BY <1>1 DEF RowsInv, SeenRows
<1>3. Decided'
  BY DEF RowsInv, Decided
<1> QED
  BY <1>2, <1>3

\* The first statement: a row comes, changes or goes.
LEMMA FirstStatementStep ==
  ASSUME RowsInv, CatalogueTypeOK', FirstStatement
  PROVE  RowsInv'
<1>1. /\ CatalogueTypeOK /\ rows \in [Ids -> Row] /\ kind \in Kinds /\ request \in Request
      /\ ParentsKept(kind, rows) /\ Decided /\ SeenRows /\ excused \in BOOLEAN
  BY DEF RowsInv, CatalogueTypeOK
<1>2. /\ request.parent \in Ids \cup {NoParent} /\ request.scope \in Scopes
      /\ request.basis \in Copies
  BY <1>1, RequestFacts
<1>3. ~excused' =>
        /\ ~excused /\ request.basis = Tree /\ request.stage = "sent"
        /\ NoCycle(kind, rows) /\ ScopesAgree(kind, rows)
  BY <1>1 DEF FirstStatement, RowsInv, KeepsForest, ScopeInherited
<1>4. /\ kind' = kind /\ trees' = trees /\ answer' = answer /\ request.stage = "sent"
      /\ excused' = (excused \/ request.basis # Tree)
  BY DEF FirstStatement
<1>5. ~excused' /\ request.parent # NoParent =>
        /\ request.op = "update" => /\ request.parent # request.id
                                    /\ request.parent \notin Descendants(kind, rows, request.id)
        /\ kind = "storage" => request.scope = rows[request.parent].scope
  BY <1>1, <1>3, DecidedOnTree
<1>6. CASE /\ request.op = "create"
           /\ \E n \in Ids : /\ rows[n].state = "none"
                             /\ rows' = Inserted(rows, n, request.parent, request.scope)
           /\ request' = [request EXCEPT !.stage = "made"]
  <2>1. PICK n \in Ids : rows[n].state = "none" /\ rows' = Inserted(rows, n, request.parent, request.scope)
    BY <1>6
  <2>2. request.parent \in InTable(kind, rows) \cup {NoParent}
    BY <1>6 DEF FirstStatement, Refusable, ParentExists
  <2>3. /\ \A m \in Ids : rows[m].state # "none" => rows'[m].state # "none"
        /\ ParentsKept(kind, rows') /\ (NoCycle(kind, rows) => NoCycle(kind, rows'))
        /\ ScopesAgree(kind, rows) /\ (kind = "storage" /\ request.parent # NoParent =>
                                          request.scope = rows[request.parent].scope)
             => ScopesAgree(kind, rows')
    BY <1>1, <1>2, <2>1, <2>2, InsertSound
  <2>4. /\ request'.basis = request.basis /\ request'.op = request.op /\ request'.id = request.id
        /\ request'.parent = request.parent /\ request'.scope = request.scope
        /\ request'.stage = "made"
    BY <1>1, <1>6 DEF Request
  <2>5. SeenRows' /\ Decided'
    BY <1>4, <2>3, <2>4, TableStep
  <2>6. KeepsForest' /\ ScopeInherited' /\ HalfDone'
    BY <1>3, <1>4, <1>5, <2>3, <2>4 DEF KeepsForest, ScopeInherited, HalfDone
  <2> QED
    BY <1>4, <2>3, <2>5, <2>6 DEF RowsInv
<1>7. CASE /\ request.op = "update"
           /\ rows' = Updated(kind, rows, request.id, request.parent, request.scope)
           /\ request' = [request EXCEPT !.stage = "row"]
  <2> DEFINE n == request.id
             p == request.parent
             scope == request.scope
  <2>1. /\ request'.basis = request.basis /\ request'.op = request.op /\ request'.id = request.id
        /\ request'.parent = request.parent /\ request'.scope = request.scope
        /\ request'.stage = "row"
    BY <1>1, <1>7 DEF Request
  <2>2. CASE n \in InTable(kind, rows)
    <3>1. request.parent \in InTable(kind, rows) \cup {NoParent}
      BY <1>7, <2>2 DEF FirstStatement, Refusable, ParentExists
    <3> DEFINE after == Updated(kind, rows, n, p, scope)
    <3>2. /\ InTable(kind, after) = InTable(kind, rows) /\ after[n].scope = scope
          /\ \A m \in Ids : rows[m].state # "none" => after[m].state # "none"
          /\ ParentsKept(kind, after)
          /\ NoCycle(kind, rows) /\ p # n /\ p \notin Descendants(kind, rows, n)
               => NoCycle(kind, after)
          /\ ScopesAgree(kind, rows) /\ kind = "storage" /\ (p # NoParent => scope = rows[p].scope)
               => \A c \in InTable(kind, rows) :
                     after[c].parent \in Ids \ {n} => after[c].scope = after[after[c].parent].scope
      <4>1. n \in InTable(kind, rows) /\ p \in InTable(kind, rows) \cup {NoParent} /\ scope \in Scopes
        BY <1>2, <2>2, <3>1
      <4> HIDE DEF n, p, scope
      <4>2. /\ InTable(kind, after) = InTable(kind, rows) /\ after[n].scope = scope
            /\ \A m \in Ids : rows[m].state # "none" => after[m].state # "none"
            /\ ParentsKept(kind, after)
        BY <1>1, <4>1, UpdateSound
      <4>3. NoCycle(kind, rows) /\ p # n /\ p \notin Descendants(kind, rows, n)
              => NoCycle(kind, after)
        BY <1>1, <4>1, UpdateSound
      <4>4. ASSUME ScopesAgree(kind, rows), kind = "storage", p # NoParent => scope = rows[p].scope,
                   NEW c \in InTable(kind, rows), after[c].parent \in Ids \ {n}
            PROVE  after[c].scope = after[after[c].parent].scope
        BY <1>1, <4>1, <4>4, UpdateAgrees
      <4> QED
        BY <4>2, <4>3, <4>4
    <3>3. SeenRows' /\ Decided'
      BY <1>4, <1>7, <2>1, <3>2, TableStep
    <3>4. request.parent = NoParent =>
            request.parent # n /\ request.parent \notin Descendants(kind, rows, n)
      BY <2>2, DescendantsFacts, TableFacts
    <3>5. KeepsForest'
      BY <1>3, <1>4, <1>5, <1>7, <3>2, <3>4 DEF KeepsForest
    <3>6. ScopeInherited' /\ HalfDone'
      BY <1>3, <1>4, <1>5, <1>7, <2>1, <2>2, <3>2 DEF ScopeInherited, HalfDone
    <3> QED
      BY <1>4, <1>7, <3>2, <3>3, <3>5, <3>6 DEF RowsInv
  <2>3. CASE n \notin InTable(kind, rows)
    <3>1. rows' = rows
      BY <1>7, <2>3 DEF Updated
    <3>2. excused'
      BY <1>1, <1>3, <1>7, <2>3, DecidedOnTree
    <3>3. SeenRows' /\ Decided'
      BY <1>4, <2>1, <3>1, TableStep
    <3> QED
      BY <1>1, <1>4, <3>1, <3>2, <3>3 DEF RowsInv, KeepsForest, ScopeInherited, HalfDone
  <2> QED
    BY <2>2, <2>3
<1>8. CASE /\ request.op = "delete"
           /\ rows' = [rows EXCEPT ![request.id].state = "gone"]
           /\ request' = [request EXCEPT !.stage = "made"]
  <2>1. /\ request'.basis = request.basis /\ request'.op = request.op /\ request'.id = request.id
        /\ request'.parent = request.parent /\ request'.scope = request.scope
        /\ request'.stage = "made"
    BY <1>1, <1>8 DEF Request
  <2>2. request.id \in Ids /\ rows[request.id].state # "none"
    BY <1>1, <1>2, <1>4, <1>8, CopyFacts DEF Decided, SeenRows
  <2>3. kind = "storage" => \A c \in InTable(kind, rows) : rows[c].parent # request.id
    BY <1>8 DEF FirstStatement, Refusable
  <2>4. /\ \A m \in Ids : rows[m].state # "none" => rows'[m].state # "none"
        /\ ParentsKept(kind, rows') /\ (NoCycle(kind, rows) => NoCycle(kind, rows'))
        /\ ScopesAgree(kind, rows) => ScopesAgree(kind, rows')
    BY <1>1, <1>8, <2>2, <2>3, DeleteSound
  <2>5. SeenRows' /\ Decided'
    BY <1>4, <2>1, <2>4, TableStep
  <2>6. KeepsForest' /\ ScopeInherited' /\ HalfDone'
    BY <1>3, <1>4, <2>1, <2>4 DEF KeepsForest, ScopeInherited, HalfDone
  <2> QED
    BY <1>4, <2>4, <2>5, <2>6 DEF RowsInv
<1> QED
  BY <1>6, <1>7, <1>8 DEF FirstStatement

\* The second one completes an update.
LEMMA SecondStatementStep ==
  ASSUME RowsInv, CatalogueTypeOK', SecondStatement
  PROVE  RowsInv'
<1>1. /\ rows \in [Ids -> Row] /\ kind \in Kinds /\ request \in Request
      /\ ParentsKept(kind, rows) /\ Decided /\ SeenRows
  BY DEF RowsInv, CatalogueTypeOK
<1>2. request.id \in Ids \cup {NoParent} /\ request.scope \in Scopes /\ request.basis \in Copies
  BY <1>1, RequestFacts
<1>3. /\ request.stage = "row" /\ rows' = Pushed(kind, rows, request.id, request.scope)
      /\ kind' = kind /\ trees' = trees /\ answer' = answer /\ excused' = excused
  BY DEF SecondStatement
<1>4. /\ request'.basis = request.basis /\ request'.op = request.op /\ request'.id = request.id
      /\ request'.parent = request.parent /\ request'.scope = request.scope
      /\ request'.stage = "made"
  BY <1>1 DEF SecondStatement, Request
<1>5. /\ \A m \in Ids : rows[m].state # "none" => rows'[m].state # "none"
      /\ ParentsKept(kind, rows') /\ (NoCycle(kind, rows) => NoCycle(kind, rows'))
  BY <1>1, <1>2, <1>3, PushSound
<1>6. SeenRows' /\ Decided'
  BY <1>3, <1>4, <1>5, TableStep
<1>7. KeepsForest'
  BY <1>3, <1>5 DEF RowsInv, KeepsForest
<1>8. ScopeInherited'
  <2> SUFFICES ASSUME ~excused, kind = "storage" PROVE ScopesAgree("storage", rows')
    BY <1>3 DEF ScopeInherited, ScopesAgree
  <2>1. /\ request.id \in InTable(kind, rows) /\ rows[request.id].scope = request.scope
        /\ \A n \in InTable(kind, rows) :
             rows[n].parent \in Ids \ {request.id} => rows[n].scope = rows[rows[n].parent].scope
    BY <1>3 DEF RowsInv, HalfDone
  <2> QED
    BY <1>1, <1>2, <1>3, <2>1, PushAgrees
<1> QED
  BY <1>3, <1>4, <1>5, <1>6, <1>7, <1>8 DEF RowsInv, HalfDone

\* Another desk's edit, of the table as it is.
LEMMA EditedElsewhereStep ==
  ASSUME RowsInv, CatalogueTypeOK', NEW op \in {"create", "update", "delete"}, NEW n \in Ids,
         NEW parent \in Ids \cup {NoParent}, NEW scope \in Scopes,
         EditedElsewhere(op, n, parent, scope)
  PROVE  RowsInv'
<1>1. /\ rows \in [Ids -> Row] /\ kind \in Kinds /\ ParentsKept(kind, rows)
  BY DEF RowsInv, CatalogueTypeOK
<1>2. /\ kind' = kind /\ trees' = trees /\ answer' = answer /\ request' = request
      /\ ~excused' => ~excused /\ request.stage # "row"
      /\ rows[n].state = (IF op = "create" THEN "none" ELSE "live")
      /\ parent # NoParent =>
            /\ rows[parent].state = "live" /\ parent # n
            /\ kind = "storage" => scope = rows[parent].scope
            /\ parent \notin Descendants(kind, rows, n)
  BY DEF EditedElsewhere
<1>3. ~excused' => NoCycle(kind, rows) /\ ScopesAgree(kind, rows)
  BY <1>2 DEF RowsInv, KeepsForest, ScopeInherited
<1>4. parent \in InTable(kind, rows) \cup {NoParent}
  BY <1>2 DEF InTable
<1>5. SUFFICES /\ \A m \in Ids : rows[m].state # "none" => rows'[m].state # "none"
               /\ ParentsKept(kind, rows') /\ (NoCycle(kind, rows) => NoCycle(kind, rows'))
               /\ ScopesAgree(kind, rows) => ScopesAgree(kind, rows')
  <2>1. SeenRows' /\ Decided'
    BY <1>2, <1>5, TableStep
  <2>2. KeepsForest' /\ ScopeInherited' /\ HalfDone'
    BY <1>2, <1>3, <1>5 DEF KeepsForest, ScopeInherited, HalfDone
  <2> QED
    BY <1>2, <1>5, <2>1, <2>2 DEF RowsInv
<1>6. CASE op = "create" /\ rows' = Inserted(rows, n, parent, scope)
  BY <1>1, <1>2, <1>4, <1>6, InsertSound
<1>7. CASE op = "update" /\ rows' = Pushed(kind, Updated(kind, rows, n, parent, scope), n, scope)
  <2> DEFINE between == Updated(kind, rows, n, parent, scope)
  <2>1. n \in InTable(kind, rows)
    BY <1>2, <1>7 DEF InTable
  <2>2. parent # n /\ parent \notin Descendants(kind, rows, n)
    BY <1>2, <2>1, DescendantsFacts, TableFacts
  <2>3. /\ between \in [Ids -> Row]
        /\ InTable(kind, between) = InTable(kind, rows) /\ between[n].scope = scope
        /\ \A m \in Ids : rows[m].state # "none" => between[m].state # "none"
        /\ ParentsKept(kind, between)
        /\ NoCycle(kind, rows) => NoCycle(kind, between)
    BY <1>1, <1>2, <1>4, <2>1, <2>2, UpdateSound
  <2>4. ASSUME ScopesAgree(kind, rows), kind = "storage",
               NEW c \in InTable(kind, rows), between[c].parent \in Ids \ {n}
        PROVE  between[c].scope = between[between[c].parent].scope
    BY <1>1, <1>2, <1>4, <2>1, <2>4, UpdateAgrees
  <2> HIDE DEF between
  <2>5. rows' = Pushed(kind, between, n, scope)
    BY <1>7 DEF between
  <2>6. /\ \A m \in Ids : between[m].state # "none" => rows'[m].state # "none"
        /\ ParentsKept(kind, rows')
        /\ NoCycle(kind, between) => NoCycle(kind, rows')
    BY <2>3, <2>5, PushSound
  <2>7. ASSUME ScopesAgree(kind, rows), kind = "storage" PROVE ScopesAgree(kind, rows')
    BY <2>1, <2>3, <2>5, <2>7, <2>4, PushAgrees
  <2>8. ScopesAgree(kind, rows) => ScopesAgree(kind, rows')
    BY <2>7 DEF ScopesAgree
  <2> QED
    BY <2>3, <2>6, <2>8
<1>8. CASE /\ op = "delete" /\ (kind = "storage" => Descendants(kind, rows, n) = {})
           /\ rows' = [rows EXCEPT ![n].state = "gone"]
  <2>1. kind = "storage" => \A c \in InTable(kind, rows) : rows[c].parent # n
    BY <1>8, DescendantsFacts
  <2>2. rows[n].state # "none"
    BY <1>2, <1>8
  <2> QED
    BY <1>1, <1>8, <2>1, <2>2, DeleteSound
<1> QED
  BY <1>6, <1>7, <1>8 DEF EditedElsewhere

LEMMA RowsStep ==
  RowsInv /\ CatalogueTypeOK' /\ [CatalogueNext]_catalogueVars => RowsInv'
<1> SUFFICES ASSUME RowsInv, CatalogueTypeOK', [CatalogueNext]_catalogueVars PROVE RowsInv'
  OBVIOUS
<1>0. CatalogueTypeOK /\ request \in Request
  BY DEF RowsInv, CatalogueTypeOK
<1>1. ASSUME NEW op \in {"create", "update", "delete"}, NEW id, NEW parent \in Parents, NEW scope,
             Submit(op, id, parent, scope),
             op # "create" => id \in DOMAIN trees, op # "delete" => scope \in ScopesFor(parent),
             op = "delete" => parent = NoParent, op = "update" => ParentOffered(id, parent)
      PROVE  RowsInv'
  <2>1. Decided' /\ request'.basis = trees /\ request'.stage = "sent"
    BY <1>0, <1>1, SubmitDecided
  <2>2. /\ UNCHANGED <<kind, rows, trees, answer>> /\ request.stage # "row"
        /\ excused => excused'
    BY <1>1 DEF Submit, NoRequest
  <2> QED
    BY <2>1, <2>2, RequestStep
<1>2. CASE SubmitCreate
  <2>1. PICK parent \in Parents : \E scope \in ScopesFor(parent) :
                                     Submit("create", NoParent, parent, scope)
    BY <1>2 DEF SubmitCreate
  <2> QED
    BY <1>1, <2>1
<1>3. CASE SubmitUpdate
  <2>1. PICK n \in DOMAIN trees, parent \in Parents : \E scope \in ScopesFor(parent) :
                       ParentOffered(n, parent) /\ Submit("update", n, parent, scope)
    BY <1>3 DEF SubmitUpdate
  <2> QED
    BY <1>1, <2>1
<1>4. CASE SubmitDelete
  <2>1. NoParent \in Parents
    BY DEF Parents
  <2> QED
    BY <1>1, <1>4, <2>1 DEF SubmitDelete
<1>5. CASE FirstStatement
  BY <1>5, FirstStatementStep
<1>6. CASE Refused \/ Announce
  <2>1. /\ request' = NoRequest /\ request.stage # "row"
        /\ UNCHANGED <<kind, rows, trees, answer, excused>>
    BY <1>6 DEF Refused, Announce
  <2>2. request'.stage # "row" /\ request'.basis = NoTree
    BY <2>1 DEF NoRequest
  <2> QED
    BY <2>1, <2>2, DecidedNone, RequestStep
<1>7. CASE SecondStatement
  BY <1>7, SecondStatementStep
<1>8. CASE StatementFails
  <2>1. /\ request' = NoRequest /\ UNCHANGED <<kind, rows, trees, answer>>
        /\ excused' = (excused \/ request.stage = "row")
    BY <1>8 DEF StatementFails
  <2>2. request'.stage # "row" /\ request'.basis = NoTree
    BY <2>1 DEF NoRequest
  <2> QED
    BY <2>1, <2>2, DecidedNone, RequestStep
<1>9. ASSUME NEW op \in {"create", "update", "delete"}, NEW n \in Ids,
             NEW parent \in Ids \cup {NoParent}, NEW scope \in Scopes,
             EditedElsewhere(op, n, parent, scope)
      PROVE  RowsInv'
  BY <1>9, EditedElsewhereStep
<1>10. CASE \/ \E name \in Announcements : Hear(name)
            \/ Tick \/ ServeGet \/ Arrive \/ GetFails \/ Subscribe
            \/ FirstOpen \/ Drop \/ Disconnect \/ Reconnect \/ UNCHANGED catalogueVars
  <2>1. /\ UNCHANGED <<kind, rows, request, excused>>
        /\ trees' \in {trees, answer} /\ answer' \in {answer, Tree, NoTree}
    BY <1>10 DEF Hear, Tick, ServeGet, Arrive, GetFails, Subscribe, FirstOpen, Drop,
                 Disconnect, Reconnect, catalogueVars
  <2> QED
    BY <2>1, CopyStep
<1> QED
  BY <1>2, <1>3, <1>4, <1>5, <1>6, <1>7, <1>8, <1>9, <1>10 DEF CatalogueNext

LEMMA RowsAlways == CatalogueSpec => []RowsInv
<1>1. RowsInv /\ [CatalogueNext]_catalogueVars => RowsInv'
  BY TypeStep, RowsStep DEF RowsInv
<1> QED
  BY <1>1, RowsInit, PTL DEF CatalogueSpec

\* The pages offer no descendant as a parent, and nothing else keeps a row from
\* becoming its own ancestor.
THEOREM KeepsForestAlways == CatalogueSpec => []KeepsForest
<1>1. RowsInv => KeepsForest
  BY DEF RowsInv
<1> QED
  BY <1>1, RowsAlways, PTL

\* The scope an edit gives a storage is that of the first-level storage it
\* comes under, and the second statement takes it to all that is below.
THEOREM ScopeInheritedAlways == CatalogueSpec => []ScopeInherited
<1>1. RowsInv => ScopeInherited
  BY DEF RowsInv
<1> QED
  BY <1>1, RowsAlways, PTL

----------------------------------------------------------------------------
\* The browser's copy is the table when nothing is on its way.

LEMMA TreeStays == ASSUME UNCHANGED <<rows, hasEvent>> PROVE Tree' = Tree
<1>1. Visible' = Visible
  BY DEF Visible
<1> QED
  BY <1>1 DEF Tree

\* An announcement is on its way to the browser, or nobody told it.
LEMMA Telling ==
  ASSUME CatalogueTypeOK, NEW op, Tell(op), stream' = stream, kind' = kind
  PROVE  (silent \/ stream = "lost" \/ told \cap Listened # {})'
                /\ (silent => silent')
  BY DEF Tell, Listened, CatalogueTypeOK, Streams

LEMMA NewsStep ==
  CatalogueTypeOK /\ NewsUnderWay /\ [CatalogueNext]_catalogueVars => NewsUnderWay'
<1> SUFFICES ASSUME CatalogueTypeOK, NewsUnderWay, [CatalogueNext]_catalogueVars
             PROVE  NewsUnderWay'
  OBVIOUS
<1>1. CASE SubmitCreate \/ SubmitUpdate \/ SubmitDelete
  <2>1. /\ request = NoRequest
        /\ UNCHANGED <<kind, hasEvent, rows, trees, ask, answer, ended, stream, told, silent>>
    BY <1>1 DEF SubmitCreate, SubmitUpdate, SubmitDelete, Submit
  <2>2. request.stage = "none"
    BY <2>1 DEF NoRequest
  <2> QED
    BY <2>1, <2>2, TreeStays DEF NewsUnderWay, Listened
<1>2. CASE FirstStatement \/ SecondStatement
  <2>1. request \in Request
    BY DEF CatalogueTypeOK
  <2>2. request'.stage \in {"row", "made"}
    BY <1>2, <2>1 DEF FirstStatement, SecondStatement, Request
  <2> QED
    BY <2>2 DEF NewsUnderWay
<1>3. CASE Refused \/ StatementFails
  <2>1. /\ UNCHANGED <<kind, hasEvent, rows, trees, ask, answer, ended, stream, told>>
        /\ silent => silent'
        /\ request.stage \in {"row", "made"} => silent'
    <3>1. CASE Refused
      BY <3>1 DEF Refused
    <3>2. CASE StatementFails
      BY <3>2 DEF StatementFails
    <3> QED
      BY <1>3, <3>1, <3>2
  <2> QED
    BY <2>1, TreeStays DEF NewsUnderWay, Listened
<1>4. CASE Announce
  BY <1>4, Telling DEF Announce, NewsUnderWay
<1>5. ASSUME NEW op \in {"create", "update", "delete"}, NEW n \in Ids,
             NEW parent \in Ids \cup {NoParent}, NEW scope \in Scopes,
             EditedElsewhere(op, n, parent, scope)
      PROVE  NewsUnderWay'
  BY <1>5, Telling DEF EditedElsewhere, TellUnlessFailed, NewsUnderWay
<1>6. ASSUME NEW name \in Announcements, Hear(name) PROVE NewsUnderWay'
  <2>1. UNCHANGED <<kind, hasEvent, rows, request, trees, answer, ended, stream, silent>>
    BY <1>6 DEF Hear
  <2>2. CASE name \in Listened
    BY <1>6, <2>1, <2>2 DEF Hear, AskWhenTold, AskAgain, NewsUnderWay
  <2>3. CASE name \notin Listened
    <3>1. ask' = ask /\ (told \cap Listened # {} => (told \cap Listened)' # {})
      BY <1>6, <2>1, <2>3 DEF Hear, Listened
    <3> QED
      BY <2>1, <3>1, TreeStays DEF NewsUnderWay
  <2> QED
    BY <2>2, <2>3
<1>7. CASE Tick \/ Subscribe
  BY <1>7 DEF Tick, Subscribe, NewsUnderWay
<1>8. CASE ServeGet
  BY <1>8, TreeStays DEF ServeGet, NewsUnderWay
<1>9. CASE Arrive
  BY <1>9, TreeStays DEF Arrive, NewsUnderWay, Listened
<1>10. CASE GetFails \/ Disconnect
  BY <1>10 DEF GetFails, Disconnect, NewsUnderWay
<1>13. CASE FirstOpen \/ Drop
  <2>1. /\ UNCHANGED <<kind, hasEvent, rows, request, trees, ask, answer, ended, told, silent>>
        /\ stream # "lost" /\ stream' # "lost"
    BY <1>13 DEF FirstOpen, Drop
  <2> QED
    BY <2>1, TreeStays DEF NewsUnderWay, Listened
<1>11. CASE Reconnect
  BY <1>11 DEF Reconnect, AskAgain, NewsUnderWay
<1>12. CASE UNCHANGED catalogueVars
  BY <1>12, TreeStays DEF catalogueVars, NewsUnderWay, Listened
<1> QED
  BY <1>1, <1>2, <1>3, <1>4, <1>5, <1>6, <1>7, <1>8, <1>9, <1>10, <1>11, <1>12, <1>13
  DEF CatalogueNext

\* Nothing that changes the table is missed but what nobody told the browser: the
\* change of a handler that failed afterwards, one under a name it does not listen
\* to, and one made before its first connection was open or after the server had
\* dropped it.  Any other is in the answer under way, or in the next one.
THEOREM QuietIsFreshAlways == CatalogueSpec => []QuietIsFresh
<1>1. CatalogueInit => NewsUnderWay
  BY DEF CatalogueInit, NewsUnderWay
<1>2. NewsUnderWay => QuietIsFresh
  BY DEF NewsUnderWay, QuietIsFresh, Quiet
<1> QED
  BY <1>1, <1>2, TypeInit, TypeStep, NewsStep, PTL DEF CatalogueSpec

----------------------------------------------------------------------------
\* The trees the browser is given, whatever the table has come to.

\* A tree goes from its roots down, so nothing in it is below itself.
LEMMA ListedForest ==
  ASSUME NEW v, NoParent \notin DOMAIN v
  PROVE  \A n \in DOMAIN Listed(v) : n \notin Below(Listed(v), n)
<1> DEFINE T == Listed(v)
           S == {c \in DOMAIN v : c \in DOMAIN T /\ c \notin Below(T, c)}
<1>1. /\ DOMAIN T = Below(v, NoParent) /\ DOMAIN T \subseteq DOMAIN v
      /\ \A c \in DOMAIN T : T[c] = v[c]
  BY ListedFacts DEF Listed
<1>2. \A m : Below(T, m) \subseteq DOMAIN T
  BY DEF Below
<1> HIDE DEF T
<1>3. ASSUME NEW c \in DOMAIN v, v[c].parent \in S \cup {NoParent}
      PROVE  c \in DOMAIN T /\ c \notin Below(T, c)
  <2>1. v[c].parent \in Below(v, NoParent) \cup {NoParent}
    BY <1>1, <1>3
  <2>2. c \in DOMAIN T
    BY <1>1, <2>1, BelowClosed
  <2>3. ASSUME c \in Below(T, c) PROVE FALSE
    <3>1. T[c].parent \in Below(T, c) \cup {c}
      BY <2>3, BelowUnfold
    <3>2. v[c].parent \in Below(T, c) \cup {c}
      BY <1>1, <2>2, <3>1
    <3>3. v[c].parent # NoParent
      BY <1>1, <1>2, <2>2, <3>2
    <3>4. PICK p \in S : p = v[c].parent
      BY <1>3, <3>3
    <3>5. c \in Below(T, p)
      BY <1>1, <2>2, <3>4, BelowClosed
    <3>6. p \in Below(T, p)
      BY <3>2, <3>4, <3>5, BelowTransitive
    <3> QED
      BY <3>4, <3>6
  <2> QED
    BY <2>2, <2>3
<1>4. ClosedBelow(v, NoParent, S)
  BY <1>3 DEF ClosedBelow
<1>5. Below(v, NoParent) \subseteq S
  <2> HIDE DEF S
  <2>1. S \in SUBSET DOMAIN v
    BY DEF S
  <2> QED
    BY <1>4, <2>1, BelowLeast
<1> QED
  BY <1>1, <1>5 DEF T

\* Every element of a tree has one root: itself, or that of its parent.
LEMMA ListedRoot ==
  ASSUME NEW v, NoParent \notin DOMAIN v
  PROVE  \A n \in DOMAIN Listed(v) : \E r \in DOMAIN Listed(v) : RootsOf(Listed(v), n) = {r}
<1> DEFINE T == Listed(v)
           S == {c \in DOMAIN v : c \in DOMAIN T /\ \E r \in DOMAIN T : RootsOf(T, c) = {r}}
<1>1. /\ DOMAIN T = Below(v, NoParent) /\ DOMAIN T \subseteq DOMAIN v
      /\ \A c \in DOMAIN T : T[c] = v[c]
  BY ListedFacts DEF Listed
<1>2. \A m : Below(T, m) \subseteq DOMAIN T
  BY DEF Below
<1> HIDE DEF T
<1>3. ASSUME NEW c \in DOMAIN v, v[c].parent \in S \cup {NoParent}
      PROVE  c \in DOMAIN T /\ \E r \in DOMAIN T : RootsOf(T, c) = {r}
  <2>1. v[c].parent \in Below(v, NoParent) \cup {NoParent}
    BY <1>1, <1>3
  <2>2. c \in DOMAIN T /\ T[c].parent = v[c].parent
    BY <1>1, <2>1, BelowClosed
  <2>3. CASE v[c].parent = NoParent
    <3>1. ASSUME NEW r \in RootsOf(T, c) PROVE r = c
      <4>1. r \in DOMAIN T /\ (c = r \/ c \in Below(T, r))
        BY DEF RootsOf, HasAncestor
      <4>2. ASSUME c \in Below(T, r) PROVE FALSE
        <5>1. T[c].parent \in Below(T, r) \cup {r}
          BY <4>2, BelowUnfold
        <5> QED
          BY <1>1, <1>2, <2>2, <2>3, <4>1, <5>1
      <4> QED
        BY <4>1, <4>2
    <3>2. c \in RootsOf(T, c)
      BY <2>2, <2>3 DEF RootsOf, HasAncestor
    <3>3. RootsOf(T, c) = {c}
      BY <3>1, <3>2
    <3> QED
      BY <2>2, <3>3
  <2>4. CASE v[c].parent # NoParent
    <3>1. PICK p \in S : p = v[c].parent
      BY <1>3, <2>4
    <3>2. ASSUME NEW r \in DOMAIN T, T[r].parent = NoParent
          PROVE  HasAncestor(T, c, r) <=> HasAncestor(T, p, r)
      <4>1. ASSUME HasAncestor(T, p, r) PROVE HasAncestor(T, c, r)
        <5>1. T[c].parent \in Below(T, r) \cup {r}
          BY <2>2, <3>1, <4>1 DEF HasAncestor
        <5> QED
          BY <2>2, <5>1, BelowClosed DEF HasAncestor
      <4>2. ASSUME HasAncestor(T, c, r) PROVE HasAncestor(T, p, r)
        <5>1. c \in Below(T, r)
          BY <2>2, <2>4, <3>2, <4>2 DEF HasAncestor
        <5>2. T[c].parent \in Below(T, r) \cup {r}
          BY <5>1, BelowUnfold
        <5> QED
          BY <2>2, <3>1, <5>2 DEF HasAncestor
      <4> QED
        BY <4>1, <4>2
    <3>3. RootsOf(T, c) = RootsOf(T, p)
      BY <3>2 DEF RootsOf
    <3> QED
      BY <2>2, <3>1, <3>3
  <2> QED
    BY <2>3, <2>4
<1>4. ClosedBelow(v, NoParent, S)
  BY <1>3 DEF ClosedBelow
<1>5. Below(v, NoParent) \subseteq S
  <2> HIDE DEF S
  <2>1. S \in SUBSET DOMAIN v
    BY DEF S
  <2> QED
    BY <1>4, <2>1, BelowLeast
<1> QED
  BY <1>1, <1>5 DEF T

\* Even when two desks have made rows their own ancestors, no tree of the
\* browser has a cycle or an element with two roots: the walks of
\* storagesWithParents$ and typesWithParents$ end, on every tree they are given.
THEOREM CopiesAreForestsAlways == CatalogueSpec => []CopiesAreForests
<1> DEFINE Forests(copy) == \A n \in DOMAIN copy :
             n \notin Below(copy, n) /\ \E r \in DOMAIN copy : RootsOf(copy, n) = {r}
<1>1. Forests(Tree)
  <2>1. NoParent \notin DOMAIN Visible
    BY CatalogueAssumption DEF Visible
  <2> QED
    BY <2>1, ListedForest, ListedRoot DEF Tree
<1>2. Forests(NoTree)
  BY DEF NoTree
<1>3. CopiesAreForests <=> Forests(trees) /\ Forests(answer)
  BY DEF CopiesAreForests
<1>4. CopiesAreForests' <=> Forests(trees') /\ Forests(answer')
  BY DEF CopiesAreForests
<1> HIDE DEF Forests
<1>5. CatalogueInit => CopiesAreForests
  BY <1>2, <1>3 DEF CatalogueInit
<1>6. [CatalogueNext]_catalogueVars => trees' \in {trees, answer} /\ answer' \in {answer, NoTree, Tree}
  BY DEF CatalogueNext, catalogueVars, SubmitCreate, SubmitUpdate, SubmitDelete, Submit,
     FirstStatement, Refused, SecondStatement, StatementFails, Announce, EditedElsewhere,
     Hear, Tick, ServeGet, Arrive, GetFails, Subscribe, FirstOpen, Drop, Disconnect, Reconnect
<1>7. CopiesAreForests /\ [CatalogueNext]_catalogueVars => CopiesAreForests'
  BY <1>1, <1>2, <1>3, <1>4, <1>6
<1> QED
  BY <1>5, <1>7, PTL DEF CatalogueSpec

----------------------------------------------------------------------------
\* The trees, built and taken apart.

(* What TreeLoops has at each stage, for any rows. *)

\* A call has seen to each of its children: it is to be built, is being built
\* by the next call, or is built.
CallsInv ==
  /\ Len(calls) > 0
  /\ \A i \in DOMAIN calls :
       /\ i = 1 => calls[i].id = NoParent
       /\ i > 1 => calls[i].id \in ChildrenOf(locs, calls[i - 1].id)
       /\ calls[i].left \cap calls[i].made = {}
       /\ i < Len(calls) => calls[i + 1].id \notin calls[i].left
       /\ calls[i].left \cup calls[i].made
            \cup (IF i < Len(calls) THEN {calls[i + 1].id} ELSE {})
          = ChildrenOf(locs, calls[i].id)
       /\ calls[i].made \subseteq DOMAIN kids
       /\ calls[i].id \notin DOMAIN kids
       /\ calls[i].id \in Below(locs, NoParent) \cup {NoParent}

CallsDiffer == \A i, j \in DOMAIN calls : calls[i].id = calls[j].id => i = j

\* What is built was built for its parent, which is built or has it made.
KidsUnder ==
  \A n \in DOMAIN kids :
    /\ n \in DOMAIN locs
    /\ \/ locs[n].parent \in DOMAIN kids
       \/ \E i \in DOMAIN calls : calls[i].id = locs[n].parent /\ n \in calls[i].made

KidsDone ==
  \A n \in DOMAIN kids : /\ kids[n] = ChildrenOf(locs, n) /\ kids[n] \subseteq DOMAIN kids
                         /\ n \in Below(locs, NoParent) \cup {NoParent}

\* Elements join those to do after their parent has left them.
FlattenInv ==
  /\ todo \cup map \subseteq Below(locs, NoParent)
  /\ ChildrenOf(locs, NoParent) \subseteq todo \cup map
  /\ \A n \in map : ChildrenOf(locs, n) \subseteq todo \cup map
  /\ todo \cap map = {}
  /\ \A n \in todo \cup map : locs[n].parent \in map \cup {NoParent}

\* A chain that has come from n up to e: at each of its places the ancestors
\* are those before it, and e's.
Reaches(chain, e, n) ==
  /\ chain = <<>> => e = n
  /\ chain # <<>> => chain[Len(chain)] = n /\ locs[chain[1]].parent = e
  /\ \A i \in DOMAIN chain :
       /\ chain[i] \in Below(locs, NoParent)
       /\ i > 1 => locs[chain[i]].parent = chain[i - 1]
       /\ \A a \in Nodes :
            HasAncestor(locs, chain[i], a) <=>
              (\E k \in 1 .. i : chain[k] = a) \/ HasAncestor(locs, e, a)

ClimbInv ==
  /\ todo \subseteq map
  /\ elem = NoParent => DOMAIN returnMap = map \ todo
  /\ elem # NoParent =>
       /\ entry \in map \ todo /\ elem \in map
       /\ DOMAIN returnMap = map \ (todo \cup {entry})
       /\ Reaches(path, elem, entry)

ChainsDone ==
  \A n \in DOMAIN returnMap : returnMap[n] # <<>> /\ Reaches(returnMap[n], NoParent, n)

\* The level a view looks at is below the last node it has opened, and what it
\* should still open is below that level.
OpenInv ==
  /\ opened \subseteq OnlyWay
  /\ \E n \in OnlyWay \cup {NoParent} :
       todo = ChildrenOf(locs, n) /\ \A o \in opened : HasAncestor(locs, n, o)
  /\ \A n \in OnlyWay \ opened : \E t \in todo : HasAncestor(locs, n, t)

LoopsInv ==
  /\ TreeTypeOK /\ KidsDone
  /\ stage = "build" => CallsInv /\ CallsDiffer /\ KidsUnder /\ map = {}
  /\ stage # "build" => DOMAIN kids = Below(locs, NoParent) \cup {NoParent}
  /\ stage = "flatten" => FlattenInv
  /\ stage \in {"build", "flatten"} => elem = NoParent /\ DOMAIN returnMap = {}
  /\ stage \notin {"build", "flatten"} => map = Below(locs, NoParent)
  /\ stage = "climb" => ClimbInv
  /\ ChainsDone
  /\ stage \in {"open", "over"} => DOMAIN returnMap = map
  /\ stage \in {"build", "flatten", "climb"} => opened = {}
  /\ stage = "open" => OpenInv
  /\ stage = "over" => opened = OnlyWay

LEMMA RowFacts ==
  ASSUME TreeTypeOK
  PROVE  /\ DOMAIN locs \subseteq Nodes /\ NoParent \notin DOMAIN locs
         /\ \A n \in DOMAIN locs : locs[n].parent \in Elements
         /\ \A n : Below(locs, n) \subseteq DOMAIN locs
         /\ \A n : ChildrenOf(locs, n) \subseteq DOMAIN locs
<1>1. PICK S \in SUBSET Nodes : locs \in [S -> [parent : Nodes \cup {NoParent}]]
  BY DEF TreeTypeOK, Sources
<1>2. /\ DOMAIN locs \subseteq Nodes
      /\ \A n \in DOMAIN locs : locs[n].parent \in Elements
  BY <1>1 DEF Elements
<1>3. NoParent \notin DOMAIN locs
  BY <1>2, NodesAssumption
<1> QED
  BY <1>2, <1>3 DEF Below, ChildrenOf

\* The ancestors of a row are itself and those of its parent.
LEMMA AncestorStep ==
  ASSUME NEW v, NEW c \in DOMAIN v, NEW a
  PROVE  HasAncestor(v, c, a) <=> c = a \/ HasAncestor(v, v[c].parent, a)
<1>1. c \in Below(v, a) => v[c].parent \in Below(v, a) \cup {a}
  BY BelowUnfold
<1>2. v[c].parent \in Below(v, a) \cup {a} => c \in Below(v, a)
  BY BelowClosed
<1> QED
  BY <1>1, <1>2 DEF HasAncestor

\* What lies below a row lies below one of its children, or is one.
LEMMA ChildAbove ==
  ASSUME NEW v, NEW n, NEW d \in Below(v, n)
  PROVE  \E c \in ChildrenOf(v, n) : HasAncestor(v, d, c)
<1> DEFINE S == {x \in DOMAIN v : \E c \in ChildrenOf(v, n) : HasAncestor(v, x, c)}
<1>1. ASSUME NEW x \in DOMAIN v, v[x].parent \in S \cup {n}
      PROVE  \E c \in ChildrenOf(v, n) : HasAncestor(v, x, c)
  <2>1. CASE v[x].parent = n
    BY <2>1 DEF ChildrenOf, HasAncestor
  <2>2. CASE v[x].parent \in S
    <3>1. PICK c \in ChildrenOf(v, n) : HasAncestor(v, v[x].parent, c)
      BY <2>2
    <3> QED
      BY <3>1, AncestorStep
  <2> QED
    BY <1>1, <2>1, <2>2
<1>2. ClosedBelow(v, n, S)
  BY <1>1 DEF ClosedBelow
<1>3. Below(v, n) \subseteq S
  <2> HIDE DEF S
  <2>1. S \in SUBSET DOMAIN v
    BY DEF S
  <2> QED
    BY <1>2, <2>1, BelowLeast
<1> QED
  BY <1>3

\* Nothing that a tree may hold is below itself.
LEMMA RootedForest ==
  ASSUME NEW v, NoParent \notin DOMAIN v, NEW n \in Below(v, NoParent)
  PROVE  n \notin Below(v, n)
<1>1. n \in DOMAIN Listed(v) /\ n \in DOMAIN v /\ n # NoParent
  BY DEF Listed, Below
<1>2. n \notin Below(Listed(v), n)
  BY <1>1, ListedForest
<1>3. n \in Below(v, n) => n \in Below(Listed(v), n)
  BY <1>1, AncestorsListed
<1> QED
  BY <1>2, <1>3

LEMMA LoopsInit == TreesInit => LoopsInv
<1> SUFFICES ASSUME TreesInit PROVE LoopsInv
  OBVIOUS
<1>1. /\ stage = "build" /\ calls = <<CallOf(NoParent)>> /\ DOMAIN kids = {}
      /\ DOMAIN returnMap = {} /\ kids = EmptyMap /\ returnMap = EmptyMap
  BY DEF TreesInit, EmptyMap
<1>2. ChildrenOf(locs, NoParent) \subseteq Nodes
  <2>1. PICK S \in SUBSET Nodes : locs \in [S -> [parent : Nodes \cup {NoParent}]]
    BY DEF TreesInit, Sources
  <2> QED
    BY <2>1 DEF ChildrenOf
<1>3. /\ Len(calls) = 1 /\ DOMAIN calls = {1} /\ calls[1] = CallOf(NoParent)
      /\ CallOf(NoParent) = [id |-> NoParent, left |-> ChildrenOf(locs, NoParent),
                             made |-> {}]
  BY <1>1 DEF CallOf
<1>4. TreeTypeOK
  <2>1. calls \in Seq([id : Elements, left : SUBSET Nodes, made : SUBSET Nodes])
    BY <1>1, <1>2, <1>3 DEF Elements
  <2> QED
    BY <1>1, <2>1 DEF TreesInit, TreeTypeOK, Elements, EmptyMap
<1>5. CallsInv
  BY <1>1, <1>3 DEF CallsInv
<1>6. CallsDiffer /\ KidsUnder /\ KidsDone /\ ChainsDone
  BY <1>1, <1>3 DEF CallsDiffer, KidsUnder, KidsDone, ChainsDone
<1> QED
  BY <1>1, <1>4, <1>5, <1>6 DEF LoopsInv, TreesInit

\* What holds of a sequence, and how to make one.
LEMMA CallSequence ==
  ASSUME NEW R, NEW s \in Seq(R)
  PROVE  /\ Len(s) \in Nat /\ DOMAIN s = 1 .. Len(s)
         /\ \A i \in DOMAIN s : s[i] \in R
OBVIOUS

LEMMA SequenceMade ==
  ASSUME NEW R, NEW n \in Nat, NEW f, f = [i \in 1 .. n |-> f[i]],
         \A i \in 1 .. n : f[i] \in R
  PROVE  f \in Seq(R) /\ Len(f) = n
<1>1. f \in [1 .. n -> R]
  OBVIOUS
<1>2. f \in Seq(R)
  BY <1>1
<1> QED
  BY <1>1, <1>2

\* What is known while the trees are built.
LEMMA BuildFacts ==
  ASSUME LoopsInv, stage = "build"
  PROVE  /\ TreeTypeOK /\ KidsDone /\ CallsInv /\ CallsDiffer /\ KidsUnder
         /\ map = {} /\ elem = NoParent /\ DOMAIN returnMap = {} /\ opened = {}
         /\ Len(calls) \in Nat /\ Len(calls) > 0 /\ DOMAIN calls = 1 .. Len(calls)
         /\ \A i \in DOMAIN calls :
              calls[i] \in [id : Elements, left : SUBSET Nodes, made : SUBSET Nodes]
<1>1. TreeTypeOK /\ CallsInv
  BY DEF LoopsInv
<1>2. calls \in Seq([id : Elements, left : SUBSET Nodes, made : SUBSET Nodes])
  BY <1>1 DEF TreeTypeOK
<1>3. Len(calls) > 0
  BY <1>1 DEF CallsInv
<1>4. /\ Len(calls) \in Nat /\ DOMAIN calls = 1 .. Len(calls)
      /\ \A i \in DOMAIN calls :
           calls[i] \in [id : Elements, left : SUBSET Nodes, made : SUBSET Nodes]
  BY <1>2, CallSequence
<1>5. /\ KidsDone /\ CallsDiffer /\ KidsUnder
      /\ map = {} /\ elem = NoParent /\ DOMAIN returnMap = {} /\ opened = {}
  BY DEF LoopsInv
<1> QED
  BY <1>1, <1>3, <1>4, <1>5

\* The stack after a call.
LEMMA CallMade ==
  ASSUME LoopsInv, Call
  PROVE  \E c \in calls[Len(calls)].left :
           /\ c \in Nodes /\ c # NoParent /\ c \in DOMAIN locs
           /\ c \in ChildrenOf(locs, calls[Len(calls)].id)
           /\ locs[c].parent = calls[Len(calls)].id /\ NoParent \notin DOMAIN locs
           /\ calls' \in Seq([id : Elements, left : SUBSET Nodes, made : SUBSET Nodes])
           /\ Len(calls') = Len(calls) + 1 /\ DOMAIN calls' = 1 .. Len(calls) + 1
           /\ \A i \in 1 .. Len(calls) : i # Len(calls) => calls'[i] = calls[i]
           /\ calls'[Len(calls)].left = calls[Len(calls)].left \ {c}
           /\ calls'[Len(calls) + 1].id = c /\ calls'[Len(calls) + 1].made = {}
           /\ calls'[Len(calls) + 1].left = ChildrenOf(locs, c)
           /\ \A i \in 1 .. Len(calls) : calls'[i].id = calls[i].id /\ calls'[i].made = calls[i].made
<1> DEFINE L == Len(calls)
<1>1. /\ TreeTypeOK /\ CallsInv
      /\ L \in Nat /\ L > 0 /\ DOMAIN calls = 1 .. L
      /\ \A i \in DOMAIN calls :
           calls[i] \in [id : Elements, left : SUBSET Nodes, made : SUBSET Nodes]
  BY BuildFacts DEF Call
<1>3. PICK c \in calls[L].left :
        calls' = Append([calls EXCEPT ![L].left = @ \ {c}], CallOf(c))
  BY DEF Call, Top
<1>4. CallOf(c) = [id |-> c, left |-> ChildrenOf(locs, c), made |-> {}]
  BY DEF CallOf
<1>5. c \in Nodes /\ c \in ChildrenOf(locs, calls[L].id)
  BY <1>1, <1>3 DEF CallsInv
<1>6. c \in DOMAIN locs /\ locs[c].parent = calls[L].id
  BY <1>5 DEF ChildrenOf
<1>7. /\ ChildrenOf(locs, c) \subseteq Nodes /\ c # NoParent
      /\ NoParent \notin DOMAIN locs
  BY <1>1, <1>6, RowFacts
<1> DEFINE changed == [calls EXCEPT ![L].left = @ \ {c}]
<1>8. /\ DOMAIN changed = 1 .. L
      /\ changed \in Seq([id : Elements, left : SUBSET Nodes, made : SUBSET Nodes])
      /\ Len(changed) = L
      /\ \A i \in 1 .. L : i # L => changed[i] = calls[i]
      /\ changed[L].id = calls[L].id /\ changed[L].made = calls[L].made
      /\ changed[L].left = calls[L].left \ {c}
  <2>1. /\ DOMAIN changed = 1 .. L
        /\ \A i \in 1 .. L : i # L => changed[i] = calls[i]
        /\ changed[L] = [calls[L] EXCEPT !.left = calls[L].left \ {c}]
    <3>1. L \in DOMAIN calls /\ changed = [calls EXCEPT ![L] =
                                [calls[L] EXCEPT !.left = calls[L].left \ {c}]]
      BY <1>1
    <3> QED
      BY <1>1, <3>1
  <2>2. /\ changed[L].id = calls[L].id /\ changed[L].made = calls[L].made
        /\ changed[L].left = calls[L].left \ {c}
        /\ changed[L] \in [id : Elements, left : SUBSET Nodes, made : SUBSET Nodes]
    BY <1>1, <2>1
  <2>3. \A i \in 1 .. L :
          changed[i] \in [id : Elements, left : SUBSET Nodes, made : SUBSET Nodes]
    BY <1>1, <2>1, <2>2
  <2>4. changed \in Seq([id : Elements, left : SUBSET Nodes, made : SUBSET Nodes])
    <3>1. changed = [i \in 1 .. L |-> changed[i]]
      BY <2>1
    <3> HIDE DEF changed, L
    <3> QED
      BY <1>1, <2>3, <3>1, SequenceMade
  <2> QED
    BY <1>1, <2>1, <2>2, <2>3, <2>4
<1>9. CallOf(c) \in [id : Elements, left : SUBSET Nodes, made : SUBSET Nodes]
  BY <1>4, <1>5, <1>7 DEF Elements
<1>10. calls' = Append(changed, CallOf(c))
  BY <1>3
<1> HIDE DEF changed, L
<1>11. /\ calls' \in Seq([id : Elements, left : SUBSET Nodes, made : SUBSET Nodes])
       /\ Len(calls') = L + 1 /\ DOMAIN calls' = 1 .. L + 1
       /\ \A i \in 1 .. L : calls'[i] = changed[i]
       /\ calls'[L + 1] = CallOf(c)
  BY <1>1, <1>8, <1>9, <1>10
<1>12. /\ \A i \in 1 .. L : i # L => calls'[i] = calls[i]
       /\ calls'[L].id = calls[L].id /\ calls'[L].made = calls[L].made
       /\ calls'[L].left = calls[L].left \ {c}
       /\ calls'[L + 1].id = c /\ calls'[L + 1].made = {}
       /\ calls'[L + 1].left = ChildrenOf(locs, c)
       /\ \A i \in 1 .. L : calls'[i].id = calls[i].id /\ calls'[i].made = calls[i].made
  BY <1>1, <1>4, <1>8, <1>11
<1> QED
  BY <1>1, <1>3, <1>5, <1>6, <1>7, <1>11, <1>12 DEF L

LEMMA CallStep ==
  ASSUME LoopsInv, Call
  PROVE  LoopsInv'
<1> DEFINE L == Len(calls)
<1>1. /\ TreeTypeOK /\ KidsDone /\ CallsInv /\ CallsDiffer /\ KidsUnder
      /\ map = {} /\ elem = NoParent /\ DOMAIN returnMap = {} /\ opened = {}
      /\ L \in Nat /\ L > 0 /\ DOMAIN calls = 1 .. L
      /\ \A i \in DOMAIN calls :
           calls[i] \in [id : Elements, left : SUBSET Nodes, made : SUBSET Nodes]
  BY BuildFacts DEF Call
<1>2. /\ locs' = locs /\ stage' = stage /\ kids' = kids /\ todo' = todo /\ map' = map
      /\ entry' = entry /\ elem' = elem /\ path' = path /\ returnMap' = returnMap
      /\ opened' = opened /\ stage = "build"
  BY DEF Call
<1>3. PICK c \in calls[L].left :
        /\ c \in Nodes /\ c # NoParent /\ c \in DOMAIN locs
        /\ c \in ChildrenOf(locs, calls[L].id)
        /\ locs[c].parent = calls[L].id /\ NoParent \notin DOMAIN locs
        /\ calls' \in Seq([id : Elements, left : SUBSET Nodes, made : SUBSET Nodes])
        /\ Len(calls') = L + 1 /\ DOMAIN calls' = 1 .. L + 1
        /\ \A i \in 1 .. L : i # L => calls'[i] = calls[i]
        /\ calls'[L].left = calls[L].left \ {c}
        /\ calls'[L + 1].id = c /\ calls'[L + 1].made = {}
        /\ calls'[L + 1].left = ChildrenOf(locs, c)
        /\ \A i \in 1 .. L : calls'[i].id = calls[i].id /\ calls'[i].made = calls[i].made
  BY CallMade
<1> HIDE DEF L
<1>4. c \notin DOMAIN kids
  <2> SUFFICES ASSUME c \in DOMAIN kids PROVE FALSE
    OBVIOUS
  <2>1. calls[L].id \notin DOMAIN kids
    BY <1>1 DEF CallsInv
  <2>2. PICK i \in DOMAIN calls : calls[i].id = calls[L].id /\ c \in calls[i].made
    BY <1>1, <1>3, <2>1 DEF KidsUnder
  <2>3. i = L
    BY <1>1, <2>2 DEF CallsDiffer
  <2> QED
    BY <1>1, <1>3, <2>2, <2>3 DEF CallsInv
<1>5. \A j \in 1 .. L : calls[j].id # c
  <2> SUFFICES ASSUME NEW j \in 1 .. L, calls[j].id = c PROVE FALSE
    OBVIOUS
  <2>1. j # 1
    BY <1>1, <1>3 DEF CallsInv
  <2>2. calls[j].id \in ChildrenOf(locs, calls[j - 1].id)
    BY <1>1, <2>1 DEF CallsInv
  <2>3. calls[j - 1].id = calls[L].id
    BY <1>3, <2>2 DEF ChildrenOf
  <2>4. j - 1 \in 1 .. L
    BY <1>1, <2>1
  <2>5. j - 1 = L
    BY <1>1, <2>3, <2>4 DEF CallsDiffer
  <2> QED
    BY <1>1, <2>5
<1>6. c \in Below(locs, NoParent)
  <2>1. calls[L].id \in Below(locs, NoParent) \cup {NoParent}
    BY <1>1 DEF CallsInv
  <2> QED
    BY <1>3, <2>1, BelowClosed
<1>7. CallsInv'
  <2> SUFFICES ASSUME NEW i \in DOMAIN calls'
               PROVE  /\ i = 1 => calls'[i].id = NoParent
                      /\ i > 1 => calls'[i].id \in ChildrenOf(locs, calls'[i - 1].id)
                      /\ calls'[i].left \cap calls'[i].made = {}
                      /\ i < L + 1 => calls'[i + 1].id \notin calls'[i].left
                      /\ calls'[i].left \cup calls'[i].made
                           \cup (IF i < L + 1 THEN {calls'[i + 1].id} ELSE {})
                         = ChildrenOf(locs, calls'[i].id)
                      /\ calls'[i].made \subseteq DOMAIN kids
                      /\ calls'[i].id \notin DOMAIN kids
                      /\ calls'[i].id \in Below(locs, NoParent) \cup {NoParent}
    BY <1>1, <1>2, <1>3 DEF CallsInv
  <2>1. CASE i = L + 1
    <3>1. calls'[i - 1].id = calls[L].id
      BY <1>1, <1>3, <2>1
    <3> QED
      BY <1>1, <1>3, <1>4, <1>6, <2>1, <3>1
  <2>2. CASE i = L
    <3>1. calls[L].left \cup calls[L].made = ChildrenOf(locs, calls[L].id)
      BY <1>1 DEF CallsInv
    <3>2. /\ calls'[L].left \cap calls'[L].made = {} /\ c \notin calls'[L].left
          /\ calls'[L].left \cup calls'[L].made \cup {c} = ChildrenOf(locs, calls[L].id)
      <4>1. calls[L].left \cap calls[L].made = {}
        BY <1>1 DEF CallsInv
      <4> QED
        BY <1>1, <1>3, <3>1, <4>1
    <3>3. /\ L = 1 => calls[L].id = NoParent
          /\ L > 1 => calls[L].id \in ChildrenOf(locs, calls[L - 1].id)
          /\ calls[L].made \subseteq DOMAIN kids /\ calls[L].id \notin DOMAIN kids
          /\ calls[L].id \in Below(locs, NoParent) \cup {NoParent}
      BY <1>1 DEF CallsInv
    <3>4. L > 1 => calls'[L - 1].id = calls[L - 1].id
      BY <1>1, <1>3
    <3> QED
      BY <1>1, <1>3, <2>2, <3>2, <3>3, <3>4
  <2>3. CASE i < L
    <3>1. /\ i \in 1 .. L /\ i + 1 \in 1 .. L /\ calls'[i] = calls[i]
          /\ calls'[i + 1].id = calls[i + 1].id
          /\ i > 1 => calls'[i - 1].id = calls[i - 1].id
      BY <1>1, <1>3, <2>3
    <3>2. /\ i = 1 => calls[i].id = NoParent
          /\ i > 1 => calls[i].id \in ChildrenOf(locs, calls[i - 1].id)
          /\ calls[i].left \cap calls[i].made = {}
          /\ calls[i + 1].id \notin calls[i].left
          /\ calls[i].left \cup calls[i].made \cup {calls[i + 1].id}
             = ChildrenOf(locs, calls[i].id)
          /\ calls[i].made \subseteq DOMAIN kids
          /\ calls[i].id \notin DOMAIN kids
          /\ calls[i].id \in Below(locs, NoParent) \cup {NoParent}
      BY <1>1, <2>3, <3>1 DEF CallsInv, L
    <3> QED
      BY <1>1, <2>3, <3>1, <3>2
  <2> QED
    BY <1>1, <1>3, <2>1, <2>2, <2>3
<1>8. CallsDiffer'
  <2> SUFFICES ASSUME NEW i \in 1 .. L + 1, NEW j \in 1 .. L + 1,
                      calls'[i].id = calls'[j].id
               PROVE  i = j
    BY <1>3 DEF CallsDiffer
  <2>1. CASE i = L + 1 \/ j = L + 1
    BY <1>1, <1>3, <1>5, <2>1
  <2>2. CASE i \in 1 .. L /\ j \in 1 .. L
    BY <1>1, <1>3, <2>2 DEF CallsDiffer
  <2> QED
    BY <1>1, <2>1, <2>2
<1>9. KidsUnder'
  <2> SUFFICES ASSUME NEW n \in DOMAIN kids
               PROVE  /\ n \in DOMAIN locs
                      /\ \/ locs[n].parent \in DOMAIN kids
                         \/ \E i \in DOMAIN calls' :
                              calls'[i].id = locs[n].parent /\ n \in calls'[i].made
    BY <1>2 DEF KidsUnder
  <2>1. n \in DOMAIN locs
    BY <1>1 DEF KidsUnder
  <2>2. ASSUME locs[n].parent \notin DOMAIN kids
        PROVE  \E i \in DOMAIN calls' :
                 calls'[i].id = locs[n].parent /\ n \in calls'[i].made
    <3>1. PICK i \in DOMAIN calls : calls[i].id = locs[n].parent /\ n \in calls[i].made
      BY <1>1, <2>2 DEF KidsUnder
    <3>2. i \in DOMAIN calls' /\ i \in 1 .. L
      BY <1>1, <1>3
    <3> QED
      BY <1>3, <3>1, <3>2
  <2> QED
    BY <2>1, <2>2
<1>10. TreeTypeOK'
  BY <1>1, <1>2, <1>3 DEF TreeTypeOK
<1>11. KidsDone' /\ ChainsDone'
  <2>1. KidsDone'
    BY <1>1, <1>2 DEF KidsDone
  <2>2. ChainsDone'
    BY <1>1, <1>2 DEF ChainsDone, Reaches
  <2> QED
    BY <2>1, <2>2
<1> QED
  BY <1>1, <1>2, <1>7, <1>8, <1>9, <1>10, <1>11 DEF LoopsInv

LEMMA ReturnStep ==
  ASSUME LoopsInv, Return
  PROVE  LoopsInv'
<1> DEFINE L == Len(calls)
<1> DEFINE id == calls[L].id
<1> DEFINE made == calls[L].made
<1>1. /\ TreeTypeOK /\ KidsDone /\ CallsInv /\ CallsDiffer /\ KidsUnder
      /\ map = {} /\ elem = NoParent /\ DOMAIN returnMap = {} /\ opened = {}
      /\ L \in Nat /\ L > 0 /\ DOMAIN calls = 1 .. L
      /\ \A i \in DOMAIN calls :
           calls[i] \in [id : Elements, left : SUBSET Nodes, made : SUBSET Nodes]
  BY BuildFacts DEF Return
<1>2. /\ locs' = locs /\ stage' = stage /\ todo' = todo /\ map' = map
      /\ entry' = entry /\ elem' = elem /\ path' = path /\ returnMap' = returnMap
      /\ opened' = opened /\ stage = "build" /\ L > 1 /\ calls[L].left = {}
  BY DEF Return, Top
<1>3. kids' = Set(kids, id, made)
  BY DEF Return, Top
<1>4. calls' = [i \in 1 .. L - 1 |->
                  IF i = L - 1 THEN [calls[i] EXCEPT !.made = @ \cup {id}] ELSE calls[i]]
  BY DEF Return, Top
<1>5. /\ made = ChildrenOf(locs, id) /\ made \subseteq DOMAIN kids
      /\ id \notin DOMAIN kids /\ id \in ChildrenOf(locs, calls[L - 1].id)
      /\ id \in Below(locs, NoParent) \cup {NoParent}
  <2>1. /\ L \in DOMAIN calls /\ L > 1 /\ ~(L < Len(calls)) /\ calls[L].left = {}
    BY <1>1, <1>2
  <2> HIDE DEF L
  <2>2. /\ calls[L].left \cup calls[L].made \cup {} = ChildrenOf(locs, calls[L].id)
        /\ calls[L].made \subseteq DOMAIN kids /\ calls[L].id \notin DOMAIN kids
        /\ calls[L].id \in ChildrenOf(locs, calls[L - 1].id)
        /\ calls[L].id \in Below(locs, NoParent) \cup {NoParent}
    BY <1>1, <2>1 DEF CallsInv
  <2> QED
    BY <2>1, <2>2
<1>6. id \in DOMAIN locs /\ locs[id].parent = calls[L - 1].id /\ made \subseteq Nodes
  BY <1>1, <1>5 DEF ChildrenOf
<1>7. id \in Nodes
  BY <1>1, <1>6, RowFacts
<1> HIDE DEF L, id, made
<1>8. /\ DOMAIN calls' = 1 .. L - 1
      /\ \A i \in 1 .. L - 1 : i # L - 1 => calls'[i] = calls[i]
      /\ calls'[L - 1] = [calls[L - 1] EXCEPT !.made = calls[L - 1].made \cup {id}]
  <2>1. L - 1 \in 1 .. L - 1
    BY <1>1, <1>2
  <2> QED
    BY <1>4, <2>1
<1>9. /\ calls'[L - 1].id = calls[L - 1].id /\ calls'[L - 1].left = calls[L - 1].left
      /\ calls'[L - 1].made = calls[L - 1].made \cup {id}
      /\ calls'[L - 1] \in [id : Elements, left : SUBSET Nodes, made : SUBSET Nodes]
  <2>1. calls[L - 1] \in [id : Elements, left : SUBSET Nodes, made : SUBSET Nodes]
    BY <1>1, <1>2
  <2> QED
    BY <1>7, <1>8, <2>1
<1>10. /\ calls' \in Seq([id : Elements, left : SUBSET Nodes, made : SUBSET Nodes])
       /\ Len(calls') = L - 1
  <2>1. \A i \in 1 .. L - 1 :
          calls'[i] \in [id : Elements, left : SUBSET Nodes, made : SUBSET Nodes]
    BY <1>1, <1>8, <1>9
  <2>2. L - 1 \in Nat
    BY <1>1, <1>2
  <2>3. ASSUME NEW f, f = calls', NEW n, n = L - 1,
               NEW R, R = [id : Elements, left : SUBSET Nodes, made : SUBSET Nodes]
        PROVE  f \in Seq(R) /\ Len(f) = n
    <3>1. f = [i \in 1 .. n |-> f[i]] /\ n \in Nat
      BY <1>4, <2>2, <2>3
    <3>2. \A i \in 1 .. n : f[i] \in R
      BY <2>1, <2>3
    <3> QED
      BY <3>1, <3>2, SequenceMade
  <2> QED
    BY <2>3
<1>11. \A i \in 1 .. L - 1 : /\ calls'[i].id = calls[i].id /\ calls'[i].left = calls[i].left
                             /\ calls[i].made \subseteq calls'[i].made
  BY <1>8, <1>9
<1>12. /\ DOMAIN kids' = DOMAIN kids \cup {id} /\ kids'[id] = made
       /\ \A n \in DOMAIN kids : kids'[n] = kids[n]
  BY <1>3, <1>5 DEF Set
<1>13. CallsInv'
  <2> SUFFICES ASSUME NEW i \in 1 .. L - 1
               PROVE  /\ i = 1 => calls'[i].id = NoParent
                      /\ i > 1 => calls'[i].id \in ChildrenOf(locs, calls'[i - 1].id)
                      /\ calls'[i].left \cap calls'[i].made = {}
                      /\ i < L - 1 => calls'[i + 1].id \notin calls'[i].left
                      /\ calls'[i].left \cup calls'[i].made
                           \cup (IF i < L - 1 THEN {calls'[i + 1].id} ELSE {})
                         = ChildrenOf(locs, calls'[i].id)
                      /\ calls'[i].made \subseteq DOMAIN kids'
                      /\ calls'[i].id \notin DOMAIN kids'
                      /\ calls'[i].id \in Below(locs, NoParent) \cup {NoParent}
    BY <1>1, <1>2, <1>8, <1>10 DEF CallsInv
  <2>1. /\ i = 1 => calls[i].id = NoParent
        /\ i > 1 => calls[i].id \in ChildrenOf(locs, calls[i - 1].id)
        /\ calls[i].left \cap calls[i].made = {}
        /\ calls[i + 1].id \notin calls[i].left
        /\ calls[i].left \cup calls[i].made \cup {calls[i + 1].id}
           = ChildrenOf(locs, calls[i].id)
        /\ calls[i].made \subseteq DOMAIN kids
        /\ calls[i].id \notin DOMAIN kids
        /\ calls[i].id \in Below(locs, NoParent) \cup {NoParent}
    <3>1. i \in DOMAIN calls /\ i < Len(calls)
      BY <1>1, <1>2 DEF L
    <3> QED
      BY <1>1, <3>1 DEF CallsInv
  <2>2. i > 1 => calls'[i - 1].id = calls[i - 1].id
    BY <1>1, <1>11
  <2>3. calls[i].id # id
    <3>1. L \in DOMAIN calls /\ i \in DOMAIN calls /\ i # L
      BY <1>1, <1>2
    <3> QED
      BY <1>1, <3>1 DEF CallsDiffer, id
  <2>4. CASE i = L - 1
    <3>1. calls[i + 1].id = id
      BY <1>1, <2>4 DEF id
    <3> QED
      BY <1>1, <1>9, <1>12, <2>1, <2>2, <2>3, <2>4, <3>1
  <2>5. CASE i # L - 1
    <3>1. i < L - 1 /\ calls'[i] = calls[i] /\ calls'[i + 1].id = calls[i + 1].id
      BY <1>1, <1>8, <1>11, <2>5
    <3> QED
      BY <1>1, <1>12, <2>1, <2>2, <2>3, <3>1
  <2> QED
    BY <2>4, <2>5
<1>14. CallsDiffer'
  BY <1>1, <1>8, <1>11 DEF CallsDiffer
<1>15. KidsUnder'
  <2> SUFFICES ASSUME NEW n \in DOMAIN kids \cup {id}
               PROVE  /\ n \in DOMAIN locs
                      /\ \/ locs[n].parent \in DOMAIN kids \cup {id}
                         \/ \E i \in DOMAIN calls' :
                              calls'[i].id = locs[n].parent /\ n \in calls'[i].made
    BY <1>2, <1>12 DEF KidsUnder
  <2>1. CASE n = id
    <3>1. L - 1 \in DOMAIN calls'
      BY <1>1, <1>2, <1>8
    <3> QED
      BY <1>6, <1>9, <2>1, <3>1
  <2>2. ASSUME n \in DOMAIN kids, locs[n].parent \notin DOMAIN kids \cup {id}
        PROVE  \E i \in DOMAIN calls' :
                 calls'[i].id = locs[n].parent /\ n \in calls'[i].made
    <3>1. PICK i \in DOMAIN calls : calls[i].id = locs[n].parent /\ n \in calls[i].made
      BY <1>1, <2>2 DEF KidsUnder
    <3>2. i # L
      BY <2>2, <3>1 DEF id
    <3>3. i \in 1 .. L - 1
      BY <1>1, <3>2
    <3> QED
      BY <1>8, <1>11, <3>1, <3>3
  <2>3. n \in DOMAIN locs
    BY <1>1, <1>6 DEF KidsUnder
  <2> QED
    BY <2>1, <2>2, <2>3
<1>16. KidsDone'
  BY <1>1, <1>2, <1>5, <1>12 DEF KidsDone
<1>17. TreeTypeOK'
  <2>1. DOMAIN kids' \subseteq Elements /\ kids' \in [DOMAIN kids' -> SUBSET Nodes]
    <3>1. kids' = [n \in DOMAIN kids \cup {id} |-> IF n = id THEN made ELSE kids[n]]
      BY <1>3 DEF Set
    <3>2. DOMAIN kids \subseteq Elements /\ \A n \in DOMAIN kids : kids[n] \in SUBSET Nodes
      BY <1>1 DEF TreeTypeOK
    <3> QED
      BY <1>6, <1>7, <3>1, <3>2 DEF Elements
  <2> QED
    BY <1>1, <1>2, <1>10, <2>1 DEF TreeTypeOK
<1>18. ChainsDone'
  BY <1>1, <1>2 DEF ChainsDone
<1> QED
  BY <1>1, <1>2, <1>13, <1>14, <1>15, <1>16, <1>17, <1>18 DEF LoopsInv

LEMMA AnswerStep ==
  ASSUME LoopsInv, Answer
  PROVE  LoopsInv'
<1> DEFINE made == calls[1].made
<1>1. /\ TreeTypeOK /\ KidsDone /\ CallsInv /\ CallsDiffer /\ KidsUnder
      /\ map = {} /\ elem = NoParent /\ DOMAIN returnMap = {} /\ opened = {}
      /\ \A i \in DOMAIN calls :
           calls[i] \in [id : Elements, left : SUBSET Nodes, made : SUBSET Nodes]
  BY BuildFacts DEF Answer
<1>2. /\ locs' = locs /\ map' = map /\ entry' = entry /\ elem' = elem /\ path' = path
      /\ returnMap' = returnMap /\ opened' = opened /\ calls' = <<>>
      /\ stage' = "flatten" /\ todo' = made
      /\ Len(calls) = 1 /\ calls[1].left = {} /\ 1 \in DOMAIN calls
  BY <1>1, BuildFacts DEF Answer, Top
<1>3. calls[1].id = NoParent
  BY <1>1, <1>2 DEF CallsInv
<1>4. kids' = Set(kids, NoParent, made)
  BY <1>2, <1>3 DEF Answer, Top
<1>5. made = ChildrenOf(locs, NoParent) /\ made \subseteq DOMAIN kids /\ made \subseteq Nodes
  <2>1. /\ calls[1].left \cup calls[1].made \cup {} = ChildrenOf(locs, calls[1].id)
        /\ calls[1].made \subseteq DOMAIN kids
    <3>1. ~(1 < Len(calls))
      BY <1>2
    <3> QED
      BY <1>1, <1>2, <3>1 DEF CallsInv
  <2>2. calls[1].made \subseteq Nodes
    BY <1>1, <1>2
  <2> QED
    BY <1>2, <1>3, <2>1, <2>2
<1>6. NoParent \notin DOMAIN kids
  BY <1>1, <1>2, <1>3 DEF CallsInv
<1> HIDE DEF made
<1>7. /\ DOMAIN kids' = DOMAIN kids \cup {NoParent} /\ kids'[NoParent] = made
      /\ \A n \in DOMAIN kids : kids'[n] = kids[n]
  BY <1>4, <1>6 DEF Set
<1>8. DOMAIN kids = Below(locs, NoParent)
  <2>1. DOMAIN kids \subseteq Below(locs, NoParent)
    BY <1>1, <1>6 DEF KidsDone
  <2>2. ASSUME NEW c \in DOMAIN locs, locs[c].parent \in DOMAIN kids \cup {NoParent}
        PROVE  c \in DOMAIN kids
    <3>1. c \in ChildrenOf(locs, locs[c].parent)
      BY DEF ChildrenOf
    <3> QED
      BY <1>1, <1>5, <2>2, <3>1 DEF KidsDone
  <2>3. ClosedBelow(locs, NoParent, DOMAIN kids)
    BY <2>2 DEF ClosedBelow
  <2>4. DOMAIN kids \in SUBSET DOMAIN locs
    BY <1>1 DEF KidsUnder
  <2> QED
    BY <2>1, <2>3, <2>4, BelowLeast
<1>9. KidsDone'
  BY <1>1, <1>2, <1>5, <1>7 DEF KidsDone
<1>10. FlattenInv'
  <2>1. \A n \in made : locs[n].parent = NoParent
    BY <1>5 DEF ChildrenOf
  <2> QED
    BY <1>1, <1>2, <1>5, <1>8, <2>1 DEF FlattenInv
<1>11. TreeTypeOK'
  <2>1. DOMAIN kids' \subseteq Elements /\ kids' \in [DOMAIN kids' -> SUBSET Nodes]
    <3>1. kids' = [n \in DOMAIN kids \cup {NoParent} |->
                     IF n = NoParent THEN made ELSE kids[n]]
      BY <1>4 DEF Set
    <3>2. DOMAIN kids \subseteq Elements /\ \A n \in DOMAIN kids : kids[n] \in SUBSET Nodes
      BY <1>1 DEF TreeTypeOK
    <3> QED
      BY <1>5, <3>1, <3>2 DEF Elements
  <2>2. calls' \in Seq([id : Elements, left : SUBSET Nodes, made : SUBSET Nodes])
    BY <1>2
  <2> QED
    BY <1>1, <1>2, <1>5, <2>1, <2>2 DEF TreeTypeOK
<1>12. ChainsDone'
  BY <1>1, <1>2 DEF ChainsDone
<1> QED
  BY <1>1, <1>2, <1>7, <1>8, <1>9, <1>10, <1>11, <1>12 DEF LoopsInv

LEMMA FlattenStep ==
  ASSUME LoopsInv, Flatten
  PROVE  LoopsInv'
<1>1. /\ TreeTypeOK /\ KidsDone /\ FlattenInv /\ elem = NoParent /\ DOMAIN returnMap = {}
      /\ opened = {} /\ DOMAIN kids = Below(locs, NoParent) \cup {NoParent}
  BY DEF LoopsInv, Flatten
<1>2. /\ locs' = locs /\ stage' = stage /\ calls' = calls /\ kids' = kids
      /\ entry' = entry /\ elem' = elem /\ path' = path /\ returnMap' = returnMap
      /\ opened' = opened /\ stage = "flatten"
  BY DEF Flatten
<1>3. PICK e \in todo : todo' = Taken(todo, e) /\ map' = map \cup {e}
  BY DEF Flatten
<1>4. e \in Below(locs, NoParent) /\ e \notin map /\ e # NoParent
  BY <1>1, <1>3, NodesAssumption DEF FlattenInv, TreeTypeOK
<1>5. kids[e] = ChildrenOf(locs, e)
  BY <1>1, <1>4 DEF KidsDone
<1>6. todo' = (todo \ {e}) \cup ChildrenOf(locs, e)
  BY <1>3, <1>5 DEF Taken
<1>7. \A c \in ChildrenOf(locs, e) : c \in DOMAIN locs /\ locs[c].parent = e
  BY DEF ChildrenOf
<1>8. \A c \in ChildrenOf(locs, e) : c \in Below(locs, NoParent)
  BY <1>4, <1>7, BelowClosed
<1>9. \A c \in ChildrenOf(locs, e) : c \notin todo \cup map
  BY <1>1, <1>4, <1>7 DEF FlattenInv
<1>10. FlattenInv'
  <2>1. todo' \cup map' = todo \cup map \cup ChildrenOf(locs, e)
    BY <1>3, <1>6
  <2>2. todo' \cap map' = {}
    BY <1>1, <1>3, <1>6, <1>9 DEF FlattenInv
  <2>3. \A n \in map' : ChildrenOf(locs, n) \subseteq todo' \cup map'
    BY <1>1, <1>3, <2>1 DEF FlattenInv
  <2>4. \A n \in todo' \cup map' : locs[n].parent \in map' \cup {NoParent}
    BY <1>1, <1>3, <1>7, <2>1 DEF FlattenInv
  <2> QED
    BY <1>1, <1>2, <1>8, <2>1, <2>2, <2>3, <2>4 DEF FlattenInv
<1>11. TreeTypeOK'
  <2>1. ChildrenOf(locs, e) \subseteq Nodes
    BY <1>1, RowFacts
  <2> QED
    BY <1>1, <1>2, <1>3, <1>6, <2>1 DEF TreeTypeOK
<1>12. KidsDone' /\ ChainsDone'
  <2>1. KidsDone'
    BY <1>1, <1>2 DEF KidsDone
  <2>2. ChainsDone'
    BY <1>1, <1>2 DEF ChainsDone, Reaches
  <2> QED
    BY <2>1, <2>2
<1> QED
  BY <1>1, <1>2, <1>10, <1>11, <1>12 DEF LoopsInv

LEMMA FlattenedStep ==
  ASSUME LoopsInv, Flattened
  PROVE  LoopsInv'
<1>1. /\ TreeTypeOK /\ KidsDone /\ FlattenInv /\ elem = NoParent /\ DOMAIN returnMap = {}
      /\ opened = {} /\ DOMAIN kids = Below(locs, NoParent) \cup {NoParent}
  BY DEF LoopsInv, Flattened
<1>2. /\ locs' = locs /\ stage' = "climb" /\ calls' = calls /\ kids' = kids /\ map' = map
      /\ entry' = entry /\ elem' = elem /\ path' = path /\ returnMap' = returnMap
      /\ opened' = opened /\ todo = {} /\ todo' = map
  BY DEF Flattened
<1>3. map = Below(locs, NoParent)
  <2>1. ASSUME NEW c \in DOMAIN locs, locs[c].parent \in map \cup {NoParent}
        PROVE  c \in map
    <3>1. c \in ChildrenOf(locs, locs[c].parent)
      BY DEF ChildrenOf
    <3> QED
      BY <1>1, <1>2, <2>1, <3>1 DEF FlattenInv
  <2>2. ClosedBelow(locs, NoParent, map)
    BY <2>1 DEF ClosedBelow
  <2>3. map \subseteq Below(locs, NoParent)
    BY <1>1, <1>2 DEF FlattenInv
  <2>4. map \in SUBSET DOMAIN locs
    BY <1>1, <2>3, RowFacts
  <2> QED
    BY <2>2, <2>3, <2>4, BelowLeast
<1>4. ClimbInv'
  BY <1>1, <1>2 DEF ClimbInv
<1>5. TreeTypeOK' /\ KidsDone' /\ ChainsDone'
  <2>1. TreeTypeOK'
    BY <1>1, <1>2 DEF TreeTypeOK
  <2> QED
    BY <1>1, <1>2, <2>1 DEF KidsDone, ChainsDone
<1> QED
  BY <1>1, <1>2, <1>3, <1>4, <1>5 DEF LoopsInv

LEMMA NextEntryStep ==
  ASSUME LoopsInv, NextEntry
  PROVE  LoopsInv'
<1>1. /\ TreeTypeOK /\ KidsDone /\ ClimbInv /\ ChainsDone /\ map = Below(locs, NoParent)
      /\ opened = {} /\ DOMAIN kids = Below(locs, NoParent) \cup {NoParent}
  BY DEF LoopsInv, NextEntry
<1>2. /\ locs' = locs /\ stage' = stage /\ calls' = calls /\ kids' = kids /\ map' = map
      /\ returnMap' = returnMap /\ opened' = opened /\ path' = <<>>
      /\ stage = "climb" /\ elem = NoParent
  BY DEF NextEntry
<1>3. PICK n \in todo : todo' = todo \ {n} /\ entry' = n /\ elem' = n
  BY DEF NextEntry
<1>4. n \in map /\ n \in Nodes /\ n # NoParent
  BY <1>1, <1>3, NodesAssumption DEF ClimbInv, TreeTypeOK
<1>5. Reaches(<<>>, n, n)
  BY DEF Reaches
<1>6. Reaches(path, elem, entry)'
  BY <1>2, <1>3, <1>5 DEF Reaches
<1>7. ClimbInv'
  <2>1. DOMAIN returnMap = map \ todo /\ todo \subseteq map
    BY <1>1, <1>2 DEF ClimbInv
  <2>2. DOMAIN returnMap' = map' \ (todo' \cup {entry'})
    BY <1>2, <1>3, <2>1
  <2>3. entry' \in map' \ todo' /\ elem' \in map' /\ todo' \subseteq map' /\ elem' # NoParent
    BY <1>2, <1>3, <1>4, <2>1
  <2> QED
    BY <1>6, <2>2, <2>3 DEF ClimbInv
<1>8. TreeTypeOK'
  BY <1>1, <1>2, <1>3, <1>4 DEF TreeTypeOK, Elements
<1>9. KidsDone' /\ ChainsDone'
  <2>1. KidsDone'
    BY <1>1, <1>2 DEF KidsDone
  <2>2. ChainsDone'
    BY <1>1, <1>2 DEF ChainsDone, Reaches
  <2> QED
    BY <2>1, <2>2
<1> QED
  BY <1>1, <1>2, <1>7, <1>8, <1>9 DEF LoopsInv

\* A chain grows by one: the child it had reached comes to its head.
LEMMA GrownReaches ==
  ASSUME TreeTypeOK, NEW chain \in Seq(Nodes), NEW e \in Below(locs, NoParent), NEW n,
         Reaches(chain, e, n)
  PROVE  /\ Grown(chain, e) \in Seq(Nodes) /\ Grown(chain, e) # <<>>
         /\ Reaches(Grown(chain, e), locs[e].parent, n)
<1> DEFINE g == <<e>> \o chain
<1>1. e \in DOMAIN locs /\ e \in Nodes
  BY RowFacts
<1>2. /\ Len(chain) \in Nat /\ DOMAIN chain = 1 .. Len(chain)
      /\ \A i \in DOMAIN chain : chain[i] \in Nodes
  BY CallSequence
<1>3. /\ g \in Seq(Nodes) /\ Len(g) = Len(chain) + 1 /\ DOMAIN g = 1 .. Len(chain) + 1
      /\ g[1] = e /\ \A i \in DOMAIN chain : g[i + 1] = chain[i]
  BY <1>1, <1>2
<1>4. \A i \in DOMAIN g : i # 1 => i - 1 \in DOMAIN chain /\ g[i] = chain[i - 1]
  BY <1>2, <1>3
<1> HIDE DEF g
<1>5. g # <<>> /\ g[Len(g)] = n
  <2>1. CASE chain = <<>>
    <3>1. Len(chain) = 0
      BY <2>1
    <3> QED
      BY <1>3, <2>1, <3>1 DEF Reaches
  <2>2. CASE chain # <<>>
    <3>1. Len(chain) # 0
      BY <2>2
    <3>2. Len(g) \in DOMAIN g /\ Len(g) # 1 /\ Len(g) - 1 = Len(chain)
      BY <1>2, <1>3, <3>1
    <3> QED
      BY <1>3, <1>4, <2>2, <3>2 DEF Reaches
  <2> QED
    BY <2>1, <2>2
<1>6. ASSUME NEW i \in DOMAIN g, i > 1
      PROVE  locs[g[i]].parent = g[i - 1]
  <2>1. i - 1 \in DOMAIN chain /\ g[i] = chain[i - 1]
    BY <1>4, <1>6
  <2>2. CASE i = 2
    BY <1>2, <1>3, <2>1, <2>2 DEF Reaches
  <2>3. CASE i # 2
    <3>1. i - 1 > 1 /\ i - 1 # 1 /\ i - 1 \in DOMAIN g /\ (i - 1) - 1 = i - 2
      BY <1>2, <1>3, <1>6, <2>1, <2>3
    <3>2. g[i - 1] = chain[i - 2]
      BY <1>4, <3>1
    <3>3. locs[chain[i - 1]].parent = chain[i - 2]
      BY <2>1, <3>1 DEF Reaches
    <3> QED
      BY <2>1, <3>2, <3>3
  <2> QED
    BY <2>2, <2>3
<1>7. ASSUME NEW i \in DOMAIN g, NEW a \in Nodes
      PROVE  HasAncestor(locs, g[i], a) <=>
               (\E k \in 1 .. i : g[k] = a) \/ HasAncestor(locs, locs[e].parent, a)
  <2>1. HasAncestor(locs, e, a) <=> e = a \/ HasAncestor(locs, locs[e].parent, a)
    BY <1>1, AncestorStep
  <2>2. CASE i = 1
    BY <1>3, <2>1, <2>2
  <2>3. CASE i # 1
    <3>1. i - 1 \in DOMAIN chain /\ g[i] = chain[i - 1]
      BY <1>4, <2>3
    <3>2. HasAncestor(locs, chain[i - 1], a) <=>
            (\E k \in 1 .. i - 1 : chain[k] = a) \/ HasAncestor(locs, e, a)
      BY <3>1 DEF Reaches
    <3>3. (\E k \in 1 .. i : g[k] = a) <=> g[1] = a \/ (\E k \in 1 .. i - 1 : chain[k] = a)
      <4>1. ASSUME NEW k \in 1 .. i - 1, chain[k] = a
            PROVE  \E m \in 1 .. i : g[m] = a
        <5>1. k + 1 \in 1 .. i /\ k \in DOMAIN chain
          BY <1>2, <1>3, <3>1
        <5> QED
          BY <1>3, <4>1, <5>1
      <4>2. ASSUME NEW k \in 1 .. i, g[k] = a, k # 1
            PROVE  \E m \in 1 .. i - 1 : chain[m] = a
        <5>1. k \in DOMAIN g /\ k - 1 \in 1 .. i - 1
          BY <1>2, <1>3, <4>2
        <5> QED
          BY <1>4, <4>2, <5>1
      <4>3. 1 \in 1 .. i
        BY <1>2, <1>3
      <4> QED
        BY <4>1, <4>2, <4>3
    <3> QED
      BY <1>3, <2>1, <3>1, <3>2, <3>3
  <2> QED
    BY <2>2, <2>3
<1>8. \A i \in DOMAIN g : g[i] \in Below(locs, NoParent)
  BY <1>3, <1>4 DEF Reaches
<1>9. Reaches(g, locs[e].parent, n)
  BY <1>3, <1>5, <1>6, <1>7, <1>8 DEF Reaches
<1> QED
  BY <1>3, <1>5, <1>9 DEF Grown, g

LEMMA ClimbStep ==
  ASSUME LoopsInv, Climb
  PROVE  LoopsInv'
<1>1. /\ TreeTypeOK /\ KidsDone /\ ClimbInv /\ ChainsDone /\ map = Below(locs, NoParent)
      /\ opened = {} /\ DOMAIN kids = Below(locs, NoParent) \cup {NoParent}
  BY DEF LoopsInv, Climb
<1>2. /\ locs' = locs /\ stage' = stage /\ calls' = calls /\ kids' = kids /\ map' = map
      /\ todo' = todo /\ entry' = entry /\ opened' = opened
      /\ stage = "climb" /\ elem # NoParent /\ path' = Grown(path, elem)
      /\ elem' = GetParent(elem)
      /\ returnMap' = IF elem' = NoParent THEN Set(returnMap, entry, path') ELSE returnMap
  BY DEF Climb
<1>3. /\ entry \in map \ todo /\ elem \in map /\ Reaches(path, elem, entry)
      /\ DOMAIN returnMap = map \ (todo \cup {entry}) /\ todo \subseteq map
  BY <1>1, <1>2 DEF ClimbInv
<1>4. /\ elem \in DOMAIN locs /\ entry \in Nodes
      /\ NoParent \notin Nodes /\ NoParent \notin Below(locs, NoParent)
  BY <1>1, <1>3, RowFacts, NodesAssumption DEF TreeTypeOK
<1>5. locs[elem].parent \in Below(locs, NoParent) \cup {NoParent}
  BY <1>1, <1>3, BelowUnfold
<1>6. elem' = locs[elem].parent
  BY <1>1, <1>2, <1>5 DEF GetParent
<1>7. path \in Seq(Nodes)
  BY <1>1 DEF TreeTypeOK
<1>8. /\ Grown(path, elem) \in Seq(Nodes) /\ Grown(path, elem) # <<>>
      /\ Reaches(Grown(path, elem), locs[elem].parent, entry)
  BY <1>1, <1>3, <1>7, GrownReaches
<1>9. path' \in Seq(Nodes) /\ path' # <<>> /\ Reaches(path', elem', entry)
  BY <1>2, <1>6, <1>8
<1>10. CASE elem' = NoParent
  <2>1. returnMap' = Set(returnMap, entry, path')
    BY <1>2, <1>10
  <2>2. /\ DOMAIN returnMap' = DOMAIN returnMap \cup {entry} /\ returnMap'[entry] = path'
        /\ \A n \in DOMAIN returnMap : returnMap'[n] = returnMap[n]
    BY <1>3, <2>1 DEF Set
  <2>3. ClimbInv'
    <3>1. DOMAIN returnMap' = map' \ todo'
      BY <1>2, <1>3, <2>2
    <3> QED
      BY <1>2, <1>3, <1>10, <3>1 DEF ClimbInv
  <2>4. ChainsDone'
    <3>1. \A n \in DOMAIN returnMap' :
            returnMap'[n] # <<>> /\ Reaches(returnMap'[n], NoParent, n)
      BY <1>1, <1>9, <1>10, <2>2 DEF ChainsDone
    <3> QED
      BY <1>2, <3>1 DEF ChainsDone, Reaches
  <2>5. TreeTypeOK'
    <3>1. DOMAIN returnMap' \subseteq Nodes /\ returnMap' \in [DOMAIN returnMap' -> Seq(Nodes)]
      <4>1. returnMap' = [n \in DOMAIN returnMap \cup {entry} |->
                            IF n = entry THEN path' ELSE returnMap[n]]
        BY <2>1 DEF Set
      <4>2. DOMAIN returnMap \subseteq Nodes /\ \A n \in DOMAIN returnMap : returnMap[n] \in Seq(Nodes)
        BY <1>1 DEF TreeTypeOK
      <4> QED
        BY <1>4, <1>9, <4>1, <4>2
    <3> QED
      BY <1>1, <1>2, <1>9, <1>10, <3>1 DEF TreeTypeOK, Elements
  <2>6. KidsDone'
    BY <1>1, <1>2 DEF KidsDone
  <2> QED
    BY <1>1, <1>2, <2>3, <2>4, <2>5, <2>6 DEF LoopsInv
<1>11. CASE elem' # NoParent
  <2>1. returnMap' = returnMap
    BY <1>2, <1>11
  <2>2. elem' \in map
    BY <1>1, <1>5, <1>6, <1>11
  <2>3. ClimbInv'
    <3>1. Reaches(path, elem, entry)'
      BY <1>2, <1>9 DEF Reaches
    <3> QED
      BY <1>2, <1>3, <1>11, <2>1, <2>2, <3>1 DEF ClimbInv
  <2>4. TreeTypeOK'
    BY <1>1, <1>2, <1>9, <2>1, <2>2 DEF TreeTypeOK, Elements
  <2>5. KidsDone' /\ ChainsDone'
    BY <1>1, <1>2, <2>1 DEF KidsDone, ChainsDone, Reaches
  <2> QED
    BY <1>1, <1>2, <2>3, <2>4, <2>5 DEF LoopsInv
<1> QED
  BY <1>10, <1>11

LEMMA ClimbedStep ==
  ASSUME LoopsInv, Climbed
  PROVE  LoopsInv'
<1>1. /\ TreeTypeOK /\ KidsDone /\ ClimbInv /\ ChainsDone /\ map = Below(locs, NoParent)
      /\ opened = {} /\ DOMAIN kids = Below(locs, NoParent) \cup {NoParent}
  BY DEF LoopsInv, Climbed
<1>2. /\ locs' = locs /\ stage' = "open" /\ calls' = calls /\ kids' = kids /\ map' = map
      /\ entry' = entry /\ elem' = elem /\ path' = path /\ returnMap' = returnMap
      /\ opened' = opened /\ todo = {} /\ todo' = kids[NoParent] /\ elem = NoParent
  BY DEF Climbed
<1>3. todo' = ChildrenOf(locs, NoParent)
  BY <1>1, <1>2 DEF KidsDone
<1>4. DOMAIN returnMap' = map'
  BY <1>1, <1>2 DEF ClimbInv
<1>5. OnlyWay' = OnlyWay /\ OnlyWay \subseteq map
  BY <1>2 DEF OnlyWay
<1>6. \A n \in OnlyWay : \E t \in ChildrenOf(locs, NoParent) : HasAncestor(locs, n, t)
  BY <1>1, <1>5, ChildAbove
<1>7. OpenInv'
  BY <1>1, <1>2, <1>3, <1>5, <1>6 DEF OpenInv
<1>8. TreeTypeOK'
  <2>1. ChildrenOf(locs, NoParent) \subseteq Nodes
    BY <1>1, RowFacts
  <2> QED
    BY <1>1, <1>2, <1>3, <2>1 DEF TreeTypeOK
<1>9. KidsDone' /\ ChainsDone'
  <2>1. KidsDone'
    BY <1>1, <1>2 DEF KidsDone
  <2>2. ChainsDone'
    BY <1>1, <1>2 DEF ChainsDone, Reaches
  <2> QED
    BY <2>1, <2>2
<1> QED
  BY <1>1, <1>2, <1>4, <1>7, <1>8, <1>9 DEF LoopsInv

\* A level that is looked at is in the trees; when one node is all of it, that
\* node is on the only way down.
LEMMA LevelFacts ==
  ASSUME TreeTypeOK, map = Below(locs, NoParent), NEW m \in OnlyWay \cup {NoParent},
         NEW t \in ChildrenOf(locs, m)
  PROVE  /\ t \in map /\ t \in DOMAIN locs /\ locs[t].parent = m
         /\ ChildrenOf(locs, m) = {t} => t \in OnlyWay
<1>1. t \in DOMAIN locs /\ locs[t].parent = m
  BY DEF ChildrenOf
<1>2. m \in Below(locs, NoParent) \cup {NoParent}
  BY DEF OnlyWay
<1>3. t \in map
  BY <1>1, <1>2, BelowClosed
<1>4. ASSUME ChildrenOf(locs, m) = {t}, NEW a \in map, HasAncestor(locs, t, a)
      PROVE  ChildrenOf(locs, locs[a].parent) = {a}
  <2>1. CASE a = t
    BY <1>1, <1>4, <2>1
  <2>2. CASE a # t
    <3>1. HasAncestor(locs, m, a)
      BY <1>1, <1>4, <2>2, AncestorStep
    <3>2. a # NoParent /\ NoParent \notin Below(locs, a)
      BY RowFacts
    <3>3. m # NoParent
      BY <3>1, <3>2 DEF HasAncestor
    <3> QED
      BY <1>4, <3>1, <3>3 DEF OnlyWay
  <2> QED
    BY <2>1, <2>2
<1>5. ChildrenOf(locs, m) = {t} => t \in OnlyWay
  BY <1>3, <1>4 DEF OnlyWay
<1> QED
  BY <1>1, <1>3, <1>5

LEMMA ExpandStep ==
  ASSUME LoopsInv, Expand
  PROVE  LoopsInv'
<1>1. /\ TreeTypeOK /\ KidsDone /\ OpenInv /\ ChainsDone /\ map = Below(locs, NoParent)
      /\ DOMAIN kids = Below(locs, NoParent) \cup {NoParent} /\ DOMAIN returnMap = map
  BY DEF LoopsInv, Expand
<1>2. /\ locs' = locs /\ stage' = stage /\ calls' = calls /\ kids' = kids /\ map' = map
      /\ entry' = entry /\ elem' = elem /\ path' = path /\ returnMap' = returnMap
      /\ stage = "open"
  BY DEF Expand
<1>3. PICK t \in todo : todo = {t} /\ opened' = opened \cup {t} /\ todo' = kids[t]
  BY DEF Expand
<1>4. PICK m \in OnlyWay \cup {NoParent} :
        todo = ChildrenOf(locs, m) /\ \A o \in opened : HasAncestor(locs, m, o)
  BY <1>1 DEF OpenInv
<1>5. t \in map /\ t \in OnlyWay /\ t \in DOMAIN locs /\ locs[t].parent = m
  BY <1>1, <1>3, <1>4, LevelFacts
<1>6. todo' = ChildrenOf(locs, t)
  BY <1>1, <1>3, <1>5 DEF KidsDone
<1>7. OnlyWay' = OnlyWay
  BY <1>2 DEF OnlyWay
<1>8. ASSUME NEW n \in OnlyWay \ (opened \cup {t})
      PROVE  \E c \in ChildrenOf(locs, t) : HasAncestor(locs, n, c)
  <2>1. HasAncestor(locs, n, t)
    BY <1>1, <1>3, <1>8 DEF OpenInv
  <2>2. n \in Below(locs, t)
    BY <1>8, <2>1 DEF HasAncestor
  <2> QED
    BY <2>2, ChildAbove
<1>9. OpenInv'
  <2>1. opened' \subseteq OnlyWay
    BY <1>1, <1>3, <1>5 DEF OpenInv
  <2>2. \A o \in opened' : HasAncestor(locs, t, o)
    <3>1. HasAncestor(locs, t, t)
      BY DEF HasAncestor
    <3>2. \A o \in opened : HasAncestor(locs, t, o)
      BY <1>4, <1>5, AncestorStep
    <3> QED
      BY <1>3, <3>1, <3>2
  <2> QED
    BY <1>2, <1>3, <1>5, <1>6, <1>7, <1>8, <2>1, <2>2 DEF OpenInv
<1>10. TreeTypeOK'
  <2>1. ChildrenOf(locs, t) \subseteq Nodes
    BY <1>1, RowFacts
  <2> QED
    BY <1>1, <1>2, <1>3, <1>6, <2>1 DEF TreeTypeOK
<1>11. KidsDone' /\ ChainsDone'
  <2>1. KidsDone'
    BY <1>1, <1>2 DEF KidsDone
  <2>2. ChainsDone'
    BY <1>1, <1>2 DEF ChainsDone, Reaches
  <2> QED
    BY <2>1, <2>2
<1> QED
  BY <1>1, <1>2, <1>9, <1>10, <1>11 DEF LoopsInv

LEMMA ShownStep ==
  ASSUME LoopsInv, Shown
  PROVE  LoopsInv'
<1>1. /\ TreeTypeOK /\ KidsDone /\ OpenInv /\ ChainsDone /\ map = Below(locs, NoParent)
      /\ DOMAIN kids = Below(locs, NoParent) \cup {NoParent} /\ DOMAIN returnMap = map
  BY DEF LoopsInv, Shown
<1>2. /\ locs' = locs /\ stage' = "over" /\ calls' = calls /\ kids' = kids /\ map' = map
      /\ todo' = todo /\ entry' = entry /\ elem' = elem /\ path' = path
      /\ returnMap' = returnMap /\ opened' = opened /\ \A t \in todo : todo # {t}
  BY DEF Shown
<1>3. PICK m \in OnlyWay \cup {NoParent} : todo = ChildrenOf(locs, m)
  BY <1>1 DEF OpenInv
<1>4. ASSUME NEW n \in OnlyWay, n \notin opened
      PROVE  FALSE
  <2>1. PICK t \in todo : HasAncestor(locs, n, t)
    BY <1>1, <1>4 DEF OpenInv
  <2>2. t \in map /\ locs[t].parent = m
    BY <1>1, <1>3, <2>1, LevelFacts
  <2>3. ChildrenOf(locs, m) = {t}
    BY <1>4, <2>1, <2>2 DEF OnlyWay
  <2> QED
    BY <1>2, <1>3, <2>1, <2>3
<1>5. opened = OnlyWay
  BY <1>1, <1>4 DEF OpenInv
<1>6. OnlyWay' = OnlyWay
  BY <1>2 DEF OnlyWay
<1>7. TreeTypeOK'
  BY <1>1, <1>2 DEF TreeTypeOK
<1>8. KidsDone' /\ ChainsDone'
  <2>1. KidsDone'
    BY <1>1, <1>2 DEF KidsDone
  <2>2. ChainsDone'
    BY <1>1, <1>2 DEF ChainsDone, Reaches
  <2> QED
    BY <2>1, <2>2
<1> QED
  BY <1>1, <1>2, <1>5, <1>6, <1>7, <1>8 DEF LoopsInv

LEMMA LoopsStep == LoopsInv /\ [TreesNext]_treeVars => LoopsInv'
<1> SUFFICES ASSUME LoopsInv, [TreesNext]_treeVars PROVE LoopsInv'
  OBVIOUS
<1>1. CASE Call
  BY <1>1, CallStep
<1>2. CASE Return
  BY <1>2, ReturnStep
<1>3. CASE Answer
  BY <1>3, AnswerStep
<1>4. CASE Flatten
  BY <1>4, FlattenStep
<1>5. CASE Flattened
  BY <1>5, FlattenedStep
<1>6. CASE NextEntry
  BY <1>6, NextEntryStep
<1>7. CASE Climb
  BY <1>7, ClimbStep
<1>8. CASE Climbed
  BY <1>8, ClimbedStep
<1>9. CASE Expand
  BY <1>9, ExpandStep
<1>10. CASE Shown
  BY <1>10, ShownStep
<1>11. CASE UNCHANGED treeVars
  <2>1. /\ locs' = locs /\ stage' = stage /\ calls' = calls /\ kids' = kids /\ todo' = todo
        /\ map' = map /\ entry' = entry /\ elem' = elem /\ path' = path
        /\ returnMap' = returnMap /\ opened' = opened
    BY <1>11 DEF treeVars
  <2>2. TreeTypeOK' <=> TreeTypeOK
    BY <2>1 DEF TreeTypeOK
  <2>3. (KidsDone' <=> KidsDone) /\ (KidsUnder' <=> KidsUnder)
    BY <2>1 DEF KidsDone, KidsUnder
  <2>4. (CallsInv' <=> CallsInv) /\ (CallsDiffer' <=> CallsDiffer)
    BY <2>1 DEF CallsInv, CallsDiffer
  <2>5. (FlattenInv' <=> FlattenInv) /\ (ChainsDone' <=> ChainsDone)
    BY <2>1 DEF FlattenInv, ChainsDone, Reaches
  <2>6. ClimbInv' <=> ClimbInv
    BY <2>1 DEF ClimbInv, Reaches
  <2>7. OnlyWay' = OnlyWay
    BY <2>1 DEF OnlyWay
  <2>8. OpenInv' <=> OpenInv
    BY <2>1, <2>7 DEF OpenInv
  <2> QED
    BY <2>1, <2>2, <2>3, <2>4, <2>5, <2>6, <2>7, <2>8 DEF LoopsInv
<1> QED
  BY <1>1, <1>2, <1>3, <1>4, <1>5, <1>6, <1>7, <1>8, <1>9, <1>10, <1>11 DEF TreesNext

LEMMA LoopsAlways == TreesSpec => []LoopsInv
BY LoopsInit, LoopsStep, PTL DEF TreesSpec

\* What a finished chain is made of.
LEMMA ChainFacts ==
  ASSUME LoopsInv, NEW n \in DOMAIN returnMap, NEW chain, chain = returnMap[n]
  PROVE  /\ Len(chain) \in Nat /\ DOMAIN chain = 1 .. Len(chain) /\ Len(chain) > 0
         /\ \A i \in DOMAIN chain : chain[i] \in Nodes /\ chain[i] \in Below(locs, NoParent)
         /\ chain[Len(chain)] = n /\ locs[chain[1]].parent = NoParent
         /\ \A i \in DOMAIN chain : i > 1 => locs[chain[i]].parent = chain[i - 1]
         /\ \A i \in DOMAIN chain : \A a \in Nodes :
              HasAncestor(locs, chain[i], a) <=> \E k \in 1 .. i : chain[k] = a
         /\ \A i, j \in DOMAIN chain : chain[i] = chain[j] => i = j
<1>1. TreeTypeOK /\ ChainsDone
  BY DEF LoopsInv
<1>2. chain \in Seq(Nodes)
  BY <1>1 DEF TreeTypeOK
<1>3. chain # <<>> /\ Reaches(chain, NoParent, n)
  BY <1>1 DEF ChainsDone
<1>4. /\ Len(chain) \in Nat /\ DOMAIN chain = 1 .. Len(chain) /\ Len(chain) > 0
      /\ \A i \in DOMAIN chain : chain[i] \in Nodes
  <2>1. Len(chain) # 0
    BY <1>2, <1>3
  <2> QED
    BY <1>2, <2>1, CallSequence
<1>5. /\ chain[Len(chain)] = n /\ locs[chain[1]].parent = NoParent
      /\ \A i \in DOMAIN chain : chain[i] \in Below(locs, NoParent)
      /\ \A i \in DOMAIN chain : i > 1 => locs[chain[i]].parent = chain[i - 1]
  BY <1>3 DEF Reaches
<1>6. NoParent \notin DOMAIN locs /\ \A a : Below(locs, a) \subseteq DOMAIN locs
  BY <1>1, RowFacts
<1>7. \A a \in Nodes : ~HasAncestor(locs, NoParent, a)
  BY <1>6, NodesAssumption DEF HasAncestor
<1>8. \A i \in DOMAIN chain : \A a \in Nodes :
        HasAncestor(locs, chain[i], a) <=> \E k \in 1 .. i : chain[k] = a
  BY <1>3, <1>7 DEF Reaches
<1>9. ASSUME NEW i \in DOMAIN chain, NEW j \in DOMAIN chain, i < j
      PROVE  chain[i] # chain[j]
  <2>1. j - 1 \in DOMAIN chain /\ i \in 1 .. j - 1 /\ j > 1
    BY <1>4, <1>9
  <2>2. HasAncestor(locs, chain[j - 1], chain[i])
    BY <1>4, <1>8, <2>1
  <2>3. chain[j] \in DOMAIN locs /\ locs[chain[j]].parent = chain[j - 1]
    BY <1>5, <1>6, <2>1
  <2>4. chain[j] \in Below(locs, chain[i])
    BY <2>2, <2>3, BelowClosed DEF HasAncestor
  <2>5. chain[i] \notin Below(locs, chain[i])
    BY <1>5, <1>6, RootedForest
  <2> QED
    BY <2>4, <2>5
<1>10. \A i, j \in DOMAIN chain : chain[i] = chain[j] => i = j
  BY <1>4, <1>9
<1> QED
  BY <1>4, <1>5, <1>8, <1>10

LEMMA LoopsResults ==
  ASSUME LoopsInv
  PROVE  /\ TreeTypeOK /\ TreesAreTable /\ NothingTwice /\ MapIsTrees
         /\ PathsAreAncestries /\ LabelsEndAtRoot /\ OpenedIsOnlyWay
<1>1. TreeTypeOK
  BY DEF LoopsInv
<1>2. DOMAIN Listed(locs) = Below(locs, NoParent)
  BY DEF Listed
<1>3. TreesAreTable
  <2>1. stage # "build" => DOMAIN kids = Below(locs, NoParent) \cup {NoParent}
    BY DEF LoopsInv
  <2>2. \A n \in DOMAIN kids : kids[n] = ChildrenOf(locs, n)
    BY DEF LoopsInv, KidsDone
  <2> QED
    BY <1>2, <2>1, <2>2 DEF TreesAreTable
<1>4. NothingTwice
  <2>1. CASE stage = "build"
    <3>1. CallsInv /\ CallsDiffer
      BY <2>1 DEF LoopsInv
    <3> QED
      BY <2>1, <3>1 DEF NothingTwice, CallsInv, CallsDiffer
  <2>2. CASE stage = "flatten"
    <3>1. FlattenInv
      BY <2>2 DEF LoopsInv
    <3>2. ASSUME NEW e \in todo, NEW c \in kids[e]
          PROVE  c \notin todo \cup map
      <4>1. /\ e \in Below(locs, NoParent) /\ e \notin map /\ e # NoParent
            /\ \A n \in todo \cup map : locs[n].parent \in map \cup {NoParent}
        BY <1>1, <3>1, NodesAssumption DEF FlattenInv, TreeTypeOK
      <4>2. DOMAIN kids = Below(locs, NoParent) \cup {NoParent} /\ KidsDone
        BY <2>2 DEF LoopsInv
      <4>3. kids[e] = ChildrenOf(locs, e)
        BY <4>1, <4>2 DEF KidsDone
      <4>4. locs[c].parent = e
        BY <3>2, <4>3 DEF ChildrenOf
      <4> QED
        BY <4>1, <4>4
    <3> QED
      BY <2>2, <3>1, <3>2 DEF NothingTwice, FlattenInv
  <2> QED
    BY <2>1, <2>2 DEF NothingTwice
<1>5. MapIsTrees
  BY <1>2 DEF MapIsTrees, LoopsInv
<1>6. PathsAreAncestries
  <2>1. stage \in {"open", "over"} => DOMAIN returnMap = map
    BY DEF LoopsInv
  <2>2. ASSUME NEW n \in DOMAIN returnMap, NEW chain, chain = returnMap[n]
        PROVE  /\ Len(chain) > 0 /\ lastChild(chain) = n
               /\ locs[chain[1]].parent = NoParent
               /\ \A i \in 2 .. Len(chain) : locs[chain[i]].parent = chain[i - 1]
               /\ \A a \in Nodes : objectHasParent(chain, a) <=> HasAncestor(locs, n, a)
               /\ \A i, j \in DOMAIN chain : chain[i] = chain[j] => i = j
    <3>1. /\ Len(chain) \in Nat /\ DOMAIN chain = 1 .. Len(chain) /\ Len(chain) > 0
          /\ chain[Len(chain)] = n /\ locs[chain[1]].parent = NoParent
          /\ \A i \in DOMAIN chain : i > 1 => locs[chain[i]].parent = chain[i - 1]
          /\ \A i, j \in DOMAIN chain : chain[i] = chain[j] => i = j
      BY <2>2, ChainFacts
    <3>2. \A i \in DOMAIN chain : \A a \in Nodes :
            HasAncestor(locs, chain[i], a) <=> \E k \in 1 .. i : chain[k] = a
      BY <2>2, ChainFacts
    <3>3. \A i \in 2 .. Len(chain) : locs[chain[i]].parent = chain[i - 1]
      BY <3>1
    <3>4. \A a \in Nodes : objectHasParent(chain, a) <=> HasAncestor(locs, n, a)
      <4>1. Len(chain) \in DOMAIN chain
        BY <3>1
      <4> QED
        BY <3>1, <3>2, <4>1 DEF objectHasParent
    <3> QED
      BY <3>1, <3>3, <3>4 DEF lastChild
  <2> QED
    BY <2>1, <2>2 DEF PathsAreAncestries
<1>7. LabelsEndAtRoot
  <2>1. ASSUME NEW n \in DOMAIN returnMap, NEW root \in Nodes, NEW chain,
               chain = returnMap[n], objectHasParent(chain, root)
        PROVE  Label(chain, root) = {a \in Nodes \ {root} : HasAncestor(locs, root, a)}
    <3>1. /\ Len(chain) \in Nat /\ DOMAIN chain = 1 .. Len(chain)
          /\ \A i \in DOMAIN chain : chain[i] \in Nodes
          /\ \A i, j \in DOMAIN chain : chain[i] = chain[j] => i = j
      BY <2>1, ChainFacts
    <3>2. PICK i \in DOMAIN chain : chain[i] = root
      BY <2>1 DEF objectHasParent
    <3>3. \A a \in Nodes : HasAncestor(locs, root, a) <=> \E k \in 1 .. i : chain[k] = a
      BY <2>1, <3>2, ChainFacts
    <3>4. ASSUME NEW j \in DOMAIN chain, \A k \in 1 .. j : chain[k] # root
          PROVE  /\ chain[j] \in Nodes \ {root} /\ HasAncestor(locs, root, chain[j])
      <4>1. j \in 1 .. j /\ j \in 1 .. i
        BY <3>1, <3>2, <3>4
      <4> QED
        BY <3>1, <3>3, <3>4, <4>1
    <3>5. ASSUME NEW a \in Nodes \ {root}, HasAncestor(locs, root, a)
          PROVE  \E j \in DOMAIN chain : chain[j] = a /\ \A k \in 1 .. j : chain[k] # root
      <4>1. PICK j \in 1 .. i : chain[j] = a
        BY <3>3, <3>5
      <4>2. j \in DOMAIN chain /\ j # i
        BY <3>1, <3>2, <4>1
      <4>3. \A k \in 1 .. j : k \in DOMAIN chain /\ k # i
        BY <3>1, <3>2, <4>2
      <4> QED
        BY <3>1, <3>2, <4>1, <4>2, <4>3
    <3> QED
      BY <3>4, <3>5 DEF Label
  <2> QED
    BY <2>1 DEF LabelsEndAtRoot
<1>8. OpenedIsOnlyWay
  BY DEF OpenedIsOnlyWay, LoopsInv
<1> QED
  BY <1>1, <1>3, <1>4, <1>5, <1>6, <1>7, <1>8

\* Every stage of buildSubTree, treesMap$, storagesWithParents$ and expandAll
\* has values of its type.
THEOREM LoopsTypeCorrect == TreesSpec => []TreeTypeOK
<1>1. LoopsInv => TreeTypeOK
  BY LoopsResults
<1> QED
  BY <1>1, LoopsAlways, PTL

\* For any rows, those of cycles and of missing parents among them, the trees
\* that buildSubTree returns hold what lies below the rows without a parent.
THEOREM BuiltTreesAreTable == TreesSpec => []TreesAreTable
<1>1. LoopsInv => TreesAreTable
  BY LoopsResults
<1> QED
  BY <1>1, LoopsAlways, PTL

\* buildSubTree is never called for an element that it has built or is
\* building, and the loop of treesMap$ never takes an element again.
THEOREM NothingIsDoneTwice == TreesSpec => []NothingTwice
<1>1. LoopsInv => NothingTwice
  BY LoopsResults
<1> QED
  BY <1>1, LoopsAlways, PTL

\* treesMap$ ends with each element of the trees, and no other.
THEOREM MapHoldsTrees == TreesSpec => []MapIsTrees
<1>1. LoopsInv => MapIsTrees
  BY LoopsResults
<1> QED
  BY <1>1, LoopsAlways, PTL

\* The chain that storagesWithParents$ or typesWithParents$ gives an element is
\* its ancestry, from the root, each ancestor once.
THEOREM ChainsAreAncestries == TreesSpec => []PathsAreAncestries
<1>1. LoopsInv => PathsAreAncestries
  BY LoopsResults
<1> QED
  BY <1>1, LoopsAlways, PTL

\* A place's name on the page of a storage above it stops at that storage.
THEOREM LabelsStopAtRoot == TreesSpec => []LabelsEndAtRoot
<1>1. LoopsInv => LabelsEndAtRoot
  BY LoopsResults
<1> QED
  BY <1>1, LoopsAlways, PTL

\* expandAll opens the nodes that neither they nor an ancestor have a sibling.
THEOREM ExpandedIsOnlyWay == TreesSpec => []OpenedIsOnlyWay
<1>1. LoopsInv => OpenedIsOnlyWay
  BY LoopsResults
<1> QED
  BY <1>1, LoopsAlways, PTL

\* All of these together: what the browser takes the trees of any table apart
\* into is what the table says.
THEOREM TakenApartAlways == TreesSpec => []TakenApart
<1>1. LoopsInv => TakenApart
  BY LoopsResults DEF TakenApart
<1> QED
  BY <1>1, LoopsAlways, PTL

\* Less to do after each step.

\* What leaves a finite set makes it smaller.
LEMMA StrictlySmaller ==
  ASSUME NEW S, NEW T \in SUBSET S, NEW x \in S, x \notin T, IsFiniteSet(S)
  PROVE  /\ Cardinality(S) \in Nat /\ Cardinality(T) \in Nat
         /\ Cardinality(T) < Cardinality(S)
<1>1. IsFiniteSet(T) /\ Cardinality(T) <= Cardinality(S)
      /\ (Cardinality(S) = Cardinality(T) => S = T)
  BY FS_Subset
<1>2. Cardinality(S) \in Nat /\ Cardinality(T) \in Nat
  BY <1>1, FS_CardinalityType
<1> QED
  BY <1>1, <1>2

LEMMA TreesFinite ==
  ASSUME IsFiniteSet(Nodes), TreeTypeOK
  PROVE  \A S \in SUBSET Below(locs, NoParent) : IsFiniteSet(S) /\ Cardinality(S) \in Nat
<1>1. Below(locs, NoParent) \subseteq Nodes
  BY RowFacts
<1>2. \A S \in SUBSET Nodes : IsFiniteSet(S)
  BY FS_Subset
<1> QED
  BY <1>1, <1>2, FS_CardinalityType

LEMMA CallShrinks ==
  ASSUME IsFiniteSet(Nodes), LoopsInv, LoopsInv', Call
  PROVE  stage' = stage /\ Work' < Work
<1> DEFINE inTrees == Below(locs, NoParent)
<1> DEFINE called == {calls[i].id : i \in DOMAIN calls}
<1> DEFINE built == inTrees \ DOMAIN kids
<1> DEFINE rest == inTrees \ (DOMAIN kids \cup called)
<1>1. /\ stage = "build" /\ stage' = stage /\ locs' = locs /\ kids' = kids
  BY DEF Call
<1>2. Len(calls) \in Nat /\ DOMAIN calls = 1 .. Len(calls) /\ TreeTypeOK
  BY <1>1, BuildFacts
<1>3. PICK c \in calls[Len(calls)].left :
        /\ c # NoParent /\ DOMAIN calls' = 1 .. Len(calls) + 1
        /\ calls'[Len(calls) + 1].id = c
        /\ \A i \in 1 .. Len(calls) : calls'[i].id = calls[i].id
  BY CallMade
<1>4. Len(calls) + 1 \in DOMAIN calls'
      /\ \A i \in DOMAIN calls : i \in DOMAIN calls' /\ i # Len(calls) + 1
  BY <1>2, <1>3
<1>5. c \in inTrees /\ c \notin DOMAIN kids /\ c \notin called
  <2>1. CallsInv' /\ CallsDiffer'
    BY <1>1 DEF LoopsInv
  <2>2. c \in inTrees \cup {NoParent} /\ c \notin DOMAIN kids
    BY <1>1, <1>3, <1>4, <2>1 DEF CallsInv
  <2>3. \A i \in DOMAIN calls : calls[i].id # c
    BY <1>2, <1>3, <1>4, <2>1 DEF CallsDiffer
  <2> QED
    BY <1>3, <2>2, <2>3
<1>6. called' = called \cup {c}
  <2>1. \A i \in DOMAIN calls' : i \in DOMAIN calls \/ i = Len(calls) + 1
    BY <1>2, <1>3
  <2>2. called' \subseteq called \cup {c}
    BY <1>2, <1>3, <2>1
  <2>3. called \cup {c} \subseteq called'
    BY <1>2, <1>3, <1>4
  <2> QED
    BY <2>2, <2>3
<1>7. Work = Cardinality(built) + Cardinality(rest)
  BY <1>1 DEF Work
<1>8. Work' = Cardinality(built') + Cardinality(rest')
  BY <1>1 DEF Work
<1> HIDE DEF called
<1>9. built' = built /\ rest' \subseteq rest /\ c \in rest /\ c \notin rest'
  BY <1>1, <1>5, <1>6
<1>10. IsFiniteSet(rest) /\ Cardinality(built) \in Nat
  BY <1>2, TreesFinite
<1> HIDE DEF built, rest
<1>11. ASSUME NEW less, less = rest'
       PROVE  /\ Cardinality(rest) \in Nat /\ Cardinality(less) \in Nat
              /\ Cardinality(less) < Cardinality(rest)
  BY <1>9, <1>10, <1>11, StrictlySmaller
<1>12. /\ Cardinality(rest) \in Nat /\ Cardinality(rest') \in Nat
       /\ Cardinality(rest') < Cardinality(rest)
  BY <1>11
<1> QED
  BY <1>1, <1>7, <1>8, <1>9, <1>10, <1>12

LEMMA ReturnShrinks ==
  ASSUME IsFiniteSet(Nodes), LoopsInv, Return
  PROVE  stage' = stage /\ Work' < Work
<1> DEFINE inTrees == Below(locs, NoParent)
<1> DEFINE called == {calls[i].id : i \in DOMAIN calls}
<1> DEFINE built == inTrees \ DOMAIN kids
<1> DEFINE rest == inTrees \ (DOMAIN kids \cup called)
<1> DEFINE L == Len(calls)
<1>1. /\ stage = "build" /\ stage' = stage /\ locs' = locs /\ L > 1
  BY DEF Return
<1>2. /\ L \in Nat /\ DOMAIN calls = 1 .. L /\ TreeTypeOK /\ CallsInv
      /\ \A i \in DOMAIN calls :
           calls[i] \in [id : Elements, left : SUBSET Nodes, made : SUBSET Nodes]
  BY <1>1, BuildFacts
<1>3. kids' = Set(kids, calls[L].id, calls[L].made)
  BY DEF Return, Top
<1>4. calls' = [i \in 1 .. L - 1 |-> IF i = L - 1
                 THEN [calls[i] EXCEPT !.made = @ \cup {calls[L].id}] ELSE calls[i]]
  BY DEF Return, Top
<1>5. /\ calls[L].id \in inTrees \cup {NoParent} /\ calls[L].id \notin DOMAIN kids
      /\ calls[L].id \in ChildrenOf(locs, calls[L - 1].id)
  BY <1>1, <1>2 DEF CallsInv
<1>6. calls[L].id \in inTrees
  <2>1. calls[L].id # NoParent
    BY <1>2, <1>5, RowFacts
  <2> QED
    BY <1>5, <2>1
<1>7. DOMAIN kids' = DOMAIN kids \cup {calls[L].id}
  BY <1>3 DEF Set
<1>8. DOMAIN calls' = 1 .. L - 1 /\ \A i \in 1 .. L - 1 : calls'[i].id = calls[i].id
  <2>1. \A i \in 1 .. L - 1 : i \in DOMAIN calls
    BY <1>2
  <2>2. ASSUME NEW i \in 1 .. L - 1
        PROVE  calls'[i].id = calls[i].id
    <3>1. calls[i] \in [id : Elements, left : SUBSET Nodes, made : SUBSET Nodes]
      BY <1>2, <2>1
    <3>2. CASE i = L - 1
      <4>1. calls'[i] = [calls[i] EXCEPT !.made = calls[i].made \cup {calls[L].id}]
        BY <1>4, <3>2
      <4> QED
        BY <3>1, <4>1
    <3>3. CASE i # L - 1
      BY <1>4, <3>3
    <3> QED
      BY <3>2, <3>3
  <2> QED
    BY <1>4, <2>2
<1>9. called = called' \cup {calls[L].id}
  <2>1. \A i \in DOMAIN calls : i \in DOMAIN calls' \/ i = L
    BY <1>2, <1>8
  <2>2. L \in DOMAIN calls /\ \A i \in DOMAIN calls' : i \in DOMAIN calls
    BY <1>1, <1>2, <1>8
  <2>3. called \subseteq called' \cup {calls[L].id}
    BY <1>8, <2>1
  <2>4. called' \cup {calls[L].id} \subseteq called
    BY <1>8, <2>2
  <2> QED
    BY <2>3, <2>4
<1>10. Work = Cardinality(built) + Cardinality(rest)
  BY <1>1 DEF Work
<1>11. Work' = Cardinality(built') + Cardinality(rest')
  BY <1>1 DEF Work
<1> HIDE DEF called, L
<1>12. rest' = rest /\ built' \subseteq built /\ calls[L].id \in built /\ calls[L].id \notin built'
  BY <1>1, <1>5, <1>6, <1>7, <1>9
<1>13. IsFiniteSet(built) /\ Cardinality(rest) \in Nat
  BY <1>2, TreesFinite
<1> HIDE DEF built, rest
<1>14. ASSUME NEW less, less = built'
       PROVE  /\ Cardinality(built) \in Nat /\ Cardinality(less) \in Nat
              /\ Cardinality(less) < Cardinality(built)
  BY <1>12, <1>13, <1>14, StrictlySmaller
<1>15. /\ Cardinality(built) \in Nat /\ Cardinality(built') \in Nat
       /\ Cardinality(built') < Cardinality(built)
  BY <1>14
<1> QED
  BY <1>1, <1>10, <1>11, <1>12, <1>13, <1>15

LEMMA FlattenShrinks ==
  ASSUME IsFiniteSet(Nodes), LoopsInv, Flatten
  PROVE  stage' = stage /\ Work' < Work
<1> DEFINE left == Below(locs, NoParent) \ map
<1>1. stage = "flatten" /\ stage' = stage /\ locs' = locs
  BY DEF Flatten
<1>2. TreeTypeOK /\ FlattenInv
  BY <1>1 DEF LoopsInv
<1>3. PICK e \in todo : map' = map \cup {e}
  BY DEF Flatten
<1>4. e \in left /\ left' \subseteq left /\ e \notin left'
  BY <1>1, <1>2, <1>3 DEF FlattenInv
<1>5. Work = Cardinality(left) /\ Work' = Cardinality(left')
  BY <1>1 DEF Work
<1>6. IsFiniteSet(left)
  BY <1>2, TreesFinite
<1> HIDE DEF left
<1>7. ASSUME NEW less, less = left'
      PROVE  Cardinality(less) < Cardinality(left)
  BY <1>4, <1>6, <1>7, StrictlySmaller
<1> QED
  BY <1>1, <1>5, <1>7

LEMMA ExpandShrinks ==
  ASSUME IsFiniteSet(Nodes), LoopsInv, Expand
  PROVE  stage' = stage /\ Work' < Work
<1> DEFINE left == Below(locs, NoParent) \ opened
<1>1. stage = "open" /\ stage' = stage /\ locs' = locs
  BY DEF Expand
<1>2. TreeTypeOK /\ OpenInv /\ map = Below(locs, NoParent)
  BY <1>1 DEF LoopsInv
<1>3. PICK t \in todo : opened' = opened \cup {t}
  BY DEF Expand
<1>4. PICK m \in OnlyWay \cup {NoParent} :
        todo = ChildrenOf(locs, m) /\ \A o \in opened : HasAncestor(locs, m, o)
  BY <1>2 DEF OpenInv
<1>5. t \in map /\ t \in DOMAIN locs /\ locs[t].parent = m
  BY <1>2, <1>4, LevelFacts
<1>6. t \notin opened
  <2> SUFFICES ASSUME t \in opened PROVE FALSE
    OBVIOUS
  <2>1. HasAncestor(locs, m, t)
    BY <1>4
  <2>2. t \in Below(locs, t)
    BY <1>5, <2>1, BelowClosed DEF HasAncestor
  <2> QED
    BY <1>2, <1>5, <2>2, RowFacts, RootedForest
<1>7. t \in left /\ left' \subseteq left /\ t \notin left'
  BY <1>1, <1>2, <1>3, <1>5, <1>6
<1>8. Work = Cardinality(left) /\ Work' = Cardinality(left')
  BY <1>1 DEF Work
<1>9. IsFiniteSet(left)
  BY <1>2, TreesFinite
<1> HIDE DEF left
<1>10. ASSUME NEW less, less = left'
       PROVE  Cardinality(less) < Cardinality(left)
  BY <1>7, <1>9, <1>10, StrictlySmaller
<1> QED
  BY <1>1, <1>8, <1>10

LEMMA NextEntryShrinks ==
  ASSUME IsFiniteSet(Nodes), LoopsInv, NextEntry
  PROVE  stage' = stage /\ Work' < Work
<1> DEFINE inTrees == Below(locs, NoParent)
<1> DEFINE above == {a \in inTrees : HasAncestor(locs, elem, a)}
<1> DEFINE T == Cardinality(inTrees)
<1>1. stage = "climb" /\ stage' = stage /\ locs' = locs
  BY DEF NextEntry
<1>2. TreeTypeOK /\ ClimbInv /\ map = inTrees
  BY <1>1 DEF LoopsInv
<1>3. PICK n \in todo : todo' = todo \ {n}
  BY DEF NextEntry
<1>4. todo \subseteq inTrees
  BY <1>2 DEF ClimbInv
<1>5. IsFiniteSet(todo) /\ IsFiniteSet(inTrees) /\ T \in Nat
  BY <1>2, <1>4, TreesFinite
<1>6. ASSUME NEW less, less = todo'
      PROVE  /\ Cardinality(todo) \in Nat /\ Cardinality(less) \in Nat
             /\ Cardinality(less) < Cardinality(todo)
  <2>1. less \in SUBSET todo /\ n \notin less
    BY <1>3, <1>6
  <2> QED
    BY <1>3, <1>5, <2>1, StrictlySmaller
<1>7. /\ Cardinality(todo) \in Nat /\ Cardinality(todo') \in Nat
      /\ Cardinality(todo') < Cardinality(todo)
  BY <1>6
<1>8. ASSUME NEW up, up \subseteq inTrees
      PROVE  Cardinality(up) \in Nat /\ Cardinality(up) <= T
  BY <1>5, <1>8, FS_Subset, FS_CardinalityType
<1>9. above \subseteq inTrees /\ above' \subseteq inTrees
  BY <1>1
<1>10. Work = Cardinality(todo) * (T + 1) + Cardinality(above)
  BY <1>1 DEF Work
<1>11. Work' = Cardinality(todo') * (T + 1) + Cardinality(above')
  BY <1>1 DEF Work
<1>12. /\ Cardinality(above) \in Nat /\ Cardinality(above') \in Nat
       /\ Cardinality(above') <= T
  BY <1>8, <1>9
<1> HIDE DEF T, above, inTrees
<1>13. ASSUME NEW w, NEW v, NEW p \in Nat, NEW q \in Nat, NEW x \in Nat, NEW y \in Nat,
              w = p * (T + 1) + x, v = q * (T + 1) + y, q < p, y <= T
       PROVE  v < w
  <2>1. (q + 1) * (T + 1) <= p * (T + 1)
    <3>1. q + 1 <= p
      BY <1>13
    <3>2. PICK d \in Nat : p = (q + 1) + d
      <4>1. p - (q + 1) \in Nat /\ p = (q + 1) + (p - (q + 1))
        BY <1>13, <3>1
      <4> QED
        BY <4>1
    <3>3. p * (T + 1) = (q + 1) * (T + 1) + d * (T + 1)
      BY <1>5, <1>13, <3>2
    <3>4. d * (T + 1) \in Nat /\ (q + 1) * (T + 1) \in Nat
      BY <1>5, <1>13
    <3> QED
      BY <3>3, <3>4
  <2>2. (q + 1) * (T + 1) = q * (T + 1) + (T + 1)
    BY <1>5, <1>13
  <2>3. q * (T + 1) \in Nat /\ p * (T + 1) \in Nat
    BY <1>5, <1>13
  <2> QED
    BY <1>5, <1>13, <2>1, <2>2, <2>3
<1> QED
  BY <1>1, <1>7, <1>10, <1>11, <1>12, <1>13

LEMMA ClimbShrinks ==
  ASSUME IsFiniteSet(Nodes), LoopsInv, Climb
  PROVE  stage' = stage /\ Work' < Work
<1> DEFINE inTrees == Below(locs, NoParent)
<1> DEFINE above == {a \in inTrees : HasAncestor(locs, elem, a)}
<1>1. /\ stage = "climb" /\ stage' = stage /\ locs' = locs /\ elem # NoParent
      /\ elem' = GetParent(elem) /\ todo' = todo
  BY DEF Climb
<1>2. TreeTypeOK /\ ClimbInv /\ map = inTrees
  BY <1>1 DEF LoopsInv
<1>3. elem \in inTrees /\ elem \in DOMAIN locs /\ NoParent \notin DOMAIN locs /\ todo \subseteq inTrees
  BY <1>1, <1>2, RowFacts DEF ClimbInv
<1>4. elem' = locs[elem].parent
  BY <1>1, <1>2, <1>3, BelowUnfold DEF GetParent
<1>5. elem \in above
  BY <1>3 DEF HasAncestor
<1>6. above' = {a \in inTrees : HasAncestor(locs, locs[elem].parent, a)}
  BY <1>1, <1>4
<1>7. elem \notin above'
  <2> SUFFICES ASSUME HasAncestor(locs, locs[elem].parent, elem) PROVE FALSE
    BY <1>6
  <2>1. elem \in Below(locs, elem)
    BY <1>3, BelowClosed DEF HasAncestor
  <2> QED
    BY <1>3, <2>1, RootedForest
<1>8. above' \subseteq above
  BY <1>3, <1>6, AncestorStep
<1>9. IsFiniteSet(above) /\ Cardinality(inTrees) \in Nat /\ Cardinality(todo) \in Nat
  BY <1>2, <1>3, TreesFinite
<1>10. Work = Cardinality(todo) * (Cardinality(inTrees) + 1) + Cardinality(above)
  BY <1>1 DEF Work
<1>11. Work' = Cardinality(todo) * (Cardinality(inTrees) + 1) + Cardinality(above')
  BY <1>1 DEF Work
<1> HIDE DEF above, inTrees
<1>12. ASSUME NEW less, less = above'
       PROVE  /\ Cardinality(above) \in Nat /\ Cardinality(less) \in Nat
              /\ Cardinality(less) < Cardinality(above)
  BY <1>5, <1>7, <1>8, <1>9, <1>12, StrictlySmaller
<1>13. /\ Cardinality(above) \in Nat /\ Cardinality(above') \in Nat
       /\ Cardinality(above') < Cardinality(above)
  BY <1>12
<1>14. Cardinality(todo) * (Cardinality(inTrees) + 1) \in Nat
  BY <1>9
<1> QED
  BY <1>1, <1>10, <1>11, <1>13, <1>14

LEMMA WorkIsNatural ==
  ASSUME IsFiniteSet(Nodes), LoopsInv
  PROVE  Work \in Nat
<1> DEFINE inTrees == Below(locs, NoParent)
<1> DEFINE called == {calls[i].id : i \in DOMAIN calls}
<1> DEFINE above == {a \in inTrees : HasAncestor(locs, elem, a)}
<1>1. TreeTypeOK /\ (stage = "climb" => ClimbInv /\ map = inTrees)
  BY DEF LoopsInv
<1>2. \A S \in SUBSET inTrees : Cardinality(S) \in Nat
  BY <1>1, TreesFinite
<1>3. CASE stage = "build"
  <2>1. Work = Cardinality(inTrees \ DOMAIN kids) + Cardinality(inTrees \ (DOMAIN kids \cup called))
    BY <1>3 DEF Work
  <2>2. /\ Cardinality(inTrees \ DOMAIN kids) \in Nat
        /\ Cardinality(inTrees \ (DOMAIN kids \cup called)) \in Nat
    BY <1>2
  <2> QED
    BY <2>1, <2>2
<1>4. CASE stage = "flatten"
  BY <1>2, <1>4 DEF Work
<1>5. CASE stage = "climb"
  <2>1. Work = Cardinality(todo) * (Cardinality(inTrees) + 1) + Cardinality(above)
    BY <1>5 DEF Work
  <2>2. todo \subseteq inTrees
    BY <1>1, <1>5 DEF ClimbInv
  <2>3. /\ Cardinality(todo) \in Nat /\ Cardinality(inTrees) \in Nat
        /\ Cardinality(above) \in Nat
    BY <1>2, <2>2
  <2> HIDE DEF inTrees, above
  <2>4. Cardinality(todo) * (Cardinality(inTrees) + 1) \in Nat
    BY <2>3
  <2> QED
    BY <2>1, <2>3, <2>4
<1>6. CASE stage = "open"
  BY <1>2, <1>6 DEF Work
<1>7. CASE stage = "over"
  BY <1>7 DEF Work
<1> QED
  BY <1>1, <1>3, <1>4, <1>5, <1>6, <1>7 DEF TreeTypeOK

\* Whatever the rows are, as long as they are finitely many, no step of the
\* recursion or of a loop is in vain: what is left to do in a stage, a natural
\* number, shrinks, or the next stage begins.  No table makes them run for ever.
THEOREM NoLoopRunsForever ==
  ASSUME IsFiniteSet(Nodes)
  PROVE  TreesSpec => WorkShrinks /\ [](Work \in Nat)
<1>1. LoopsInv /\ LoopsInv' /\ [TreesNext]_treeVars =>
        [\/ After[stage'] < After[stage]
         \/ stage' = stage /\ Work' < Work]_treeVars
  <2> SUFFICES ASSUME LoopsInv, LoopsInv', TreesNext
               PROVE  \/ After[stage'] < After[stage]
                      \/ stage' = stage /\ Work' < Work
    OBVIOUS
  <2>1. CASE Call
    BY <2>1, CallShrinks
  <2>2. CASE Return
    BY <2>2, ReturnShrinks
  <2>3. CASE Answer
    BY <2>3 DEF Answer, After
  <2>4. CASE Flatten
    BY <2>4, FlattenShrinks
  <2>5. CASE Flattened
    BY <2>5 DEF Flattened, After
  <2>6. CASE NextEntry
    BY <2>6, NextEntryShrinks
  <2>7. CASE Climb
    BY <2>7, ClimbShrinks
  <2>8. CASE Climbed
    BY <2>8 DEF Climbed, After
  <2>9. CASE Expand
    BY <2>9, ExpandShrinks
  <2>10. CASE Shown
    BY <2>10 DEF Shown, After
  <2> QED
    BY <2>1, <2>2, <2>3, <2>4, <2>5, <2>6, <2>7, <2>8, <2>9, <2>10 DEF TreesNext
<1>2. LoopsInv => Work \in Nat
  BY WorkIsNatural
<1> QED
  BY <1>1, <1>2, LoopsAlways, PTL DEF TreesSpec, WorkShrinks

----------------------------------------------------------------------------
\* The parts together.

\* What the loops do is nothing to the table, and the table nothing to them:
\* each keeps the promises proved of it alone.
THEOREM PartsApart == Spec => CatalogueSpec /\ TreesSpec
<1>1. Init => CatalogueInit /\ TreesInit
  BY DEF Init
<1>2. [Next]_vars => [CatalogueNext]_catalogueVars /\ [TreesNext]_treeVars
  BY DEF Next, vars
<1> QED
  BY <1>1, <1>2, PTL DEF Spec, CatalogueSpec, TreesSpec

\* Every value of the table, its copies and the loops is of its kind.
THEOREM PartsTypeCorrect == Spec => []TypeOK
<1>1. CatalogueTypeOK /\ TreeTypeOK => TypeOK
  BY DEF TypeOK
<1> QED
  BY <1>1, PartsApart, CatalogueTypeCorrect, LoopsTypeCorrect, PTL
=============================================================================
