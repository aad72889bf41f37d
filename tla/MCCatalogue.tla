----------------------------- MODULE MCCatalogue -----------------------------
(***************************************************************************)
(* Instances of Catalogue and of TreeLoops for TLC: either a table that is *)
(* edited and copied, or a table that is made into trees and taken apart   *)
(* again.  The loops run on an answer once it is there, so that nothing of *)
(* the one happens between two steps of the other.                         *)
(***************************************************************************)
EXTENDS Catalogue, TreeLoops

CONSTANTS n1, n2, n3, n4

ThreeIds == {n1, n2, n3}
FourNodes == {n1, n2, n3, n4}

VARIABLE part

vars == <<part, catalogueVars, treeVars>>

Live(parent, scope) == [state |-> "live", parent |-> parent, scope |-> scope]
Unused == [state |-> "none", parent |-> NoParent, scope |-> "all"]

\* A root with a child, a lone root beside them or room for one more row.
Table(third) ==
  [n \in ThreeIds |-> CASE n = n1 -> Live(NoParent, "event")
                        [] n = n2 -> Live(n1, "event")
                        [] n = n3 -> third]

EmptyTable == [n \in ThreeIds |-> Unused]

Tables == {Table(Unused), Table(Live(NoParent, "all")), EmptyTable}

Init ==
  /\ part \in {"table", "trees"}
  /\ CatalogueInit /\ TreesInit
  \* One initial state of the part that is not used is enough.  With one of the
  \* tables the first connection is waited for; with the other it is open already
  \* and the session has an event, which with the first the storages alone have.
  /\ \/ /\ part = "table" /\ rows # EmptyTable /\ locs = EmptyMap
        /\ stream = IF rows = Table(Unused) THEN "first" ELSE "open"
        /\ IF hasEvent THEN stream = "open" \/ kind = "storage" ELSE stream = "first"
     \/ /\ part = "trees" /\ rows = EmptyTable /\ kind = "storage" /\ hasEvent
        /\ stream = "open"

Next ==
  /\ part' = part
  /\ \/ part = "table" /\ CatalogueNext /\ UNCHANGED treeVars
     \/ part = "trees" /\ TreesNext /\ UNCHANGED catalogueVars

\* The timer fires and the server answers; a loop goes on.  Each is fair while it
\* is the one that runs.
Spec ==
  /\ Init /\ [][Next]_vars
  /\ WF_catalogueVars(part = "table" /\ Tick)
  /\ WF_catalogueVars(part = "table" /\ ServeGet)
  /\ WF_catalogueVars(part = "table" /\ Arrive)
  /\ WF_treeVars(part = "trees" /\ TreesNext)

TypeOK == CatalogueTypeOK /\ TreeTypeOK

\* The recursion and the loops end, whatever the table is.
TreesEnd == part = "trees" => LoopsEnd
=============================================================================
