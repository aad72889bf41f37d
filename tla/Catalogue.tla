------------------------------ MODULE Catalogue ------------------------------
(***************************************************************************)
(* The trees of storages or of object types, in the server's table and in  *)
(* the browser: the pages and dialogs that edit them, the handlers, each   *)
(* statement committed on its own, what is announced, and the browser's    *)
(* copy with what makes it read the tree again.                            *)
(*                                                                         *)
(* scope is what an edit pushes down to the descendants: the event of a    *)
(* storage, the event of the loan a type is part of.                       *)
(***************************************************************************)
EXTENDS Forest, Naturals, FiniteSets

CONSTANTS
  Ids,         \* rows that exist or may be created
  FirstTables, \* the tables to start from
  MaxEdits,    \* bound: edits, of the page and of other desks
  MaxFaults    \* bound: failed statements and requests, streams lost or dropped

VARIABLES
  kind,        \* which of the two trees
  hasEvent,    \* the browser's session has an event
  rows,        \* the table
  request,     \* the page's edit under way, and the tree it was decided on
  trees,       \* trees$: the browser's copy, as the rows that are in it
  ask,         \* the GET under way
  answer,      \* what it has read
  ended,       \* an error has ended trees$
  stream,      \* the connection the server announces changes on
  told,        \* announcements on their way
  edits, faults,
  silent,      \* history: the table changed since the last read, and nothing
               \* that the browser listens to and receives says so
  excused      \* history: an edit was made on another table than it was
               \* decided on, or was made by half

catalogueVars == <<kind, hasEvent, rows, request, trees, ask, answer, ended,
                   stream, told, edits, faults, silent, excused>>

Kinds == {"storage", "type"}
Scopes == {"all", "event"}
Row == [state : {"none", "live", "gone"}, parent : Ids \cup {NoParent}, scope : Scopes]
TreeRow == [parent : Ids \cup {NoParent}, scope : Scopes]
Copies == UNION {[S -> TreeRow] : S \in SUBSET Ids}
Request ==
  [op : {"none", "create", "update", "delete"}, stage : {"none", "sent", "row", "made"},
   id : Ids \cup {NoParent}, parent : Ids \cup {NoParent}, scope : Scopes, basis : Copies]
\* "first": the page has asked for its first connection; "dropped": the server
\* has given up on it, its response staying open; "lost": being opened anew.
Streams == {"first", "open", "dropped", "lost"}
Announcements == {"StorageUpdated", "StorageDeleted", "ObjectTypeUpdated", "ObjectTypeDeleted"}

NoTree == [n \in {} |-> NoParent]
NoRequest == [op |-> "none", stage |-> "none", id |-> NoParent,
              parent |-> NoParent, scope |-> "all", basis |-> NoTree]

----------------------------------------------------------------------------
\* The table.

\* A deleted storage leaves the table, a deleted type is flagged.
InTable(k, table) ==
  {n \in Ids : table[n].state = "live" \/ (k = "type" /\ table[n].state = "gone")}

Descendants(k, table, n) == Below([m \in InTable(k, table) |-> table[m]], n)

\* The second statement of update.  That of types compares the descendants
\* with the parent column, and so passes over the children themselves.
PushedTo(k, table, n) ==
  {n} \cup (IF k = "storage" THEN Descendants(k, table, n)
            ELSE {c \in InTable(k, table) : table[c].parent \in Descendants(k, table, n)})

\* Mutant: the descendants keep what they had.
RowOnly(k, table, n, scope) == [table EXCEPT ![n].scope = scope]

Pushed(k, table, n, scope) ==
  [m \in Ids |-> IF m \in PushedTo(k, table, n) \cap InTable(k, table)
                 THEN [table[m] EXCEPT !.scope = scope] ELSE table[m]]

\* The first statement: INSERT, or UPDATE ... WHERE id, of a deleted type too.
Inserted(table, n, parent, scope) ==
  [table EXCEPT ![n] = [state |-> "live", parent |-> parent, scope |-> scope]]

Updated(k, table, n, parent, scope) ==
  IF n \in InTable(k, table)
  THEN [table EXCEPT ![n] = [state |-> table[n].state, parent |-> parent, scope |-> scope]]
  ELSE table

\* What the statements are meant to keep of a table: the foreign key, no row
\* below itself, and a storage's scope that of its parent.
ParentsKept(k, table) ==
  \A n \in InTable(k, table) : table[n].parent \in InTable(k, table) \cup {NoParent}

NoCycle(k, table) == \A n \in InTable(k, table) : n \notin Descendants(k, table, n)

ScopesAgree(k, table) ==
  k = "storage" => \A n \in InTable(k, table) :
                      table[n].parent \in Ids => table[n].scope = table[table[n].parent].scope

ASSUME CatalogueAssumption ==
  /\ NoParent \notin Ids /\ MaxEdits \in Nat /\ MaxFaults \in Nat
  /\ FirstTables \subseteq [Ids -> Row]
  /\ \A k \in Kinds, table \in FirstTables :
        ParentsKept(k, table) /\ NoCycle(k, table) /\ ScopesAgree(k, table)

\* WHERE event = ev OR event IS NULL; deleted = 0
Visible ==
  [n \in {n \in Ids : rows[n].state = "live" /\ (hasEvent \/ rows[n].scope = "all")}
     |-> [parent |-> rows[n].parent, scope |-> rows[n].scope]]

\* What the GET answers.
Tree == Listed(Visible)

CatalogueTypeOK ==
  /\ kind \in Kinds /\ hasEvent \in BOOLEAN
  /\ rows \in [Ids -> Row]
  /\ request \in Request /\ trees \in Copies /\ answer \in Copies
  /\ ask \in {"none", "asked", "read"} /\ told \subseteq Announcements
  /\ {ended, silent, excused} \subseteq BOOLEAN /\ stream \in Streams
  /\ edits \in 0 .. MaxEdits /\ faults \in 0 .. MaxFaults
  /\ ended => ask = "none"

CatalogueInit ==
  /\ kind \in {"storage", "type"} /\ hasEvent \in BOOLEAN
  /\ rows \in FirstTables
  /\ request = NoRequest
  /\ trees = NoTree /\ ask = "asked" /\ answer = NoTree /\ ended = FALSE
  /\ stream \in {"first", "open"} /\ told = {}   \* the tree may be asked for later
  /\ edits = 0 /\ faults = 0 /\ silent = FALSE /\ excused = FALSE

----------------------------------------------------------------------------
\* The pages.

Parents == DOMAIN trees \cup {NoParent}

\* A storage with a parent takes this.parent.event: parent is the path, and
\* so its root.  The checkbox is for first-level storages during an event.
ScopesFor(parent) ==
  IF kind = "storage" /\ parent # NoParent THEN {trees[r].scope : r \in RootsOf(trees, parent)}
  ELSE IF hasEvent THEN Scopes ELSE {"all"}

Submit(op, id, parent, scope) ==
  /\ request = NoRequest /\ edits < MaxEdits
  /\ edits' = edits + 1
  /\ request' = [op |-> op, stage |-> "sent", id |-> id, parent |-> parent,
                 scope |-> scope, basis |-> trees]
  /\ UNCHANGED <<kind, hasEvent, rows, trees, ask, answer, ended, stream,
                 told, faults, silent, excused>>

SubmitCreate ==
  \E parent \in Parents : \E scope \in ScopesFor(parent) :
     Submit("create", NoParent, parent, scope)

\* Mutant: a node's descendants are offered as its parent.
AnyParent(n, parent) == TRUE

\* excludeChildrenOf; submit of a storage checks it once more.
ParentOffered(n, parent) == parent # NoParent => ~HasAncestor(trees, parent, n)

SubmitUpdate ==
  \E n \in DOMAIN trees : \E parent \in Parents : \E scope \in ScopesFor(parent) :
     ParentOffered(n, parent) /\ Submit("update", n, parent, scope)

SubmitDelete == \E n \in DOMAIN trees : Submit("delete", n, NoParent, "all")

----------------------------------------------------------------------------
\* The handlers.

ParentExists(parent) == parent = NoParent \/ parent \in InTable(kind, rows)

\* The parent does not exist, or the storage has children (foreign keys).
Refusable ==
  \/ request.op = "create" /\ ~ParentExists(request.parent)
  \/ /\ request.op = "update" /\ request.id \in InTable(kind, rows)
     /\ ~ParentExists(request.parent)
  \/ /\ request.op = "delete" /\ kind = "storage"
     /\ \E c \in InTable(kind, rows) : rows[c].parent = request.id

FirstStatement ==
  /\ request.stage = "sent" /\ ~Refusable
  /\ \/ /\ request.op = "create"
        /\ \E n \in Ids : /\ rows[n].state = "none"
                          /\ rows' = Inserted(rows, n, request.parent, request.scope)
        /\ request' = [request EXCEPT !.stage = "made"]
     \/ /\ request.op = "update"
        /\ rows' = Updated(kind, rows, request.id, request.parent, request.scope)
        /\ request' = [request EXCEPT !.stage = "row"]
     \/ /\ request.op = "delete"
        /\ rows' = [rows EXCEPT ![request.id].state = "gone"]
        /\ request' = [request EXCEPT !.stage = "made"]
  /\ excused' = (excused \/ request.basis # Tree)
  /\ UNCHANGED <<kind, hasEvent, trees, ask, answer, ended, stream, told,
                 edits, faults, silent>>

\* A storage may also hold objects, which refuse its deletion as well.
Refused ==
  /\ request.stage = "sent"
  /\ Refusable \/ (request.op = "delete" /\ kind = "storage")
  /\ request' = NoRequest
  /\ UNCHANGED <<kind, hasEvent, rows, trees, ask, answer, ended, stream,
                 told, edits, faults, silent, excused>>

Cyclic(n) == n \in Descendants(kind, rows, n)

SecondStatement ==
  /\ request.stage = "row" /\ ~Cyclic(request.id)
  /\ rows' = Pushed(kind, rows, request.id, request.scope)
  /\ request' = [request EXCEPT !.stage = "made"]
  /\ UNCHANGED <<kind, hasEvent, trees, ask, answer, ended, stream, told,
                 edits, faults, silent, excused>>

\* A statement fails; that of a cycle always does, its recursion is limited.
\* So may those on the objects that follow in a type's deletion, and the answer
\* of a statement that was made.  What the table has is announced to nobody.
StatementFails ==
  /\ request.stage # "none"
  /\ \/ request.stage = "row" /\ Cyclic(request.id) /\ faults' = faults
     \/ faults < MaxFaults /\ faults' = faults + 1
  /\ silent' = (silent \/ request.stage # "sent")
  /\ excused' = (excused \/ request.stage = "row")
  /\ request' = NoRequest
  /\ UNCHANGED <<kind, hasEvent, rows, trees, ask, answer, ended, stream,
                 told, edits>>

\* The server's names of an edit, and those the browser listens to.
AnnouncementOf(op) ==
  CASE kind = "storage" /\ op # "delete" -> "StorageUpdated"
    [] kind = "storage" /\ op = "delete" -> "StorageDeleted"
    [] kind = "type" /\ op # "delete" -> "ObjectTypeUpdated"
    [] kind = "type" /\ op = "delete" -> "ObjectTypeDeleted"

Listened == IF kind = "storage" THEN {"StorageChanged", "StorageDeleted"}
            ELSE {"ObjectTypeUpdated", "ObjectTypeDeleted"}

\* A page that waits for its first connection, or was dropped, is not told and
\* will not know it; one that is reconnecting will read everything again.
Tell(op) ==
  /\ told' = IF stream = "open" THEN told \cup {AnnouncementOf(op)} ELSE told
  /\ silent' = \/ silent \/ AnnouncementOf(op) \notin Listened
               \/ stream \in {"first", "dropped"}

Announce ==
  /\ request.stage = "made"
  /\ Tell(request.op)
  /\ request' = NoRequest
  /\ UNCHANGED <<kind, hasEvent, rows, trees, ask, answer, ended, stream,
                 edits, faults, excused>>

\* The handler of another desk may fail after the table has changed.
TellUnlessFailed(op) ==
  \/ Tell(op) /\ faults' = faults
  \/ told' = told /\ silent' = TRUE /\ faults < MaxFaults /\ faults' = faults + 1

\* Another desk edits the table as it is, with a parent's scope for a storage.
EditedElsewhere(op, n, parent, scope) ==
  /\ edits < MaxEdits /\ edits' = edits + 1
  /\ rows[n].state = (IF op = "create" THEN "none" ELSE "live")
  /\ parent # NoParent =>
        /\ rows[parent].state = "live" /\ parent # n
        /\ kind = "storage" => scope = rows[parent].scope
        /\ parent \notin Descendants(kind, rows, n)
  /\ \/ op = "create" /\ rows' = Inserted(rows, n, parent, scope)
     \/ /\ op = "update" /\ ~Cyclic(n)
        /\ rows' = Pushed(kind, Updated(kind, rows, n, parent, scope), n, scope)
     \/ /\ op = "delete" /\ parent = NoParent
        /\ kind = "storage" => Descendants(kind, rows, n) = {}
        /\ rows' = [rows EXCEPT ![n].state = "gone"]
  /\ TellUnlessFailed(op)
  /\ excused' = (excused \/ request.stage = "row")
  /\ UNCHANGED <<kind, hasEvent, request, trees, ask, answer, ended, stream>>

----------------------------------------------------------------------------
\* The browser's copy.

\* Mutant: an ended copy asks too.
AskAnyway == "asked"

\* switchMap: a GET under way is dropped for the new one.
AskAgain == IF ended THEN ask ELSE "asked"

\* Mutant: an announcement is not followed by a GET when one is under way.
AskOnce == IF ended \/ ask # "none" THEN ask ELSE "asked"

AskWhenTold == AskAgain

Hear(name) ==
  /\ name \in told /\ told' = told \ {name}
  /\ ask' = IF name \in Listened THEN AskWhenTold ELSE ask
  /\ UNCHANGED <<kind, hasEvent, rows, request, trees, answer, ended,
                 stream, edits, faults, silent, excused>>

\* Mutant: no interval.
NoTick == FALSE

\* interval, refreshAll: far longer than a GET.
TickDue == ~ended /\ ask = "none"

Tick ==
  /\ TickDue /\ ask' = "asked"
  /\ UNCHANGED <<kind, hasEvent, rows, request, trees, answer, ended,
                 stream, told, edits, faults, silent, excused>>

ServeGet ==
  /\ ask = "asked" /\ ask' = "read"
  /\ answer' = Tree /\ silent' = FALSE
  /\ UNCHANGED <<kind, hasEvent, rows, request, trees, ended, stream, told,
                 edits, faults, excused>>

Arrive ==
  /\ ask = "read" /\ ask' = "none"
  /\ trees' = answer
  /\ answer' = NoTree
  /\ UNCHANGED <<kind, hasEvent, rows, request, ended, stream, told, edits,
                 faults, silent, excused>>

\* Nothing catches the error: it ends trees$ for all who follow it ...
GetFails ==
  /\ ask # "none" /\ faults < MaxFaults /\ faults' = faults + 1
  /\ ended' = TRUE /\ ask' = "none" /\ answer' = NoTree
  /\ UNCHANGED <<kind, hasEvent, rows, request, trees, stream, told, edits,
                 silent, excused>>

\* ... until a page that subscribes makes shareReplay start over.
Subscribe ==
  /\ ended /\ ended' = FALSE /\ ask' = "asked"
  /\ UNCHANGED <<kind, hasEvent, rows, request, trees, answer, stream, told,
                 edits, faults, silent, excused>>

\* The first onopen refreshes nothing.
FirstOpen ==
  /\ stream = "first" /\ stream' = "open"
  /\ UNCHANGED <<kind, hasEvent, rows, request, trees, ask, answer, ended, told,
                 edits, faults, silent, excused>>

\* An offer to the connection's queue failed: nothing more is put in it, and
\* what it holds still arrives.
Drop ==
  /\ stream = "open" /\ stream' = "dropped"
  /\ faults < MaxFaults /\ faults' = faults + 1
  /\ UNCHANGED <<kind, hasEvent, rows, request, trees, ask, answer, ended, told,
                 edits, silent, excused>>

Disconnect ==
  /\ stream # "lost" /\ faults < MaxFaults /\ faults' = faults + 1
  /\ stream' = "lost" /\ told' = {}
  /\ UNCHANGED <<kind, hasEvent, rows, request, trees, ask, answer, ended,
                 edits, silent, excused>>

\* onopen of a reconnection refreshes everything.
Reconnect ==
  /\ stream = "lost" /\ stream' = "open"
  /\ ask' = AskAgain
  /\ UNCHANGED <<kind, hasEvent, rows, request, trees, answer, ended, told,
                 edits, faults, silent, excused>>

----------------------------------------------------------------------------

CatalogueNext ==
  \/ SubmitCreate \/ SubmitUpdate \/ SubmitDelete
  \/ FirstStatement \/ Refused \/ SecondStatement \/ StatementFails \/ Announce
  \/ \E op \in {"create", "update", "delete"}, n \in Ids,
        parent \in Ids \cup {NoParent}, scope \in Scopes :
        EditedElsewhere(op, n, parent, scope)
  \/ \E name \in Announcements : Hear(name)
  \/ Tick \/ ServeGet \/ Arrive \/ GetFails \/ Subscribe
  \/ FirstOpen \/ Drop \/ Disconnect \/ Reconnect

CatalogueSpec == CatalogueInit /\ [][CatalogueNext]_catalogueVars

----------------------------------------------------------------------------
\* Properties.

\* When nothing is on its way the browser shows the table, unless a change was
\* told to nobody since it was read: that of a handler that failed afterwards;
\* one under a name the browser does not listen to, which is every creation and
\* update of a storage; one made before the first connection was open; or one
\* made once the server had dropped the connection.
Quiet ==
  /\ stream # "lost" /\ told = {} /\ ask = "none" /\ ~ended
  /\ request.stage \in {"none", "sent"}

QuietIsFresh == Quiet /\ ~silent => trees = Tree

\* Edits decided on the table they are applied to make no row its own
\* ancestor, though nothing on the server refuses it.
KeepsForest == ~excused => NoCycle(kind, rows)

\* "Vous ne pouvez changer cette valeur que pour les stockages de premier
\* niveau": a storage has its parent's event, between two statements aside.
ScopeInherited == ~excused /\ request.stage # "row" => ScopesAgree(kind, rows)

\* An edit decided on another table may close a cycle, which nothing looks for.
\* Still every element of a tree that the server answers has one root and is
\* not its own ancestor: treesMap$ and storagesWithParents$ end their loops,
\* and "this.parent.event" is one event, that of the root.
CopiesAreForests ==
  \A copy \in {trees, answer} : \A n \in DOMAIN copy :
     n \notin Below(copy, n) /\ \E r \in DOMAIN copy : RootsOf(copy, n) = {r}

\* Once the edits are over the browser shows the table, whatever was missed,
\* unless an error has ended the copy and no page has asked for it since.
EventuallyFresh == <>[](ended \/ trees = Tree)
=============================================================================
