--------------------------- MODULE ObjectsReplica ---------------------------
(***************************************************************************)
(* One browser's list of objects, kept by ObjectsService from two sources: *)
(* the answers to GET /objects/complete and the events of the SSE streams  *)
(* that SseService opens.  The server side is ChangeFeed, whose feed goes  *)
(* through the actor and the queues of SseHub.                             *)
(*                                                                         *)
(* The browser runs one callback at a time and drains its promises before  *)
(* the next one, so a callback with what it awaits is one step.            *)
(***************************************************************************)
EXTENDS SseHub, FiniteSetsExt

CONSTANTS
  Objects, Types, Requests, Slots,  \* as in ChangeFeed
  Targets,        \* bound: states a change may ask for
  MaxChanges,     \* bound: steps that change a status
  MaxMessages,    \* bound: messages ever prepared
  MaxGetFailures  \* bound: requests for the list that fail

VARIABLES
  status, pending, feed,  \* the server: ChangeFeed
  left,       \* how many changes, messages and failures are still to come
  conn,       \* how far each connection is, as the browser sees it
  renews,     \* whether connect() was called with reconnect = true
  due,        \* connections still to be opened, for each value of reconnect
  read,       \* how many events of a stream the browser has dispatched
  get,        \* the request for the list and its answer
  loaded,     \* whether a list has arrived
  base,       \* the last list, which embedObjects emits again and again
  shown,      \* _objectsMap$
  waiting,    \* events that wait for the first list
  failed,     \* the pipeline has ended with an error
  known,      \* history: the statuses each object has had
  baseAt      \* history: how many events were sent when base was read

serverVars == <<status, pending, feed, left, known>>
linkVars == <<conn, renews, due, read>>
listVars == <<get, loaded, base, shown, waiting, failed, baseAt>>
vars == <<hubVars, serverVars, linkVars, listVars>>

Server == INSTANCE ChangeFeed

ASSUME ReplicaAssumption ==
  /\ MaxChanges \in Nat /\ MaxMessages \in Nat /\ MaxGetFailures \in Nat
  /\ Targets \subseteq Server!Status
  /\ Server!ObjectMessage \cup Server!TypeMessage \subseteq Events

\* The entries of the map, "Absent" for an object it does not hold.
Lists == [Objects -> Server!Status \cup {"Absent"}]

Gets == [phase: {"none", "asked"}]
          \cup [phase: {"answered"}, list: Lists, at: Nat]

ReplicaTypeOK ==
  /\ HubTypeOK
  /\ Server!FeedTypeOK
  /\ left \in [changes: 0..MaxChanges, messages: 0..MaxMessages,
               failures: 0..MaxGetFailures]
  /\ conn \in [Connections -> {"unused", "connecting", "open", "closed"}]
  /\ renews \in [Connections -> BOOLEAN]
  /\ due \in [BOOLEAN -> Nat]
  /\ read \in [Connections -> Nat]
  /\ get \in Gets
  /\ loaded \in BOOLEAN
  /\ base \in Lists /\ shown \in Lists
  /\ waiting \in Seq(Server!ObjectMessage)
  /\ failed \in BOOLEAN
  /\ known \in [Objects -> SUBSET Server!Status]
  /\ baseAt \in Nat

Init ==
  /\ HubInit
  /\ Server!FeedInit
  /\ left = [changes |-> MaxChanges, messages |-> MaxMessages,
             failures |-> MaxGetFailures]
  /\ conn = [c \in Connections |-> "unused"]
  /\ renews = [c \in Connections |-> FALSE]
  /\ due = [again \in BOOLEAN |-> IF again THEN 0 ELSE 1]
  /\ read = [c \in Connections |-> 0]
  /\ get = [phase |-> "asked"]
  /\ loaded = FALSE
  /\ base = [o \in Objects |-> "Absent"] /\ shown = base
  /\ waiting = <<>>
  /\ failed = FALSE
  /\ known = [o \in Objects |-> {status[o]} \ {"Absent"}]
  /\ baseAt = 0

----------------------------------------------------------------------------
(* The server: steps of ChangeFeed; what it tells goes to the actor.       *)

Spend(what) == left[what] > 0 /\ left' = [left EXCEPT ![what] = @ - 1]

Remember == known' = [o \in Objects |-> known[o] \cup ({status'[o]} \ {"Absent"})]

ServerChanges ==
  /\ Spend("changes")
  /\ \/ \E o \in Objects : Server!Appear(o)
     \/ \E S \in SUBSET Objects : Server!Retire(S)
  /\ Remember
  /\ UNCHANGED <<hubVars, linkVars, listVars>>

ServerChangesAndPrepares ==
  /\ left.changes > 0 /\ left.messages > 0
  /\ left' = [left EXCEPT !.changes = @ - 1, !.messages = @ - 1]
  /\ \E r \in Requests, o \in Objects, s \in Targets : Server!Change(r, o, s)
  /\ Remember
  /\ UNCHANGED <<hubVars, linkVars, listVars>>

ServerObserves ==
  /\ Spend("messages")
  /\ \E r \in Requests, o \in Objects : Server!Observe(r, o)
  /\ UNCHANGED <<hubVars, known, linkVars, listVars>>

ServerTells ==
  /\ \E r \in Requests : \E p \in pending[r] : Server!Tells(r, p) /\ Send(p.msg)
  /\ UNCHANGED <<left, known, linkVars, listVars>>

ServerTellsType ==
  /\ Spend("messages")
  /\ \E t \in Types :
       /\ Server!TellsType(t)
       /\ Send([kind |-> "ObjectTypeDeleted", type |-> t])
  /\ UNCHANGED <<known, linkVars, listVars>>

ServerLoses ==
  /\ \E r \in Requests : \E p \in pending[r] : Server!Loses(r, p)
  /\ UNCHANGED <<hubVars, left, known, linkVars, listVars>>

HubRuns == HubStep /\ UNCHANGED <<serverVars, linkVars, listVars>>

----------------------------------------------------------------------------
(* The list: one pipeline of GET /objects/complete                         *)

\* Mutant: a request that is under way is not started again.
AskOnce == get' = IF failed \/ get.phase # "none" THEN get ELSE [phase |-> "asked"]

\* A trigger of the pipeline: switchMap gives up the request under way, and
\* nothing happens any more once the pipeline has ended.
Ask == get' = IF failed THEN get ELSE [phase |-> "asked"]

\* Mutant: the list is loaded once and not on a schedule.
RefreshUntilLoaded ==
  /\ ~failed /\ ~loaded
  /\ Ask
  /\ UNCHANGED <<hubVars, serverVars, linkVars, loaded, base, shown, waiting,
                 failed, baseAt>>

\* interval(refreshEvery), refreshAll, or a new value of currentEventId$.
Refresh ==
  /\ ~failed
  /\ Ask
  /\ UNCHANGED <<hubVars, serverVars, linkVars, loaded, base, shown, waiting,
                 failed, baseAt>>

\* The query leaves out deleted objects.
Visible(o) == IF status[o] = "Deleted" THEN "Absent" ELSE status[o]

ServerAnswers ==
  /\ get.phase = "asked"
  /\ get' = [phase |-> "answered", list |-> [o \in Objects |-> Visible(o)],
             at |-> Len(feed)]
  /\ UNCHANGED <<hubVars, serverVars, linkVars, loaded, base, shown, waiting,
                 failed, baseAt>>

\* A status change of an object that the map lacks throws in the updater.
Applies(m, list) == m.kind = "ObjectUpdated" \/ list[m.object] # "Absent"

\* Mutant: the change is made to a row of the list that has another id.
UpdatedOther(m, list) ==
  IF Applies(m, list)
  THEN [list EXCEPT ![CHOOSE o \in Objects : list[o] # "Absent" \/ o = m.object] = m.status]
  ELSE list

\* updateLocalObject with the updater of the event.
Updated(m, list) ==
  IF Applies(m, list) THEN [list EXCEPT ![m.object] = m.status] ELSE list

\* All events that waited see the first list, and each publishes a copy of
\* that list with its own change alone: the last one stays.
WithWaiting(list) ==
  LET applied == {i \in DOMAIN waiting : Applies(waiting[i], list)}
  IN  IF applied = {} THEN list ELSE Updated(waiting[Max(applied)], list)

AnswerArrives ==
  /\ get.phase = "answered"
  /\ get' = [phase |-> "none"]
  /\ loaded' = TRUE
  /\ base' = get.list
  /\ shown' = WithWaiting(get.list)
  /\ waiting' = <<>>
  /\ baseAt' = get.at
  /\ UNCHANGED <<hubVars, serverVars, linkVars, failed>>

\* A request fails: the one for the list, or one of those that embedObjects waits
\* for.  Nothing catches the error, so the subject gets it and is over.
GetFails ==
  /\ ~failed
  /\ Spend("failures")
  /\ get' = [phase |-> "none"]
  /\ failed' = TRUE
  /\ waiting' = <<>>
  /\ UNCHANGED <<hubVars, status, pending, feed, known, linkVars, loaded, base,
                 shown, baseAt>>

\* Types, loans, users or storages have a new value: embedObjects emits the
\* objects of the last answer again.
EmbedAgain ==
  /\ loaded /\ ~failed
  /\ shown' = base
  /\ UNCHANGED <<hubVars, serverVars, linkVars, get, loaded, base, waiting,
                 failed, baseAt>>

----------------------------------------------------------------------------
(* The streams                                                             *)

\* connect(again), or the browser's own retry of a source: the server takes the
\* request and subscribes it.
Connect(again, c) ==
  /\ due[again] > 0 /\ conn[c] = "unused"
  /\ due' = [due EXCEPT ![again] = @ - 1]
  /\ conn' = [conn EXCEPT ![c] = "connecting"]
  /\ renews' = [renews EXCEPT ![c] = again]
  /\ Subscribe(c)
  /\ UNCHANGED <<serverVars, read, listVars>>

\* onopen; a source made by a reconnection asks everyone to refresh.
Opens(c) ==
  /\ conn[c] = "connecting"
  /\ conn' = [conn EXCEPT ![c] = "open"]
  /\ IF renews[c] THEN Ask ELSE UNCHANGED get
  /\ UNCHANGED <<hubVars, serverVars, renews, due, read, loaded, base, shown,
                 waiting, failed, baseAt>>

\* The connection breaks, or the server closes a silent one.  onerror makes a
\* new source in a second, and the browser retries the old one as well.
Breaks(c) ==
  /\ conn[c] \in {"connecting", "open"}
  /\ conn' = [conn EXCEPT ![c] = "closed"]
  /\ due' = [again \in BOOLEAN |->
               due[again] + (IF again THEN 1 ELSE 0)
                          + (IF again = renews[c] THEN 1 ELSE 0)]
  /\ Cancel(c)
  /\ UNCHANGED <<serverVars, renews, read, listVars>>

\* A listener is called with the next event of a stream.  The deletion of a
\* type only makes ObjectTypesService load the types again.
Dispatch(c) ==
  LET m == stream[c][read[c] + 1] IN
  /\ conn[c] = "open" /\ read[c] < Len(stream[c])
  /\ read' = [read EXCEPT ![c] = @ + 1]
  /\ IF m.kind = "ObjectTypeDeleted" \/ failed
     THEN UNCHANGED <<shown, waiting>>
     ELSE IF loaded
     THEN shown' = Updated(m, shown) /\ UNCHANGED waiting
     ELSE waiting' = Append(waiting, m) /\ UNCHANGED shown
  /\ UNCHANGED <<hubVars, serverVars, conn, renews, due, get, loaded, base,
                 failed, baseAt>>

----------------------------------------------------------------------------

ServerNext ==
  \/ ServerChanges \/ ServerChangesAndPrepares \/ ServerObserves
  \/ ServerTells \/ ServerTellsType \/ ServerLoses

LinkNext ==
  \E c \in Connections :
    (\E again \in BOOLEAN : Connect(again, c)) \/ Opens(c) \/ Breaks(c) \/ Dispatch(c)

ListNext == Refresh \/ ServerAnswers \/ AnswerArrives \/ GetFails \/ EmbedAgain

Next == ServerNext \/ HubRuns \/ LinkNext \/ ListNext

\* The timer of the list fires for ever and the server answers.  A new trigger
\* may give up an answer on its way, but not every answer: the timer leaves
\* five minutes for it.
Fairness ==
  WF_vars(Refresh) /\ WF_vars(ServerAnswers) /\ SF_vars(AnswerArrives)

Spec == Init /\ [][Next]_vars /\ Fairness

----------------------------------------------------------------------------
(* Properties *)

\* The list shows nothing but statuses that the object has really had.
NeverInvented ==
  \A o \in Objects : shown[o] # "Absent" => shown[o] \in known[o]

\* "We had lost the connection previously, we should refresh everything": once
\* a renewed connection is open and its refresh is through, the list was read
\* after the connection was subscribed, so that every event is either in the
\* list or on the stream.
RefreshCoversGap ==
  \A c \in Connections :
    conn[c] = "open" /\ renews[c] /\ c \in subscribers
    /\ get.phase = "none" /\ ~failed => loaded /\ from[c] <= baseAt

\* The list and the table agree; a deleted object may be missing.
InSync ==
  loaded /\ \A o \in Objects :
    IF status[o] \in {"Absent", "Deleted"} THEN shown[o] \in {"Absent", "Deleted"}
    ELSE shown[o] = status[o]

\* When objects stop changing, the list comes to agree with the table and
\* stays so, however events were lost, late, repeated or overwritten.
Converges == <>[]InSync

\* Nothing is on its way to the list.
Quiet ==
  /\ get.phase = "none" /\ mailbox = <<>>
  /\ \A r \in Requests : pending[r] = {}
  /\ \A c \in Connections : queue[c] = <<>> /\ read[c] = Len(stream[c])

\* "Service that keeps the list of objects in sync": a list that agrees with
\* the table goes on agreeing while no object changes and no event arrives.
StaysInSync == [][InSync /\ Quiet /\ UNCHANGED status => InSync']_vars

=============================================================================
