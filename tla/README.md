# Magmat: specifications, model checking and proofs

Magmat keeps the stock of equipment of a convention: objects with asset tags and
statuses, their types, where they are stored, who borrowed them. A Play server in
Scala (`backend/`) keeps everything in MySQL and tells its clients of changes over
server-sent events; an Angular client (`frontend/`) keeps live copies of the tables.

This directory holds TLA+ specifications of that program, the TLC configurations
that check them, and theorems checked by TLAPS. All paths below are relative to
the root of the repository.

## 1. Inventory

| Component | State it keeps | Operations | Talks to |
|---|---|---|---|
| Objects ledger, server (`ObjectsController`, `ObjectsModel`) | tables `objects`, `object_logs`, `object_comments` | `changeState`, `updateOne`, `createMultiple`, lists of loans, `getNextSuffix`, comments | database, one autocommitted statement at a time; `SSEService` |
| Object types, server (`ObjectTypesController`, `ObjectTypesModel`) | table `object_types` | create, update (pushes `part_of_loan` down), delete (retires and journals the objects) | database, `SSEService` |
| Storage, server (`StorageController`, `StorageModel`, `StorageTree`) | table `storage`, a forest by `parent_storage_id` | create, update (pushes `event_id` down), delete, move objects, build the tree | database, `SSEService` |
| External loans, guests (`LoansController`, `LoansModel`, `GuestsModel`) | tables `external_loans`, `guests` | create, change state, list | database, `SSEService` |
| SSE hub (`SSEService`, `SSEController`) | the actor's map of subscribers, one bounded queue each | subscribe, send, keep-alive | every controller, every browser |
| Events, users, people (`EventsModel`, `UsersModel`, `PeopleService`, `LoginController`) | cached futures, a shared map of staff numbers, table `users` | current event, switch event, login, refresh of the map | external services |
| Tidying (`TidyingController`) | none | sorts objects to put back into trees | storage, types |
| Objects replica, browser (`ObjectsService`, `SseService`) | `_objectsMap$`, the last answer, the event sources | periodic and triggered refresh, events applied in place, reconnection | server |
| Other replicas, browser (types, storages, loans, users, guests, events) | one subject each | as above | server |
| Session, browser (`AuthService`, guards, `EventsService.switchEvent`) | token and next action in local storage, which the tabs share; the current event and its pipeline in each tab | login by ticket, redirect, logout, event switch | central service, server |
| Quick boxes, browser (loan, state change, item creation, move) | the list typed, the objects found, a flag | dialogs, several requests per click, reports | the objects replica, the server |
| Forms, browser | the content, a flag | ask, send, report, renew or leave | server |
| Search field, browser (`AbstractSelectorComponent`) | the text, the list, the entry selected | type, choose, reset, refresh | the replicas, the page that holds it |
| Views, exports, PDF, wiring | none of their own | filter, sort, render | |

`PROJECT.json` lists the same parts with their files and what is still missing of each.

What is hard in this code:

* **No transactions.** The statements of one `db.withConnection` block share a connection
  that commits each of them; nothing opens a transaction. A handler is a sequence of statements, in
  one block or in several, and handlers interleave between any two of them; a failure between two
  leaves the first one's effect.
* **Two paths to the client.** A browser learns of changes from the answers to
  `GET /objects/complete` and from events. They travel independently, so that old news
  may arrive after new.
* **Lossy fan-out.** A subscription's queue holds one event. When it refuses one the
  subscriber is dropped for good, yet its response stays open.
* **Reconnection.** `onerror` makes a new `EventSource` while the browser retries the old
  one; both may end up open.
* **Error handling of RxJS.** An error that reaches a subject ends it.
* **Live values under dialogs.** The objects found, the target state, the fields go on
  changing while a signature or a confirmation is asked for and while requests are under
  way; callbacks read some of them again, and throw when they are gone, before the flag is cleared.
* **Fields that tell and are told.** A search field hears its own choice as an input, and its
  list and the chosen object change under it.
* **Tabs.** They share the token in local storage and tell each other nothing.
* **Caches without locks** in the services that talk to the outside.

What makes each part correct: *ledger* - deletion is final, the journal explains the
status, tags are unique, loans that need a signature have one, what is told is true;
*hub* - a stream never has a gap; *replica* - nothing untrue is shown, a reconnection
misses nothing, the list comes to agree with the table; *storage and types* - the rows
stay a forest, an inherited column agrees with the parent, the browser's copy comes to agree
with the table, never has a cycle and is taken apart rightly; *boxes* - what is sent is what the dialogs named, but for one way in which it is not,
what is reported as done was done, every click ends; *creation of items* - no number is given
twice; *forms* - one request at a time, a content is accepted once, only a success empties the
form; *field* - identifier, object and text are those of one entry; *session* - the bar shows the event the
requests are made for.

## 2. Modules

| Module | What it is |
|---|---|
| `ChangeFeed` | abstract: a table of statuses and a feed of messages that tell statuses the objects really had |
| `ObjectLedger` | the handlers of objects and the deletion of types, statement by statement |
| `SseHub` | mailbox of the actor, subscribers, bounded queues, response streams |
| `ObjectsReplica` | composes `ChangeFeed` (the server) and `SseHub` with one browser's list and its connections |
| `Forest` | trees as a table whose rows name their parent: what lies below a row, what is in a tree, ancestors and roots; nothing recursive |
| `TreeLoops` | the code's recursion and loops, step by step: how the server builds the trees, how the browser takes them apart |
| `Catalogue` | the table of storages or types, the pages that edit it, the handlers, the announcements and the browser's copy |
| `StateDesk` | the two boxes that change states: snapshot, dialogs, requests, report |
| `ItemCreate` | the box that creates numbered items |
| `Forms` | the other forms and the deletions, as twelve records of how each sends its request |
| `Selector` | the search field in its uses |
| `Session` | tabs, token, login, current event and its switch |
| `MCObjectLedger`, `MCObjectsReplica`, `MCDesk`, `MCCatalogue` | instances for TLC: symmetry, message sets, first tables, and (`MCDesk`) one page at a time of `StateDesk`, `ItemCreate`, `Forms`, `Selector`, (`MCCatalogue`) either a table that is edited and copied or one that is made into trees |
| `ObjectLedgerProofs` | type correctness, deletion is final, the journal explains the status; which overlaps of requests break what; `ObjectLedger` implements `ChangeFeed` |
| `SseHubProofs` | type correctness and unbroken streams |
| `ObjectsReplicaProofs` | type correctness, nothing invented, the composition implements `SseHub` and `ChangeFeed`, a reconnection misses nothing, the streams tell the feed |
| `CatalogueProofs` | facts about trees; type correctness, the copy is the table when nothing is on its way, rows and copies stay forests, a parent's event; what the loops of `TreeLoops` compute from any table |
| `FormsProofs`, `SelectorProofs`, `SessionProofs` | the theorems of the module they are named after |
| `DeskProofs` | the theorems of `StateDesk` and `ItemCreate`, and those of `MCDesk`, which runs every page |

`ObjectLedger` implements `ChangeFeed` (property `ImplementsFeed`, theorem `RefinesFeed`).
`ObjectsReplica` is built on `ChangeFeed` and not on the ledger itself: whatever the client
model shows holds for every server that keeps that promise, and its state space
stays small.

### ObjectLedger and the code

`rows` is the table `objects` (type, asset tag, signature flag and status of each id;
`"Absent"` is an id not yet inserted), `journal` is `object_logs`, `now` is the
database's `NOW()`, `job[r]` is where request `r` stands between two statements, with
the values its closure holds, and `outbox` is what was sent to the actor, in
order. One action is one statement with the code up to the next one:

* `ChangeState`, `LogChange`, `ApplyChange`, `AnnounceChange`: `PUT /objects/state/:id`.
  The controller reads and decides; the `INSERT ... SELECT` journals the state the table
  holds *then*; the `UPDATE` leaves out deleted rows; then the event is sent.
* `UpdateOne`, `WriteRow`: `PUT /objects/:id`.
* `CreateMultiple`, `LookUpTag`, `InsertNext`, `NothingToInsert`: `POST /objects/`. Each tag
  of a batch is looked up, those found are left out, the others are inserted one by one.
  Without an event the batch insert returns update counts, which are taken for ids
  (`InsertedIds`).
* `ReadForNotify`, `SendSnapshot`: `notifyObjectChanged`, which reads the object again after the
  response was sent and tells what it read.
* `DeleteType`, `RetireObjects`, `LogRetired`, `AnnounceTypeDeleted`: `DELETE /objects/types/:id`.
* `StatementFails`, `NotifyReadFails`: a statement throws or its answer is lost. The rest of
  the handler does not run and what was written stays.

Abstracted: descriptions and other payload columns, the columns of the journal that
name the user, `objects_event_data` (the per-event columns of an object), who is
authorised. A new object is in stock: the server inserts the status of the body, and the only form that posts
objects has no other. Requests for ids that do not exist end at once (`ChangeState`) or change no row
and are left out (`UpdateOne`). A served request does not come back.

### SseHub and the code

`Subscribe` is `SSEService.subscribe` with the message it sends to the actor, `Send` is
`send`, the keep-alive being one more event; `ReceiveSubscribe` and `ReceiveSend` are
the actor's `receive`; `Pull` is the response taking from its queue; `Cancel` is the end of
a response. `StillSubscribed` is the filter in `receive`: only subscribers whose offer was
enqueued are kept. The code never sends `Unsubscribe`. `sent` and `from` are history.

`HubSpec` leaves open who subscribes and sends and is what `SseHubProofs` is about.

### ObjectsReplica and the code

* `get` is the one request `switchMap` keeps: a new trigger (`Refresh`, or `Opens` of a
  renewed connection) replaces it, so that an answer on its way is given up. `ServerAnswers`
  reads the table, `AnswerArrives` hands the answer to the pipeline.
* `base` is the last answer and `shown` the map in `_objectsMap$`. `embedObjects` is a
  `combineLatest` that stays subscribed: `EmbedAgain` emits `base` once more whenever types,
  loans, users or storages have a new value.
* `Dispatch` is a listener of an `EventSource` calling `updateLocalObject`. Before the first list
  the event waits for it (`waiting`). All that waited then see that same list and each
  publishes a copy with its own change, so the last one stays (`WithWaiting`). An
  `ObjectStatusChange` of an object that is not in the map throws and changes nothing.
* `Connect`, `Opens`, `Breaks`: `SseService.connect`, `onopen`, `onerror`. `due` counts the
  connections still to be made: on an error the timer makes a new source and the browser
  retries the old one.
* `GetFails`: a request fails and nothing catches it, so the subject ends. It stands for the list
  request and for those that `embedObjects` waits for.

A browser callback and the promises it resolves are one step: zone.js drains microtasks
before the next callback. The server side is `ChangeFeed`, whose `Tells` and `TellsType`
send to the hub in the same step (`ServerTells`, `ServerTellsType`). Left out:
refused tokens (401), and every field of an object but its status. The keep-alive is not
among the events here, it carries nothing the list reads; that it may fill a queue shows
as any event does.

### Forest, Catalogue and the code

`Forest` says what lies below a row as the database does: the least set that has the children of the row and of
its own elements (`Below`, of `WITH RECURSIVE`). A tree is what lies below no parent (`Listed`), so that the rows of
a cycle are in none. A copy of the browser, in `Catalogue`, is the function of the rows that are in it. It runs
with `kind` `"storage"` or `"type"`; `scope` is what an edit pushes down, the event of a storage or that of the
loan a type is part of.

* `SubmitCreate`, `SubmitUpdate`, `SubmitDelete`: the pages, on the tree the browser shows. `ParentOffered`
  is the list of parents without an element's own descendants, `ScopesFor` what the checkbox allows.
* `FirstStatement`, `SecondStatement`, `StatementFails`, `Refused`, `Announce`: the handlers. An update is a
  row and then a recursive statement; `PushedTo` has the join of each kind, and that of types passes
  over the direct children. `StatementFails` may come after the table has changed, as in the deletion of a type,
  whose statements on the objects follow, or when an answer is lost: nothing is announced then. `Refused` is the foreign keys: a parent that does not exist, a storage that has children
  or holds objects. The recursion of a row that is its own ancestor does not end, so the statement fails.
* `EditedElsewhere`: another desk, on the table as it is; its handler may fail too (`TellUnlessFailed`).
* `Hear`, `Tick`, `ServeGet`, `Arrive`, `GetFails`, `Subscribe`: the browser's copy.
* `stream` is the connection the announcements come over. The first GET does not wait for it (`FirstOpen` refreshes
  nothing), the server drops it when an offer to its queue fails and says so to nobody (`Drop`), and it breaks and is
  renewed with a refresh (`Disconnect`, `Reconnect`). What several connections at a time do is left to
  `ObjectsReplica`.
  `Listened` has the names the browser listens to and `AnnouncementOf` those the server sends: `StorageChanged` and
  `StorageUpdated` are not the same, so creations and updates of storages are never heard.

Two histories name what excuses a property: `silent` (the table changed since it was read and nothing will ever tell
the browser: a handler failed after the change, the name is not listened to, the first connection was not open yet, or
the server had dropped it) and `excused` (an edit was applied to another table than it was decided on, or by
half). Left out: names, the order of lists.

### TreeLoops and the code

What the copies are functions of, computed as the code does. Types and storages have the same loops, over fields of
other names.

* `Call`, `Return`, `Answer`: `buildSubTree` of `getStorageTree` and `getObjectTypeTree`. `calls` is the stack of its
  invocations; a call has children left to build and children that are made, `kids` is what has been built. `NoParent`
  stands for the outermost `map(None).map(buildSubTree)`.
* `Flatten`, `Flattened`: `treesMap$`, one turn of the loop over `locToAdd` (`todo`) each. The code takes the last one
  put there, the model any: what comes out depends on neither that order nor the order of the children. `NothingTwice`
  says that no element is put on the list twice, so that a set may stand for it.
* `NextEntry`, `Climb`, `Climbed`: `storagesWithParents$` and `typesWithParents$`. `path` is the chain of copies with
  a single child each, as the sequence of its elements; `Grown` puts the copy of an element around it.
* `lastChild`, `objectHasParent`, `Label`: what the dialogs and lists read from a chain.
* `Expand`, `Shown`: the view of a tree with `expandSingle`.

The rows are any table: with cycles, with parents that are not in it (the query leaves rows of other events out), with
rows that name themselves. Each stage starts when the one before is done, as the pipelines have it; a new answer starts
all of them again, with other rows.

### StateDesk and the code

`box` says which box it is: `"quickLoan"` is `HomepageComponent`, `"quickChangeState"` is
`QuickChangestateComponent` on the home page, `"object"` the same on the page of an object. `seen` is the browser's
list, `found` what `getObjectByTag` gives for each line, `flow` what a click has captured and what was sent, `followed` the objects the search field of the home page has a
subscription to, which nothing ends.

* `TypeTags`, `PickUser`, `ClearUser`: the fields, while no dialog is open. An emptied list of tags is a
  `combineLatest` of nothing: what had been found stays (`FoundAfter`). An emptied user field tells nothing
  to the list (`UserAfterReset`), so that after a full success the same batch can be sent again.
* `Choose`, `LeaveBox`: another object in the box of one object, and another box. A box that is left while its request
  is under way shares no state with the next one, and is not left in the model.
* `ChangedElsewhere`, `HearOf`: other desks, and hearing of them. The list reads its objects again; in the box, any
  object that was chosen before takes the place of the current one when it is heard of, open dialogs or not
  (`FoundOnHearing`).
* `quickLoan`, `changeState`: the click. `Sign`, `RefuseToSign`, `Confirm`, `Cancel`: the dialogs.
  `Serve`, `ServeUnsigned`, `ServeDeleted`: the server, one request per line; a tag that was typed twice is two
  requests. `Confirm` sends what `ToSend` says: the list's snapshot of the click, and `this.object` of the box as it is
  now. `ReportList`, `ReportOne`: the report and the reset. `ReportThrows`: the success callback of the box reads
  `lendTo` and then resets the user's field (`CallbackThrows`). `lendTo` may have been emptied meanwhile, and the field is
  gone when the object is shown as deleted; the callback throws before the flag is cleared, and the box stays
  blocked until another one is built (`LeaveBox`).

The server's rule for signatures is stated here once more (`ServerWantsSignature`), without the race that
`ledger_signature_race` shows.

### ItemCreate and the code

`QuickItemCreateComponent` and `getNextSuffix`. `UpdatePrefix` starts a look-up; `LookupAnswered` takes any
of those under way, `LookupFails` is an item whose suffix is nothing but the prefix, on which the server fails;
`PostObjects`, `Insert`, `RefuseBatch`, `BatchTold`, `BatchFailed` are a batch. With no prefix the look-up
always says 1. The prefix goes into the URL as it is, so that one with an `&` is looked up as what stands before it
(`ReceivedAs`, any function in the theorems). `TypeStart` is the field of the number, which may be typed over or cleared.
The histories `startFor`, `byHand` and `outdated` say what the number shown is based on. Left out: negative numbers and
decimals typed in that field.

### Forms and the code

Each form is a record: whether it asks first, when its flag is tested and set, what success does. The
twelve are `QuickMove`, `CreateStorage`, `CreateType`, `CreateLoan`, `LoanState`, `TypeOfLoan`,
`UpdateObject`, `CreateGuest`, `SendComment`, `DeleteObject`, `DeleteStorage`, `DeleteType`. A content is a
number of its own, 0 is a form nothing was typed in, which most send all the same (`Required` has those that do not),
so that `accepted` counts how often the server has taken it. `Overwrite` is the page of an
object, which shares the object with the replica and loses what is being typed when a new list
comes. What is typed while a request is under way is emptied by its success, as in the code. `SubmitThrows` is a click on
a list of moves that was never touched: the flag is set, and the text is still undefined. `"leaveHeld"` is a success that
leaves the page with the flag set.

### Selector and the code

`AbstractSelectorComponent` in its uses: `bound` fields (storage, type, loan, user) hear what they
tell; a `keeps` field (user) tells no `undefined`; a `follows` field (object) subscribes to every version of
the object that was chosen, and nothing ends that subscription: `follows` is the list of them, in the order of the choices. `Type`, `ResetField`, `ParentSelects` are events,
`Detect` is Angular's detection of inputs after each, `ListArrives` and `ListChanges` are `refresh` and the
replica. `JumpsOnlyOnChange` states how far the followed objects may go: an object chosen earlier takes the
place of the current one when it changes.

### Session and the code

`Load` and `Navigate` are the guard, `LoggedIn` and `LoginFailed` the login, `Unload` what leaves the
application. `token` and `nextAction` are in `localStorage`. In each tab, `pipeline` and `ask` are
`currentEvent$` with its request, `last` what it replays, `failures` what `retry(5)` has counted: over the
whole life of the pipeline, not in a row. `bar` is the event bar: it may be left by a pipeline that ended.
`Switch`, `Switched`, `SwitchFails` are `switchEvent`. Behaviour worth knowing that the model has:

* coming back with a ticket stores that address as the action, over the page that was asked for, so that a login leads
  to the home page unless another tab stored its own meanwhile;
* the ticket may stay in the address, and a reload after the session's end is then a failed login;
* a session without an event is refused each request: the pipeline ends after its retries, and the bar
  stays at the event before;
* a switch that is answered after a logout brings a session back;
* the event stream and the lists are not asked for again by a switch.

Two simplifications: the event bar follows the pipeline from the moment it is there, where the code also waits for the
list of events, and `BarAppears` is tied to the views inside the application. And `Catalogue` is the simpler of the
two where they meet: with `hasEvent` false it gives the browser the trees the query answers without an event, where the
request for the current event of such a session is refused, `currentEventId$` ends with it, and the trees that wait for
it are never asked for.

## 3. Runs

Statement-level interleaving and its failures:

| Run | Shows | Result |
|---|---|---|
| `ledger_concurrent` | three requests, two in flight, each may fail between two statements, journal rows in one second: `TypeOK`, `JournalExplainsStatus`, `DeletedIsFinal`, `ImplementsFeed` | holds |
| `ledger_apart` | three requests, two at a time, that overlap in any way but those `Apart` names, each may fail between two statements, rows in one second or in several, two types: `JournalMatchesStatus`, `LoanFromStockIsSigned`, `TagsUnique` | holds |
| `ledger_deleted_listed` | `DeletedIsNotListed` | violated: the refused change of a deleted object leaves a journal row, and the object is back in the list of loans |
| `ledger_signature_race` | `LoanFromStockIsSigned` with two in flight | violated: the rule is decided on a status that no longer holds |
| `ledger_batch_tags` | `TagsUnique` with batches of two | violated: the objects of one batch are not compared with each other |

The client:

| Run | Shows | Result |
|---|---|---|
| `replica` | two objects, two connections, one change, two messages, one failing request: `ReplicaTypeOK`, `Unbroken`, `NeverInvented`, `RefreshCoversGap` | holds |
| `replica_converges` | no failing request, two changes and two messages: `Converges` | holds |
| `replica_get_failure` | `Converges` with one failing request | violated: the pipeline has ended |
| `replica_reverts` | `StaysInSync` | violated: an event had brought the list up to date, and `EmbedAgain` puts the last answer back |

The pages, the trees and the session:

| Run | Shows | Result |
|---|---|---|
| `desk` | the two boxes that change states (`SentAsNamed`, `ReportIsTrue`, `UnsignedRefusalIsStale`, `SendingIsFlow`), the creation of items (`NoSuffixTwice`), the forms (`OneRequest`, `AcceptedOnce`, `KeptUntilAccepted`), boxes and forms (`FlagsFreed`), the field (`HalvesAgree`, `ShowsSelected`, `SelectedIsCurrent`, `JumpsOnlyOnChange`), and `TypeOK` of all | holds |
| `catalogue` | storages and types, edited by the page and by another desk: `QuietIsFresh`, `KeepsForest`, `ScopeInherited`, `CopiesAreForests`, `EventuallyFresh`; what the recursion and the loops make of any table: `TakenApart`, `WorkShrinks`, `TreesEnd`; `TypeOK` of both | holds |
| `session` | two tabs, two events: `ShownIsSession`, `FaultsEndNothing`, `ShownAgain`, `SessionTypeOK` | holds |

Each violated property quotes a sentence of the program (`findings` in `PROJECT.json`), and
the passing runs show where the same property, or its neighbour, does hold.

Bounds, and why they are enough for what is asked:

* Two objects: one that exists and one that is created; the id 1 is among them, as
  `InsertedIds` needs it. Tags, types and requests are interchangeable (symmetry); the
  run of a liveness property has none.
* `ledger_apart` (3.4 million states): two types, since an object must be able to move between them while one is deleted; one
  new object per batch, as `TagsAreUnique` covers the larger ones.
* Two requests in flight and a third after or beside them: the races of this code
  are between one handler's read and another's write, and the third request observes
  the result or makes the state the race needs (an object that is out, a deleted one).
* `MaxBatch` 1 where batches do not matter, 2 where two objects of one batch are compared.
* `ClockSteps`: `{0}` puts all journal rows in the same second, the worst case for an
  order by timestamp; `{0, 1}`, of `ledger_apart`, puts each in the second of the one before or in the next.
  `MAX(timestamp)` may then select several rows of one object, and the property is that one of them tells its status.
* `QueueSize` 1, as in the code. Two messages are enough to fill a queue.
* Two connections: a lost one and its successor, or the new source and the browser's
  retry of the old one. A connection is never used twice (it stands for a UUID).
  `replica_converges` has one, as repair there comes from the timer, whatever
  the streams do.
* `MaxChanges`, `MaxMessages`, `MaxGetFailures` cap what happens on the server; breaking,
  refreshing and embedding are not capped.

* `desk` (462,000 states): one object that needs a signature and one that does not, lists with the two in
  order, one twice, and one with an unknown tag; two clicks, so that the second starts from what the
  first left; one change by another desk, which may be a deletion, and one lost answer, between any two steps; three
  prefixes, one of which is received as another, with batches of one and two look-ups under way, enough to answer them
  out of order, and two things typed, prefixes or numbers; three contents and three requests of a
  form; two entries in a field with two new lists and three events, enough to choose, choose again and be
  overtaken. The pages share no state, so one is used at a time.
* `catalogue` (595,000 states): while a table is edited, three rows, the least with a row between an ancestor and a descendant; two edits,
  since one edit overtaking another is what can close a cycle; one fault, which may be a failed statement, a failed GET,
  a broken or a dropped stream. The first tables are a root with
  a child and, in one of them, a lone root. The trees are made of every table of at most four rows, cycles among them:
  four are enough for a fork below a chain, and for a fork beside a cycle. A loop runs on an answer that is there,
  so one part is used at a time; the theorems hold for any number of rows, edits and faults.
* `session` (515,000 states): two tabs share the token, a third would only be one more; one retry where the code has
  five, with one fault and refusals without number, so that both ends of a pipeline are reached. The theorems hold
  for every number of tabs, events and retries.

`CHECK_DEADLOCK FALSE` is set in every configuration: the requests and the changes are finitely many,
and a ledger that has served them all stops; a browser whose pipeline has ended and whose
connections are used up may stop too.

Fairness (`ObjectsReplica`): weak fairness of `Refresh`, since `interval(refreshEvery)` never
stops while the pipeline lives; weak fairness of `ServerAnswers`, since a request that did
not fail is answered; strong fairness of `AnswerArrives`, since a trigger may give up an
answer but the timer leaves five minutes between two of its own and the other triggers are not
periodic. Nothing is assumed of the hub, of the connections or of events: `Converges` holds
if no event ever arrives. No fairness is stated for the ledger: no liveness is claimed of
it.

Fairness of the pages: a modal dialog is answered, since nothing else can be done before
(`Dialogs`, `Asked`); a request ends, in success or failure (`Requests`, `Served`); a callback
runs, and a message closes by its timer (`Reports`, `CalledBack`). Typing, clicking and leaving are free. Of
`Catalogue` and `Session`: the timer of a live pipeline fires, and a request is answered or
fails. `Session` never assumes that a request succeeds, a page is visited or a user
logs in; `Catalogue` assumes that answers arrive once faults are used up, and its ended copy is an explicit
exception of `EventuallyFresh`. Of `TreeLoops`: a loop that can take a step takes one (weak fairness of the whole
next-state relation), as a thread that runs does. `MCCatalogue` states each for the part that runs.

## 4. Theorems

They hold for every value of the constants under the named assumptions `LedgerAssumption`,
`HubAssumption`, `ReplicaAssumption`, `CatalogueAssumption`, `DeskAssumption`, `ItemAssumption`, `FormsAssumption`,
`SelectorAssumption`, `SessionAssumption` and `NodesAssumption`, which TLC evaluates in the runs. Further hypotheses are part of a theorem's statement
(`ASSUME ... PROVE`).

* `ObjectLedgerProofs`. `TypeCorrect` needs a strengthening, `LedgerInv`: `TypeOK` and
  `JobsHaveRows`. A request past its check works on a row that exists, without which a journal
  row could have `"Absent"` as its source. `DeletedStaysDeleted` goes action by
  action: of those that write `status`, `ApplyChange` is guarded by `Changeable`, `InsertNext` takes
  an absent id, `RetireObjects` writes `"Deleted"`. `Journaled` needs `JournalInv`: a request that is "applying" already
  has its row in the journal, and rows are never removed.
  Its second part says which overlaps of requests can break what: `ObjectLedger` names three, as conditions on a state.
  `OneChangeEach`: no two changes of one object are between check and last statement. `TypesApart`: while a type's
  deletion is about to be journalled, no object is about to enter or leave the type. `TagsApart`: no tag is about
  to be written by two requests, or twice by one batch. Nothing in the code enforces them. With any number of
  requests in flight, `LoansAreSigned` needs the first only (`DecisionHolds`: what the controller decided is still so when the
  row is written; of all steps, only the second statement of another change can put an object back in the stock);
  `TagsAreUnique` the third only (`ChecksHold`: what the look-ups found is still so, `HoldersStep`: a step gives a tag it does not
  bring to nobody); `JournalMatches` needs the first two (`MatchInv`: between the two statements of a
  change, or of a deletion, journal and table disagree, and it says which request will make them agree, or that it has failed).
  That a change overlaps the deletion of its object's type does no harm. All three are with failures, and with any clock: rows of one
  second are all the latest, and one of them tells the status; a request that failed between two statements excuses
  its own row and its own objects and nothing else (`Half`). `ApartLedger` puts the
  three together for `ApartSpec`, which `ledger_apart` checks: steps are taken from states that are apart, and the
  properties hold one step beyond. The conditions are needed: `ledger_signature_race` violates the first property with
  two changes of one object, `ledger_batch_tags` the tags with one batch.
  Its last part is `RefinesFeed`: every step of every handler is a step of `ChangeFeed`
  or leaves `status`, `pending` and `feed` alone, under the mapping of
  `Feed == INSTANCE ChangeFeed WITH ...`; one lemma for each action.
* `SseHubProofs`. `HubTypeCorrect` includes the bound on queues. `StreamsUnbroken` rests on
  `StreamInv`: the stream and then the queue of a connection are consecutive in `sent` from
  `from[c]` on (`Aligned`), they reach its end while the connection is subscribed
  (`Complete`), and a connection whose `Subscribe` still waits was given nothing (`Waits`). Without
  the last one a second `Subscribe` would move `from` under a stream already begun.
  `Consecutive` turns positions into sequences.
* `ObjectsReplicaProofs`. `ReplicaTypeCorrect` and `NothingInvented` share `HistoryInv`: every
  message prepared, in the mailbox, in a queue, on a stream or waiting for the list is
  *honest*, as are the table, the last answer and the list. What is honest stays so, because
  the history only grows. The type of the list alone is not inductive, as `Dispatch` takes its event
  from a stream whose elements `HubTypeOK` knows as `Events` only. `ImplementsHub` adds
  `ConnInv`: a connection is unused exactly as long as the hub has never heard of it, so each is
  subscribed once. `ReplicaStreamsUnbroken` then follows from `StreamsUnbroken`.
  `ReconnectionMissesNothing` needs `GapInv`: a numbering of the mailbox. Each
  place of the mailbox gets the number of events that will have been fanned out when the actor reaches it, and
  the last of these numbers never exceeds what the server has told (`Len(feed)`). A renewed connection is `Covered` by a
  list that was read when that many events were told: its `Subscribe`, received or still in the mailbox, has no later
  number. `ImplementsServer` says that the server's side of the composition is a `ChangeFeed`, whatever the client does.
  `StreamsTellTheFeed` joins the two ends: with the same numbering, `MailInv` says that what was told is what was fanned
  out and then what the mailbox holds, message by message; with `StreamInv` each event on a stream is the one the
  server told at that place. With `RefinesFeed` the way is complete from a handler's statement to the listener in
  the browser, step by step in what each theorem says of its part.
* `CatalogueProofs`. `Below` is a least set, and `BelowLeast` does the work of an induction: to show something of all
  that lies below a row, show that the set of which it holds is closed. From it come `BelowTransitive`,
  `ReparentedForest` (a row that moves under what is not below it closes no cycle), `PushAgrees` (when only the children of a
  row may differ from it, the push-down from that row makes every row agree with its parent), `RootScope` (where all rows
  agree with their parents, the root of a path has the scope of its end: the page passes on the root's) and `OfferedOfTable` (what the page's tree offers as
  a parent is no descendant in the table that tree was read from).
  `KeepsForestAlways` and `ScopeInheritedAlways` rest on `RowsInv`: with the types, what the browser has seen was in
  the table (`SeenRows`), a request asks for what its own tree offered (`Decided`), parents are rows of the
  table (`ParentsKept`), and between the two statements of an update only the children of its row may differ from it
  (`HalfDone`). The two properties are part of it: without a forest the push-down would not reach what it should.
  `QuietIsFreshAlways` needs `NewsUnderWay`: unless a change was told to nobody since the table was read, the copy is the
  table, or the answer is, or something that leads to a GET is on its way: a statement that will be announced, an
  announcement that is heard, a stream that is about to be renewed. The excuse is no more than that: `silent` is
  cleared whenever a GET reads the table, so that one missed change is forgiven until the next refresh only. `CopiesAreForestsAlways` has no excuse: with a cycle in the
  table too, every tree that is answered is a forest (`ListedForest`, `ListedRoot`).
  Its second part is about `TreeLoops`, for any rows. `LoopsInv` has what each stage leaves to the next. While the trees
  are built, a call has each of its children to build, in the next call, or made (`CallsInv`); the calls are of different
  elements (`CallsDiffer`) and what is built was built for its parent (`KidsUnder`), so that a child can neither be built
  already nor be one that is being built: that child would have another parent, or be an element of its own subtree.
  While the map grows, the parent of what is on the list has left it (`FlattenInv`). At both ends `BelowLeast` turns "closed
  and nothing else" into "all of the tree". A chain that has come from an element up to another has, at each of its places, the
  ancestors that stand before it and those of the element it has reached (`Reaches`); with `RootedForest`, nothing in a tree
  is below itself, its elements differ, and a label ends where it should. `OpenInv`: what the view has still to
  open is below the level it looks at. Each of these is a theorem (`BuiltTreesAreTable` to
  `ExpandedIsOnlyWay`); `TakenApart`, which the run checks, is the six together (`TakenApartAlways`).
  `NoLoopRunsForever` is why all of it ends, for every finite table: `Work` counts what is left to do in a stage and is a natural
  number, every step makes it smaller or begins the next stage (`WorkShrinks`). One lemma for each step; for the
  climb it is that an element of a tree is not an ancestor of its own parent.
  `PartsApart` says that the specification of `MCCatalogue` implements those of both its parts; `PartsTypeCorrect` is its
  type invariant.
* `DeskProofs`. `DeskInv`: types; `NamedInv`, what is under the dialogs: the box of one object has one line, the page of an
  object is about that one only (`OneObject`), and while dialogs are open the box is about the object they name or about
  one that was chosen earlier and heard of since (`NamedInDialogs`), which `SentAsNamedAlways` takes across the
  confirmation; and `FlowInv`, stage by stage: there is a line for each object of the click and an answer for each line, none
  before the requests leave, an answer
  "ok" is of a line the server has applied, one that was applied and is called "failed" was lost, and a flow that
  goes out without a signature has no line that needed one at the click. `SendingIsFlowAlways` has the exception the code
  has: once a callback has thrown the flag stays, and that takes a change that was applied.
  `NoSuffixTwiceAlways` and `StartIsFreeAlways` (a number without an excuse is beyond every item that exists, which no run
  checks on its own) rest on `ItemInv`: an answer under way that is not out of date, the number shown, and the batch
  under way are each beyond every item of the prefix they were really looked up for, unless excused: by no prefix, a
  number of another prefix, one typed by hand, or items it does not know of; numbers stay within bounds. That a set of
  numbers has a greatest one is proved from the well-founded order of the naturals.
  `PagesApart` says that the specification of `MCDesk`, which runs the pages side by side, implements that of every
  page, so that the theorems about each hold in it; `PagesTypeCorrect` is its type invariant.
* `FormsProofs`. `FlagInv`: a request that is not told, or a message that is not closed, holds the flag, and an open
  question holds it where it is set at the click; after a click that threw nothing is under way, and the flag stays. `AcceptInv`: contents are numbered as they come,
  a request that is pending carries a content that was not accepted before unless an answer was lost, and the
  content that may still be sent is a new one. `KeptUntilAcceptedAlways` is an action property that follows from `FlagInv`.
* `SelectorProofs`. `SelectorInv`: a version is numbered when it is made (`VersionsMade`); until a list arrives the field
  knows nothing, and then every entry of the list (`NothingComesBack`); and for each kind of field how its halves stand
  between the steps. A bound field has told its page what it shows, but for the detection that is due and for an
  identifier that the list does not have yet (`BoundAgrees`); a user's field tells identifier and object together
  (`UserAgrees`); an object that was told is among those followed, in the list's version (`ObjectFollowed`). The three
  invariants that are checked are about a field at rest; this one says what the steps in between leave.
  `JumpsOnlyOnChangeAlways` is an action property from it.
* `SessionProofs`. `PageInv`, one condition per tab: a request under way asks for the token of now unless another
  tab replaced it since, and what is replayed is the answer to such a request. `FaultsEndNothingAlways` assumes
  `MaxFaults <= Retries`, which is its point: it counts each failure against a fault or a refusal.

Only model-checked: the liveness properties `Converges`, `EventuallyFresh`, `ShownAgain`, `FlagsFreed` (every click comes to an end that frees its box, closes its page or is one of the two throws), `TreesEnd`, which
rest on fairness and on `ENABLED` (of `TreesEnd`, that there are only finitely many steps is proved, that one is
always possible before the end is not); and the violations. `TagsUnique` and `LoanFromStockIsSigned` without
the conditions of `ApartLedger` are refuted, not open. Every other invariant
and action property of the passing runs is stated by a theorem.

## 5. Not modelled

* **External loans and guests, server.** A loan's state is overwritten by one unconditional `UPDATE` and
  announced; guests are inserted and read. The browser's side is in `Forms`. Two latent
  details were met: the page of a loan decides on the browser's list at the click whether it can be given back,
  and guest identifiers are marked with `0x100000` where a filter tests `0x1000000`.
* **`PeopleService` and the cached `Future` of the current event.** A mutable map shared by
  threads without a lock, and a cache that keeps a failed future for half an hour: the outcomes are those of
  an unsynchronised library structure, not of the program's steps.
* **Tidying lists.** A pure function of two trees, computed per answer.
* **`moveItems`**: one `UPDATE` of the storage column; its form is `QuickMove`. **Comments and
  logs**: inserted and read.
* **`objects_event_data`**, and every column but those `Row` has.
* **Replicas of loans, users and guests**: copies without an operation of their own, which `ObjectsReplica`
  has as sources of `EmbedAgain`. A reconnection does not refresh the loans.
* **The rest of the browser**: the lender's and date fields, the page of returns, views that only filter, sort
  or lay out; exports, PDF and bar codes; SQL generation, schema, configuration and wiring. They have no
  state of their own.

The hazards that no property covers are in `PROJECT.json` with the reason.
