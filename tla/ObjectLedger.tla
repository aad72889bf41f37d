---------------------------- MODULE ObjectLedger ----------------------------
(***************************************************************************)
(* The server's ledger of objects: the tables objects and object_logs, the *)
(* deleted flag of object_types, and the request handlers that write them. *)
(*                                                                         *)
(* No handler opens a transaction: the statements of db.withConnection run *)
(* with autocommit on, so a handler is a sequence of steps and the steps   *)
(* of concurrent handlers interleave.  One action below is one statement,  *)
(* with the code that runs between it and the next statement.              *)
(*                                                                         *)
(* A request is served once.  outbox is what the handlers have told the    *)
(* SSE actor, in the order of its mailbox.                                 *)
(***************************************************************************)
EXTENDS Naturals, FiniteSets, Sequences

CONSTANTS
  Objects,      \* object_id values the table may come to hold
  FirstId,      \* the object whose object_id is 1
  Seeded,       \* the objects that exist before the first request
  Types,        \* object_type_id values
  Tags,         \* asset tags
  Nil,          \* SQL null
  Requests,     \* HTTP requests
  Targets,      \* bound: states a state change may ask for
  Faulty,       \* requests that may lose their database connection
  MaxInFlight,  \* bound: requests being answered at once
  MaxBatch,     \* bound: objects created by one request
  ClockSteps    \* bound: seconds that may pass before a journal row

Status == {"InStock", "Out", "Lost", "Resting", "Deleted"}

ASSUME LedgerAssumption ==
  /\ FirstId \in Objects /\ Seeded \subseteq Objects
  /\ Nil \notin Objects \cup Types \cup Tags
  /\ Targets \subseteq Status
  /\ Faulty \subseteq Requests
  /\ MaxInFlight \in Nat /\ MaxBatch \in Nat /\ ClockSteps \subseteq Nat

VARIABLES
  rows,         \* table objects; status "Absent" is an id not yet inserted
  deletedTypes, \* object_types.deleted = 1
  journal,      \* table object_logs
  now,          \* NOW(), in seconds
  job,          \* what each request is about to do
  outbox        \* messages told to the SSE actor

vars == <<rows, deletedTypes, journal, now, job, outbox>>

----------------------------------------------------------------------------
(* Data *)

Row == [type: Types \cup {Nil}, tag: Tags \cup {Nil}, sig: BOOLEAN,
        status: Status \cup {"Absent"}]

\* The fields of a posted object that the model tells apart.
Item == [type: Types, tag: Tags \cup {Nil}, sig: BOOLEAN]

\* "required" is not a column: it keeps requires_signature as the controller
\* read it.  "by" stands for the columns user and changed_by.
JournalRow == [object: Objects, source: Status, target: Status,
               signed: BOOLEAN, required: BOOLEAN, by: Requests, at: Nat]

Message == [kind: {"ObjectStatusChange", "ObjectUpdated"}, object: Objects,
            status: Status]
             \cup [kind: {"ObjectTypeDeleted"}, type: Types]

Batches == UNION {[1..n -> Item] : n \in 0..MaxBatch}

Slots == 0..MaxBatch

Snapshot == [nr: Slots, object: Objects, status: Status]

NewJob == [pc: {"new"}]
\* half, a history: the objects of which a failure came between the row of the
\* journal and the status.
DoneJob == [pc: {"done"}, ok: BOOLEAN, half: SUBSET Objects]
ChangeJob == [pc: {"logging", "applying", "announcing"}, object: Objects,
              target: Status, signed: BOOLEAN, required: BOOLEAN]
WriteJob == [pc: {"writing"}, object: Objects, item: Item]
CreateJob ==
  {j \in [pc: {"creating"}, batch: Batches, event: BOOLEAN,
          unchecked: SUBSET Slots, existing: SUBSET Tags,
          made: SUBSET (Slots \X Objects)] : j.unchecked \subseteq DOMAIN j.batch}
NotifyJob == [pc: {"notifying"}, reads: SUBSET (Slots \X Objects),
              found: SUBSET Snapshot]
TypeJob == [pc: {"retiring", "journaling", "telling"}, type: Types]

Job == NewJob \cup DoneJob \cup ChangeJob \cup WriteJob \cup CreateJob
         \cup NotifyJob \cup TypeJob

Exists(o) == rows[o].status # "Absent"

TypeOK ==
  /\ rows \in [Objects -> Row]
  /\ deletedTypes \subseteq Types
  /\ journal \subseteq JournalRow
  /\ now \in Nat
  /\ job \in [Requests -> Job]
  /\ outbox \in Seq(Message)

AbsentRow == [type |-> Nil, tag |-> Nil, sig |-> FALSE, status |-> "Absent"]

\* Mutant: the status column left to a missing default.
NewRowWithoutStatus(item) ==
  [type |-> item.type, tag |-> item.tag, sig |-> item.sig, status |-> Nil]

\* A posted object becomes a row.  The statement writes the status the body
\* has, and the page posts every object InStock.
NewRow(item) == [type |-> item.type, tag |-> item.tag, sig |-> item.sig,
                 status |-> "InStock"]

Init ==
  /\ rows \in [Objects -> {AbsentRow} \cup {NewRow(item) : item \in Item}]
  /\ \A o \in Objects : Exists(o) <=> o \in Seeded
  /\ \A o, p \in Seeded : rows[o].tag = rows[p].tag => o = p \/ rows[o].tag = Nil
  /\ deletedTypes = {}
  /\ journal = {}
  /\ now = 0
  /\ job = [r \in Requests |-> [pc |-> "new"]]
  /\ outbox = <<>>

----------------------------------------------------------------------------
(* Requests *)

\* The response of a request that is "notifying" has been sent.
InFlight == {r \in Requests : job[r].pc \notin {"new", "done", "notifying"}}

Arrives(r) == job[r].pc = "new" /\ Cardinality(InFlight) < MaxInFlight

Become(r, j) == job' = [job EXCEPT ![r] = j]

Finished(ok) == [pc |-> "done", ok |-> ok, half |-> {}]

Tell(m) == outbox' = Append(outbox, m)

----------------------------------------------------------------------------
(* PUT /objects/state/:id *)

\* Mutant: only a transfer asks for a signature.
RequiresSignatureOnTransfer(row, target) ==
  row.sig /\ row.status = "Out" /\ target = "Out"

RequiresSignature(row, target) ==
  row.sig /\ row.status \in {"InStock", "Out"} /\ target = "Out"

\* The controller reads the object and decides on what it read.
ChangeState(r, o, target, signed) ==
  /\ Arrives(r)
  /\ Become(r, IF Exists(o) /\ (RequiresSignature(rows[o], target) => signed)
               THEN [pc |-> "logging", object |-> o, target |-> target,
                     signed |-> signed, required |-> rows[o].sig]
               ELSE Finished(FALSE))
  /\ UNCHANGED <<rows, deletedTypes, journal, now, outbox>>

\* Mutant: source and target columns swapped.
LogRowSwapped(r, o, target, signed, required) ==
  [object |-> o, source |-> target, target |-> rows[o].status,
   signed |-> signed, required |-> required, by |-> r, at |-> now']

\* The row INSERT ... SELECT writes: the source state is the one the table
\* holds now, whatever the controller read.
LogRow(r, o, target, signed, required) ==
  [object |-> o, source |-> rows[o].status, target |-> target,
   signed |-> signed, required |-> required, by |-> r, at |-> now']

\* First statement of changeState: it journals the change of a row in any
\* state, a deleted one included.
LogChange(r) ==
  /\ job[r].pc = "logging"
  /\ now' \in {now + d : d \in ClockSteps}
  /\ journal' = journal
       \cup {LogRow(r, job[r].object, job[r].target, job[r].signed, job[r].required)}
  /\ Become(r, [job[r] EXCEPT !.pc = "applying"])
  /\ UNCHANGED <<rows, deletedTypes, outbox>>

\* Mutant: the second condition dropped.
ChangeableEvenDeleted(o) == Exists(o)

\* WHERE object_id = {id} AND status != 'DELETED'
Changeable(o) == Exists(o) /\ rows[o].status # "Deleted"

\* Mutant: the number of rows matched is not looked at.
ApplyChangeUnchecked(r) ==
  LET o == job[r].object IN
  /\ job[r].pc = "applying"
  /\ rows' = [rows EXCEPT ![o].status = IF Changeable(o) THEN job[r].target ELSE @]
  /\ Become(r, [job[r] EXCEPT !.pc = "announcing"])
  /\ UNCHANGED <<deletedTypes, journal, now, outbox>>

\* Second statement; no row matched means BadRequest.
ApplyChange(r) ==
  LET o == job[r].object IN
  /\ job[r].pc = "applying"
  /\ IF Changeable(o)
     THEN /\ rows' = [rows EXCEPT ![o].status = job[r].target]
          /\ Become(r, [job[r] EXCEPT !.pc = "announcing"])
     ELSE /\ Become(r, Finished(FALSE))
          /\ UNCHANGED rows
  /\ UNCHANGED <<deletedTypes, journal, now, outbox>>

ChangeMessage(r) == [kind |-> "ObjectStatusChange", object |-> job[r].object,
                     status |-> job[r].target]

\* The continuation of the future: sse.send, then Ok.
AnnounceChange(r) ==
  /\ job[r].pc = "announcing"
  /\ Tell(ChangeMessage(r))
  /\ Become(r, Finished(TRUE))
  /\ UNCHANGED <<rows, deletedTypes, journal, now>>

----------------------------------------------------------------------------
(* Asset tags: PUT /objects/:id and POST /objects/ *)

\* Mutant: deleted objects give their tag back.
LookupLive(tag) ==
  LET holders == {o \in Objects : Changeable(o) /\ rows[o].tag = tag}
  IN  IF tag = Nil \/ holders = {} THEN {Nil} ELSE holders

\* What SELECT ... WHERE asset_tag = {tag} LIMIT 1 may return.  The column has
\* an index but no unique constraint, and deleted rows are not filtered out.
Lookup(tag) ==
  LET holders == {o \in Objects : Exists(o) /\ rows[o].tag = tag}
  IN  IF tag = Nil \/ holders = {} THEN {Nil} ELSE holders

UpdateOne(r, o, item) ==
  /\ Arrives(r)
  /\ Exists(o)
  /\ \E found \in Lookup(item.tag) :
       Become(r, IF item.tag # Nil /\ found \in {Nil, o}
                 THEN [pc |-> "writing", object |-> o, item |-> item]
                 ELSE Finished(FALSE))
  /\ UNCHANGED <<rows, deletedTypes, journal, now, outbox>>

\* The columns of the UPDATE statement: every posted one but the status.
Overwritten(row, item) ==
  [row EXCEPT !.type = item.type, !.tag = item.tag, !.sig = item.sig]

\* notifyObjectChanged reads each of these objects again, then tells the actor.
Notify(reads) == [pc |-> "notifying", reads |-> reads, found |-> {}]

WriteRow(r) ==
  LET o == job[r].object IN
  /\ job[r].pc = "writing"
  /\ rows' = [rows EXCEPT ![o] = Overwritten(rows[o], job[r].item)]
  /\ Become(r, Notify({<<0, o>>}))
  /\ UNCHANGED <<deletedTypes, journal, now, outbox>>

CreateMultiple(r, batch, event) ==
  /\ Arrives(r)
  /\ Become(r, [pc |-> "creating", batch |-> batch, event |-> event,
                unchecked |-> {i \in DOMAIN batch : batch[i].tag # Nil},
                existing |-> {}, made |-> {}])
  /\ UNCHANGED <<rows, deletedTypes, journal, now, outbox>>

\* The lookups of one batch are separate queries, issued together.
LookUpTag(r) ==
  /\ job[r].pc = "creating"
  /\ \E i \in job[r].unchecked : \E found \in Lookup(job[r].batch[i].tag) :
       Become(r, [job[r] EXCEPT
                    !.unchecked = @ \ {i},
                    !.existing = IF found = Nil THEN @
                                 ELSE @ \cup {job[r].batch[i].tag}])
  /\ UNCHANGED <<rows, deletedTypes, journal, now, outbox>>

\* The positions of the batch still to insert.
ToInsert(r) ==
  {i \in DOMAIN job[r].batch : /\ job[r].batch[i].tag \notin job[r].existing
                               /\ \A m \in job[r].made : m[1] # i}

\* With an event every insert returns its id.  Without one the batch returns
\* its update counts, all 1, and those are taken for the ids.
InsertedIds(r, made) ==
  IF job[r].event THEN made ELSE {<<m[1], FirstId>> : m \in made}

InsertNext(r) ==
  /\ job[r].pc = "creating" /\ job[r].unchecked = {}
  /\ \E i \in ToInsert(r), o \in Objects :
       LET made == job[r].made \cup {<<i, o>>} IN
       /\ \A k \in ToInsert(r) : i <= k
       /\ ~Exists(o)
       /\ rows' = [rows EXCEPT ![o] = NewRow(job[r].batch[i])]
       /\ Become(r, IF ToInsert(r) = {i} THEN Notify(InsertedIds(r, made))
                    ELSE [job[r] EXCEPT !.made = made])
  /\ UNCHANGED <<deletedTypes, journal, now, outbox>>

NothingToInsert(r) ==
  /\ job[r].pc = "creating" /\ job[r].unchecked = {}
  /\ ToInsert(r) = {}
  /\ Become(r, Finished(TRUE))
  /\ UNCHANGED <<rows, deletedTypes, journal, now, outbox>>

----------------------------------------------------------------------------
(* notifyObjectChanged: read the object again, then send what was read *)

ReadForNotify(r) ==
  /\ job[r].pc = "notifying"
  /\ \E read \in job[r].reads :
       Become(r, [job[r] EXCEPT
         !.reads = @ \ {read},
         !.found = IF Exists(read[2])
                   THEN @ \cup {[nr |-> read[1], object |-> read[2],
                                 status |-> rows[read[2]].status]}
                   ELSE @])
  /\ UNCHANGED <<rows, deletedTypes, journal, now, outbox>>

SnapshotMessage(f) ==
  [kind |-> "ObjectUpdated", object |-> f.object, status |-> f.status]

SendSnapshot(r) ==
  /\ job[r].pc = "notifying"
  /\ \E f \in job[r].found :
       /\ Tell(SnapshotMessage(f))
       /\ Become(r, [job[r] EXCEPT !.found = @ \ {f}])
  /\ UNCHANGED <<rows, deletedTypes, journal, now>>

----------------------------------------------------------------------------
(* DELETE /objects/types/:id: three statements, then the message *)

DeleteType(r, t) ==
  /\ Arrives(r)
  /\ deletedTypes' = deletedTypes \cup {t}
  /\ Become(r, [pc |-> "retiring", type |-> t])
  /\ UNCHANGED <<rows, journal, now, outbox>>

\* Mutant: both statements of a type's deletion leave out deleted objects.
LiveOfType(t) == {o \in Objects : Changeable(o) /\ rows[o].type = t}

OfType(t) == {o \in Objects : Exists(o) /\ rows[o].type = t}

RetireObjects(r) ==
  /\ job[r].pc = "retiring"
  /\ rows' = [o \in Objects |->
                IF o \in OfType(job[r].type)
                THEN [rows[o] EXCEPT !.status = "Deleted"] ELSE rows[o]]
  /\ Become(r, [job[r] EXCEPT !.pc = "journaling"])
  /\ UNCHANGED <<deletedTypes, journal, now, outbox>>

\* The journal is written after the fact: it covers the objects of the type as
\* the table stands now, with the state they have now as source state.
LogRetired(r) ==
  /\ job[r].pc = "journaling"
  /\ now' \in {now + d : d \in ClockSteps}
  /\ journal' = journal
       \cup {LogRow(r, o, "Deleted", FALSE, FALSE) : o \in OfType(job[r].type)}
  /\ Become(r, [job[r] EXCEPT !.pc = "telling"])
  /\ UNCHANGED <<rows, deletedTypes, outbox>>

AnnounceTypeDeleted(r) ==
  /\ job[r].pc = "telling"
  /\ Tell([kind |-> "ObjectTypeDeleted", type |-> job[r].type])
  /\ Become(r, Finished(TRUE))
  /\ UNCHANGED <<rows, deletedTypes, journal, now>>

----------------------------------------------------------------------------
(* A statement throws, or its answer is lost: the future fails, the code   *)
(* after it never runs, and what the statements wrote stays.               *)

\* Between the two statements of a change, and the last two of a deletion.
HalfDone(r) ==
  CASE job[r].pc = "applying" -> {job[r].object}
    [] job[r].pc = "journaling" -> OfType(job[r].type)
    [] OTHER -> {}

Broken(r) == [pc |-> "done", ok |-> FALSE, half |-> HalfDone(r)]

StatementFails(r) ==
  /\ r \in Faulty
  /\ r \in InFlight
  /\ Become(r, Broken(r))
  /\ UNCHANGED <<rows, deletedTypes, journal, now, outbox>>

NotifyReadFails(r) ==
  /\ r \in Faulty
  /\ job[r].pc = "notifying"
  /\ \E read \in job[r].reads :
       Become(r, [job[r] EXCEPT !.reads = @ \ {read}])
  /\ UNCHANGED <<rows, deletedTypes, journal, now, outbox>>

----------------------------------------------------------------------------

Step(r) ==
  \/ \E o \in Objects, target \in Targets, signed \in BOOLEAN :
       ChangeState(r, o, target, signed)
  \/ LogChange(r) \/ ApplyChange(r) \/ AnnounceChange(r)
  \/ \E o \in Objects, item \in Item : UpdateOne(r, o, item)
  \/ WriteRow(r)
  \/ \E batch \in Batches, event \in BOOLEAN : CreateMultiple(r, batch, event)
  \/ LookUpTag(r) \/ InsertNext(r) \/ NothingToInsert(r)
  \/ ReadForNotify(r) \/ SendSnapshot(r)
  \/ \E t \in Types : DeleteType(r, t)
  \/ RetireObjects(r) \/ LogRetired(r) \/ AnnounceTypeDeleted(r)
  \/ StatementFails(r) \/ NotifyReadFails(r)

Next == \E r \in Requests : Step(r)

Spec == Init /\ [][Next]_vars

----------------------------------------------------------------------------
(* What overlapping requests must keep apart.  Nothing in the code does it: *)
(* between a check and the statement that relies on it, or between two     *)
(* statements that belong together, another handler may run.               *)

\* A change of this object is between its check and its last statement.
Changes(r, o) == job[r].pc \in {"logging", "applying"} /\ job[r].object = o

\* No two changes of one object overlap.
OneChangeEach ==
  \A o \in Objects, r, s \in Requests : Changes(r, o) /\ Changes(s, o) => r = s

\* While a type's deletion is about to be journalled, no object is about to be
\* moved into the type or out of it, or to be created in it.
TypesApart ==
  \A r, s \in Requests :
    job[r].pc = "journaling" =>
      /\ job[s].pc = "writing" =>
           (job[s].item.type = job[r].type <=> job[s].object \in OfType(job[r].type))
      /\ job[s].pc = "creating" =>
           \A i \in ToInsert(s) : job[s].batch[i].type # job[r].type

\* The tags that the next statements of a request give to rows.
Brings(r) ==
  CASE job[r].pc = "writing" -> {job[r].item.tag}
    [] job[r].pc = "creating" -> {job[r].batch[i].tag : i \in ToInsert(r)} \ {Nil}
    [] OTHER -> {}

\* No tag is brought by two requests, or twice by one batch.
TagsApart ==
  /\ \A r, s \in Requests : r # s => Brings(r) \cap Brings(s) = {}
  /\ \A r \in Requests :
       job[r].pc = "creating" =>
         \A i, k \in ToInsert(r) :
           job[r].batch[i].tag = job[r].batch[k].tag =>
             i = k \/ job[r].batch[i].tag = Nil

Apart == OneChangeEach /\ TypesApart /\ TagsApart

\* Requests overlap in any way, up to and including the first step after which
\* they are not apart.
ApartSpec == Init /\ [][Apart /\ Next]_vars

----------------------------------------------------------------------------
(* Properties *)

\* A deleted object never leaves that state, whatever requests overlap.
DeletedIsFinal ==
  [][\A o \in Objects : rows[o].status = "Deleted"
                           => rows'[o].status = "Deleted"]_vars

\* An object that is neither in stock nor deleted got there by a change the
\* journal knows: the journal row is written first, and no statement fails or
\* overtakes another in a way that leaves the status without it.
JournalExplainsStatus ==
  \A o \in Objects :
    rows[o].status \in {"Out", "Lost", "Resting"} =>
      \E l \in journal : l.object = o /\ l.target = rows[o].status

\* The messages about objects are what ChangeFeed promises: each tells a
\* status its object had, at most once for one change, and none tells a change
\* that the table refused.
PendingOf(r) ==
  CASE job[r].pc = "announcing" -> {[nr |-> 0, msg |-> ChangeMessage(r)]}
    [] job[r].pc = "notifying" ->
         {[nr |-> f.nr, msg |-> SnapshotMessage(f)] : f \in job[r].found}
    [] OTHER -> {}

Feed == INSTANCE ChangeFeed WITH
          status <- [o \in Objects |-> rows[o].status],
          pending <- [r \in Requests |-> PendingOf(r)],
          feed <- outbox

ImplementsFeed == Feed!FeedSpec

\* The journal rows of an object that NOW() makes the latest.
Latest(o) ==
  {l \in journal : /\ l.object = o
                   /\ \A m \in journal : m.object = o => m.at <= l.at}

\* A request that failed has left the journal and the status of o apart.
Half(j, o) == j.pc = "done" /\ o \in j.half

Say(latest, jobs, o, status) ==
  latest = {} \/ \E l \in latest : l.target = status \/ Half(jobs[l.by], o)

\* With requests kept apart, a latest journal row of an object tells its
\* status, and a deleted object has a row that says so, however many changes one
\* second sees.  Failures take out of that no more than their own: a latest row
\* of a change that failed before it was applied, and the rows of the objects
\* whose type's deletion failed before it was journalled.
JournalMatchesStatus ==
  InFlight = {} =>
    \A o \in Objects :
      IF rows[o].status = "Deleted"
      THEN \/ \E l \in journal : l.object = o /\ l.target = "Deleted"
           \/ \E r \in Requests : Half(job[r], o)
      ELSE Say(Latest(o), job, o, rows[o].status)

\* An object the controller knows to require a signature does not leave the
\* stock on loan without one: the journal row of the loan carries it.  It takes
\* a change of the object that overlaps another one to break this.
LoanFromStockIsSigned ==
  \A l \in journal :
    l.required /\ l.source = "InStock" /\ l.target = "Out" => l.signed

\* No two objects bear the same asset tag, as long as the requests that bring
\* a tag are apart.
TagsUnique ==
  \A o, p \in Objects :
    Exists(o) /\ Exists(p) /\ rows[o].tag = rows[p].tag =>
      o = p \/ rows[o].tag = Nil

\* getObjectsLoaned: the objects of the latest rows that neither return nor
\* delete.
LoanedList ==
  {l.object : l \in {m \in UNION {Latest(o) : o \in Objects} :
                       m.target \notin {"InStock", "Deleted"}}}

\* A deleted object disappears from the lists of objects, the list of loans
\* among them, once nothing is in flight.
DeletedIsNotListed ==
  InFlight = {} => \A o \in LoanedList : rows[o].status # "Deleted"

=============================================================================
