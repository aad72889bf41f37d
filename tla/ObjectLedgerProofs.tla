------------------------- MODULE ObjectLedgerProofs -------------------------
(***************************************************************************)
(* Theorems about ObjectLedger, for every number of objects, requests,     *)
(* types and tags, and every bound.  The last part shows that the ledger   *)
(* keeps the promise of ChangeFeed: every initial state maps to one of     *)
(* the feed's, and every step to a step of the feed or to a stutter.       *)
(***************************************************************************)
EXTENDS ObjectLedger, TLAPS

\* The program counter of a job tells its shape.
LEMMA JobShape ==
  ASSUME NEW j \in Job
  PROVE  /\ j.pc = "new" => j \in NewJob
         /\ j.pc = "done" => j \in DoneJob
         /\ j.pc \in {"logging", "applying", "announcing"} => j \in ChangeJob
         /\ j.pc = "writing" => j \in WriteJob
         /\ j.pc = "creating" => j \in CreateJob
         /\ j.pc = "notifying" => j \in NotifyJob
         /\ j.pc \in {"retiring", "journaling", "telling"} => j \in TypeJob
BY DEF Job, NewJob, DoneJob, ChangeJob, WriteJob, CreateJob, NotifyJob, TypeJob

\* Writing the job of a request keeps the other jobs.
LEMMA BecomeType ==
  ASSUME TypeOK, NEW r \in Requests, NEW j \in Job, Become(r, j)
  PROVE  job' \in [Requests -> Job]
BY DEF TypeOK, Become

LEMMA FinishedType ==
  ASSUME NEW ok \in BOOLEAN
  PROVE  Finished(ok) \in Job
BY DEF Finished, Job, DoneJob

\* What a failure breaks is about objects.
LEMMA BrokenType ==
  ASSUME NEW r \in Requests, job[r] \in Job
  PROVE  Broken(r) \in Job
<1>1. HalfDone(r) \in SUBSET Objects
  <2>1. CASE job[r].pc = "applying"
    <3>1. job[r].object \in Objects
      BY <2>1, JobShape DEF ChangeJob
    <3> QED
      BY <2>1, <3>1 DEF HalfDone
  <2>2. CASE job[r].pc # "applying"
    BY <2>2 DEF HalfDone, OfType
  <2> QED
    BY <2>1, <2>2
<1> QED
  BY <1>1 DEF Broken, Job, DoneJob

\* The positions of a batch are slots.
LEMMA BatchDomain ==
  ASSUME NEW b \in Batches
  PROVE  /\ DOMAIN b \subseteq Slots
         /\ \A i \in DOMAIN b : b[i] \in Item
BY LedgerAssumption DEF Batches, Slots

----------------------------------------------------------------------------
(* Type correctness.  The journal copies the status of a row as its source *)
(* state, so the rows that handlers are about to write must exist.         *)

\* A handler between its check and its last statement works on an existing row.
JobsHaveRows ==
  \A r \in Requests :
    job[r].pc \in {"logging", "applying", "announcing", "writing"} =>
      Exists(job[r].object)

LedgerInv == TypeOK /\ JobsHaveRows

LEMMA RowTypes ==
  /\ AbsentRow \in Row
  /\ \A item \in Item : NewRow(item) \in Row /\ NewRow(item).status = "InStock"
  /\ \A row \in Row, item \in Item :
       /\ Overwritten(row, item) \in Row
       /\ Overwritten(row, item).status = row.status
  /\ \A row \in Row, s \in Status : [row EXCEPT !.status = s] \in Row
BY DEF Row, Item, AbsentRow, NewRow, Overwritten, Status

LEMMA InitLedgerInv == Init => LedgerInv
<1> SUFFICES ASSUME Init PROVE LedgerInv
  OBVIOUS
<1>1. rows \in [Objects -> Row]
  BY RowTypes DEF Init
<1>2. job \in [Requests -> Job]
  BY DEF Init, Job, NewJob
<1>3. TypeOK
  BY <1>1, <1>2 DEF Init, TypeOK
<1> QED
  BY <1>3 DEF Init, LedgerInv, JobsHaveRows

\* No step removes a row or leaves the type of rows.
LEMMA RowsKept ==
  ASSUME LedgerInv, NEW r \in Requests, Step(r)
  PROVE  /\ rows' \in [Objects -> Row]
         /\ \A o \in Objects : Exists(o) => rows'[o].status # "Absent"
<1> USE DEF LedgerInv, TypeOK
<1>1. job[r] \in Job
  OBVIOUS
<1>2. CASE ApplyChange(r)
  <2>1. job[r] \in ChangeJob
    BY <1>1, <1>2, JobShape DEF ApplyChange
  <2>2. job[r].object \in Objects /\ job[r].target \in Status
    BY <2>1 DEF ChangeJob
  <2> DEFINE row == [rows[job[r].object] EXCEPT !.status = job[r].target]
  <2>3. row \in Row /\ row.status # "Absent"
    BY <2>2 DEF Row, Status
  <2>4. \/ rows' = rows
        \/ rows' = [rows EXCEPT ![job[r].object] = row]
    BY <1>2 DEF ApplyChange
  <2> HIDE DEF row
  <2> QED
    BY <2>2, <2>3, <2>4 DEF Exists
<1>3. CASE WriteRow(r)
  <2>1. job[r] \in WriteJob
    BY <1>1, <1>3, JobShape DEF WriteRow
  <2>2. job[r].object \in Objects /\ job[r].item \in Item
    BY <2>1 DEF WriteJob
  <2> QED
    BY <1>3, <2>2, RowTypes DEF WriteRow, Exists
<1>4. CASE InsertNext(r)
  <2>1. job[r] \in CreateJob
    BY <1>1, <1>4, JobShape DEF InsertNext
  <2>2. job[r].batch \in Batches
    BY <2>1 DEF CreateJob
  <2>3. PICK i \in ToInsert(r), o \in Objects :
           rows' = [rows EXCEPT ![o] = NewRow(job[r].batch[i])]
    BY <1>4 DEF InsertNext
  <2>4. job[r].batch[i] \in Item
    BY <2>2, <2>3, BatchDomain DEF ToInsert
  <2> QED
    BY <2>3, <2>4, RowTypes DEF Exists
<1>5. CASE RetireObjects(r)
  <2>1. \A o \in Objects : [rows[o] EXCEPT !.status = "Deleted"] \in Row
    BY RowTypes DEF Status
  <2> QED
    BY <1>5, <2>1 DEF RetireObjects, Exists, Row
<1>6. CASE UNCHANGED rows
  BY <1>6 DEF Exists
<1> QED
  BY <1>2, <1>3, <1>4, <1>5, <1>6
  DEF Step, ChangeState, LogChange, AnnounceChange, UpdateOne, CreateMultiple,
      LookUpTag, NothingToInsert, ReadForNotify, SendSnapshot, DeleteType,
      LogRetired, AnnounceTypeDeleted, StatementFails, NotifyReadFails

\* A batch is being created until its messages are being prepared.
LEMMA CreatingGoesOn ==
  ASSUME TypeOK, NEW r \in Requests, LookUpTag(r) \/ InsertNext(r)
  PROVE  job'[r].pc \in {"creating", "notifying"}
<1>1. job[r] \in CreateJob
  <2>1. job[r] \in Job
    BY DEF TypeOK
  <2> QED
    BY <2>1, JobShape DEF LookUpTag, InsertNext
<1>2. \A u, e, m : /\ [job[r] EXCEPT !.unchecked = u, !.existing = e].pc = "creating"
                   /\ [job[r] EXCEPT !.made = m].pc = "creating"
  BY <1>1 DEF CreateJob
<1>3. CASE LookUpTag(r)
  <2>1. \E u, e : Become(r, [job[r] EXCEPT !.unchecked = u, !.existing = e])
    BY <1>3 DEF LookUpTag
  <2> QED
    BY <1>2, <2>1 DEF Become, TypeOK
<1>4. CASE InsertNext(r)
  <2>1. PICK m, ids : \/ Become(r, Notify(ids))
                      \/ Become(r, [job[r] EXCEPT !.made = m])
    BY <1>4 DEF InsertNext
  <2>2. Notify(ids).pc = "notifying"
    BY DEF Notify
  <2>3. [job[r] EXCEPT !.made = m].pc = "creating"
    BY <1>2
  <2> QED
    BY <2>1, <2>2, <2>3 DEF Become, TypeOK
<1> QED
  BY <1>3, <1>4

\* Handlers keep their rows: only the serving request's own job changes.
LEMMA JobsHaveRowsKept ==
  ASSUME LedgerInv, NEW r \in Requests, Step(r)
  PROVE  JobsHaveRows'
<1> USE DEF LedgerInv, TypeOK
<1>1. \A o \in Objects : Exists(o) => rows'[o].status # "Absent"
  BY RowsKept
<1>2. job[r] \in Job
  OBVIOUS
<1> SUFFICES ASSUME NEW q \in Requests,
                    job'[q].pc \in {"logging", "applying", "announcing", "writing"}
             PROVE  rows'[job'[q].object].status # "Absent"
  BY DEF JobsHaveRows, Exists
<1>3. CASE job'[q] = job[q]
  <2>1. job[q] \in ChangeJob \cup WriteJob
    BY <1>3, JobShape
  <2>2. job[q].object \in Objects
    BY <2>1 DEF ChangeJob, WriteJob
  <2> QED
    BY <1>1, <1>3, <2>2 DEF JobsHaveRows
<1>4. CASE q = r /\ job'[q] # job[q]
  <2>1. CASE \E o \in Objects, target \in Targets, signed \in BOOLEAN :
               ChangeState(r, o, target, signed)
    BY <1>1, <1>4, <2>1 DEF ChangeState, Become, Finished
  <2>2. CASE \E o \in Objects, item \in Item : UpdateOne(r, o, item)
    BY <1>1, <1>4, <2>2 DEF UpdateOne, Become, Finished
  <2>3. CASE LogChange(r) \/ ApplyChange(r)
    <3>1. job[r] \in ChangeJob
      BY <1>2, <2>3, JobShape DEF LogChange, ApplyChange
    <3>2. job[r].object \in Objects /\ Exists(job[r].object)
      BY <2>3, <3>1 DEF ChangeJob, JobsHaveRows, LogChange, ApplyChange
    <3>3. job'[r].object = job[r].object
      BY <1>4, <2>3, <3>1 DEF LogChange, ApplyChange, Become, Finished, ChangeJob
    <3> QED
      BY <1>1, <1>4, <3>2, <3>3
  <2>4. CASE LookUpTag(r) \/ InsertNext(r)
    BY <1>4, <2>4, CreatingGoesOn
  <2>5. CASE ReadForNotify(r) \/ SendSnapshot(r) \/ NotifyReadFails(r)
    <3>1. job[r] \in NotifyJob
      BY <1>2, <2>5, JobShape DEF ReadForNotify, SendSnapshot, NotifyReadFails
    <3> QED
      BY <1>4, <2>5, <3>1
      DEF NotifyJob, ReadForNotify, SendSnapshot, NotifyReadFails, Become
  <2>6. CASE RetireObjects(r) \/ LogRetired(r)
    <3>1. job[r] \in TypeJob
      BY <1>2, <2>6, JobShape DEF RetireObjects, LogRetired
    <3> QED
      BY <1>4, <2>6, <3>1 DEF TypeJob, RetireObjects, LogRetired, Become
  <2> QED
    BY <1>4, <2>1, <2>2, <2>3, <2>4, <2>5, <2>6
    DEF Step, AnnounceChange, WriteRow, CreateMultiple, NothingToInsert,
        DeleteType, AnnounceTypeDeleted, StatementFails, Become, Finished, Broken, Notify
<1> QED
  <2>1. \E j : job' = [job EXCEPT ![r] = j]
    BY DEF Step, ChangeState, LogChange, ApplyChange, AnnounceChange, UpdateOne,
       WriteRow, CreateMultiple, LookUpTag, InsertNext, NothingToInsert,
       ReadForNotify, SendSnapshot, DeleteType, RetireObjects, LogRetired,
       AnnounceTypeDeleted, StatementFails, NotifyReadFails, Become
  <2> QED
    BY <1>3, <1>4, <2>1

\* Each disjunct of Step leaves a job of some shape.
LEMMA JobsKept ==
  ASSUME LedgerInv, NEW r \in Requests, Step(r)
  PROVE  job' \in [Requests -> Job]
<1> USE DEF LedgerInv
<1>0. job[r] \in Job
  BY DEF TypeOK
<1>1. ASSUME NEW o \in Objects, NEW target \in Targets, NEW signed \in BOOLEAN,
             ChangeState(r, o, target, signed)
      PROVE  job' \in [Requests -> Job]
  <2> DEFINE j == [pc |-> "logging", object |-> o, target |-> target,
                   signed |-> signed, required |-> rows[o].sig]
  <2>1. j \in Job
    BY LedgerAssumption DEF Job, ChangeJob, Row, TypeOK
  <2>2. Become(r, j) \/ Become(r, Finished(FALSE))
    BY <1>1 DEF ChangeState
  <2> HIDE DEF j
  <2> QED
    BY <2>1, <2>2, FinishedType, BecomeType
<1>2. CASE LogChange(r) \/ ApplyChange(r)
  <2>1. job[r] \in ChangeJob
    BY <1>0, <1>2, JobShape DEF LogChange, ApplyChange
  <2>2. /\ [job[r] EXCEPT !.pc = "applying"] \in Job
        /\ [job[r] EXCEPT !.pc = "announcing"] \in Job
    BY <2>1 DEF ChangeJob, Job
  <2> QED
    BY <1>2, <2>2, FinishedType, BecomeType DEF LogChange, ApplyChange
<1>3. ASSUME NEW o \in Objects, NEW item \in Item, UpdateOne(r, o, item)
      PROVE  job' \in [Requests -> Job]
  <2> DEFINE j == [pc |-> "writing", object |-> o, item |-> item]
  <2>1. j \in Job
    BY DEF Job, WriteJob
  <2>2. Become(r, j) \/ Become(r, Finished(FALSE))
    BY <1>3 DEF UpdateOne
  <2> HIDE DEF j
  <2> QED
    BY <2>1, <2>2, FinishedType, BecomeType
<1>4. CASE WriteRow(r)
  <2>1. job[r].object \in Objects
    BY <1>0, <1>4, JobShape DEF WriteRow, WriteJob
  <2>2. Notify({<<0, job[r].object>>}) \in Job
    BY <2>1, LedgerAssumption DEF Notify, Job, NotifyJob, Slots
  <2> QED
    BY <1>4, <2>2, BecomeType DEF WriteRow
<1>5. ASSUME NEW batch \in Batches, NEW event \in BOOLEAN,
             CreateMultiple(r, batch, event)
      PROVE  job' \in [Requests -> Job]
  <2> DEFINE j == [pc |-> "creating", batch |-> batch, event |-> event,
                   unchecked |-> {i \in DOMAIN batch : batch[i].tag # Nil},
                   existing |-> {}, made |-> {}]
  <2>1. j \in CreateJob
    BY BatchDomain DEF CreateJob
  <2>2. Become(r, j)
    BY <1>5 DEF CreateMultiple
  <2> HIDE DEF j
  <2> QED
    BY <2>1, <2>2, BecomeType DEF Job
<1>6. CASE LookUpTag(r)
  <2>1. job[r] \in CreateJob
    BY <1>0, <1>6, JobShape DEF LookUpTag
  <2>2. PICK i \in job[r].unchecked : \E found \in Lookup(job[r].batch[i].tag) :
          Become(r, [job[r] EXCEPT
                       !.unchecked = @ \ {i},
                       !.existing = IF found = Nil THEN @
                                    ELSE @ \cup {job[r].batch[i].tag}])
    BY <1>6 DEF LookUpTag
  <2>3. job[r].batch[i] \in Item
    BY <2>1, BatchDomain DEF CreateJob
  <2>4. PICK found \in Lookup(job[r].batch[i].tag) :
          Become(r, [job[r] EXCEPT
                       !.unchecked = @ \ {i},
                       !.existing = IF found = Nil THEN @
                                    ELSE @ \cup {job[r].batch[i].tag}])
    BY <2>2
  <2>5. found # Nil => job[r].batch[i].tag \in Tags
    BY <2>3 DEF Lookup, Item
  <2>6. [job[r] EXCEPT !.unchecked = @ \ {i},
                       !.existing = IF found = Nil THEN @
                                    ELSE @ \cup {job[r].batch[i].tag}] \in CreateJob
    BY <2>1, <2>5 DEF CreateJob
  <2> QED
    BY <2>4, <2>6, BecomeType DEF Job
<1>7. CASE InsertNext(r)
  <2>1. job[r] \in CreateJob
    BY <1>0, <1>7, JobShape DEF InsertNext
  <2>2. PICK i \in ToInsert(r), o \in Objects :
          LET made == job[r].made \cup {<<i, o>>} IN
          Become(r, IF ToInsert(r) = {i} THEN Notify(InsertedIds(r, made))
                    ELSE [job[r] EXCEPT !.made = made])
    BY <1>7 DEF InsertNext
  <2> DEFINE made == job[r].made \cup {<<i, o>>}
  <2>3. made \in SUBSET (Slots \X Objects)
    BY <2>1, BatchDomain DEF CreateJob, ToInsert
  <2>4. InsertedIds(r, made) \in SUBSET (Slots \X Objects)
    BY <2>3, LedgerAssumption DEF InsertedIds
  <2>5. Notify(InsertedIds(r, made)) \in Job
    BY <2>4 DEF Notify, NotifyJob, Job
  <2>6. [job[r] EXCEPT !.made = made] \in Job
    BY <2>1, <2>3 DEF CreateJob, Job
  <2> QED
    BY <2>2, <2>5, <2>6, BecomeType
<1>8. CASE ReadForNotify(r)
  <2>1. job[r] \in NotifyJob
    BY <1>0, <1>8, JobShape DEF ReadForNotify
  <2>2. PICK read \in job[r].reads :
          Become(r, [job[r] EXCEPT
            !.reads = @ \ {read},
            !.found = IF Exists(read[2])
                      THEN @ \cup {[nr |-> read[1], object |-> read[2],
                                    status |-> rows[read[2]].status]}
                      ELSE @])
    BY <1>8 DEF ReadForNotify
  <2>3. read \in Slots \X Objects
    BY <2>1 DEF NotifyJob
  <2>4. Exists(read[2]) => [nr |-> read[1], object |-> read[2],
                            status |-> rows[read[2]].status] \in Snapshot
    BY <2>3 DEF TypeOK, Row, Exists, Snapshot
  <2>5. [job[r] EXCEPT
           !.reads = @ \ {read},
           !.found = IF Exists(read[2])
                     THEN @ \cup {[nr |-> read[1], object |-> read[2],
                                   status |-> rows[read[2]].status]}
                     ELSE @] \in Job
    BY <2>1, <2>4 DEF NotifyJob, Job
  <2> QED
    BY <2>2, <2>5, BecomeType
<1>9. CASE SendSnapshot(r) \/ NotifyReadFails(r)
  <2>1. job[r] \in NotifyJob
    BY <1>0, <1>9, JobShape DEF SendSnapshot, NotifyReadFails
  <2>2. \A read, f :
          /\ [job[r] EXCEPT !.reads = @ \ {read}] \in Job
          /\ [job[r] EXCEPT !.found = @ \ {f}] \in Job
    BY <2>1 DEF NotifyJob, Job
  <2> QED
    BY <1>9, <2>2, BecomeType DEF SendSnapshot, NotifyReadFails
<1>10. CASE \E t \in Types : DeleteType(r, t)
  <2>1. \A t \in Types : [pc |-> "retiring", type |-> t] \in Job
    BY DEF Job, TypeJob
  <2> QED
    BY <1>10, <2>1, BecomeType DEF DeleteType
<1>11. CASE RetireObjects(r) \/ LogRetired(r)
  <2>1. job[r] \in TypeJob
    BY <1>0, <1>11, JobShape DEF RetireObjects, LogRetired
  <2>2. /\ [job[r] EXCEPT !.pc = "journaling"] \in Job
        /\ [job[r] EXCEPT !.pc = "telling"] \in Job
    BY <2>1 DEF TypeJob, Job
  <2> QED
    BY <1>11, <2>2, BecomeType DEF RetireObjects, LogRetired
<1>12. CASE \E ok \in BOOLEAN : Become(r, Finished(ok))
  BY <1>12, FinishedType, BecomeType
<1>13. CASE StatementFails(r)
  BY <1>0, <1>13, BrokenType, BecomeType DEF StatementFails
<1> QED
  BY <1>1, <1>2, <1>3, <1>4, <1>5, <1>6, <1>7, <1>8, <1>9, <1>10, <1>11, <1>12, <1>13
  DEF Step, AnnounceChange, NothingToInsert, AnnounceTypeDeleted

\* A journal row copies a status its object has, so the object must exist.
LEMMA LogRowType ==
  ASSUME TypeOK, now' \in Nat, NEW r \in Requests, NEW o \in Objects, Exists(o),
         NEW target \in Status, NEW signed \in BOOLEAN, NEW required \in BOOLEAN
  PROVE  LogRow(r, o, target, signed, required) \in JournalRow
BY DEF TypeOK, Exists, Row, LogRow, JournalRow

\* Time passes in whole seconds and the journal grows by well-typed rows.
LEMMA JournalKept ==
  ASSUME LedgerInv, NEW r \in Requests, Step(r)
  PROVE  journal \subseteq journal' /\ journal' \subseteq JournalRow /\ now' \in Nat
<1> USE DEF LedgerInv
<1>0. job[r] \in Job /\ journal \subseteq JournalRow /\ now \in Nat
  BY DEF TypeOK
<1>1. \A d \in ClockSteps : now + d \in Nat
  BY <1>0, LedgerAssumption
<1>2. CASE LogChange(r)
  <2>1. job[r] \in ChangeJob
    BY <1>0, <1>2, JobShape DEF LogChange
  <2>2. now' \in Nat
    BY <1>1, <1>2 DEF LogChange
  <2>3. Exists(job[r].object)
    BY <1>2 DEF JobsHaveRows, LogChange
  <2>4. LogRow(r, job[r].object, job[r].target, job[r].signed, job[r].required)
          \in JournalRow
    BY <2>1, <2>2, <2>3, LogRowType DEF ChangeJob
  <2> QED
    BY <1>0, <1>2, <2>2, <2>4 DEF LogChange
<1>3. CASE LogRetired(r)
  <2>1. now' \in Nat
    BY <1>1, <1>3 DEF LogRetired
  <2>2. \A o \in OfType(job[r].type) :
          LogRow(r, o, "Deleted", FALSE, FALSE) \in JournalRow
    BY <2>1, LogRowType DEF OfType, Status
  <2> QED
    BY <1>0, <1>3, <2>1, <2>2 DEF LogRetired
<1>4. CASE UNCHANGED <<journal, now>>
  BY <1>0, <1>4
<1> QED
  BY <1>2, <1>3, <1>4
  DEF Step, ChangeState, ApplyChange, AnnounceChange, UpdateOne, WriteRow,
      CreateMultiple, LookUpTag, InsertNext, NothingToInsert, ReadForNotify,
      SendSnapshot, DeleteType, RetireObjects, AnnounceTypeDeleted,
      StatementFails, NotifyReadFails

\* What is told is a message.
LEMMA OutboxKept ==
  ASSUME LedgerInv, NEW r \in Requests, Step(r)
  PROVE  outbox' \in Seq(Message) /\ deletedTypes' \subseteq Types
<1> USE DEF LedgerInv
<1>0. job[r] \in Job /\ outbox \in Seq(Message) /\ deletedTypes \subseteq Types
  BY DEF TypeOK
<1>1. \A m \in Message : Tell(m) => outbox' \in Seq(Message)
  BY <1>0 DEF Tell
<1>2. CASE AnnounceChange(r)
  <2>1. job[r] \in ChangeJob
    BY <1>0, <1>2, JobShape DEF AnnounceChange
  <2>2. ChangeMessage(r) \in Message
    BY <2>1 DEF ChangeJob, ChangeMessage, Message
  <2> QED
    BY <1>0, <1>1, <1>2, <2>2 DEF AnnounceChange
<1>3. CASE SendSnapshot(r)
  <2>1. job[r] \in NotifyJob
    BY <1>0, <1>3, JobShape DEF SendSnapshot
  <2>2. \A f \in job[r].found : SnapshotMessage(f) \in Message
    BY <2>1 DEF NotifyJob, Snapshot, SnapshotMessage, Message
  <2> QED
    BY <1>0, <1>1, <1>3, <2>2 DEF SendSnapshot
<1>4. CASE AnnounceTypeDeleted(r)
  <2>1. job[r] \in TypeJob
    BY <1>0, <1>4, JobShape DEF AnnounceTypeDeleted
  <2>2. [kind |-> "ObjectTypeDeleted", type |-> job[r].type] \in Message
    BY <2>1 DEF TypeJob, Message
  <2> QED
    BY <1>0, <1>1, <1>4, <2>2 DEF AnnounceTypeDeleted
<1>5. CASE /\ UNCHANGED outbox
           /\ deletedTypes' \in {deletedTypes} \cup {deletedTypes \cup {t} : t \in Types}
  BY <1>0, <1>5
<1> QED
  BY <1>2, <1>3, <1>4, <1>5
  DEF Step, ChangeState, LogChange, ApplyChange, UpdateOne, WriteRow,
      CreateMultiple, LookUpTag, InsertNext, NothingToInsert, ReadForNotify,
      DeleteType, RetireObjects, LogRetired, StatementFails, NotifyReadFails

\* The invariant is inductive.
LEMMA LedgerInvKept == LedgerInv /\ [Next]_vars => LedgerInv'
<1> SUFFICES ASSUME LedgerInv, [Next]_vars PROVE LedgerInv'
  OBVIOUS
<1>1. ASSUME NEW r \in Requests, Step(r) PROVE LedgerInv'
  <2>1. TypeOK'
    BY <1>1, RowsKept, JobsKept, JournalKept, OutboxKept DEF TypeOK
  <2> QED
    BY <1>1, <2>1, JobsHaveRowsKept DEF LedgerInv
<1>2. CASE UNCHANGED vars
  BY <1>2 DEF vars, LedgerInv, TypeOK, JobsHaveRows, Exists
<1> QED
  BY <1>1, <1>2 DEF Next

\* Every reachable state of the ledger is well typed; in particular no journal
\* row copies the state of an object that does not exist.
THEOREM TypeCorrect == Spec => []TypeOK
<1>1. Spec => []LedgerInv
  BY InitLedgerInv, LedgerInvKept, PTL DEF Spec
<1>2. LedgerInv => TypeOK
  BY DEF LedgerInv
<1> QED
  BY <1>1, <1>2, PTL

----------------------------------------------------------------------------
(* What a step may do to a status.                                         *)

LEMMA StatusSteps ==
  ASSUME LedgerInv, NEW r \in Requests, Step(r), NEW o \in Objects
  PROVE  \/ rows'[o].status = rows[o].status
         \/ /\ job[r].pc = "applying" /\ job[r].object = o
            /\ rows[o].status # "Deleted" /\ rows'[o].status = job[r].target
         \/ ~Exists(o) /\ rows'[o].status = "InStock"
         \/ rows'[o].status = "Deleted"
<1> USE DEF LedgerInv, TypeOK
<1>0. job[r] \in Job /\ rows[o] \in Row
  OBVIOUS
<1>1. CASE ApplyChange(r)
  <2>1. CASE UNCHANGED rows
    BY <2>1
  <2>2. CASE /\ Changeable(job[r].object)
             /\ rows' = [rows EXCEPT ![job[r].object].status = job[r].target]
    <3>1. job[r].object # o => rows'[o] = rows[o]
      BY <2>2
    <3>2. job[r].object = o => rows'[o].status = job[r].target
      BY <2>2 DEF Row
    <3> QED
      BY <1>1, <2>2, <3>1, <3>2 DEF ApplyChange, Changeable
  <2> QED
    BY <1>1, <2>1, <2>2 DEF ApplyChange
<1>2. CASE WriteRow(r)
  <2>1. job[r].object \in Objects /\ job[r].item \in Item
    BY <1>0, <1>2, JobShape DEF WriteRow, WriteJob
  <2> QED
    BY <1>2, <2>1, RowTypes DEF WriteRow
<1>3. CASE InsertNext(r)
  <2>1. job[r] \in CreateJob
    BY <1>0, <1>3, JobShape DEF InsertNext
  <2>2. PICK i \in ToInsert(r), p \in Objects :
          ~Exists(p) /\ rows' = [rows EXCEPT ![p] = NewRow(job[r].batch[i])]
    BY <1>3 DEF InsertNext
  <2>3. NewRow(job[r].batch[i]).status = "InStock"
    BY <2>1, <2>2, BatchDomain, RowTypes DEF CreateJob, ToInsert
  <2> QED
    BY <2>2, <2>3
<1>4. CASE RetireObjects(r)
  <2>1. [rows[o] EXCEPT !.status = "Deleted"].status = "Deleted"
    BY <1>0 DEF Row
  <2> QED
    BY <1>4, <2>1 DEF RetireObjects
<1>5. CASE UNCHANGED rows
  BY <1>5
<1> QED
  BY <1>1, <1>2, <1>3, <1>4, <1>5
  DEF Step, ChangeState, LogChange, AnnounceChange, UpdateOne, CreateMultiple,
      LookUpTag, NothingToInsert, ReadForNotify, SendSnapshot, DeleteType,
      LogRetired, AnnounceTypeDeleted, StatementFails, NotifyReadFails

\* No interleaving of handlers brings a deleted object back.
THEOREM DeletedStaysDeleted == Spec => DeletedIsFinal
<1> DEFINE Final == \A o \in Objects :
                      rows[o].status = "Deleted" => rows'[o].status = "Deleted"
<1>1. LedgerInv /\ [Next]_vars => [Final]_vars
  <2> SUFFICES ASSUME LedgerInv, NEW r \in Requests, Step(r) PROVE Final
    BY DEF Next
  <2> QED
    BY StatusSteps DEF Exists
<1>2. Spec => []LedgerInv
  BY InitLedgerInv, LedgerInvKept, PTL DEF Spec
<1> QED
  BY <1>1, <1>2, PTL DEF Spec, DeletedIsFinal

----------------------------------------------------------------------------
(* The journal explains every status.  The strengthening: the row is there *)
(* before the change it explains is applied.                               *)

Explains(log, o, target) == \E l \in log : l.object = o /\ l.target = target

AppliedIsJournaled ==
  \A r \in Requests :
    job[r].pc = "applying" => Explains(journal, job[r].object, job[r].target)

JournalInv == AppliedIsJournaled /\ JournalExplainsStatus

LEMMA AppliedIsJournaledKept ==
  ASSUME LedgerInv, AppliedIsJournaled, NEW r \in Requests, Step(r)
  PROVE  AppliedIsJournaled'
<1> SUFFICES ASSUME NEW q \in Requests, job'[q].pc = "applying"
             PROVE  Explains(journal', job'[q].object, job'[q].target)
  BY DEF AppliedIsJournaled
<1>0. job[r] \in Job /\ job \in [Requests -> Job]
  BY DEF LedgerInv, TypeOK
<1>1. CASE job'[q] = job[q]
  <2>1. Explains(journal, job[q].object, job[q].target)
    BY <1>1 DEF AppliedIsJournaled
  <2>2. journal \subseteq journal'
    BY JournalKept
  <2> QED
    BY <1>1, <2>1, <2>2 DEF Explains
<1>2. CASE LogChange(r) /\ q = r
  <2>1. job[r] \in ChangeJob
    BY <1>0, <1>2, JobShape DEF LogChange
  <2>2. job'[r].object = job[r].object /\ job'[r].target = job[r].target
    BY <1>0, <1>2, <2>1 DEF LogChange, Become, ChangeJob
  <2> DEFINE l == LogRow(r, job[r].object, job[r].target, job[r].signed,
                         job[r].required)
  <2>3. l.object = job[r].object /\ l.target = job[r].target
    BY DEF LogRow
  <2>4. l \in journal'
    BY <1>2 DEF LogChange
  <2> QED
    BY <1>2, <2>2, <2>3, <2>4 DEF Explains
<1>3. CASE ~LogChange(r) /\ q = r
  <2>1. \A j : Become(r, j) => job'[r] = j
    BY <1>0 DEF Become
  <2>2. CASE ApplyChange(r)
    <3>1. job[r] \in ChangeJob
      BY <1>0, <2>2, JobShape DEF ApplyChange
    <3> QED
      BY <1>3, <2>1, <2>2, <3>1 DEF ApplyChange, Finished, ChangeJob
  <2>3. CASE LookUpTag(r) \/ InsertNext(r)
    BY <1>3, <2>3, CreatingGoesOn DEF LedgerInv
  <2>4. CASE ReadForNotify(r) \/ SendSnapshot(r) \/ NotifyReadFails(r)
    <3>1. job[r] \in NotifyJob
      BY <1>0, <2>4, JobShape DEF ReadForNotify, SendSnapshot, NotifyReadFails
    <3> QED
      BY <1>3, <2>1, <2>4, <3>1
      DEF NotifyJob, ReadForNotify, SendSnapshot, NotifyReadFails
  <2>5. CASE RetireObjects(r) \/ LogRetired(r)
    <3>1. job[r] \in TypeJob
      BY <1>0, <2>5, JobShape DEF RetireObjects, LogRetired
    <3> QED
      BY <1>3, <2>1, <2>5, <3>1 DEF TypeJob, RetireObjects, LogRetired
  <2>6. CASE \E o \in Objects, target \in Targets, signed \in BOOLEAN :
               ChangeState(r, o, target, signed)
    BY <1>3, <2>1, <2>6 DEF ChangeState, Finished
  <2>7. CASE \E o \in Objects, item \in Item : UpdateOne(r, o, item)
    BY <1>3, <2>1, <2>7 DEF UpdateOne, Finished
  <2>8. CASE \E batch \in Batches, event \in BOOLEAN :
               CreateMultiple(r, batch, event)
    BY <1>0, <1>3, <2>8 DEF CreateMultiple, Become
  <2>9. CASE \/ AnnounceChange(r) \/ NothingToInsert(r) \/ AnnounceTypeDeleted(r)
            \/ StatementFails(r) \/ WriteRow(r) \/ \E t \in Types : DeleteType(r, t)
    <3>1. \/ \E ok \in BOOLEAN : Become(r, Finished(ok))
          \/ Become(r, Broken(r))
          \/ \E reads : Become(r, Notify(reads))
          \/ \E t \in Types : Become(r, [pc |-> "retiring", type |-> t])
      BY <2>9 DEF AnnounceChange, NothingToInsert, AnnounceTypeDeleted,
                  StatementFails, WriteRow, DeleteType
    <3>2. \A ok, reads, t : /\ Finished(ok).pc = "done" /\ Broken(r).pc = "done"
                            /\ Notify(reads).pc = "notifying"
                            /\ [pc |-> "retiring", type |-> t].pc = "retiring"
      BY DEF Finished, Broken, Notify
    <3> QED
      BY <1>3, <2>1, <3>1, <3>2
  <2> QED
    BY <1>3, <2>2, <2>3, <2>4, <2>5, <2>6, <2>7, <2>8, <2>9 DEF Step
<1> QED
  <2>1. \E j : job' = [job EXCEPT ![r] = j]
    BY DEF Step, ChangeState, LogChange, ApplyChange, AnnounceChange, UpdateOne,
       WriteRow, CreateMultiple, LookUpTag, InsertNext, NothingToInsert,
       ReadForNotify, SendSnapshot, DeleteType, RetireObjects, LogRetired,
       AnnounceTypeDeleted, StatementFails, NotifyReadFails, Become
  <2> QED
    BY <1>0, <1>1, <1>2, <1>3, <2>1

LEMMA JournalInvKept == LedgerInv /\ JournalInv /\ [Next]_vars => JournalInv'
<1> SUFFICES ASSUME LedgerInv, JournalInv, [Next]_vars PROVE JournalInv'
  OBVIOUS
<1>1. ASSUME NEW r \in Requests, Step(r) PROVE JournalInv'
  <2>1. AppliedIsJournaled'
    BY <1>1, AppliedIsJournaledKept DEF JournalInv
  <2>2. ASSUME NEW o \in Objects, rows'[o].status \in {"Out", "Lost", "Resting"}
        PROVE  Explains(journal', o, rows'[o].status)
    <3>1. \/ rows'[o].status = rows[o].status
          \/ /\ job[r].pc = "applying" /\ job[r].object = o
             /\ rows'[o].status = job[r].target
      BY <1>1, <2>2, StatusSteps
    <3>2. Explains(journal, o, rows'[o].status)
      BY <1>1, <2>2, <3>1
      DEF JournalInv, JournalExplainsStatus, AppliedIsJournaled, Explains
    <3>3. journal \subseteq journal'
      BY <1>1, JournalKept
    <3> QED
      BY <3>2, <3>3 DEF Explains
  <2> QED
    BY <2>1, <2>2 DEF JournalInv, JournalExplainsStatus, Explains
<1>2. CASE UNCHANGED vars
  BY <1>2 DEF vars, JournalInv, AppliedIsJournaled, JournalExplainsStatus,
              Explains
<1> QED
  BY <1>1, <1>2 DEF Next

\* Whatever handlers overlap or fail half-way, an object that is out, lost or
\* resting has a journal row that took it there.
THEOREM Journaled == Spec => []JournalExplainsStatus
<1>1. Init => JournalInv
  <2> SUFFICES ASSUME Init PROVE JournalInv
    OBVIOUS
  <2>1. AppliedIsJournaled
    BY DEF Init, AppliedIsJournaled
  <2>2. \A o \in Objects : rows[o].status \in {"Absent", "InStock"}
    BY RowTypes DEF Init, AbsentRow
  <2> QED
    BY <2>1, <2>2 DEF JournalInv, JournalExplainsStatus
<1>2. Spec => []LedgerInv
  BY InitLedgerInv, LedgerInvKept, PTL DEF Spec
<1>3. Spec => []JournalInv
  BY <1>1, <1>2, JournalInvKept, PTL DEF Spec
<1>4. JournalInv => JournalExplainsStatus
  BY DEF JournalInv
<1> QED
  BY <1>3, <1>4, PTL

----------------------------------------------------------------------------
(* Steps of one request and the place of the others.                       *)

\* The action after which a request stands at each place.
LEMMA PcStep ==
  ASSUME LedgerInv, NEW r \in Requests, Step(r)
  PROVE  /\ job'[r].pc = "logging" =>
              \E o \in Objects, target \in Targets, signed \in BOOLEAN :
                ChangeState(r, o, target, signed)
         /\ job'[r].pc = "applying" => LogChange(r)
         /\ job'[r].pc = "announcing" => ApplyChange(r)
         /\ job'[r].pc = "writing" =>
              \E o \in Objects, item \in Item : UpdateOne(r, o, item)
         /\ job'[r].pc = "creating" =>
              \/ \E batch \in Batches, event \in BOOLEAN : CreateMultiple(r, batch, event)
              \/ LookUpTag(r) \/ InsertNext(r)
         /\ job'[r].pc = "retiring" => \E t \in Types : DeleteType(r, t)
         /\ job'[r].pc = "journaling" => RetireObjects(r)
         /\ job'[r].pc = "telling" => LogRetired(r)
         /\ job'[r].pc # "new"
<1>0. job[r] \in Job /\ job \in [Requests -> Job]
  BY DEF LedgerInv, TypeOK
<1>1. \A j : Become(r, j) => job'[r] = j
  BY <1>0 DEF Become
<1>2. CASE \E o \in Objects, target \in Targets, signed \in BOOLEAN :
             ChangeState(r, o, target, signed)
  BY <1>1, <1>2 DEF ChangeState, Finished
<1>3. CASE LogChange(r) \/ ApplyChange(r)
  <2>1. job[r] \in ChangeJob
    BY <1>0, <1>3, JobShape DEF LogChange, ApplyChange
  <2>2. LogChange(r) => job'[r].pc = "applying"
    BY <1>1, <2>1 DEF LogChange, ChangeJob
  <2>3. ApplyChange(r) => job'[r].pc \in {"announcing", "done"}
    BY <1>1, <2>1 DEF ApplyChange, ChangeJob, Finished
  <2> QED
    BY <1>3, <2>2, <2>3
<1>4. CASE \E o \in Objects, item \in Item : UpdateOne(r, o, item)
  <2>1. PICK o \in Objects, item \in Item : UpdateOne(r, o, item)
    BY <1>4
  <2>2. job'[r].pc \in {"writing", "done"}
    BY <1>1, <2>1 DEF UpdateOne, Finished
  <2> QED
    BY <1>4, <2>2
<1>5. CASE LookUpTag(r) \/ InsertNext(r)
  BY <1>5, CreatingGoesOn DEF LedgerInv
<1>6. CASE \E batch \in Batches, event \in BOOLEAN : CreateMultiple(r, batch, event)
  <2>1. job'[r].pc = "creating"
    BY <1>0, <1>6 DEF CreateMultiple, Become
  <2> QED
    BY <1>6, <2>1
<1>7. CASE ReadForNotify(r) \/ SendSnapshot(r) \/ NotifyReadFails(r)
  <2>1. job[r] \in NotifyJob
    BY <1>0, <1>7, JobShape DEF ReadForNotify, SendSnapshot, NotifyReadFails
  <2>2. job'[r].pc = "notifying"
    BY <1>1, <1>7, <2>1 DEF NotifyJob, ReadForNotify, SendSnapshot, NotifyReadFails
  <2> QED
    BY <2>2
<1>8. CASE RetireObjects(r) \/ LogRetired(r)
  <2>1. job[r] \in TypeJob
    BY <1>0, <1>8, JobShape DEF RetireObjects, LogRetired
  <2>2. RetireObjects(r) => job'[r].pc = "journaling"
    BY <1>1, <2>1 DEF TypeJob, RetireObjects
  <2>3. LogRetired(r) => job'[r].pc = "telling"
    BY <1>1, <2>1 DEF TypeJob, LogRetired
  <2> QED
    BY <1>8, <2>2, <2>3
<1>9. CASE \E t \in Types : DeleteType(r, t)
  <2>1. job'[r].pc = "retiring"
    BY <1>1, <1>9 DEF DeleteType
  <2> QED
    BY <1>9, <2>1
<1>10. CASE \/ AnnounceChange(r) \/ NothingToInsert(r) \/ AnnounceTypeDeleted(r)
            \/ StatementFails(r) \/ WriteRow(r)
  <2>1. \/ \E ok \in BOOLEAN : Become(r, Finished(ok))
        \/ Become(r, Broken(r))
        \/ \E reads : Become(r, Notify(reads))
    BY <1>10 DEF AnnounceChange, NothingToInsert, AnnounceTypeDeleted,
       StatementFails, WriteRow
  <2>2. /\ \A ok, reads : Finished(ok).pc = "done" /\ Notify(reads).pc = "notifying"
        /\ Broken(r).pc = "done"
    BY DEF Finished, Broken, Notify
  <2>3. job'[r].pc \in {"done", "notifying"}
    BY <1>1, <2>1, <2>2
  <2> QED
    BY <2>3
<1> QED
  BY <1>2, <1>3, <1>4, <1>5, <1>6, <1>7, <1>8, <1>9, <1>10 DEF Step

\* A step of a request leaves the others where they are.
LEMMA OwnJobOnly ==
  ASSUME LedgerInv, NEW r \in Requests, Step(r), NEW q \in Requests, q # r
  PROVE  job'[q] = job[q]
<1>1. \E j : job' = [job EXCEPT ![r] = j]
  BY DEF Step, ChangeState, LogChange, ApplyChange, AnnounceChange, UpdateOne,
     WriteRow, CreateMultiple, LookUpTag, InsertNext, NothingToInsert,
     ReadForNotify, SendSnapshot, DeleteType, RetireObjects, LogRetired,
     AnnounceTypeDeleted, StatementFails, NotifyReadFails, Become
<1> QED
  BY <1>1 DEF LedgerInv, TypeOK

\* A request starts, goes on, or prepares messages after its response.
LEMMA StepOf ==
  ASSUME LedgerInv, NEW r \in Requests, Step(r)
  PROVE  \/ Arrives(r)
         \/ r \in InFlight
         \/ job'[r].pc = "notifying" /\ UNCHANGED <<rows, journal, now>>
<1>0. job[r] \in Job /\ \A j : Become(r, j) => job'[r] = j
  BY DEF LedgerInv, TypeOK, Become
<1>1. CASE ReadForNotify(r) \/ SendSnapshot(r) \/ NotifyReadFails(r)
  <2>1. job[r] \in NotifyJob
    BY <1>0, <1>1, JobShape DEF ReadForNotify, SendSnapshot, NotifyReadFails
  <2> QED
    BY <1>0, <1>1, <2>1 DEF NotifyJob, ReadForNotify, SendSnapshot, NotifyReadFails
<1> QED
  BY <1>1 DEF Step, ChangeState, LogChange, ApplyChange, AnnounceChange, UpdateOne,
     WriteRow, CreateMultiple, LookUpTag, InsertNext, NothingToInsert, DeleteType,
     RetireObjects, LogRetired, AnnounceTypeDeleted, StatementFails, InFlight

\* A request is answered once.
LEMMA DoneStays ==
  ASSUME LedgerInv, NEW r \in Requests, Step(r), NEW q \in Requests,
         job[q].pc = "done"
  PROVE  job'[q] = job[q]
<1>1. CASE q = r
  BY <1>1 DEF Step, ChangeState, LogChange, ApplyChange, AnnounceChange, UpdateOne,
     WriteRow, CreateMultiple, LookUpTag, InsertNext, NothingToInsert, ReadForNotify,
     SendSnapshot, DeleteType, RetireObjects, LogRetired, AnnounceTypeDeleted,
     StatementFails, NotifyReadFails, Arrives, InFlight
<1> QED
  BY <1>1, OwnJobOnly

----------------------------------------------------------------------------
(* Signatures.                                                             *)

\* What the controller has decided still holds when the change is journalled.
DecisionHolds ==
  \A r \in Requests :
    (/\ job[r].pc = "logging" /\ job[r].required /\ job[r].target = "Out"
     /\ rows[job[r].object].status \in {"InStock", "Out"})
      => job[r].signed

LEMMA DecisionHoldsKept ==
  ASSUME LedgerInv, OneChangeEach, DecisionHolds, NEW r \in Requests, Step(r)
  PROVE  DecisionHolds'
<1> SUFFICES ASSUME NEW q \in Requests, job'[q].pc = "logging", job'[q].required,
                    job'[q].target = "Out",
                    rows'[job'[q].object].status \in {"InStock", "Out"}
             PROVE  job'[q].signed
  BY DEF DecisionHolds
<1>1. CASE q = r
  <2>1. PICK o \in Objects, target \in Targets, signed \in BOOLEAN :
          ChangeState(r, o, target, signed)
    BY <1>1, PcStep
  <2>2. job'[r] = IF Exists(o) /\ (RequiresSignature(rows[o], target) => signed)
                  THEN [pc |-> "logging", object |-> o, target |-> target,
                        signed |-> signed, required |-> rows[o].sig]
                  ELSE Finished(FALSE)
    BY <2>1 DEF ChangeState, Become, LedgerInv, TypeOK
  <2>3. rows' = rows
    BY <2>1 DEF ChangeState
  <2> QED
    BY <1>1, <2>2, <2>3 DEF Finished, RequiresSignature
<1>2. CASE q # r
  <2>1. job'[q] = job[q]
    BY <1>2, OwnJobOnly
  <2>2. job[q] \in ChangeJob
    BY <2>1, JobShape DEF LedgerInv, TypeOK
  <2>3. PICK o \in Objects : o = job[q].object
    BY <2>2 DEF ChangeJob
  <2>4. Exists(o)
    BY <2>1, <2>3 DEF LedgerInv, JobsHaveRows
  <2>5. ~(job[r].pc = "applying" /\ job[r].object = o)
    BY <1>2, <2>1, <2>3 DEF OneChangeEach, Changes
  <2>6. rows'[o].status \in {"InStock", "Out"}
    BY <2>1, <2>3
  <2>7. rows'[o].status = rows[o].status
    BY <2>4, <2>5, <2>6, StatusSteps
  <2> QED
    BY <2>1, <2>3, <2>6, <2>7 DEF DecisionHolds
<1> QED
  BY <1>1, <1>2

LEMMA SignedKept ==
  ASSUME LedgerInv, DecisionHolds, LoanFromStockIsSigned, NEW r \in Requests, Step(r)
  PROVE  LoanFromStockIsSigned'
<1>1. CASE LogChange(r)
  <2>1. journal' = journal
          \cup {LogRow(r, job[r].object, job[r].target, job[r].signed, job[r].required)}
    BY <1>1 DEF LogChange
  <2>2. job[r].pc = "logging"
    BY <1>1 DEF LogChange
  <2> QED
    BY <2>1, <2>2 DEF LoanFromStockIsSigned, DecisionHolds, LogRow
<1>2. CASE LogRetired(r)
  BY <1>2 DEF LogRetired, LogRow, LoanFromStockIsSigned
<1>3. CASE UNCHANGED journal
  BY <1>3 DEF LoanFromStockIsSigned
<1> QED
  BY <1>1, <1>2, <1>3
  DEF Step, ChangeState, ApplyChange, AnnounceChange, UpdateOne, WriteRow,
      CreateMultiple, LookUpTag, InsertNext, NothingToInsert, ReadForNotify,
      SendSnapshot, DeleteType, RetireObjects, AnnounceTypeDeleted,
      StatementFails, NotifyReadFails

LEMMA SignedInvKept ==
  ASSUME LedgerInv, DecisionHolds, LoanFromStockIsSigned, [OneChangeEach /\ Next]_vars
  PROVE  DecisionHolds' /\ LoanFromStockIsSigned'
<1>1. CASE UNCHANGED vars
  BY <1>1 DEF vars, DecisionHolds, LoanFromStockIsSigned
<1> QED
  BY <1>1, DecisionHoldsKept, SignedKept DEF Next

LEMMA SignedInit == Init => DecisionHolds /\ LoanFromStockIsSigned
BY DEF Init, DecisionHolds, LoanFromStockIsSigned

\* However many requests overlap, and whatever fails: as long as no two changes
\* of one object do, none journals a loan out of stock without the signature it
\* needs.  An update, a creation or a type's deletion may run in between.
THEOREM LoansAreSigned == Spec /\ []OneChangeEach => []LoanFromStockIsSigned
<1> DEFINE Inv == LedgerInv /\ DecisionHolds /\ LoanFromStockIsSigned
<1>1. Init => Inv
  BY InitLedgerInv, SignedInit
<1>2. Inv /\ OneChangeEach /\ [Next]_vars => Inv'
  BY LedgerInvKept, SignedInvKept
<1>3. Inv => LoanFromStockIsSigned
  OBVIOUS
<1> QED
  BY <1>1, <1>2, <1>3, PTL DEF Spec

----------------------------------------------------------------------------
(* Tags.                                                                   *)

Holders(table, tag) ==
  {p \in Objects : table[p].status # "Absent" /\ table[p].tag = tag}

\* What the look-ups of a request have found is so in the table.
Checked(j, table) ==
  /\ j.pc = "writing" =>
       j.item.tag # Nil /\ Holders(table, j.item.tag) \subseteq {j.object}
  /\ j.pc = "creating" =>
       \A i \in DOMAIN j.batch \ j.unchecked :
         \/ j.batch[i].tag \in j.existing \cup {Nil}
         \/ \E m \in j.made : m[1] = i
         \/ Holders(table, j.batch[i].tag) = {}

ChecksHold == \A r \in Requests : Checked(job[r], rows)

LEMMA LookupFinds ==
  ASSUME NEW tag, tag # Nil, NEW found \in Lookup(tag)
  PROVE  IF found = Nil THEN Holders(rows, tag) = {}
                        ELSE found \in Holders(rows, tag)
<1>1. found \in (IF Holders(rows, tag) = {} THEN {Nil} ELSE Holders(rows, tag))
  BY DEF Lookup, Holders, Exists
<1>2. Nil \notin Holders(rows, tag)
  BY LedgerAssumption DEF Holders
<1> QED
  BY <1>1, <1>2

LEMMA UpdateChecked ==
  ASSUME LedgerInv, TagsUnique, NEW r \in Requests, NEW o \in Objects,
         NEW item \in Item, UpdateOne(r, o, item), job'[r].pc = "writing"
  PROVE  Checked(job'[r], rows')
<1>1. job \in [Requests -> Job]
  BY DEF LedgerInv, TypeOK
<1>2. PICK found \in Lookup(item.tag) :
        Become(r, IF item.tag # Nil /\ found \in {Nil, o}
                  THEN [pc |-> "writing", object |-> o, item |-> item]
                  ELSE Finished(FALSE))
  BY DEF UpdateOne
<1>3. CASE item.tag # Nil /\ found \in {Nil, o}
  <2>1. job'[r] = [pc |-> "writing", object |-> o, item |-> item]
    BY <1>1, <1>2, <1>3 DEF Become
  <2>2. IF found = Nil THEN Holders(rows, item.tag) = {}
                       ELSE found \in Holders(rows, item.tag)
    BY <1>3, LookupFinds
  <2>3. \A p \in Holders(rows, item.tag) : p = o
    BY <1>3, <2>2 DEF TagsUnique, Holders, Exists
  <2>4. rows' = rows
    BY DEF UpdateOne
  <2> QED
    BY <1>3, <2>1, <2>3, <2>4 DEF Checked
<1>4. CASE ~(item.tag # Nil /\ found \in {Nil, o})
  BY <1>1, <1>2, <1>4 DEF Become, Finished
<1> QED
  BY <1>3, <1>4

LEMMA CreationChecked ==
  ASSUME LedgerInv, ChecksHold, TagsApart, NEW r \in Requests,
         \/ \E batch \in Batches, event \in BOOLEAN : CreateMultiple(r, batch, event)
         \/ LookUpTag(r) \/ InsertNext(r),
         job'[r].pc = "creating"
  PROVE  Checked(job'[r], rows')
<1>1. job \in [Requests -> Job]
  BY DEF LedgerInv, TypeOK
<1>2. CASE \E batch \in Batches, event \in BOOLEAN : CreateMultiple(r, batch, event)
  <2>1. PICK batch \in Batches, event \in BOOLEAN : CreateMultiple(r, batch, event)
    BY <1>2
  <2>2. job'[r] = [pc |-> "creating", batch |-> batch, event |-> event,
                   unchecked |-> {k \in DOMAIN batch : batch[k].tag # Nil},
                   existing |-> {}, made |-> {}]
    BY <1>1, <2>1 DEF CreateMultiple, Become
  <2> QED
    BY <2>2 DEF Checked
<1>3. CASE LookUpTag(r)
  <2>1. job[r] \in CreateJob
    BY <1>1, <1>3, JobShape DEF LookUpTag
  <2>2. PICK k \in job[r].unchecked : \E found \in Lookup(job[r].batch[k].tag) :
          Become(r, [job[r] EXCEPT
                       !.unchecked = @ \ {k},
                       !.existing = IF found = Nil THEN @
                                    ELSE @ \cup {job[r].batch[k].tag}])
    BY <1>3 DEF LookUpTag
  <2>3. PICK found \in Lookup(job[r].batch[k].tag) :
          Become(r, [job[r] EXCEPT
                       !.unchecked = @ \ {k},
                       !.existing = IF found = Nil THEN @
                                    ELSE @ \cup {job[r].batch[k].tag}])
    BY <2>2
  <2>4. /\ job'[r].batch = job[r].batch
        /\ job'[r].unchecked = job[r].unchecked \ {k}
        /\ job'[r].existing = IF found = Nil THEN job[r].existing
                              ELSE job[r].existing \cup {job[r].batch[k].tag}
        /\ job'[r].made = job[r].made
    BY <1>1, <2>1, <2>3 DEF Become, CreateJob
  <2>5. rows' = rows /\ job[r].pc = "creating"
    BY <1>3 DEF LookUpTag
  <2>6. Checked(job[r], rows)
    BY DEF ChecksHold
  <2>7. job[r].batch[k].tag # Nil =>
          IF found = Nil THEN Holders(rows, job[r].batch[k].tag) = {}
                         ELSE found \in Holders(rows, job[r].batch[k].tag)
    BY <2>3, LookupFinds
  <2>8. ASSUME NEW i \in DOMAIN job'[r].batch \ job'[r].unchecked
        PROVE  \/ job'[r].batch[i].tag \in job'[r].existing \cup {Nil}
               \/ \E m \in job'[r].made : m[1] = i
               \/ Holders(rows, job'[r].batch[i].tag) = {}
    <3>1. CASE i = k
      BY <2>4, <2>7, <3>1
    <3>2. CASE i # k
      BY <2>4, <2>5, <2>6, <2>8, <3>2 DEF Checked
    <3> QED
      BY <3>1, <3>2
  <2>9. job'[r].pc # "writing"
    BY CreatingGoesOn, <1>3 DEF LedgerInv
  <2> QED
    BY <2>5, <2>8, <2>9 DEF Checked
<1>4. CASE InsertNext(r)
  <2>1. job[r] \in CreateJob /\ job[r].unchecked = {} /\ job[r].pc = "creating"
    BY <1>1, <1>4, JobShape DEF InsertNext
  <2>2. PICK i \in ToInsert(r), o \in Objects :
          /\ ~Exists(o) /\ rows' = [rows EXCEPT ![o] = NewRow(job[r].batch[i])]
          /\ Become(r, IF ToInsert(r) = {i}
                       THEN Notify(InsertedIds(r, job[r].made \cup {<<i, o>>}))
                       ELSE [job[r] EXCEPT !.made = job[r].made \cup {<<i, o>>}])
    BY <1>4 DEF InsertNext
  <2>3. job'[r] = [job[r] EXCEPT !.made = job[r].made \cup {<<i, o>>}]
    BY <1>1, <2>2 DEF Become, Notify
  <2>4. /\ job'[r].pc = "creating" /\ job'[r].batch = job[r].batch
        /\ job'[r].unchecked = {} /\ job'[r].existing = job[r].existing
        /\ job'[r].made = job[r].made \cup {<<i, o>>}
    BY <2>1, <2>3 DEF CreateJob
  <2>5. /\ rows'[o].tag = job[r].batch[i].tag
        /\ \A p \in Objects : p # o => rows'[p] = rows[p]
    BY <2>2 DEF NewRow, LedgerInv, TypeOK
  <2>6. Checked(job[r], rows)
    BY DEF ChecksHold
  <2>7. ASSUME NEW k \in DOMAIN job[r].batch,
               job[r].batch[k].tag \notin job[r].existing \cup {Nil},
               ~\E m \in job[r].made \cup {<<i, o>>} : m[1] = k
        PROVE  Holders(rows', job[r].batch[k].tag) = {}
    <3>0. k # i
      <4>1. <<i, o>>[1] = i
        OBVIOUS
      <4> QED
        BY <2>7, <4>1
    <3>1. k \in ToInsert(r) /\ k # i
      BY <2>7, <3>0 DEF ToInsert
    <3>2. job[r].batch[i].tag # job[r].batch[k].tag
      BY <2>1, <2>7, <3>1 DEF TagsApart
    <3>3. Holders(rows, job[r].batch[k].tag) = {}
      BY <2>1, <2>6, <2>7 DEF Checked
    <3> QED
      BY <2>5, <3>2, <3>3 DEF Holders
  <2> QED
    BY <2>4, <2>7 DEF Checked
<1> QED
  BY <1>2, <1>3, <1>4

\* A tag that a step does not bring gets no new holder.
LEMMA HoldersStep ==
  ASSUME LedgerInv, NEW r \in Requests, Step(r), NEW tag, tag # Nil,
         tag \notin Brings(r)
  PROVE  Holders(rows', tag) \subseteq Holders(rows, tag)
<1>0. job[r] \in Job /\ rows \in [Objects -> Row]
  BY DEF LedgerInv, TypeOK
<1>1. CASE WriteRow(r)
  <2>1. job[r] \in WriteJob /\ job[r].pc = "writing"
    BY <1>0, <1>1, JobShape DEF WriteRow
  <2>2. PICK o \in Objects : o = job[r].object
    BY <2>1 DEF WriteJob
  <2>3. rows' = [rows EXCEPT ![o] = Overwritten(rows[o], job[r].item)]
    BY <1>1, <2>2 DEF WriteRow
  <2>4. /\ rows'[o].tag = job[r].item.tag
        /\ \A p \in Objects : p # o => rows'[p] = rows[p]
    BY <1>0, <2>3 DEF Overwritten, Row
  <2>5. job[r].item.tag # tag
    BY <2>1 DEF Brings
  <2> QED
    BY <2>4, <2>5 DEF Holders
<1>2. CASE InsertNext(r)
  <2>1. PICK i \in ToInsert(r), o \in Objects :
          rows' = [rows EXCEPT ![o] = NewRow(job[r].batch[i])]
    BY <1>2 DEF InsertNext
  <2>2. /\ rows'[o].tag = job[r].batch[i].tag
        /\ \A p \in Objects : p # o => rows'[p] = rows[p]
    BY <1>0, <2>1 DEF NewRow
  <2>3. job[r].batch[i].tag # tag
    BY <1>2, <2>1 DEF InsertNext, Brings
  <2> QED
    BY <2>2, <2>3 DEF Holders
<1>3. CASE ApplyChange(r)
  <2>1. job[r] \in ChangeJob
    BY <1>0, <1>3, JobShape DEF ApplyChange
  <2>2. PICK o \in Objects : o = job[r].object
    BY <2>1 DEF ChangeJob
  <2>3. \/ rows' = rows
        \/ rows' = [rows EXCEPT ![o].status = job[r].target] /\ Exists(o)
    BY <1>3, <2>2 DEF ApplyChange, Changeable
  <2>4. \A p \in Objects : /\ rows'[p].tag = rows[p].tag
                           /\ rows'[p].status # "Absent" => Exists(p)
    BY <1>0, <2>3 DEF Exists, Row
  <2> QED
    BY <2>4 DEF Holders, Exists
<1>4. CASE RetireObjects(r)
  <2>1. \A p \in Objects : /\ rows'[p].tag = rows[p].tag
                           /\ rows'[p].status # "Absent" => Exists(p)
    BY <1>0, <1>4 DEF RetireObjects, OfType, Exists, Row
  <2> QED
    BY <2>1 DEF Holders, Exists
<1>5. CASE UNCHANGED rows
  BY <1>5
<1> QED
  BY <1>1, <1>2, <1>3, <1>4, <1>5
  DEF Step, ChangeState, LogChange, AnnounceChange, UpdateOne, CreateMultiple,
      LookUpTag, NothingToInsert, ReadForNotify, SendSnapshot, DeleteType,
      LogRetired, AnnounceTypeDeleted, StatementFails, NotifyReadFails

\* Apart, a step leaves what the other requests have looked up as it was.
LEMMA OthersChecked ==
  ASSUME LedgerInv, TagsApart, ChecksHold, NEW r \in Requests, Step(r),
         NEW q \in Requests, q # r
  PROVE  Checked(job[q], rows')
<1>1. Checked(job[q], rows)
  BY DEF ChecksHold
<1>2. \A tag \in Brings(q) :
        tag # Nil => Holders(rows', tag) \subseteq Holders(rows, tag)
  BY HoldersStep DEF TagsApart
<1>3. CASE job[q].pc = "writing"
  BY <1>1, <1>2, <1>3 DEF Checked, Brings
<1>4. CASE job[q].pc = "creating"
  <2> SUFFICES ASSUME NEW i \in DOMAIN job[q].batch \ job[q].unchecked,
                      job[q].batch[i].tag \notin job[q].existing \cup {Nil},
                      ~\E m \in job[q].made : m[1] = i
               PROVE  Holders(rows', job[q].batch[i].tag) = {}
    BY <1>4 DEF Checked
  <2>1. i \in ToInsert(q)
    BY DEF ToInsert
  <2>2. job[q].batch[i].tag \in Brings(q)
    BY <1>4, <2>1 DEF Brings
  <2>3. Holders(rows, job[q].batch[i].tag) = {}
    BY <1>1, <1>4 DEF Checked
  <2> QED
    BY <1>2, <2>2, <2>3
<1> QED
  BY <1>3, <1>4 DEF Checked

LEMMA ChecksKept ==
  ASSUME LedgerInv, TagsApart, ChecksHold, TagsUnique, NEW r \in Requests, Step(r)
  PROVE  ChecksHold'
<1> SUFFICES ASSUME NEW q \in Requests, job'[q].pc \in {"writing", "creating"}
             PROVE  Checked(job'[q], rows')
  BY DEF ChecksHold, Checked
<1>1. CASE q # r
  BY <1>1, OwnJobOnly, OthersChecked
<1>2. CASE q = r /\ job'[r].pc = "writing"
  <2>1. PICK o \in Objects, item \in Item : UpdateOne(r, o, item)
    BY <1>2, PcStep
  <2> QED
    BY <1>2, <2>1, UpdateChecked
<1>3. CASE q = r /\ job'[r].pc = "creating"
  BY <1>3, PcStep, CreationChecked
<1> QED
  BY <1>1, <1>2, <1>3

LEMMA TagsKept ==
  ASSUME LedgerInv, ChecksHold, TagsUnique, NEW r \in Requests, Step(r)
  PROVE  TagsUnique'
<1>0. job[r] \in Job /\ rows \in [Objects -> Row]
  BY DEF LedgerInv, TypeOK
<1>1. CASE WriteRow(r)
  <2> DEFINE o == job[r].object
  <2>1. job[r] \in WriteJob
    BY <1>0, <1>1, JobShape DEF WriteRow
  <2>2. o \in Objects
    BY <2>1 DEF WriteJob
  <2>3. rows' = [rows EXCEPT ![o] = Overwritten(rows[o], job[r].item)]
    BY <1>1 DEF WriteRow
  <2>4. /\ rows'[o].tag = job[r].item.tag
        /\ \A p \in Objects : p # o => rows'[p] = rows[p]
    BY <1>0, <2>2, <2>3 DEF Overwritten, Row
  <2>5. Holders(rows, job[r].item.tag) \subseteq {o}
    BY <1>1 DEF WriteRow, ChecksHold, Checked
  <2> HIDE DEF o
  <2> QED
    BY <2>2, <2>4, <2>5 DEF TagsUnique, Exists, Holders
<1>2. CASE InsertNext(r)
  <2>1. PICK i \in ToInsert(r), o \in Objects :
          ~Exists(o) /\ rows' = [rows EXCEPT ![o] = NewRow(job[r].batch[i])]
    BY <1>2 DEF InsertNext
  <2>2. /\ rows'[o].tag = job[r].batch[i].tag
        /\ \A p \in Objects : p # o => rows'[p] = rows[p]
    BY <1>0, <2>1 DEF NewRow
  <2>3. \/ job[r].batch[i].tag = Nil
        \/ Holders(rows, job[r].batch[i].tag) = {}
    BY <1>2 DEF InsertNext, ToInsert, ChecksHold, Checked
  <2> QED
    BY <2>1, <2>2, <2>3 DEF TagsUnique, Exists, Holders
<1>3. CASE ApplyChange(r)
  <2>1. job[r] \in ChangeJob
    BY <1>0, <1>3, JobShape DEF ApplyChange
  <2> DEFINE o == job[r].object
  <2>2. \/ rows' = rows
        \/ /\ rows' = [rows EXCEPT ![o].status = job[r].target]
           /\ Exists(o)
    BY <1>3 DEF ApplyChange, Changeable
  <2>3. o \in Objects
    BY <2>1 DEF ChangeJob
  <2> HIDE DEF o
  <2>4. \A p \in Objects : /\ rows'[p].tag = rows[p].tag
                           /\ rows'[p].status # "Absent" => Exists(p)
    BY <1>0, <2>2, <2>3 DEF Exists, Row
  <2> QED
    BY <2>4 DEF TagsUnique, Exists
<1>4. CASE RetireObjects(r)
  <2>1. /\ \A p \in Objects : rows'[p].tag = rows[p].tag
        /\ \A p \in Objects : Exists(p)' => Exists(p)
    BY <1>0, <1>4 DEF RetireObjects, OfType, Exists, Row
  <2> QED
    BY <2>1 DEF TagsUnique
<1>5. CASE UNCHANGED rows
  BY <1>5 DEF TagsUnique, Exists
<1> QED
  BY <1>1, <1>2, <1>3, <1>4, <1>5
  DEF Step, ChangeState, LogChange, AnnounceChange, UpdateOne, CreateMultiple,
      LookUpTag, NothingToInsert, ReadForNotify, SendSnapshot, DeleteType,
      LogRetired, AnnounceTypeDeleted, StatementFails, NotifyReadFails

LEMMA TagInvKept ==
  ASSUME LedgerInv, ChecksHold, TagsUnique, [TagsApart /\ Next]_vars
  PROVE  ChecksHold' /\ TagsUnique'
<1>1. CASE UNCHANGED vars
  BY <1>1 DEF vars, ChecksHold, TagsUnique, Exists
<1> QED
  BY <1>1, ChecksKept, TagsKept DEF Next

LEMMA TagInit == Init => ChecksHold /\ TagsUnique
<1> SUFFICES ASSUME Init PROVE ChecksHold /\ TagsUnique
  OBVIOUS
<1>1. ChecksHold
  BY DEF Init, ChecksHold, Checked
<1>2. TagsUnique
  BY DEF Init, TagsUnique
<1> QED
  BY <1>1, <1>2

\* However many requests overlap, and whatever fails: as long as no tag is
\* brought by two of them or twice by one batch, no two objects get one tag.
THEOREM TagsAreUnique == Spec /\ []TagsApart => []TagsUnique
<1> DEFINE Inv == LedgerInv /\ ChecksHold /\ TagsUnique
<1>1. Init => Inv
  BY InitLedgerInv, TagInit
<1>2. Inv /\ TagsApart /\ [Next]_vars => Inv'
  BY LedgerInvKept, TagInvKept
<1>3. Inv => TagsUnique
  OBVIOUS
<1> QED
  BY <1>1, <1>2, <1>3, PTL DEF Spec

----------------------------------------------------------------------------
(* The journal and the status.  Between the two statements of a change,    *)
(* and between those of a type's deletion, journal and table disagree:     *)
(* MatchInv says which request is about to make them agree, or has failed. *)

\* Rows are about objects that exist, and none is of the future.
JournalKnown == \A l \in journal : Exists(l.object) /\ l.at <= now

DeletionExplained ==
  \A o \in Objects : rows[o].status = "Deleted" =>
    \/ Explains(journal, o, "Deleted")
    \/ \E r \in Requests : Half(job[r], o)
    \/ \E r \in Requests : job[r].pc = "journaling" /\ job[r].type = rows[o].type

LatestMatches ==
  \A o \in Objects : rows[o].status # "Deleted" =>
    \/ Say(Latest(o), job, o, rows[o].status)
    \/ \E r \in Requests : job[r].pc = "applying" /\ job[r].object = o

\* One of the latest rows is of r, with this target.
Wrote(latest, r, target) == \E l \in latest : l.by = r /\ l.target = target

LatestApplied ==
  \A r \in Requests, o \in Objects :
    job[r].pc = "applying" /\ job[r].object = o =>
      rows[o].status = "Deleted" \/ Wrote(Latest(o), r, job[r].target)

RetiredAreDeleted ==
  \A r \in Requests :
    job[r].pc = "journaling" =>
      \A o \in OfType(job[r].type) : rows[o].status = "Deleted"

MatchInv == /\ JournalKnown /\ DeletionExplained /\ LatestMatches
            /\ LatestApplied /\ RetiredAreDeleted

LEMMA HalfKept ==
  ASSUME LedgerInv, NEW r \in Requests, Step(r), NEW o
  PROVE  \A q \in Requests : Half(job[q], o) => Half(job'[q], o)
BY DoneStays DEF Half

\* What a latest row or a failure said, it goes on saying.
LEMMA SayKept ==
  ASSUME LedgerInv, NEW r \in Requests, Step(r), NEW o, NEW status,
         Say(Latest(o), job, o, status)
  PROVE  Say(Latest(o), job', o, status)
<1>1. \A l \in Latest(o) : l.by \in Requests
  BY DEF Latest, LedgerInv, TypeOK, JournalRow
<1> QED
  BY <1>1, HalfKept DEF Say

\* A step that journals this target for these objects.
Journals(r, about, target, signed, required) ==
  /\ about \subseteq Objects
  /\ \A o \in about : Exists(o)
  /\ journal' = journal \cup {LogRow(r, o, target, signed, required) : o \in about}
  /\ now' >= now /\ now' \in Nat

LEMMA ChangeJournals ==
  ASSUME LedgerInv, NEW r \in Requests, LogChange(r)
  PROVE  Journals(r, {job[r].object}, job[r].target, job[r].signed, job[r].required)
<1>1. job[r] \in Job /\ now \in Nat
  BY DEF LedgerInv, TypeOK
<1>2. \A d \in ClockSteps : now + d >= now /\ now + d \in Nat
  BY <1>1, LedgerAssumption
<1>3. job[r] \in ChangeJob
  BY <1>1, JobShape DEF LogChange
<1>4. job[r].object \in Objects /\ Exists(job[r].object)
  BY <1>3 DEF ChangeJob, LedgerInv, JobsHaveRows, LogChange
<1>5. now' >= now /\ now' \in Nat
  BY <1>2 DEF LogChange
<1> DEFINE L(o) == LogRow(r, o, job[r].target, job[r].signed, job[r].required)
<1>6. journal' = journal \cup {L(job[r].object)}
  BY DEF LogChange
<1>7. {L(o) : o \in {job[r].object}} = {L(job[r].object)}
  OBVIOUS
<1> QED
  BY <1>4, <1>5, <1>6, <1>7 DEF Journals

LEMMA DeletionJournals ==
  ASSUME LedgerInv, NEW r \in Requests, LogRetired(r)
  PROVE  Journals(r, OfType(job[r].type), "Deleted", FALSE, FALSE)
<1>1. now \in Nat
  BY DEF LedgerInv, TypeOK
<1>2. \A d \in ClockSteps : now + d >= now /\ now + d \in Nat
  BY <1>1, LedgerAssumption
<1>3. now' >= now /\ now' \in Nat
  BY <1>2 DEF LogRetired
<1>4. OfType(job[r].type) \subseteq Objects /\ \A o \in OfType(job[r].type) : Exists(o)
  BY DEF OfType
<1> QED
  BY <1>3, <1>4 DEF Journals, LogRetired

\* A new row is among the latest of the object it is about, and leaves the
\* other objects theirs.
LEMMA LatestAfter ==
  ASSUME LedgerInv, JournalKnown, NEW r \in Requests, NEW about, NEW target,
         NEW signed, NEW required, Journals(r, about, target, signed, required),
         NEW o \in Objects
  PROVE  IF o \in about
         THEN Wrote(Latest(o)', r, target) /\ Explains(journal', o, target)
         ELSE Latest(o)' = Latest(o)
<1> DEFINE L(p) == LogRow(r, p, target, signed, required)
<1>1. \A p : /\ L(p).object = p /\ L(p).target = target
             /\ L(p).at = now' /\ L(p).by = r
  BY DEF LogRow
<1> HIDE DEF L
<1>2. journal' = journal \cup {L(p) : p \in about}
  BY DEF L, Journals
<1>0. now' >= now /\ now' \in Nat
  BY DEF Journals
<1>3. now \in Nat /\ \A l \in journal : l.at <= now /\ l.at \in Nat
  BY DEF JournalKnown, LedgerInv, TypeOK, JournalRow
<1>4. CASE o \in about
  <2>1. L(o) \in journal'
    BY <1>2, <1>4
  <2>2. \A m \in journal' : m.at <= now'
    <3>1. \A m \in journal : m.at <= now'
      BY <1>0, <1>3
    <3>2. \A p \in about : L(p).at <= now'
      BY <1>0, <1>1
    <3> QED
      BY <1>2, <3>1, <3>2
  <2>3. L(o) \in Latest(o)'
    BY <1>1, <2>1, <2>2 DEF Latest
  <2> QED
    BY <1>1, <1>4, <2>1, <2>3 DEF Explains, Wrote
<1>5. CASE o \notin about
  <2>1. \A l : l \in journal' /\ l.object = o <=> l \in journal /\ l.object = o
    BY <1>1, <1>2, <1>5
  <2> QED
    BY <1>5, <2>1 DEF Latest
<1> QED
  BY <1>4, <1>5

LEMMA KnownKept ==
  ASSUME LedgerInv, JournalKnown, NEW r \in Requests, Step(r)
  PROVE  JournalKnown'
<1>1. \A o \in Objects : Exists(o) => rows'[o].status # "Absent"
  BY RowsKept
<1>2. \A l \in journal : l.object \in Objects /\ l.at \in Nat
  BY DEF LedgerInv, TypeOK, JournalRow
<1>3. CASE LogChange(r) \/ LogRetired(r)
  <2>1. PICK about, target, signed, required :
          Journals(r, about, target, signed, required)
    BY <1>3, ChangeJournals, DeletionJournals
  <2>2. /\ now \in Nat /\ now' >= now /\ now' \in Nat
        /\ journal' = journal \cup
             {LogRow(r, o, target, signed, required) : o \in about}
        /\ \A o \in about : o \in Objects /\ Exists(o)
    BY <2>1 DEF Journals, LedgerInv, TypeOK
  <2>3. ASSUME NEW l \in journal'
        PROVE  l.object \in Objects /\ Exists(l.object) /\ l.at <= now'
    <3>1. CASE l \in journal
      BY <1>2, <2>2, <3>1 DEF JournalKnown
    <3>2. CASE \E o \in about : l = LogRow(r, o, target, signed, required)
      BY <2>2, <3>2 DEF LogRow
    <3> QED
      BY <2>2, <3>1, <3>2
  <2> QED
    BY <1>1, <2>3 DEF JournalKnown, Exists
<1>4. CASE UNCHANGED <<journal, now>>
  BY <1>1, <1>2, <1>4 DEF JournalKnown, Exists
<1> QED
  BY <1>3, <1>4
  DEF Step, ChangeState, ApplyChange, AnnounceChange, UpdateOne, WriteRow,
      CreateMultiple, LookUpTag, InsertNext, NothingToInsert, ReadForNotify,
      SendSnapshot, DeleteType, RetireObjects, AnnounceTypeDeleted,
      StatementFails, NotifyReadFails


\* The only step from between two statements is the second, or its failure.
LEMMA SecondStatement ==
  ASSUME NEW r \in Requests, Step(r), ~StatementFails(r)
  PROVE  /\ job[r].pc = "applying" => ApplyChange(r)
         /\ job[r].pc = "journaling" => LogRetired(r)
BY DEF Step, ChangeState, LogChange, ApplyChange, AnnounceChange, UpdateOne,
   WriteRow, CreateMultiple, LookUpTag, InsertNext, NothingToInsert, ReadForNotify,
   SendSnapshot, DeleteType, RetireObjects, LogRetired, AnnounceTypeDeleted,
   StatementFails, NotifyReadFails, Arrives

LEMMA MatchLogChange ==
  ASSUME LedgerInv, OneChangeEach, MatchInv, NEW r \in Requests,
         Step(r), LogChange(r)
  PROVE  MatchInv'
<1>0. job[r] \in Job /\ job \in [Requests -> Job]
  BY DEF LedgerInv, TypeOK
<1>1. job[r] \in ChangeJob /\ job[r].pc = "logging"
  BY <1>0, JobShape DEF LogChange
<1>2. PICK o \in Objects, target \in Status :
        o = job[r].object /\ target = job[r].target
  BY <1>1 DEF ChangeJob
<1>3. /\ job'[r].pc = "applying" /\ job'[r].object = o /\ job'[r].target = target
      /\ rows' = rows
  BY <1>0, <1>1, <1>2 DEF LogChange, Become, ChangeJob
<1>4. \A q \in Requests : q # r => job'[q] = job[q]
  BY OwnJobOnly
<1>5. Journals(r, {o}, target, job[r].signed, job[r].required)
  BY <1>2, ChangeJournals
<1>6. \A p \in Objects : IF p = o
        THEN Wrote(Latest(p)', r, target)
        ELSE Latest(p)' = Latest(p)
  BY <1>5, LatestAfter DEF MatchInv
<1>7. JournalKnown'
  BY KnownKept DEF MatchInv
<1>8. DeletionExplained'
  <2>1. journal \subseteq journal'
    BY JournalKept
  <2>2. \A p \in Objects, q \in Requests : Half(job[q], p) => Half(job'[q], p)
    BY HalfKept
  <2> QED
    BY <1>1, <1>3, <1>4, <2>1, <2>2 DEF MatchInv, DeletionExplained, Explains
<1>9. LatestMatches'
  <2> SUFFICES ASSUME NEW p \in Objects, rows'[p].status # "Deleted", p # o
               PROVE  \/ Say(Latest(p)', job', p, rows'[p].status)
                      \/ \E q \in Requests :
                           job'[q].pc = "applying" /\ job'[q].object = p
    BY <1>3 DEF LatestMatches
  <2>1. CASE Say(Latest(p), job, p, rows[p].status)
    BY <1>3, <1>6, <2>1, SayKept
  <2>2. CASE \E q \in Requests : job[q].pc = "applying" /\ job[q].object = p
    BY <1>1, <1>4, <2>2
  <2> QED
    BY <1>3, <2>1, <2>2 DEF MatchInv, LatestMatches
<1>10. LatestApplied'
  <2> SUFFICES ASSUME NEW q \in Requests, NEW p \in Objects,
                      job'[q].pc = "applying", job'[q].object = p,
                      rows'[p].status # "Deleted"
               PROVE  Wrote(Latest(p)', q, job'[q].target)
    BY DEF LatestApplied, Wrote
  <2>1. CASE q = r
    BY <1>3, <1>6, <2>1
  <2>2. CASE q # r
    <3>1. job'[q] = job[q]
      BY <1>4, <2>2
    <3>2. p = job[q].object
      BY <3>1
    <3>3. p # o
      BY <1>1, <1>2, <2>2, <3>1, <3>2 DEF OneChangeEach, Changes
    <3>4. Wrote(Latest(p), q, job[q].target)
      BY <1>3, <3>1, <3>2 DEF MatchInv, LatestApplied
    <3> QED
      BY <1>6, <3>1, <3>2, <3>3, <3>4
  <2> QED
    BY <2>1, <2>2
<1>11. RetiredAreDeleted'
  <2>1. \A q \in Requests : job'[q].pc = "journaling" => job'[q] = job[q]
    BY <1>3, <1>4
  <2> QED
    BY <1>3, <2>1 DEF MatchInv, RetiredAreDeleted, OfType, Exists
<1> QED
  BY <1>7, <1>8, <1>9, <1>10, <1>11 DEF MatchInv


LEMMA MatchApplyChange ==
  ASSUME LedgerInv, OneChangeEach, AppliedIsJournaled, MatchInv, NEW r \in Requests,
         Step(r), ApplyChange(r)
  PROVE  MatchInv'
<1>0. job[r] \in Job /\ job \in [Requests -> Job] /\ rows \in [Objects -> Row]
  BY DEF LedgerInv, TypeOK
<1>1. job[r] \in ChangeJob /\ job[r].pc = "applying"
  BY <1>0, JobShape DEF ApplyChange
<1>2. PICK o \in Objects, target \in Status :
        o = job[r].object /\ target = job[r].target
  BY <1>1 DEF ChangeJob
<1>3. /\ job'[r].pc \in {"announcing", "done"} /\ journal' = journal /\ now' = now
      /\ \A p \in Objects : p # o => rows'[p] = rows[p]
      /\ rows'[o].type = rows[o].type
      /\ rows'[o].status = IF rows[o].status = "Deleted" THEN "Deleted" ELSE target
  <2>1. Exists(o)
    BY <1>1, <1>2 DEF LedgerInv, JobsHaveRows
  <2>2. CASE Changeable(o)
    <3>1. rows' = [rows EXCEPT ![o].status = target]
      BY <1>2, <2>2 DEF ApplyChange
    <3>2. job'[r].pc = "announcing"
      BY <1>0, <1>1, <1>2, <2>2 DEF ApplyChange, Become, ChangeJob
    <3>3. /\ rows'[o].status = target /\ rows'[o].type = rows[o].type
          /\ \A p \in Objects : p # o => rows'[p] = rows[p]
      BY <1>0, <3>1 DEF Row
    <3> QED
      BY <2>2, <3>2, <3>3 DEF Changeable, ApplyChange
  <2>3. CASE ~Changeable(o)
    <3>1. rows' = rows /\ job'[r] = Finished(FALSE)
      BY <1>0, <1>2, <2>3 DEF ApplyChange, Become
    <3> QED
      BY <2>1, <2>3, <3>1 DEF Changeable, Finished, ApplyChange
  <2> QED
    BY <2>2, <2>3
<1>4. \A q \in Requests : q # r => job'[q] = job[q]
  BY OwnJobOnly
<1>5. Explains(journal, o, target)
  BY <1>1, <1>2 DEF AppliedIsJournaled
<1>6. \A p \in Objects : Latest(p)' = Latest(p)
  BY <1>3 DEF Latest
<1>7. JournalKnown'
  <2>1. \A p \in Objects : Exists(p) => rows'[p].status # "Absent"
    BY RowsKept
  <2>2. \A l \in journal : l.object \in Objects
    BY DEF LedgerInv, TypeOK, JournalRow
  <2> QED
    BY <1>3, <2>1, <2>2 DEF MatchInv, JournalKnown, Exists
<1>8. DeletionExplained'
  <2> SUFFICES ASSUME NEW p \in Objects, rows'[p].status = "Deleted",
                      ~Explains(journal, p, "Deleted"),
                      \A q \in Requests : ~Half(job'[q], p)
               PROVE  \E q \in Requests :
                        job'[q].pc = "journaling" /\ job'[q].type = rows'[p].type
    BY <1>3 DEF DeletionExplained, Explains
  <2>1. rows[p].status = "Deleted" /\ rows'[p].type = rows[p].type
    BY <1>3, <1>5
  <2>2. PICK q \in Requests : job[q].pc = "journaling" /\ job[q].type = rows[p].type
    BY <2>1, HalfKept DEF MatchInv, DeletionExplained
  <2> QED
    BY <1>1, <1>4, <2>1, <2>2
<1>9. LatestMatches'
  <2> SUFFICES ASSUME NEW p \in Objects, rows'[p].status # "Deleted"
               PROVE  \/ Say(Latest(p), job', p, rows'[p].status)
                      \/ \E q \in Requests :
                           job'[q].pc = "applying" /\ job'[q].object = p
    BY <1>6 DEF LatestMatches
  <2>1. CASE p = o
    <3>1. rows[o].status # "Deleted" /\ rows'[o].status = target
      BY <1>3, <2>1
    <3>2. Wrote(Latest(o), r, target)
      BY <1>1, <1>2, <3>1 DEF MatchInv, LatestApplied
    <3> QED
      BY <2>1, <3>1, <3>2 DEF Say, Wrote
  <2>2. CASE p # o
    <3>1. rows'[p] = rows[p]
      BY <1>3, <2>2
    <3>2. CASE Say(Latest(p), job, p, rows[p].status)
      BY <3>1, <3>2, SayKept
    <3>3. CASE \E q \in Requests : job[q].pc = "applying" /\ job[q].object = p
      BY <1>2, <1>4, <2>2, <3>3
    <3> QED
      BY <3>1, <3>2, <3>3 DEF MatchInv, LatestMatches
  <2> QED
    BY <2>1, <2>2
<1>10. LatestApplied'
  <2> SUFFICES ASSUME NEW q \in Requests, NEW p \in Objects,
                      job'[q].pc = "applying", job'[q].object = p,
                      rows'[p].status # "Deleted"
               PROVE  Wrote(Latest(p)', q, job'[q].target)
    BY DEF LatestApplied, Wrote
  <2>1. q # r /\ job'[q] = job[q]
    BY <1>3, <1>4
  <2>2. p = job[q].object
    BY <2>1
  <2>3. p # o
    BY <1>1, <1>2, <2>1, <2>2 DEF OneChangeEach, Changes
  <2>4. Wrote(Latest(p), q, job[q].target)
    BY <1>3, <2>1, <2>2, <2>3 DEF MatchInv, LatestApplied
  <2> QED
    BY <1>6, <2>1, <2>2, <2>4
<1>11. RetiredAreDeleted'
  <2> SUFFICES ASSUME NEW q \in Requests, job'[q].pc = "journaling",
                      NEW p \in Objects, rows'[p].status # "Absent",
                      rows'[p].type = job'[q].type
               PROVE  rows'[p].status = "Deleted"
    BY DEF RetiredAreDeleted, OfType, Exists
  <2>1. job'[q] = job[q]
    BY <1>3, <1>4
  <2>2. Exists(p) /\ rows[p].type = job[q].type
    BY <1>1, <1>2, <1>3, <2>1 DEF Exists, LedgerInv, JobsHaveRows
  <2>3. rows[p].status = "Deleted"
    BY <2>1, <2>2 DEF MatchInv, RetiredAreDeleted, OfType
  <2> QED
    BY <1>3, <2>3
<1> QED
  BY <1>7, <1>8, <1>9, <1>10, <1>11 DEF MatchInv

LEMMA MatchRetireObjects ==
  ASSUME LedgerInv, MatchInv, NEW r \in Requests, Step(r), RetireObjects(r)
  PROVE  MatchInv'
<1>0. job[r] \in Job /\ job \in [Requests -> Job] /\ rows \in [Objects -> Row]
  BY DEF LedgerInv, TypeOK
<1>1. job[r] \in TypeJob /\ job[r].pc = "retiring"
  BY <1>0, JobShape DEF RetireObjects
<1>2. PICK t \in Types : t = job[r].type
  BY <1>1 DEF TypeJob
<1>3. /\ job'[r].pc = "journaling" /\ job'[r].type = t
      /\ journal' = journal /\ now' = now
  BY <1>0, <1>1, <1>2 DEF RetireObjects, Become, TypeJob
<1>4. \A p \in Objects :
        /\ rows'[p].type = rows[p].type
        /\ p \in OfType(t) => rows'[p].status = "Deleted"
        /\ p \notin OfType(t) => rows'[p] = rows[p]
        /\ rows'[p].status # "Absent" => Exists(p)
  BY <1>0, <1>2 DEF RetireObjects, Row, OfType, Exists
<1>5. \A q \in Requests : q # r => job'[q] = job[q]
  BY OwnJobOnly
<1>6. \A p \in Objects : Latest(p)' = Latest(p)
  BY <1>3 DEF Latest
<1>7. JournalKnown'
  <2>1. \A p \in Objects : Exists(p) => rows'[p].status # "Absent"
    BY RowsKept
  <2>2. \A l \in journal : l.object \in Objects
    BY DEF LedgerInv, TypeOK, JournalRow
  <2> QED
    BY <1>3, <2>1, <2>2 DEF MatchInv, JournalKnown, Exists
<1>8. DeletionExplained'
  <2> SUFFICES ASSUME NEW p \in Objects, rows'[p].status = "Deleted",
                      ~Explains(journal, p, "Deleted"),
                      \A q \in Requests : ~Half(job'[q], p)
               PROVE  \E q \in Requests :
                        job'[q].pc = "journaling" /\ job'[q].type = rows'[p].type
    BY <1>3 DEF DeletionExplained, Explains
  <2>1. CASE rows[p].status = "Deleted"
    <3>1. PICK q \in Requests : job[q].pc = "journaling" /\ job[q].type = rows[p].type
      BY <2>1, HalfKept DEF MatchInv, DeletionExplained
    <3> QED
      BY <1>1, <1>4, <1>5, <3>1
  <2>2. CASE rows[p].status # "Deleted"
    <3>1. rows[p].type = t
      BY <1>4, <2>2 DEF OfType
    <3> QED
      BY <1>3, <1>4, <3>1
  <2> QED
    BY <2>1, <2>2
<1>9. LatestMatches'
  <2> SUFFICES ASSUME NEW p \in Objects, rows'[p].status # "Deleted"
               PROVE  \/ Say(Latest(p), job', p, rows'[p].status)
                      \/ \E q \in Requests :
                           job'[q].pc = "applying" /\ job'[q].object = p
    BY <1>6 DEF LatestMatches
  <2>1. rows'[p] = rows[p]
    BY <1>4
  <2>2. CASE Say(Latest(p), job, p, rows[p].status)
    BY <2>1, <2>2, SayKept
  <2>3. CASE \E q \in Requests : job[q].pc = "applying" /\ job[q].object = p
    BY <1>1, <1>5, <2>3
  <2> QED
    BY <2>1, <2>2, <2>3 DEF MatchInv, LatestMatches
<1>10. LatestApplied'
  <2> SUFFICES ASSUME NEW q \in Requests, NEW p \in Objects,
                      job'[q].pc = "applying", job'[q].object = p,
                      rows'[p].status # "Deleted"
               PROVE  Wrote(Latest(p)', q, job'[q].target)
    BY DEF LatestApplied, Wrote
  <2>1. job'[q] = job[q]
    BY <1>3, <1>5
  <2>2. p = job[q].object
    BY <2>1
  <2>3. rows[p].status # "Deleted"
    BY <1>4, <2>1, <2>2
  <2>4. Wrote(Latest(p), q, job[q].target)
    BY <2>1, <2>2, <2>3 DEF MatchInv, LatestApplied
  <2> QED
    BY <1>6, <2>1, <2>2, <2>4
<1>11. RetiredAreDeleted'
  <2> SUFFICES ASSUME NEW q \in Requests, job'[q].pc = "journaling",
                      NEW p \in Objects, rows'[p].status # "Absent",
                      rows'[p].type = job'[q].type
               PROVE  rows'[p].status = "Deleted"
    BY DEF RetiredAreDeleted, OfType, Exists
  <2>1. Exists(p) /\ rows[p].type = job'[q].type
    BY <1>4
  <2>2. CASE q = r
    BY <1>3, <1>4, <2>1, <2>2 DEF OfType
  <2>3. CASE q # r
    <3>1. rows[p].status = "Deleted"
      BY <1>5, <2>1, <2>3 DEF MatchInv, RetiredAreDeleted, OfType
    <3> QED
      BY <1>4, <3>1
  <2> QED
    BY <2>2, <2>3
<1> QED
  BY <1>7, <1>8, <1>9, <1>10, <1>11 DEF MatchInv

LEMMA MatchLogRetired ==
  ASSUME LedgerInv, MatchInv, NEW r \in Requests,
         Step(r), LogRetired(r)
  PROVE  MatchInv'
<1>0. job[r] \in Job /\ job \in [Requests -> Job]
  BY DEF LedgerInv, TypeOK
<1>1. job[r] \in TypeJob /\ job[r].pc = "journaling"
  BY <1>0, JobShape DEF LogRetired
<1>2. PICK t \in Types : t = job[r].type
  BY <1>1 DEF TypeJob
<1>3. job'[r].pc = "telling" /\ rows' = rows
  BY <1>0, <1>1 DEF LogRetired, Become, TypeJob
<1>4. \A q \in Requests : q # r => job'[q] = job[q]
  BY OwnJobOnly
<1>5. Journals(r, OfType(t), "Deleted", FALSE, FALSE)
  BY <1>2, DeletionJournals
<1>6. \A p \in Objects : IF p \in OfType(t)
        THEN Explains(journal', p, "Deleted")
        ELSE Latest(p)' = Latest(p)
  BY <1>5, LatestAfter DEF MatchInv
<1>7. JournalKnown'
  BY KnownKept DEF MatchInv
<1>8. DeletionExplained'
  <2> SUFFICES ASSUME NEW p \in Objects, rows[p].status = "Deleted",
                      ~Explains(journal', p, "Deleted"),
                      \A q \in Requests : ~Half(job'[q], p)
               PROVE  \E q \in Requests :
                        job'[q].pc = "journaling" /\ job'[q].type = rows[p].type
    BY <1>3 DEF DeletionExplained, Explains
  <2>1. ~Explains(journal, p, "Deleted")
    BY JournalKept DEF Explains
  <2>2. PICK q \in Requests : job[q].pc = "journaling" /\ job[q].type = rows[p].type
    BY <2>1, HalfKept DEF MatchInv, DeletionExplained
  <2>3. rows[p].type # t
    BY <1>6 DEF OfType, Exists
  <2> QED
    BY <1>2, <1>4, <2>2, <2>3
<1>9. \A p \in Objects : rows[p].status # "Deleted" => Latest(p)' = Latest(p)
  <2>1. \A p \in OfType(t) : rows[p].status = "Deleted"
    BY <1>1, <1>2 DEF MatchInv, RetiredAreDeleted
  <2> QED
    BY <1>6, <2>1
<1>10. LatestMatches'
  <2> SUFFICES ASSUME NEW p \in Objects, rows[p].status # "Deleted"
               PROVE  \/ Say(Latest(p)', job', p, rows[p].status)
                      \/ \E q \in Requests :
                           job'[q].pc = "applying" /\ job'[q].object = p
    BY <1>3 DEF LatestMatches
  <2>1. CASE Say(Latest(p), job, p, rows[p].status)
    BY <1>9, <2>1, SayKept
  <2>2. CASE \E q \in Requests : job[q].pc = "applying" /\ job[q].object = p
    BY <1>1, <1>4, <2>2
  <2> QED
    BY <2>1, <2>2 DEF MatchInv, LatestMatches
<1>11. LatestApplied'
  <2> SUFFICES ASSUME NEW q \in Requests, NEW p \in Objects,
                      job'[q].pc = "applying", job'[q].object = p,
                      rows'[p].status # "Deleted"
               PROVE  Wrote(Latest(p)', q, job'[q].target)
    BY DEF LatestApplied, Wrote
  <2>1. job'[q] = job[q]
    BY <1>3, <1>4
  <2>2. p = job[q].object
    BY <2>1
  <2>3. rows[p].status # "Deleted"
    BY <1>3, <2>1, <2>2
  <2>4. Wrote(Latest(p), q, job[q].target)
    BY <2>1, <2>2, <2>3 DEF MatchInv, LatestApplied
  <2> QED
    BY <1>9, <2>1, <2>2, <2>3, <2>4
<1>12. RetiredAreDeleted'
  <2>1. \A q \in Requests : job'[q].pc = "journaling" => job'[q] = job[q]
    BY <1>3, <1>4
  <2> QED
    BY <1>3, <2>1 DEF MatchInv, RetiredAreDeleted, OfType, Exists
<1> QED
  BY <1>7, <1>8, <1>10, <1>11, <1>12 DEF MatchInv


\* The other statements leave the journal, and change a status only by giving
\* one to an object that had none.
LEMMA OtherStatements ==
  ASSUME LedgerInv, NEW r \in Requests, Step(r), ~StatementFails(r),
         ~LogChange(r), ~ApplyChange(r), ~RetireObjects(r), ~LogRetired(r)
  PROVE  /\ journal' = journal /\ now' = now
         /\ \A o \in Objects : \/ rows'[o].status = rows[o].status
                               \/ ~Exists(o) /\ rows'[o].status = "InStock"
         /\ job[r].pc \notin {"applying", "journaling"}
         /\ job'[r].pc \notin {"applying", "journaling"}
<1>0. job[r] \in Job /\ rows \in [Objects -> Row]
  BY DEF LedgerInv, TypeOK
<1>1. /\ job[r].pc \notin {"applying", "journaling"}
      /\ job'[r].pc \notin {"applying", "journaling"}
  BY SecondStatement, PcStep
<1>2. journal' = journal /\ now' = now
  BY DEF Step, ChangeState, AnnounceChange, UpdateOne, WriteRow, CreateMultiple,
     LookUpTag, InsertNext, NothingToInsert, ReadForNotify, SendSnapshot, DeleteType,
     AnnounceTypeDeleted, StatementFails, NotifyReadFails
<1>3. CASE WriteRow(r)
  <2>1. job[r] \in WriteJob
    BY <1>0, <1>3, JobShape DEF WriteRow
  <2>2. \A o \in Objects : rows'[o].status = rows[o].status
    BY <1>0, <1>3, <2>1, RowTypes DEF WriteRow, WriteJob
  <2> QED
    BY <1>1, <1>2, <2>2
<1>4. CASE InsertNext(r)
  <2>1. job[r] \in CreateJob
    BY <1>0, <1>4, JobShape DEF InsertNext
  <2>2. PICK i \in ToInsert(r), o \in Objects :
          ~Exists(o) /\ rows' = [rows EXCEPT ![o] = NewRow(job[r].batch[i])]
    BY <1>4 DEF InsertNext
  <2>3. rows'[o].status = "InStock" /\ \A p \in Objects : p # o => rows'[p] = rows[p]
    BY <1>0, <2>2 DEF NewRow
  <2> QED
    BY <1>1, <1>2, <2>2, <2>3
<1>5. CASE UNCHANGED rows
  BY <1>1, <1>2, <1>5
<1> QED
  BY <1>3, <1>4, <1>5
  DEF Step, ChangeState, AnnounceChange, UpdateOne, CreateMultiple, LookUpTag,
      NothingToInsert, ReadForNotify, SendSnapshot, DeleteType,
      AnnounceTypeDeleted, StatementFails, NotifyReadFails

\* Apart, these statements bring no object into a type whose deletion is about
\* to be journalled, and take none out of it.
LEMMA OfTypeKept ==
  ASSUME LedgerInv, TypesApart, NEW r \in Requests, Step(r),
         ~ApplyChange(r), ~RetireObjects(r),
         NEW q \in Requests, job[q].pc = "journaling", NEW p \in Objects
  PROVE  rows'[p].status # "Absent" /\ rows'[p].type = job[q].type
           <=> p \in OfType(job[q].type)
<1>0. job[r] \in Job /\ rows \in [Objects -> Row]
  BY DEF LedgerInv, TypeOK
<1>1. CASE WriteRow(r)
  <2>1. job[r] \in WriteJob /\ job[r].pc = "writing"
    BY <1>0, <1>1, JobShape DEF WriteRow
  <2>2. PICK o \in Objects : o = job[r].object
    BY <2>1 DEF WriteJob
  <2>3. rows' = [rows EXCEPT ![o] = Overwritten(rows[o], job[r].item)]
    BY <1>1, <2>2 DEF WriteRow
  <2>4. /\ rows'[o].type = job[r].item.type /\ rows'[o].status = rows[o].status
        /\ p # o => rows'[p] = rows[p]
    BY <1>0, <2>3 DEF Overwritten, Row
  <2>5. Exists(o)
    BY <2>1, <2>2 DEF LedgerInv, JobsHaveRows
  <2>6. job[r].item.type = job[q].type <=> o \in OfType(job[q].type)
    BY <2>1, <2>2 DEF TypesApart
  <2>7. CASE p = o
    BY <2>4, <2>5, <2>6, <2>7 DEF Exists
  <2>8. CASE p # o
    BY <2>4, <2>8 DEF OfType, Exists
  <2> QED
    BY <2>7, <2>8
<1>2. CASE InsertNext(r)
  <2>1. PICK i \in ToInsert(r), o \in Objects :
          ~Exists(o) /\ rows' = [rows EXCEPT ![o] = NewRow(job[r].batch[i])]
    BY <1>2 DEF InsertNext
  <2>2. rows'[o].type = job[r].batch[i].type /\ (p # o => rows'[p] = rows[p])
    BY <1>0, <2>1 DEF NewRow
  <2>3. job[r].batch[i].type # job[q].type
    BY <1>2, <2>1 DEF InsertNext, TypesApart
  <2>4. CASE p = o
    BY <2>1, <2>2, <2>3, <2>4 DEF OfType
  <2>5. CASE p # o
    BY <2>2, <2>5 DEF OfType, Exists
  <2> QED
    BY <2>4, <2>5
<1>3. CASE UNCHANGED rows
  BY <1>3 DEF OfType, Exists
<1> QED
  BY <1>1, <1>2, <1>3
  DEF Step, ChangeState, LogChange, AnnounceChange, UpdateOne, CreateMultiple,
      LookUpTag, NothingToInsert, ReadForNotify, SendSnapshot, DeleteType,
      LogRetired, AnnounceTypeDeleted, StatementFails, NotifyReadFails

LEMMA MatchOthers ==
  ASSUME LedgerInv, TypesApart, MatchInv, NEW r \in Requests, Step(r),
         ~StatementFails(r), ~LogChange(r), ~ApplyChange(r), ~RetireObjects(r), ~LogRetired(r)
  PROVE  MatchInv'
<1>0. job \in [Requests -> Job]
  BY DEF LedgerInv, TypeOK
<1>1. journal' = journal /\ now' = now
  BY OtherStatements
<1>2. \A o \in Objects : \/ rows'[o].status = rows[o].status
                         \/ ~Exists(o) /\ rows'[o].status = "InStock"
  BY OtherStatements
<1>3. \A q \in Requests :
        \/ job'[q] = job[q]
        \/ /\ job[q].pc \notin {"applying", "journaling"}
           /\ job'[q].pc \notin {"applying", "journaling"}
  BY OtherStatements, OwnJobOnly
<1>4. \A q \in Requests, p \in Objects :
        job[q].pc = "journaling" =>
          (rows'[p].status # "Absent" /\ rows'[p].type = job[q].type
             <=> p \in OfType(job[q].type))
  BY OfTypeKept
<1>5. \A p \in Objects : Latest(p)' = Latest(p)
  BY <1>1 DEF Latest
<1>6. JournalKnown'
  <2>1. \A p \in Objects : Exists(p) => rows'[p].status # "Absent"
    BY RowsKept
  <2>2. \A l \in journal : l.object \in Objects
    BY DEF LedgerInv, TypeOK, JournalRow
  <2> QED
    BY <1>1, <2>1, <2>2 DEF MatchInv, JournalKnown, Exists
<1>7. DeletionExplained'
  <2> SUFFICES ASSUME NEW p \in Objects, rows'[p].status = "Deleted",
                      ~Explains(journal, p, "Deleted"),
                      \A q \in Requests : ~Half(job'[q], p)
               PROVE  \E q \in Requests :
                        job'[q].pc = "journaling" /\ job'[q].type = rows'[p].type
    BY <1>1 DEF DeletionExplained, Explains
  <2>1. rows[p].status = "Deleted"
    BY <1>2
  <2>2. PICK q \in Requests : job[q].pc = "journaling" /\ job[q].type = rows[p].type
    BY <2>1, HalfKept DEF MatchInv, DeletionExplained
  <2>3. p \in OfType(job[q].type)
    BY <2>1, <2>2 DEF OfType, Exists
  <2> QED
    BY <1>3, <1>4, <2>2, <2>3
<1>8. LatestMatches'
  <2> SUFFICES ASSUME NEW p \in Objects, rows'[p].status # "Deleted"
               PROVE  \/ Say(Latest(p), job', p, rows'[p].status)
                      \/ \E q \in Requests :
                           job'[q].pc = "applying" /\ job'[q].object = p
    BY <1>5 DEF LatestMatches
  <2>1. CASE ~Exists(p)
    BY <2>1 DEF MatchInv, JournalKnown, Latest, Say
  <2>2. CASE rows'[p].status = rows[p].status
    BY <1>3, <2>2, SayKept DEF MatchInv, LatestMatches
  <2> QED
    BY <1>2, <2>1, <2>2
<1>9. LatestApplied'
  <2> SUFFICES ASSUME NEW q \in Requests, NEW p \in Objects,
                      job'[q].pc = "applying", job'[q].object = p,
                      rows'[p].status # "Deleted"
               PROVE  Wrote(Latest(p)', q, job'[q].target)
    BY DEF LatestApplied, Wrote
  <2>1. job'[q] = job[q]
    BY <1>3
  <2>2. p = job[q].object
    BY <2>1
  <2>3. rows[p].status # "Deleted"
    BY <1>2, <2>1, <2>2 DEF Exists
  <2>4. Wrote(Latest(p), q, job[q].target)
    BY <2>1, <2>2, <2>3 DEF MatchInv, LatestApplied
  <2> QED
    BY <1>5, <2>1, <2>2, <2>4
<1>10. RetiredAreDeleted'
  <2> SUFFICES ASSUME NEW q \in Requests, job'[q].pc = "journaling",
                      NEW p \in Objects, rows'[p].status # "Absent",
                      rows'[p].type = job'[q].type
               PROVE  rows'[p].status = "Deleted"
    BY DEF RetiredAreDeleted, OfType, Exists
  <2>1. job'[q] = job[q]
    BY <1>3
  <2>2. p \in OfType(job[q].type)
    BY <1>4, <2>1
  <2>3. rows[p].status = "Deleted"
    BY <2>1, <2>2 DEF MatchInv, RetiredAreDeleted
  <2> QED
    BY <1>2, <2>3 DEF Exists
<1> QED
  BY <1>6, <1>7, <1>8, <1>9, <1>10 DEF MatchInv

\* A failure is the only thing to explain, from then on, what it has left.
LEMMA MatchFails ==
  ASSUME LedgerInv, MatchInv, NEW r \in Requests, Step(r), StatementFails(r)
  PROVE  MatchInv'
<1>0. job \in [Requests -> Job]
  BY DEF LedgerInv, TypeOK
<1>1. /\ job'[r].pc = "done" /\ job'[r].half = HalfDone(r)
      /\ UNCHANGED <<rows, journal, now>>
  BY <1>0 DEF StatementFails, Become, Broken
<1>2. \A q \in Requests : q # r => job'[q] = job[q]
  BY OwnJobOnly
<1>3. \A p : Latest(p)' = Latest(p)
  BY <1>1 DEF Latest
<1>4. JournalKnown'
  BY <1>1 DEF MatchInv, JournalKnown, Exists
<1>5. DeletionExplained'
  <2> SUFFICES ASSUME NEW p \in Objects, rows[p].status = "Deleted",
                      ~Explains(journal, p, "Deleted"),
                      \A q \in Requests : ~Half(job'[q], p)
               PROVE  \E q \in Requests :
                        job'[q].pc = "journaling" /\ job'[q].type = rows[p].type
    BY <1>1 DEF DeletionExplained, Explains
  <2>1. PICK q \in Requests : job[q].pc = "journaling" /\ job[q].type = rows[p].type
    BY HalfKept DEF MatchInv, DeletionExplained
  <2>2. CASE q = r
    <3>1. p \in HalfDone(r)
      BY <2>1, <2>2 DEF HalfDone, OfType, Exists
    <3> QED
      BY <1>1, <3>1 DEF Half
  <2>3. CASE q # r
    BY <1>2, <2>1, <2>3
  <2> QED
    BY <2>2, <2>3
<1>6. LatestMatches'
  <2> SUFFICES ASSUME NEW p \in Objects, rows[p].status # "Deleted"
               PROVE  \/ Say(Latest(p), job', p, rows[p].status)
                      \/ \E q \in Requests :
                           job'[q].pc = "applying" /\ job'[q].object = p
    BY <1>1, <1>3 DEF LatestMatches
  <2>1. CASE Say(Latest(p), job, p, rows[p].status)
    BY <2>1, SayKept
  <2>2. CASE \E q \in Requests : job[q].pc = "applying" /\ job[q].object = p
    <3>1. PICK q \in Requests : job[q].pc = "applying" /\ job[q].object = p
      BY <2>2
    <3>2. CASE q = r
      <4>1. \E l \in Latest(p) : l.by = r
        BY <3>1, <3>2 DEF MatchInv, LatestApplied, Wrote
      <4>2. Half(job'[r], p)
        BY <1>1, <3>1, <3>2 DEF Half, HalfDone
      <4> QED
        BY <4>1, <4>2 DEF Say
    <3>3. CASE q # r
      BY <1>2, <3>1, <3>3
    <3> QED
      BY <3>2, <3>3
  <2> QED
    BY <2>1, <2>2 DEF MatchInv, LatestMatches
<1>7. LatestApplied'
  BY <1>1, <1>2, <1>3 DEF MatchInv, LatestApplied, Wrote
<1>8. RetiredAreDeleted'
  BY <1>1, <1>2 DEF MatchInv, RetiredAreDeleted, OfType, Exists
<1> QED
  BY <1>4, <1>5, <1>6, <1>7, <1>8 DEF MatchInv

LEMMA MatchKept ==
  ASSUME LedgerInv, AppliedIsJournaled, MatchInv,
         [OneChangeEach /\ TypesApart /\ Next]_vars
  PROVE  MatchInv'
<1>1. ASSUME OneChangeEach, TypesApart, NEW r \in Requests, Step(r) PROVE MatchInv'
  BY <1>1, MatchLogChange, MatchApplyChange, MatchRetireObjects, MatchLogRetired,
     MatchFails, MatchOthers
<1>2. CASE UNCHANGED vars
  BY <1>2 DEF vars, MatchInv, JournalKnown, DeletionExplained, LatestMatches,
     LatestApplied, Wrote, RetiredAreDeleted, Say, Latest, Explains, OfType, Exists
<1> QED
  BY <1>1, <1>2 DEF Next

LEMMA MatchInit == Init => MatchInv
<1> SUFFICES ASSUME Init PROVE MatchInv
  OBVIOUS
<1>1. \A o \in Objects : rows[o].status \in {"Absent", "InStock"}
  BY RowTypes DEF Init, AbsentRow
<1> QED
  BY <1>1 DEF Init, MatchInv, JournalKnown, DeletionExplained, LatestMatches,
     LatestApplied, Wrote, RetiredAreDeleted, Say, Latest

LEMMA JournalInit == Init => JournalInv
<1> SUFFICES ASSUME Init PROVE JournalInv
  OBVIOUS
<1>1. \A o \in Objects : rows[o].status \in {"Absent", "InStock"}
  BY RowTypes DEF Init, AbsentRow
<1> QED
  BY <1>1 DEF Init, JournalInv, AppliedIsJournaled, JournalExplainsStatus

LEMMA MatchSays == MatchInv => JournalMatchesStatus
<1> SUFFICES ASSUME MatchInv, InFlight = {}, NEW o \in Objects
             PROVE  IF rows[o].status = "Deleted"
                    THEN \/ Explains(journal, o, "Deleted")
                         \/ \E r \in Requests : Half(job[r], o)
                    ELSE Say(Latest(o), job, o, rows[o].status)
  BY DEF JournalMatchesStatus, Explains
<1>1. \A r \in Requests : job[r].pc \notin {"applying", "journaling"}
  BY DEF InFlight
<1> QED
  BY <1>1 DEF MatchInv, DeletionExplained, LatestMatches

\* However many requests overlap, whatever fails and however many changes one
\* second sees: as long as no two changes of one object overlap, and no object
\* enters or leaves a type just before its deletion is journalled, the journal
\* and the table differ by what the failed requests left and by nothing else,
\* whenever nothing is in flight.  A change may overlap the deletion of its
\* object's type.
THEOREM JournalMatches ==
  Spec /\ []OneChangeEach /\ []TypesApart => []JournalMatchesStatus
<1> DEFINE Inv == LedgerInv /\ JournalInv /\ MatchInv
<1>1. Init => Inv
  BY InitLedgerInv, JournalInit, MatchInit
<1>2. Inv /\ OneChangeEach /\ TypesApart /\ [Next]_vars => Inv'
  BY LedgerInvKept, JournalInvKept, MatchKept DEF JournalInv
<1>3. Inv => JournalMatchesStatus
  BY MatchSays
<1> QED
  BY <1>1, <1>2, <1>3, PTL DEF Spec

\* The three together, for requests that overlap in any way but those.
THEOREM ApartLedger ==
  ApartSpec => [](JournalMatchesStatus /\ LoanFromStockIsSigned /\ TagsUnique)
<1> DEFINE Inv == /\ LedgerInv /\ JournalInv /\ MatchInv
                  /\ DecisionHolds /\ LoanFromStockIsSigned
                  /\ ChecksHold /\ TagsUnique
<1>1. Init => Inv
  BY InitLedgerInv, JournalInit, MatchInit, SignedInit, TagInit
<1>2. Inv /\ [Apart /\ Next]_vars => Inv'
  <2> SUFFICES ASSUME Inv, [Apart /\ Next]_vars PROVE Inv'
    OBVIOUS
  <2>1. LedgerInv' /\ JournalInv'
    BY LedgerInvKept, JournalInvKept
  <2>2. MatchInv'
    BY MatchKept DEF Apart, JournalInv
  <2>3. DecisionHolds' /\ LoanFromStockIsSigned'
    BY SignedInvKept DEF Apart
  <2>4. ChecksHold' /\ TagsUnique'
    BY TagInvKept DEF Apart
  <2> QED
    BY <2>1, <2>2, <2>3, <2>4
<1>3. Inv => JournalMatchesStatus /\ LoanFromStockIsSigned /\ TagsUnique
  BY MatchSays
<1> QED
  BY <1>1, <1>2, <1>3, PTL DEF ApartSpec

----------------------------------------------------------------------------
\* The feed.

StatusMap == [o \in Objects |-> rows[o].status]
PendingMap == [r \in Requests |-> PendingOf(r)]

LEMMA PendingShape ==
  ASSUME NEW r \in Requests
  PROVE  /\ job[r].pc = "announcing" =>
              PendingOf(r) = {[nr |-> 0, msg |-> ChangeMessage(r)]}
         /\ job[r].pc = "notifying" =>
              PendingOf(r) = {[nr |-> f.nr, msg |-> SnapshotMessage(f)] :
                                f \in job[r].found}
         /\ job[r].pc \notin {"announcing", "notifying"} => PendingOf(r) = {}
BY DEF PendingOf

\* The same of the next state.
LEMMA PendingShapeNext ==
  ASSUME NEW r \in Requests
  PROVE  /\ job'[r].pc = "announcing" =>
              PendingOf(r)' = {[nr |-> 0, msg |-> ChangeMessage(r)']}
         /\ job'[r].pc = "notifying" =>
              PendingOf(r)' = {[nr |-> f.nr, msg |-> SnapshotMessage(f)] :
                                 f \in job'[r].found}
         /\ job'[r].pc \notin {"announcing", "notifying"} => PendingOf(r)' = {}
BY DEF PendingOf, SnapshotMessage

\* A request disturbs what it has prepared itself and nothing else.
LEMMA PendingFrame ==
  ASSUME TypeOK, NEW r \in Requests, NEW j, Become(r, j)
  PROVE  /\ job'[r] = j
         /\ PendingMap' = [PendingMap EXCEPT ![r] = PendingOf(r)']
<1>1. job'[r] = j /\ \A q \in Requests \ {r} : job'[q] = job[q]
  BY DEF TypeOK, Become
<1>2. \A q \in Requests \ {r} : PendingOf(q)' = PendingOf(q)
  BY <1>1 DEF PendingOf, ChangeMessage
<1> QED
  BY <1>1, <1>2 DEF PendingMap

\* A step that neither touches a status nor prepares nor tells anything.
LEMMA Silent ==
  ASSUME TypeOK, NEW r \in Requests, NEW j, Become(r, j),
         PendingOf(r)' = PendingOf(r), StatusMap' = StatusMap, UNCHANGED outbox
  PROVE  UNCHANGED Feed!feedVars
<1>1. PendingMap' = PendingMap
  BY PendingFrame DEF PendingMap
<1> QED
  BY <1>1 DEF Feed!feedVars, PendingMap, StatusMap

LEMMA InitFeed == Init => Feed!FeedInit
<1> SUFFICES ASSUME Init PROVE Feed!FeedInit
  OBVIOUS
<1>1. \A o \in Objects : rows[o].status \in {"Absent", "InStock"}
  BY RowTypes DEF Init, AbsentRow
<1>2. \A r \in Requests : PendingOf(r) = {}
  BY PendingShape DEF Init
<1> QED
  BY <1>1, <1>2 DEF Init, Feed!FeedInit

----------------------------------------------------------------------------
(* One lemma per step that the feed sees.                                  *)

LEMMA ApplyIsChange ==
  ASSUME LedgerInv, NEW r \in Requests, ApplyChange(r)
  PROVE  [Feed!FeedNext]_(Feed!feedVars)
<1>0. TypeOK /\ job[r] \in Job
  BY DEF LedgerInv, TypeOK
<1>1. job[r] \in ChangeJob
  BY <1>0, JobShape DEF ApplyChange
<1>2. PICK o \in Objects, s \in Status : o = job[r].object /\ s = job[r].target
  BY <1>1 DEF ChangeJob
<1>3. PendingOf(r) = {}
  BY PendingShape DEF ApplyChange
<1>4. CASE Changeable(o)
  <2> DEFINE j == [job[r] EXCEPT !.pc = "announcing"]
             m == [kind |-> "ObjectStatusChange", object |-> o, status |-> s]
  <2>1. Become(r, j) /\ rows' = [rows EXCEPT ![o].status = s] /\ UNCHANGED outbox
    BY <1>2, <1>4 DEF ApplyChange
  <2>2. job'[r] = j /\ PendingMap' = [PendingMap EXCEPT ![r] = PendingOf(r)']
    BY <1>0, <2>1, PendingFrame
  <2>3. j.pc = "announcing" /\ j.object = o /\ j.target = s
    BY <1>1, <1>2 DEF ChangeJob
  <2>4. PendingOf(r)' = {[nr |-> 0, msg |-> m]}
    BY <2>2, <2>3, PendingShapeNext DEF ChangeMessage
  <2>5. PendingMap' = [PendingMap EXCEPT ![r] = @ \cup {[nr |-> 0, msg |-> m]}]
    BY <1>3, <2>2, <2>4 DEF PendingMap
  <2>6. StatusMap' = [StatusMap EXCEPT ![o] = s]
    BY <1>0, <1>2, <2>1 DEF StatusMap, TypeOK, Row
  <2>7. StatusMap[o] \notin {"Absent", "Deleted"}
    BY <1>2, <1>4 DEF StatusMap, Changeable, Exists
  <2>8. 0 \in Slots
    BY LedgerAssumption DEF Slots
  <2>9. Feed!Change(r, o, s)
    BY <2>1, <2>5, <2>6, <2>7, <2>8
    DEF Feed!Change, Feed!Prepare, StatusMap, PendingMap
  <2> QED
    BY <1>2, <2>9 DEF Feed!FeedNext, Feed!Status, Status
<1>5. CASE ~Changeable(o)
  <2>1. Become(r, Finished(FALSE)) /\ UNCHANGED <<rows, outbox>>
    BY <1>2, <1>5 DEF ApplyChange
  <2>2. job'[r] = Finished(FALSE)
    BY <1>0, <2>1, PendingFrame
  <2>3. PendingOf(r)' = {}
    BY <2>2, PendingShapeNext DEF Finished
  <2> QED
    BY <1>0, <1>3, <2>1, <2>3, Silent DEF StatusMap
<1> QED
  BY <1>4, <1>5

LEMMA AnnounceIsTells ==
  ASSUME LedgerInv, NEW r \in Requests, AnnounceChange(r)
  PROVE  Feed!FeedNext
<1> DEFINE p == [nr |-> 0, msg |-> ChangeMessage(r)]
<1>1. PendingOf(r) = {p}
  BY PendingShape DEF AnnounceChange
<1>2. /\ job'[r] = Finished(TRUE)
      /\ PendingMap' = [PendingMap EXCEPT ![r] = PendingOf(r)']
  BY PendingFrame DEF AnnounceChange, LedgerInv
<1>3. PendingOf(r)' = {}
  BY <1>2, PendingShapeNext DEF Finished
<1>4. PendingMap' = [PendingMap EXCEPT ![r] = @ \ {p}]
  BY <1>1, <1>2, <1>3 DEF PendingMap
<1>5. Feed!Tells(r, p)
  BY <1>4 DEF AnnounceChange, Tell, Feed!Tells, PendingMap, StatusMap
<1> QED
  BY <1>1, <1>5 DEF Feed!FeedNext

\* Two snapshots of one request are told apart by what their messages say.
LEMMA SnapshotsDiffer ==
  ASSUME NEW f \in Snapshot, NEW g \in Snapshot,
         [nr |-> f.nr, msg |-> SnapshotMessage(f)]
           = [nr |-> g.nr, msg |-> SnapshotMessage(g)]
  PROVE  f = g
BY DEF Snapshot, SnapshotMessage

LEMMA SendIsTells ==
  ASSUME LedgerInv, NEW r \in Requests, SendSnapshot(r)
  PROVE  Feed!FeedNext
<1> DEFINE P(f) == [nr |-> f.nr, msg |-> SnapshotMessage(f)]
<1>0. TypeOK /\ job[r] \in Job
  BY DEF LedgerInv, TypeOK
<1>1. job[r] \in NotifyJob
  BY <1>0, JobShape DEF SendSnapshot
<1>2. PICK f \in job[r].found :
        Tell(SnapshotMessage(f)) /\ Become(r, [job[r] EXCEPT !.found = @ \ {f}])
  BY DEF SendSnapshot
<1>3. PendingOf(r) = {P(g) : g \in job[r].found}
  BY PendingShape DEF SendSnapshot
<1>4. /\ job'[r] = [job[r] EXCEPT !.found = @ \ {f}]
      /\ PendingMap' = [PendingMap EXCEPT ![r] = PendingOf(r)']
  BY <1>0, <1>2, PendingFrame
<1>5. job'[r].pc = "notifying" /\ job'[r].found = job[r].found \ {f}
  BY <1>1, <1>4 DEF NotifyJob
<1>6. PendingOf(r)' = {P(g) : g \in job[r].found \ {f}}
  BY <1>5, PendingShapeNext
<1>7. job[r].found \subseteq Snapshot
  BY <1>1 DEF NotifyJob
<1>8. \A g \in job[r].found : P(g) = P(f) => g = f
  BY <1>7, SnapshotsDiffer
<1>9. PendingOf(r)' = PendingOf(r) \ {P(f)}
  <2> HIDE DEF P
  <2> QED
    BY <1>2, <1>3, <1>6, <1>8
<1>10. PendingMap' = [PendingMap EXCEPT ![r] = @ \ {P(f)}]
  BY <1>4, <1>9 DEF PendingMap
<1>11. Feed!Tells(r, P(f))
  BY <1>2, <1>10 DEF SendSnapshot, Tell, Feed!Tells, PendingMap, StatusMap
<1>12. P(f) \in PendingMap[r]
  BY <1>2, <1>3 DEF PendingMap
<1> QED
  BY <1>11, <1>12 DEF Feed!FeedNext, PendingMap

LEMMA ReadIsObserve ==
  ASSUME LedgerInv, NEW r \in Requests, ReadForNotify(r)
  PROVE  [Feed!FeedNext]_(Feed!feedVars)
<1> DEFINE P(f) == [nr |-> f.nr, msg |-> SnapshotMessage(f)]
           S(read) == [nr |-> read[1], object |-> read[2],
                       status |-> rows[read[2]].status]
<1>0. TypeOK /\ job[r] \in Job
  BY DEF LedgerInv, TypeOK
<1>1. job[r] \in NotifyJob
  BY <1>0, JobShape DEF ReadForNotify
<1>2. PICK read \in job[r].reads :
        Become(r, [job[r] EXCEPT
          !.reads = @ \ {read},
          !.found = IF Exists(read[2]) THEN @ \cup {S(read)} ELSE @])
  BY DEF ReadForNotify
<1>3. read \in Slots \X Objects
  BY <1>1 DEF NotifyJob
<1>4. PendingOf(r) = {P(g) : g \in job[r].found}
  BY PendingShape DEF ReadForNotify
<1>5. /\ job'[r] = [job[r] EXCEPT
                      !.reads = @ \ {read},
                      !.found = IF Exists(read[2]) THEN @ \cup {S(read)} ELSE @]
      /\ PendingMap' = [PendingMap EXCEPT ![r] = PendingOf(r)']
  BY <1>0, <1>2, PendingFrame
<1>6. /\ job'[r].pc = "notifying"
      /\ job'[r].found = IF Exists(read[2]) THEN job[r].found \cup {S(read)}
                         ELSE job[r].found
  BY <1>1, <1>5 DEF NotifyJob
<1>7. PendingOf(r)' = {P(g) : g \in job'[r].found}
  BY <1>6, PendingShapeNext
<1>8. StatusMap' = StatusMap /\ UNCHANGED outbox
  BY DEF ReadForNotify, StatusMap
<1>9. CASE Exists(read[2])
  <2> DEFINE o == read[2]
             m == [kind |-> "ObjectUpdated", object |-> o, status |-> StatusMap[o]]
  <2>1. o \in Objects /\ read[1] \in Slots /\ StatusMap[o] = rows[o].status
    BY <1>3 DEF StatusMap
  <2>2. P(S(read)) = [nr |-> read[1], msg |-> m]
    BY <2>1 DEF SnapshotMessage
  <2>3. PendingOf(r)' = PendingOf(r) \cup {[nr |-> read[1], msg |-> m]}
    <3> HIDE DEF P, S, m
    <3> QED
      BY <1>4, <1>6, <1>7, <1>9, <2>2
  <2>4. PendingMap' = [PendingMap EXCEPT ![r] = @ \cup {[nr |-> read[1], msg |-> m]}]
    BY <1>5, <2>3 DEF PendingMap
  <2>5. StatusMap[o] # "Absent"
    BY <1>9, <2>1 DEF Exists
  <2>6. Feed!Observe(r, o)
    BY <1>8, <2>1, <2>4, <2>5
    DEF Feed!Observe, Feed!Prepare, PendingMap, StatusMap
  <2> QED
    BY <2>1, <2>6 DEF Feed!FeedNext
<1>10. CASE ~Exists(read[2])
  <2>1. PendingOf(r)' = PendingOf(r)
    BY <1>4, <1>6, <1>7, <1>10
  <2> QED
    BY <1>0, <1>2, <1>8, <2>1, Silent
<1> QED
  BY <1>9, <1>10

LEMMA InsertIsAppear ==
  ASSUME LedgerInv, NEW r \in Requests, InsertNext(r)
  PROVE  Feed!FeedNext
<1>0. TypeOK /\ job[r] \in Job
  BY DEF LedgerInv, TypeOK
<1>1. job[r] \in CreateJob
  BY <1>0, JobShape DEF InsertNext
<1>2. PICK i \in ToInsert(r), o \in Objects :
        LET made == job[r].made \cup {<<i, o>>} IN
        /\ ~Exists(o)
        /\ rows' = [rows EXCEPT ![o] = NewRow(job[r].batch[i])]
        /\ Become(r, IF ToInsert(r) = {i} THEN Notify(InsertedIds(r, made))
                     ELSE [job[r] EXCEPT !.made = made])
  BY DEF InsertNext
<1>3. NewRow(job[r].batch[i]).status = "InStock"
  BY <1>1, <1>2, BatchDomain, RowTypes DEF CreateJob, ToInsert
<1>4. StatusMap' = [StatusMap EXCEPT ![o] = "InStock"]
  BY <1>0, <1>2, <1>3 DEF StatusMap, TypeOK
<1>5. PendingOf(r) = {}
  BY PendingShape DEF InsertNext
<1>6. PICK m, ids : \/ Become(r, Notify(ids))
                    \/ Become(r, [job[r] EXCEPT !.made = m])
  BY <1>2
<1>7. /\ PendingMap' = [PendingMap EXCEPT ![r] = PendingOf(r)']
      /\ \/ job'[r] = Notify(ids)
         \/ job'[r] = [job[r] EXCEPT !.made = m]
  BY <1>0, <1>6, PendingFrame
<1>8. PendingOf(r)' = {}
  <2>1. CASE job'[r] = Notify(ids)
    BY <2>1, PendingShapeNext DEF Notify
  <2>2. CASE job'[r] = [job[r] EXCEPT !.made = m]
    <3>1. job'[r].pc = "creating"
      BY <1>1, <2>2 DEF CreateJob
    <3> QED
      BY <3>1, PendingShapeNext
  <2> QED
    BY <1>7, <2>1, <2>2
<1>9. PendingMap' = PendingMap
  BY <1>5, <1>7, <1>8 DEF PendingMap
<1>10. StatusMap[o] = "Absent"
  BY <1>2 DEF StatusMap, Exists
<1>11. Feed!Appear(o)
  BY <1>4, <1>9, <1>10 DEF InsertNext, Feed!Appear, StatusMap, PendingMap
<1> QED
  BY <1>11 DEF Feed!FeedNext

LEMMA RetireIsRetire ==
  ASSUME LedgerInv, NEW r \in Requests, RetireObjects(r)
  PROVE  Feed!FeedNext
<1>0. TypeOK /\ job[r] \in TypeJob
  BY JobShape DEF LedgerInv, TypeOK, RetireObjects
<1>1. PICK S \in SUBSET Objects : S = OfType(job[r].type)
  BY DEF OfType
<1>2. \A o \in S : StatusMap[o] # "Absent"
  BY <1>1 DEF OfType, StatusMap, Exists
<1>3. \A o \in Objects : [rows[o] EXCEPT !.status = "Deleted"].status = "Deleted"
  BY <1>0 DEF TypeOK, Row
<1>4. StatusMap' = [o \in Objects |-> IF o \in S THEN "Deleted" ELSE StatusMap[o]]
  BY <1>1, <1>3 DEF RetireObjects, StatusMap
<1>5. Become(r, [job[r] EXCEPT !.pc = "journaling"]) /\ UNCHANGED outbox
  BY DEF RetireObjects
<1>6. PendingOf(r) = {}
  BY PendingShape DEF RetireObjects
<1>7. job'[r].pc = "journaling"
  BY <1>0, <1>5, PendingFrame DEF TypeJob
<1>8. PendingOf(r)' = {}
  BY <1>7, PendingShapeNext
<1>9. PendingMap' = PendingMap
  BY <1>0, <1>5, <1>6, <1>8, PendingFrame DEF PendingMap
<1>10. Feed!Retire(S)
  BY <1>2, <1>4, <1>5, <1>9 DEF Feed!Retire, StatusMap, PendingMap
<1> QED
  BY <1>10 DEF Feed!FeedNext

LEMMA TypeToldIsTellsType ==
  ASSUME LedgerInv, NEW r \in Requests, AnnounceTypeDeleted(r)
  PROVE  Feed!FeedNext
<1>0. TypeOK /\ job[r] \in TypeJob
  BY JobShape DEF LedgerInv, TypeOK, AnnounceTypeDeleted
<1>1. PendingOf(r) = {}
  BY PendingShape DEF AnnounceTypeDeleted
<1>2. job'[r] = Finished(TRUE)
  BY <1>0, PendingFrame DEF AnnounceTypeDeleted
<1>3. PendingOf(r)' = {}
  BY <1>2, PendingShapeNext DEF Finished
<1>4. PendingMap' = PendingMap
  BY <1>0, <1>1, <1>3, PendingFrame DEF PendingMap, AnnounceTypeDeleted
<1>5. job[r].type \in Types
  BY <1>0 DEF TypeJob
<1>6. Feed!TellsType(job[r].type)
  BY <1>4 DEF AnnounceTypeDeleted, Tell, Feed!TellsType, StatusMap, PendingMap
<1> QED
  BY <1>5, <1>6 DEF Feed!FeedNext

LEMMA FailureIsLosesOrSilent ==
  ASSUME LedgerInv, NEW r \in Requests, StatementFails(r)
  PROVE  [Feed!FeedNext]_(Feed!feedVars)
<1>0. TypeOK
  BY DEF LedgerInv
<1>1. /\ job'[r] = Broken(r)
      /\ PendingMap' = [PendingMap EXCEPT ![r] = PendingOf(r)']
      /\ StatusMap' = StatusMap /\ UNCHANGED outbox
  BY <1>0, PendingFrame DEF StatementFails, StatusMap
<1>2. PendingOf(r)' = {}
  BY <1>1, PendingShapeNext DEF Broken
<1>3. CASE job[r].pc = "announcing"
  <2> DEFINE p == [nr |-> 0, msg |-> ChangeMessage(r)]
  <2>1. PendingOf(r) = {p}
    BY <1>3, PendingShape
  <2>2. PendingMap' = [PendingMap EXCEPT ![r] = @ \ {p}]
    BY <1>1, <1>2, <2>1 DEF PendingMap
  <2>3. Feed!Loses(r, p)
    BY <1>1, <2>2 DEF Feed!Loses, PendingMap, StatusMap
  <2> QED
    BY <2>1, <2>3 DEF Feed!FeedNext
<1>4. CASE job[r].pc # "announcing"
  <2>1. PendingOf(r) = {}
    BY <1>4, PendingShape DEF StatementFails, InFlight
  <2> QED
    BY <1>0, <1>1, <1>2, <2>1, Silent DEF StatementFails
<1> QED
  BY <1>3, <1>4

----------------------------------------------------------------------------
(* The steps that the feed does not see.                                   *)

LEMMA QuietPc ==
  ASSUME TypeOK, NEW r \in Requests, NEW j, Become(r, j),
         job[r].pc \notin {"announcing", "notifying"},
         j.pc \notin {"announcing", "notifying"},
         StatusMap' = StatusMap, UNCHANGED outbox
  PROVE  UNCHANGED Feed!feedVars
<1>1. PendingOf(r) = {} /\ PendingOf(r)' = {}
  BY PendingFrame, PendingShape, PendingShapeNext
<1> QED
  BY <1>1, Silent

LEMMA OtherStepsAreSilent ==
  ASSUME LedgerInv, NEW r \in Requests,
         \/ \E o \in Objects, target \in Targets, signed \in BOOLEAN :
              ChangeState(r, o, target, signed)
         \/ LogChange(r)
         \/ \E o \in Objects, item \in Item : UpdateOne(r, o, item)
         \/ WriteRow(r)
         \/ \E batch \in Batches, event \in BOOLEAN : CreateMultiple(r, batch, event)
         \/ LookUpTag(r) \/ NothingToInsert(r)
         \/ \E t \in Types : DeleteType(r, t)
         \/ LogRetired(r) \/ NotifyReadFails(r)
  PROVE  UNCHANGED Feed!feedVars
<1>0. TypeOK /\ job[r] \in Job
  BY DEF LedgerInv, TypeOK
<1>1. ASSUME NEW o \in Objects, NEW target \in Targets, NEW signed \in BOOLEAN,
             ChangeState(r, o, target, signed)
      PROVE  UNCHANGED Feed!feedVars
  <2> DEFINE j == [pc |-> "logging", object |-> o, target |-> target,
                   signed |-> signed, required |-> rows[o].sig]
  <2>1. j.pc = "logging" /\ Finished(FALSE).pc = "done"
    BY DEF Finished
  <2>2. Become(r, j) \/ Become(r, Finished(FALSE))
    BY <1>1 DEF ChangeState
  <2>3. job[r].pc = "new" /\ StatusMap' = StatusMap /\ UNCHANGED outbox
    BY <1>1 DEF ChangeState, Arrives, StatusMap
  <2> HIDE DEF j
  <2> QED
    BY <1>0, <2>1, <2>2, <2>3, QuietPc
<1>2. CASE LogChange(r)
  <2>1. job[r] \in ChangeJob
    BY <1>0, <1>2, JobShape DEF LogChange
  <2>2. [job[r] EXCEPT !.pc = "applying"].pc = "applying"
    BY <2>1 DEF ChangeJob
  <2> QED
    BY <1>0, <1>2, <2>2, QuietPc DEF LogChange, StatusMap
<1>3. ASSUME NEW o \in Objects, NEW item \in Item, UpdateOne(r, o, item)
      PROVE  UNCHANGED Feed!feedVars
  <2> DEFINE j == [pc |-> "writing", object |-> o, item |-> item]
  <2>1. j.pc = "writing" /\ Finished(FALSE).pc = "done"
    BY DEF Finished
  <2>2. Become(r, j) \/ Become(r, Finished(FALSE))
    BY <1>3 DEF UpdateOne
  <2>3. job[r].pc = "new" /\ StatusMap' = StatusMap /\ UNCHANGED outbox
    BY <1>3 DEF UpdateOne, Arrives, StatusMap
  <2> HIDE DEF j
  <2> QED
    BY <1>0, <2>1, <2>2, <2>3, QuietPc
<1>4. CASE WriteRow(r)
  <2> DEFINE o == job[r].object
  <2>1. o \in Objects /\ job[r].item \in Item
    BY <1>0, <1>4, JobShape DEF WriteRow, WriteJob
  <2>2. StatusMap' = StatusMap
    BY <1>0, <1>4, <2>1, RowTypes DEF WriteRow, StatusMap, TypeOK
  <2>3. job'[r] = Notify({<<0, o>>})
    BY <1>0, <1>4, PendingFrame DEF WriteRow
  <2>4. PendingOf(r)' = {}
    BY <2>3, PendingShapeNext DEF Notify
  <2>5. PendingOf(r) = {}
    BY <1>4, PendingShape DEF WriteRow
  <2> QED
    BY <1>0, <1>4, <2>2, <2>4, <2>5, Silent DEF WriteRow
<1>5. ASSUME NEW batch \in Batches, NEW event \in BOOLEAN,
             CreateMultiple(r, batch, event)
      PROVE  UNCHANGED Feed!feedVars
  <2> DEFINE j == [pc |-> "creating", batch |-> batch, event |-> event,
                   unchecked |-> {i \in DOMAIN batch : batch[i].tag # Nil},
                   existing |-> {}, made |-> {}]
  <2>1. j.pc = "creating"
    OBVIOUS
  <2>2. Become(r, j)
    BY <1>5 DEF CreateMultiple
  <2>3. job[r].pc = "new" /\ StatusMap' = StatusMap /\ UNCHANGED outbox
    BY <1>5 DEF CreateMultiple, Arrives, StatusMap
  <2> HIDE DEF j
  <2> QED
    BY <1>0, <2>1, <2>2, <2>3, QuietPc
<1>6. CASE LookUpTag(r)
  <2>1. job[r] \in CreateJob
    BY <1>0, <1>6, JobShape DEF LookUpTag
  <2>2. PICK u, e : Become(r, [job[r] EXCEPT !.unchecked = u, !.existing = e])
    BY <1>6 DEF LookUpTag
  <2>3. [job[r] EXCEPT !.unchecked = u, !.existing = e].pc = "creating"
    BY <2>1 DEF CreateJob
  <2> QED
    BY <1>0, <1>6, <2>2, <2>3, QuietPc DEF LookUpTag, StatusMap
<1>7. CASE NothingToInsert(r)
  <2>1. Finished(TRUE).pc = "done"
    BY DEF Finished
  <2> QED
    BY <1>0, <1>7, <2>1, QuietPc DEF NothingToInsert, StatusMap
<1>8. ASSUME NEW t \in Types, DeleteType(r, t)
      PROVE  UNCHANGED Feed!feedVars
  <2>1. [pc |-> "retiring", type |-> t].pc = "retiring"
    OBVIOUS
  <2> QED
    BY <1>0, <1>8, <2>1, QuietPc DEF DeleteType, Arrives, StatusMap
<1>9. CASE LogRetired(r)
  <2>1. job[r] \in TypeJob
    BY <1>0, <1>9, JobShape DEF LogRetired
  <2>2. [job[r] EXCEPT !.pc = "telling"].pc = "telling"
    BY <2>1 DEF TypeJob
  <2> QED
    BY <1>0, <1>9, <2>2, QuietPc DEF LogRetired, StatusMap
<1>10. CASE NotifyReadFails(r)
  <2>1. job[r] \in NotifyJob
    BY <1>0, <1>10, JobShape DEF NotifyReadFails
  <2>2. PICK read : Become(r, [job[r] EXCEPT !.reads = @ \ {read}])
    BY <1>10 DEF NotifyReadFails
  <2>3. job'[r] = [job[r] EXCEPT !.reads = @ \ {read}]
    BY <1>0, <2>2, PendingFrame
  <2>4. job'[r].pc = "notifying" /\ job'[r].found = job[r].found
    BY <2>1, <2>3 DEF NotifyJob
  <2>5. PendingOf(r)' = PendingOf(r)
    BY <1>10, <2>4, PendingShape, PendingShapeNext DEF NotifyReadFails
  <2> QED
    BY <1>0, <1>10, <2>2, <2>5, Silent DEF NotifyReadFails, StatusMap
<1> QED
  BY <1>1, <1>2, <1>3, <1>4, <1>5, <1>6, <1>7, <1>8, <1>9, <1>10

----------------------------------------------------------------------------

LEMMA StepImplementsFeed ==
  LedgerInv /\ [Next]_vars => [Feed!FeedNext]_(Feed!feedVars)
<1> SUFFICES ASSUME LedgerInv, [Next]_vars
             PROVE  [Feed!FeedNext]_(Feed!feedVars)
  OBVIOUS
<1>1. ASSUME NEW r \in Requests, Step(r)
      PROVE  [Feed!FeedNext]_(Feed!feedVars)
  BY <1>1, ApplyIsChange, AnnounceIsTells, SendIsTells, ReadIsObserve,
     InsertIsAppear, RetireIsRetire, TypeToldIsTellsType,
     FailureIsLosesOrSilent, OtherStepsAreSilent
  DEF Step
<1>2. CASE UNCHANGED vars
  <2>1. \A r \in Requests : PendingOf(r)' = PendingOf(r)
    BY <1>2 DEF vars, PendingOf, ChangeMessage
  <2> QED
    BY <1>2, <2>1 DEF vars, Feed!feedVars
<1> QED
  BY <1>1, <1>2 DEF Next

\* The handlers, with all their intermediate states and failures, do what
\* ChangeFeed says a client may rely on: what is announced really happened,
\* once, and what was refused is not announced.
THEOREM RefinesFeed == Spec => ImplementsFeed
<1>1. Spec => []LedgerInv
  BY InitLedgerInv, LedgerInvKept, PTL DEF Spec
<1> QED
  BY <1>1, InitFeed, StepImplementsFeed, PTL DEF Spec, ImplementsFeed, Feed!FeedSpec

=============================================================================
