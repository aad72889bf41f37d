----------------------------- MODULE ChangeFeed -----------------------------
(***************************************************************************)
(* What the server promises to whoever listens to its events about         *)
(* objects: a table of statuses in which "Deleted" is final, and a feed of *)
(* messages, each telling a status that its object really had.             *)
(*                                                                         *)
(* A message is prepared when its status is read or written and told later *)
(* by the request that prepared it, so messages of different requests may  *)
(* be told in another order than the table changed.  A prepared message is *)
(* told at most once, and may be lost with its request.                    *)
(***************************************************************************)
EXTENDS Naturals, Sequences

CONSTANTS
  Objects,   \* object ids
  Types,     \* object type ids
  Requests,  \* the requests that prepare messages
  Slots      \* tell apart the messages one request prepares

Status == {"InStock", "Out", "Lost", "Resting", "Deleted"}

VARIABLES
  status,    \* the status of each object, "Absent" before it exists
  pending,   \* the messages each request has prepared and not yet told
  feed       \* the messages told, in order

feedVars == <<status, pending, feed>>

ObjectMessage == [kind: {"ObjectStatusChange", "ObjectUpdated"},
                  object: Objects, status: Status]

TypeMessage == [kind: {"ObjectTypeDeleted"}, type: Types]

Prepared == [nr: Slots, msg: ObjectMessage]

\* Types of the feed's state.
FeedTypeOK ==
  /\ status \in [Objects -> Status \cup {"Absent"}]
  /\ pending \in [Requests -> SUBSET Prepared]
  /\ feed \in Seq(ObjectMessage \cup TypeMessage)

FeedInit ==
  /\ status \in [Objects -> {"Absent", "InStock"}]
  /\ pending = [r \in Requests |-> {}]
  /\ feed = <<>>

Prepare(r, nr, m) ==
  pending' = [pending EXCEPT ![r] = @ \cup {[nr |-> nr, msg |-> m]}]

\* An object is inserted.
Appear(o) ==
  /\ status[o] = "Absent"
  /\ status' = [status EXCEPT ![o] = "InStock"]
  /\ UNCHANGED <<pending, feed>>

\* An accepted state change, with the message that tells it.
Change(r, o, s) ==
  /\ status[o] \notin {"Absent", "Deleted"}
  /\ status' = [status EXCEPT ![o] = s]
  /\ \E nr \in Slots :
       Prepare(r, nr, [kind |-> "ObjectStatusChange", object |-> o, status |-> s])
  /\ UNCHANGED feed

\* Objects retired with their type: no message tells them one by one.
Retire(S) ==
  /\ \A o \in S : status[o] # "Absent"
  /\ status' = [o \in Objects |-> IF o \in S THEN "Deleted" ELSE status[o]]
  /\ UNCHANGED <<pending, feed>>

\* An object is read for a message.
Observe(r, o) ==
  /\ status[o] # "Absent"
  /\ \E nr \in Slots :
       Prepare(r, nr, [kind |-> "ObjectUpdated", object |-> o,
                       status |-> status[o]])
  /\ UNCHANGED <<status, feed>>

Tells(r, p) ==
  /\ feed' = Append(feed, p.msg)
  /\ pending' = [pending EXCEPT ![r] = @ \ {p}]
  /\ UNCHANGED status

TellsType(t) ==
  /\ feed' = Append(feed, [kind |-> "ObjectTypeDeleted", type |-> t])
  /\ UNCHANGED <<status, pending>>

Loses(r, p) ==
  /\ pending' = [pending EXCEPT ![r] = @ \ {p}]
  /\ UNCHANGED <<status, feed>>

FeedNext ==
  \/ \E o \in Objects : Appear(o)
  \/ \E r \in Requests, o \in Objects, s \in Status : Change(r, o, s)
  \/ \E S \in SUBSET Objects : Retire(S)
  \/ \E r \in Requests, o \in Objects : Observe(r, o)
  \/ \E r \in Requests : \E p \in pending[r] : Tells(r, p) \/ Loses(r, p)
  \/ \E t \in Types : TellsType(t)

FeedSpec == FeedInit /\ [][FeedNext]_feedVars

=============================================================================
