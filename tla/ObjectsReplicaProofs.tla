------------------------ MODULE ObjectsReplicaProofs ------------------------
(***************************************************************************)
(* Theorems about ObjectsReplica, for any number of objects, connections,  *)
(* requests and messages.                                                  *)
(***************************************************************************)
EXTENDS ObjectsReplica, SseHubProofs, FiniteSetTheorems

----------------------------------------------------------------------------
(* Type correctness *)

LEMMA ChangeFeedType ==
  ASSUME Server!FeedTypeOK, Server!FeedNext
  PROVE  Server!FeedTypeOK'
<1> USE DEF Server!FeedTypeOK
<1>1. ASSUME NEW o \in Objects, Server!Appear(o) PROVE Server!FeedTypeOK'
  BY <1>1 DEF Server!Appear, Server!Status
<1>2. ASSUME NEW r \in Requests, NEW o \in Objects, NEW s \in Server!Status,
             Server!Change(r, o, s)
      PROVE  Server!FeedTypeOK'
  <2>1. PICK nr \in Slots :
          Server!Prepare(r, nr, [kind |-> "ObjectStatusChange", object |-> o, status |-> s])
    BY <1>2 DEF Server!Change
  <2>2. [nr |-> nr, msg |-> [kind |-> "ObjectStatusChange", object |-> o, status |-> s]]
          \in Server!Prepared
    BY DEF Server!Prepared, Server!ObjectMessage
  <2>3. pending' \in [Requests -> SUBSET Server!Prepared]
    BY <2>1, <2>2 DEF Server!Prepare
  <2> QED
    BY <1>2, <2>3 DEF Server!Change
<1>3. ASSUME NEW S \in SUBSET Objects, Server!Retire(S) PROVE Server!FeedTypeOK'
  BY <1>3 DEF Server!Retire, Server!Status
<1>4. ASSUME NEW r \in Requests, NEW o \in Objects, Server!Observe(r, o)
      PROVE  Server!FeedTypeOK'
  <2>1. PICK nr \in Slots :
          Server!Prepare(r, nr, [kind |-> "ObjectUpdated", object |-> o, status |-> status[o]])
    BY <1>4 DEF Server!Observe
  <2>2. status[o] \in Server!Status
    BY <1>4 DEF Server!Observe
  <2>3. [nr |-> nr, msg |-> [kind |-> "ObjectUpdated", object |-> o, status |-> status[o]]]
          \in Server!Prepared
    BY <2>2 DEF Server!Prepared, Server!ObjectMessage
  <2>4. pending' \in [Requests -> SUBSET Server!Prepared]
    BY <2>1, <2>3 DEF Server!Prepare
  <2> QED
    BY <1>4, <2>4 DEF Server!Observe
<1>5. ASSUME NEW r \in Requests, NEW p \in pending[r], Server!Tells(r, p) \/ Server!Loses(r, p)
      PROVE  Server!FeedTypeOK'
  <2>1. p.msg \in Server!ObjectMessage
    BY DEF Server!Prepared
  <2> QED
    BY <1>5, <2>1 DEF Server!Tells, Server!Loses
<1>6. ASSUME NEW t \in Types, Server!TellsType(t) PROVE Server!FeedTypeOK'
  <2>1. [kind |-> "ObjectTypeDeleted", type |-> t] \in Server!TypeMessage
    BY DEF Server!TypeMessage
  <2> QED
    BY <1>6, <2>1 DEF Server!TellsType
<1> QED
  BY <1>1, <1>2, <1>3, <1>4, <1>5, <1>6 DEF Server!FeedNext

\* Every step of the server is a step of ChangeFeed.
LEMMA ServerIsFeed ==
  ASSUME ServerNext
  PROVE  [Server!FeedNext]_(Server!feedVars)
<1>1. CASE ServerChanges
  BY <1>1 DEF ServerChanges, Server!FeedNext
<1>2. CASE ServerChangesAndPrepares
  BY <1>2, ReplicaAssumption DEF ServerChangesAndPrepares, Server!FeedNext
<1>3. CASE ServerObserves
  BY <1>3 DEF ServerObserves, Server!FeedNext
<1>4. CASE ServerTells
  BY <1>4 DEF ServerTells, Server!FeedNext
<1>5. CASE ServerTellsType
  BY <1>5 DEF ServerTellsType, Server!FeedNext
<1>6. CASE ServerLoses
  BY <1>6 DEF ServerLoses, Server!FeedNext
<1> QED
  BY <1>1, <1>2, <1>3, <1>4, <1>5, <1>6 DEF ServerNext

Budget == [changes: 0..MaxChanges, messages: 0..MaxMessages, failures: 0..MaxGetFailures]

LEMMA SpendType ==
  ASSUME left \in Budget, NEW what \in {"changes", "messages", "failures"}, Spend(what)
  PROVE  left' \in Budget
<1>1. left[what] - 1 \in Nat /\ left[what] - 1 <= left[what] /\ left[what] \in Nat
  BY ReplicaAssumption DEF Budget, Spend
<1>2. CASE what = "changes"
  BY <1>1, <1>2, ReplicaAssumption DEF Budget, Spend
<1>3. CASE what = "messages"
  BY <1>1, <1>3, ReplicaAssumption DEF Budget, Spend
<1>4. CASE what = "failures"
  BY <1>1, <1>4, ReplicaAssumption DEF Budget, Spend
<1> QED
  BY <1>2, <1>3, <1>4

LEMMA ServerType ==
  ASSUME ReplicaTypeOK, ServerNext
  PROVE  ReplicaTypeOK'
<1>1. Server!FeedTypeOK'
  <2>1. CASE Server!FeedNext
    BY <2>1, ChangeFeedType DEF ReplicaTypeOK
  <2>2. CASE UNCHANGED Server!feedVars
    BY <2>2 DEF ReplicaTypeOK, Server!FeedTypeOK, Server!feedVars
  <2> QED
    BY <2>1, <2>2, ServerIsFeed
<1>2. HubTypeOK'
  <2>1. CASE UNCHANGED hubVars
    BY <2>1 DEF ReplicaTypeOK, HubTypeOK, hubVars
  <2>2. CASE ServerTells
    <3>1. PICK r \in Requests : \E q \in pending[r] : Send(q.msg)
      BY <2>2 DEF ServerTells
    <3>2. PICK p \in pending[r] : Send(p.msg)
      BY <3>1
    <3>3. p.msg \in Events
      BY ReplicaAssumption DEF ReplicaTypeOK, Server!FeedTypeOK, Server!Prepared
    <3> QED
      BY <3>2, <3>3, SendType DEF ReplicaTypeOK
  <2>3. CASE ServerTellsType
    <3>1. PICK t \in Types : Send([kind |-> "ObjectTypeDeleted", type |-> t])
      BY <2>3 DEF ServerTellsType
    <3>2. [kind |-> "ObjectTypeDeleted", type |-> t] \in Events
      BY ReplicaAssumption DEF Server!TypeMessage
    <3> QED
      BY <3>1, <3>2, SendType DEF ReplicaTypeOK
  <2> QED
    BY <2>1, <2>2, <2>3
       DEF ServerNext, ServerChanges, ServerChangesAndPrepares, ServerObserves, ServerLoses
<1>3. left' \in Budget
  <2>1. left \in Budget
    BY DEF ReplicaTypeOK, Budget
  <2>2. CASE UNCHANGED left
    BY <2>1, <2>2
  <2>3. CASE Spend("changes") \/ Spend("messages")
    BY <2>1, <2>3, SpendType
  <2>4. CASE ServerChangesAndPrepares
    <3>1. /\ left.changes \in 0..MaxChanges /\ left.messages \in 0..MaxMessages
          /\ left.changes > 0 /\ left.messages > 0
      BY <2>1, <2>4 DEF ServerChangesAndPrepares, Budget
    <3>2. left.changes - 1 \in 0..MaxChanges /\ left.messages - 1 \in 0..MaxMessages
      BY <3>1, ReplicaAssumption
    <3> QED
      BY <2>1, <2>4, <3>2 DEF ServerChangesAndPrepares, Budget
  <2> QED
    BY <2>2, <2>3, <2>4
       DEF ServerNext, ServerChanges, ServerObserves, ServerTells, ServerTellsType, ServerLoses
<1>4. known' \in [Objects -> SUBSET Server!Status]
  <2>1. CASE UNCHANGED known
    BY <2>1 DEF ReplicaTypeOK
  <2>2. CASE Remember
    BY <1>1, <2>2 DEF ReplicaTypeOK, Remember, Server!FeedTypeOK
  <2> QED
    BY <2>1, <2>2 DEF ServerNext, ServerChanges, ServerChangesAndPrepares, ServerObserves,
       ServerTells, ServerTellsType, ServerLoses
<1>5. UNCHANGED <<linkVars, listVars>>
  BY DEF ServerNext, ServerChanges, ServerChangesAndPrepares, ServerObserves,
     ServerTells, ServerTellsType, ServerLoses
<1> QED
  BY <1>1, <1>2, <1>3, <1>4, <1>5 DEF ReplicaTypeOK, linkVars, listVars, Budget

\* A set of positions that is not empty has a last one.
LEMMA LastPosition ==
  ASSUME NEW n \in Nat, NEW S \in SUBSET (1..n), S # {}
  PROVE  Max(S) \in S
<1> DEFINE After(i) == {j \in S : j > i}
           T == {After(i) : i \in S}
<1>1. IsFiniteSet(1..n)
  BY FS_Interval
<1>2. \A A \in SUBSET S : IsFiniteSet(A)
  BY <1>1, FS_Subset
<1>3. T \subseteq FiniteSubsetsOf(S) /\ T # {}
  BY <1>2 DEF FiniteSubsetsOf
<1> HIDE DEF T
<1>4. PICK A \in T : \A B \in T : <<B, A>> \notin StrictSubsetOrdering(S)
  BY <1>3, FS_StrictSubsetOrderingWellFounded, WFMin
<1>5. PICK m \in S : A = After(m)
  BY DEF T
<1>6. \A i \in S : m >= i
  <2> SUFFICES ASSUME NEW i \in S, i > m PROVE FALSE
    OBVIOUS
  <2>1. After(i) \in T
    BY DEF T
  <2>2. After(i) \subseteq After(m) /\ i \in After(m) /\ i \notin After(i)
    <3>1. i \in Int /\ m \in Int /\ \A j \in S : j \in Int
      OBVIOUS
    <3>2. ~(i > i)
      BY <3>1
    <3>3. \A j \in S : j > i => j > m
      BY <3>1
    <3> QED
      BY <3>2, <3>3
  <2>3. <<After(i), A>> \in StrictSubsetOrdering(S)
    BY <1>5, <2>2 DEF StrictSubsetOrdering
  <2> QED
    BY <1>4, <2>1, <2>3
<1> QED
  BY <1>6 DEF Max

\* The updates of a list keep its type.
LEMMA UpdatedType ==
  ASSUME NEW m \in Server!ObjectMessage, NEW list \in Lists
  PROVE  Updated(m, list) \in Lists
BY DEF Updated, Lists, Server!ObjectMessage

LEMMA WithWaitingType ==
  ASSUME ReplicaTypeOK, NEW list \in Lists
  PROVE  /\ WithWaiting(list) \in Lists
         /\ WithWaiting(list) = list
              \/ \E i \in DOMAIN waiting : WithWaiting(list) = Updated(waiting[i], list)
<1> DEFINE applied == {i \in DOMAIN waiting : Applies(waiting[i], list)}
<1>1. CASE applied = {}
  BY <1>1 DEF WithWaiting
<1>2. CASE applied # {}
  <2>1. waiting \in Seq(Server!ObjectMessage)
    BY DEF ReplicaTypeOK
  <2>2. Len(waiting) \in Nat /\ DOMAIN waiting = 1..Len(waiting)
    BY <2>1, LenProperties
  <2>3. Max(applied) \in applied
    BY <1>2, <2>2, LastPosition
  <2>4. waiting[Max(applied)] \in Server!ObjectMessage
    BY <2>1, <2>2, <2>3, ElementOfSeq
  <2>5. WithWaiting(list) = Updated(waiting[Max(applied)], list)
    BY <1>2 DEF WithWaiting
  <2> QED
    BY <2>3, <2>4, <2>5, UpdatedType
<1> QED
  BY <1>1, <1>2

LEMMA AskType ==
  ASSUME get \in Gets, Ask
  PROVE  get' \in Gets
BY DEF Ask, Gets

LEMMA ListType ==
  ASSUME ReplicaTypeOK, ListNext
  PROVE  ReplicaTypeOK'
<1>1. CASE Refresh
  BY <1>1, AskType DEF Refresh, ReplicaTypeOK, HubTypeOK, hubVars, serverVars, linkVars,
     Server!FeedTypeOK
<1>2. CASE ServerAnswers
  <2>1. [o \in Objects |-> Visible(o)] \in Lists
    BY DEF ReplicaTypeOK, Server!FeedTypeOK, Visible, Lists
  <2>2. Len(feed) \in Nat
    BY DEF ReplicaTypeOK, Server!FeedTypeOK
  <2>3. get' \in Gets
    BY <1>2, <2>1, <2>2 DEF ServerAnswers, Gets
  <2> QED
    BY <1>2, <2>3 DEF ServerAnswers, ReplicaTypeOK, HubTypeOK, hubVars, serverVars, linkVars,
       Server!FeedTypeOK
<1>3. CASE AnswerArrives
  <2>1. get.list \in Lists /\ get.at \in Nat
    BY <1>3 DEF AnswerArrives, ReplicaTypeOK, Gets
  <2>2. WithWaiting(get.list) \in Lists
    BY <2>1, WithWaitingType
  <2>3. get' \in Gets /\ waiting' \in Seq(Server!ObjectMessage)
    BY <1>3 DEF AnswerArrives, Gets
  <2> QED
    BY <1>3, <2>1, <2>2, <2>3 DEF AnswerArrives, ReplicaTypeOK, HubTypeOK, hubVars,
       serverVars, linkVars, Server!FeedTypeOK
<1>4. CASE GetFails
  <2>1. get' \in Gets /\ waiting' \in Seq(Server!ObjectMessage)
    BY <1>4 DEF GetFails, Gets
  <2>2. left' \in Budget
    BY <1>4, SpendType DEF GetFails, ReplicaTypeOK, Budget
  <2> QED
    BY <1>4, <2>1, <2>2 DEF GetFails, ReplicaTypeOK, Budget, HubTypeOK, hubVars, linkVars,
       Server!FeedTypeOK
<1>5. CASE EmbedAgain
  BY <1>5 DEF EmbedAgain, ReplicaTypeOK, HubTypeOK, hubVars, serverVars, linkVars,
     Server!FeedTypeOK
<1> QED
  BY <1>1, <1>2, <1>3, <1>4, <1>5 DEF ListNext

----------------------------------------------------------------------------
(* Nothing is invented.  A message is honest when it tells a status that   *)
(* its object has had; so is a list of such statuses.  What is honest      *)
(* stays so, as the history only grows.                                    *)

Honest ==
  Server!TypeMessage \cup {m \in Server!ObjectMessage : m.status \in known[m.object]}

HonestLists ==
  {list \in Lists : \A o \in Objects : list[o] # "Absent" => list[o] \in known[o]}

\* Everything on its way to the browser is in H.
Carries(H) ==
  /\ mailbox \in Seq(SubscribeMsg \cup [kind: {"Send"}, event: H])
  /\ queue \in [Connections -> Seq(H)]
  /\ stream \in [Connections -> Seq(H)]

HistoryInv ==
  /\ ReplicaTypeOK
  /\ \A r \in Requests : \A p \in pending[r] : p.msg \in Honest
  /\ Carries(Honest)
  /\ waiting \in Seq(Honest)
  /\ status \in HonestLists /\ base \in HonestLists /\ shown \in HonestLists
  /\ get.phase = "answered" => get.list \in HonestLists

LEMMA HonestStays ==
  ASSUME \A o \in Objects : known[o] \subseteq known'[o]
  PROVE  Honest \subseteq Honest' /\ HonestLists \subseteq HonestLists'
<1>1. \A m \in Server!ObjectMessage : m.object \in Objects
  BY DEF Server!ObjectMessage
<1> QED
  BY <1>1 DEF Honest, HonestLists

LEMMA CarriesReceived ==
  ASSUME NEW H, Carries(H), ReceiveSubscribe \/ ReceiveSend
  PROVE  Carries(H)'
<1> DEFINE Msg == SubscribeMsg \cup [kind: {"Send"}, event: H]
<1>1. mailbox \in Seq(Msg) /\ mailbox # <<>> /\ mailbox' = Tail(mailbox)
  BY DEF Carries, ReceiveSubscribe, ReceiveSend
<1>2. Head(mailbox) \in Msg /\ Tail(mailbox) \in Seq(Msg)
  BY <1>1, HeadTailProperties
<1>3. CASE ReceiveSubscribe
  BY <1>1, <1>2, <1>3 DEF Carries, ReceiveSubscribe
<1>4. CASE ReceiveSend
  <2>1. Head(mailbox).event \in H
    BY <1>2, <1>4 DEF ReceiveSend, SubscribeMsg
  <2>2. queue' \in [Connections -> Seq(H)]
    BY <1>4, <2>1 DEF ReceiveSend, Carries
  <2> QED
    BY <1>1, <1>2, <1>4, <2>2 DEF Carries, ReceiveSend
<1> QED
  BY <1>3, <1>4

LEMMA CarriesStep ==
  ASSUME NEW H, Carries(H), HubStep
  PROVE  Carries(H)'
<1>1. ASSUME NEW c \in Connections, Pull(c) PROVE Carries(H)'
  <2>1. queue[c] \in Seq(H) /\ queue[c] # <<>> /\ stream[c] \in Seq(H)
    BY <1>1 DEF Carries, Pull
  <2>2. Head(queue[c]) \in H /\ Tail(queue[c]) \in Seq(H)
    BY <2>1, HeadTailProperties
  <2> QED
    BY <1>1, <2>1, <2>2 DEF Carries, Pull
<1> QED
  BY <1>1, CarriesReceived DEF HubStep

LEMMA CarriesSubscribe ==
  ASSUME NEW H, Carries(H), NEW c \in Connections, Subscribe(c)
  PROVE  Carries(H)'
<1>1. [kind |-> "Subscribe", conn |-> c] \in SubscribeMsg
  BY DEF SubscribeMsg
<1> QED
  BY <1>1 DEF Carries, Subscribe

LEMMA CarriesSend ==
  ASSUME NEW H, Carries(H), NEW e \in H, Send(e)
  PROVE  Carries(H)'
BY DEF Carries, Send

LEMMA CarriesCancel ==
  ASSUME NEW H, Carries(H), NEW c \in Connections, Cancel(c)
  PROVE  Carries(H)'
BY EmptySeq DEF Carries, Cancel

----------------------------------------------------------------------------

LEMMA ConnectType ==
  ASSUME ReplicaTypeOK, NEW again \in BOOLEAN, NEW c \in Connections, Connect(again, c)
  PROVE  ReplicaTypeOK'
<1>1. HubTypeOK'
  BY SubscribeType DEF ReplicaTypeOK, Connect
<1>2. due' \in [BOOLEAN -> Nat]
  BY DEF ReplicaTypeOK, Connect
<1> QED
  BY <1>1, <1>2 DEF ReplicaTypeOK, Connect, serverVars, listVars, Server!FeedTypeOK

LEMMA OpensType ==
  ASSUME ReplicaTypeOK, NEW c \in Connections, Opens(c)
  PROVE  ReplicaTypeOK'
<1>1. get' \in Gets
  BY AskType DEF ReplicaTypeOK, Opens
<1> QED
  BY <1>1 DEF ReplicaTypeOK, Opens, serverVars, hubVars, HubTypeOK, Server!FeedTypeOK

LEMMA BreaksType ==
  ASSUME ReplicaTypeOK, NEW c \in Connections, Breaks(c)
  PROVE  ReplicaTypeOK'
<1>1. HubTypeOK'
  BY CancelType DEF ReplicaTypeOK, Breaks
<1>2. due' \in [BOOLEAN -> Nat]
  BY DEF ReplicaTypeOK, Breaks
<1> QED
  BY <1>1, <1>2 DEF ReplicaTypeOK, Breaks, serverVars, listVars, Server!FeedTypeOK

\* The event that a listener is called with.
LEMMA Dispatched ==
  ASSUME HistoryInv, NEW c \in Connections, Dispatch(c)
  PROVE  /\ stream[c][read[c] + 1] \in Honest
         /\ read[c] + 1 \in Nat
<1>1. stream[c] \in Seq(Honest) /\ read[c] \in Nat /\ read[c] < Len(stream[c])
  BY DEF HistoryInv, ReplicaTypeOK, Carries, Dispatch
<1>2. read[c] + 1 \in 1..Len(stream[c])
  <2>1. Len(stream[c]) \in Nat
    BY <1>1, LenProperties
  <2> QED
    BY <1>1, <2>1
<1> QED
  BY <1>1, <1>2, ElementOfSeq

LEMMA DispatchType ==
  ASSUME HistoryInv, NEW c \in Connections, Dispatch(c)
  PROVE  ReplicaTypeOK'
<1> DEFINE m == stream[c][read[c] + 1]
<1>1. m \in Honest /\ read[c] + 1 \in Nat
  BY Dispatched
<1>2. m.kind = "ObjectTypeDeleted" \/ m \in Server!ObjectMessage
  BY <1>1 DEF Honest, Server!TypeMessage
<1> HIDE DEF m
<1>3. shown' \in Lists /\ waiting' \in Seq(Server!ObjectMessage)
  <2>1. shown \in Lists /\ waiting \in Seq(Server!ObjectMessage)
    BY DEF HistoryInv, ReplicaTypeOK
  <2>2. CASE UNCHANGED <<shown, waiting>>
    BY <2>1, <2>2
  <2>3. CASE m \in Server!ObjectMessage /\ shown' = Updated(m, shown) /\ UNCHANGED waiting
    BY <2>1, <2>3, UpdatedType
  <2>4. CASE m \in Server!ObjectMessage /\ waiting' = Append(waiting, m) /\ UNCHANGED shown
    BY <2>1, <2>4
  <2> QED
    BY <1>2, <2>2, <2>3, <2>4 DEF Dispatch, m
<1>4. read' \in [Connections -> Nat]
  BY <1>1 DEF HistoryInv, ReplicaTypeOK, Dispatch
<1> QED
  BY <1>3, <1>4 DEF HistoryInv, ReplicaTypeOK, Dispatch, serverVars, hubVars, HubTypeOK,
     Server!FeedTypeOK

LEMMA HubRunsType ==
  ASSUME ReplicaTypeOK, HubRuns
  PROVE  ReplicaTypeOK'
<1>1. HubTypeOK'
  BY ReceiveSubscribeType, ReceiveSendType, PullType DEF ReplicaTypeOK, HubRuns, HubStep
<1> QED
  BY <1>1 DEF ReplicaTypeOK, HubRuns, serverVars, linkVars, listVars, Server!FeedTypeOK

LEMMA StutterType ==
  ASSUME ReplicaTypeOK, UNCHANGED vars
  PROVE  ReplicaTypeOK'
BY DEF ReplicaTypeOK, vars, hubVars, serverVars, linkVars, listVars, HubTypeOK,
   Server!FeedTypeOK

LEMMA TypeStep ==
  ASSUME HistoryInv, [Next]_vars
  PROVE  ReplicaTypeOK'
<1>1. ReplicaTypeOK
  BY DEF HistoryInv
<1> QED
  BY <1>1, ServerType, HubRunsType, ConnectType, OpensType, BreaksType, DispatchType,
     ListType, StutterType
     DEF Next, LinkNext

LEMMA TypeInit == Init => ReplicaTypeOK
<1> SUFFICES ASSUME Init PROVE ReplicaTypeOK
  OBVIOUS
<1>1. HubTypeOK
  BY HubTypeInit DEF Init
<1>2. Server!FeedTypeOK
  BY EmptySeq DEF Init, Server!FeedInit, Server!FeedTypeOK, Server!Status
<1>3. left \in [changes: 0..MaxChanges, messages: 0..MaxMessages, failures: 0..MaxGetFailures]
  BY ReplicaAssumption DEF Init
<1>4. known \in [Objects -> SUBSET Server!Status]
  BY <1>2 DEF Init, Server!FeedTypeOK
<1>5. waiting \in Seq(Server!ObjectMessage)
  BY EmptySeq DEF Init
<1> QED
  BY <1>1, <1>2, <1>3, <1>4, <1>5 DEF Init, ReplicaTypeOK, Gets, Lists

\* The parts of HistoryInv that are about the server.
ServerHonest ==
  /\ \A r \in Requests : \A p \in pending[r] : p.msg \in Honest
  /\ Carries(Honest)
  /\ status \in HonestLists

\* Those about the list.
ListHonest ==
  /\ waiting \in Seq(Honest)
  /\ base \in HonestLists /\ shown \in HonestLists
  /\ get.phase = "answered" => get.list \in HonestLists

LEMMA ListHonestStays ==
  ASSUME ListHonest, UNCHANGED <<waiting, base, shown, get>>,
         \A o \in Objects : known[o] \subseteq known'[o]
  PROVE  ListHonest'
<1>1. Honest \subseteq Honest' /\ HonestLists \subseteq HonestLists'
  BY HonestStays
<1>2. waiting \in Seq(Honest')
  BY <1>1, SeqMonotonic DEF ListHonest
<1> QED
  BY <1>1, <1>2 DEF ListHonest

LEMMA ServerHonestStays ==
  ASSUME ServerHonest, UNCHANGED <<serverVars, hubVars>>
  PROVE  ServerHonest'
BY DEF ServerHonest, serverVars, hubVars, Carries, Honest, HonestLists

LEMMA ServerHonestStep ==
  ASSUME HistoryInv, ReplicaTypeOK', ServerNext
  PROVE  /\ ServerHonest'
         /\ \A o \in Objects : known[o] \subseteq known'[o]
<1>1. \A o \in Objects : known[o] \subseteq known'[o]
  <2>1. CASE UNCHANGED known
    BY <2>1
  <2>2. CASE Remember
    BY <2>2 DEF Remember
  <2> QED
    BY <2>1, <2>2 DEF ServerNext, ServerChanges, ServerChangesAndPrepares, ServerObserves,
       ServerTells, ServerTellsType, ServerLoses
<1>2. Honest \subseteq Honest' /\ HonestLists \subseteq HonestLists'
  BY <1>1, HonestStays
<1>3. ServerHonest
  BY DEF HistoryInv, ServerHonest
<1>4. status' \in HonestLists'
  <2>1. status' \in Lists
    BY DEF ReplicaTypeOK, Server!FeedTypeOK, Lists
  <2>2. CASE Remember
    BY <2>1, <2>2 DEF Remember, HonestLists
  <2>3. CASE UNCHANGED status
    BY <1>2, <1>3, <2>3 DEF ServerHonest
  <2> QED
    BY <2>2, <2>3 DEF ServerNext, ServerChanges, ServerChangesAndPrepares, ServerObserves,
       ServerTells, ServerTellsType, ServerLoses, Server!Observe, Server!Tells,
       Server!TellsType, Server!Loses
<1>5. Carries(Honest)'
  <2>1. PICK H : H = Honest
    OBVIOUS
  <2>2. Carries(H)
    BY <1>3, <2>1 DEF ServerHonest
  <2>3. ASSUME UNCHANGED hubVars PROVE Carries(H)'
    BY <2>2, <2>3 DEF Carries, hubVars
  <2>4. ASSUME NEW e \in H, Send(e) PROVE Carries(H)'
    BY <2>2, <2>4, CarriesSend
  <2>5. ServerTells => \E e \in H : Send(e)
    BY <1>3, <2>1 DEF ServerTells, ServerHonest
  <2>6. ServerTellsType => \E e \in H : Send(e)
    BY <2>1 DEF ServerTellsType, Honest, Server!TypeMessage
  <2>7. Carries(H)'
    BY <2>3, <2>4, <2>5, <2>6
       DEF ServerNext, ServerChanges, ServerChangesAndPrepares, ServerObserves, ServerLoses
  <2>8. H \subseteq Honest'
    BY <1>2, <2>1
  <2>9. PICK G : G = Honest'
    OBVIOUS
  <2>10. \A s \in Seq(H) : s \in Seq(G)
    BY <2>8, <2>9, SeqMonotonic
  <2>11. \A s \in Seq(SubscribeMsg \cup [kind: {"Send"}, event: H]) :
           s \in Seq(SubscribeMsg \cup [kind: {"Send"}, event: G])
    <3>1. SubscribeMsg \cup [kind: {"Send"}, event: H]
            \subseteq SubscribeMsg \cup [kind: {"Send"}, event: G]
      BY <2>8, <2>9
    <3> QED
      BY <3>1, SeqMonotonic
  <2> QED
    BY <2>7, <2>9, <2>10, <2>11 DEF Carries
<1>6. ASSUME NEW q \in Requests, NEW p \in pending'[q] PROVE p.msg \in Honest'
  <2>1. p \in pending[q] => p.msg \in Honest'
    BY <1>2, <1>3 DEF ServerHonest
  <2>2. ASSUME NEW r \in Requests, NEW nr \in Slots, NEW m \in Honest', Server!Prepare(r, nr, m)
        PROVE  p.msg \in Honest'
    BY <1>6, <2>1, <2>2 DEF Server!Prepare, HistoryInv, ReplicaTypeOK, Server!FeedTypeOK
  <2>3. CASE \A r \in Requests : pending'[r] \subseteq pending[r]
    BY <1>6, <2>1, <2>3
  <2>4. CASE ServerChangesAndPrepares
    <3>1. PICK r \in Requests, o \in Objects, s \in Targets : Server!Change(r, o, s)
      BY <2>4 DEF ServerChangesAndPrepares
    <3>2. PICK nr \in Slots :
            Server!Prepare(r, nr, [kind |-> "ObjectStatusChange", object |-> o, status |-> s])
      BY <3>1 DEF Server!Change
    <3>3. s \in Server!Status /\ s # "Absent" /\ status'[o] = s
      BY <3>1, ReplicaAssumption
         DEF Server!Change, Server!Status, HistoryInv, ReplicaTypeOK, Server!FeedTypeOK
    <3>4. s \in known'[o]
      BY <2>4, <3>3 DEF ServerChangesAndPrepares, Remember
    <3>5. [kind |-> "ObjectStatusChange", object |-> o, status |-> s] \in Honest'
      BY <3>3, <3>4 DEF Honest, Server!ObjectMessage
    <3> QED
      BY <2>2, <3>2, <3>5
  <2>5. CASE ServerObserves
    <3>1. PICK r \in Requests, o \in Objects : Server!Observe(r, o)
      BY <2>5 DEF ServerObserves
    <3>2. PICK nr \in Slots :
            Server!Prepare(r, nr,
                           [kind |-> "ObjectUpdated", object |-> o, status |-> status[o]])
      BY <3>1 DEF Server!Observe
    <3>3. status[o] \in Server!Status /\ status[o] \in known'[o]
      BY <1>1, <1>3, <3>1
         DEF Server!Observe, ServerHonest, HonestLists, Lists
    <3>4. [kind |-> "ObjectUpdated", object |-> o, status |-> status[o]] \in Honest'
      BY <3>3 DEF Honest, Server!ObjectMessage
    <3> QED
      BY <2>2, <3>2, <3>4
  <2>6. CASE ServerChanges \/ ServerTells \/ ServerTellsType \/ ServerLoses
    <3>1. pending \in [Requests -> SUBSET Server!Prepared]
      BY DEF HistoryInv, ReplicaTypeOK, Server!FeedTypeOK
    <3>2. \A r \in Requests : pending'[r] \subseteq pending[r]
      BY <2>6, <3>1 DEF ServerChanges, ServerTells, ServerTellsType, ServerLoses,
         Server!Appear, Server!Retire, Server!Tells, Server!TellsType, Server!Loses
    <3> QED
      BY <2>3, <3>2
  <2> QED
    BY <2>4, <2>5, <2>6 DEF ServerNext
<1> QED
  BY <1>1, <1>4, <1>5, <1>6 DEF ServerHonest

\* An honest event makes an honest list of one.
LEMMA UpdatedHonest ==
  ASSUME NEW m \in Honest, m \in Server!ObjectMessage, NEW list \in HonestLists
  PROVE  Updated(m, list) \in HonestLists
<1>1. m.status \in known[m.object] /\ m.object \in Objects
  BY DEF Honest, Server!ObjectMessage, Server!TypeMessage
<1>2. list \in Lists /\ Updated(m, list) \in Lists
  BY UpdatedType DEF HonestLists
<1> QED
  BY <1>1, <1>2 DEF Updated, HonestLists, Lists

LEMMA WithWaitingHonest ==
  ASSUME HistoryInv, NEW list \in HonestLists
  PROVE  WithWaiting(list) \in HonestLists
<1>1. ReplicaTypeOK /\ list \in Lists
  BY DEF HistoryInv, HonestLists
<1>2. CASE WithWaiting(list) = list
  BY <1>2
<1>3. ASSUME NEW i \in DOMAIN waiting, WithWaiting(list) = Updated(waiting[i], list)
      PROVE  WithWaiting(list) \in HonestLists
  <2>1. waiting \in Seq(Honest) /\ waiting \in Seq(Server!ObjectMessage)
    BY DEF HistoryInv, ReplicaTypeOK
  <2>2. i \in 1..Len(waiting)
    BY <2>1, LenProperties
  <2>3. waiting[i] \in Honest /\ waiting[i] \in Server!ObjectMessage
    BY <2>1, <2>2, ElementOfSeq
  <2> QED
    BY <1>3, <2>3, UpdatedHonest
<1> QED
  BY <1>1, <1>2, <1>3, WithWaitingType

LEMMA ListHonestStep ==
  ASSUME HistoryInv, ListNext
  PROVE  ListHonest'
<1>1. ListHonest /\ status \in HonestLists /\ ReplicaTypeOK
  BY DEF HistoryInv, ListHonest
<1>2. UNCHANGED known
  BY DEF ListNext, Refresh, ServerAnswers, AnswerArrives, GetFails, EmbedAgain, serverVars
<1>3. Honest' = Honest /\ HonestLists' = HonestLists
  BY <1>2 DEF Honest, HonestLists
<1>4. CASE Refresh
  BY <1>1, <1>3, <1>4 DEF Refresh, Ask, ListHonest
<1>5. CASE ServerAnswers
  <2>1. [o \in Objects |-> Visible(o)] \in HonestLists
    BY <1>1 DEF HonestLists, Lists, Visible
  <2> QED
    BY <1>1, <1>3, <1>5, <2>1 DEF ServerAnswers, ListHonest
<1>6. CASE AnswerArrives
  <2>1. get.list \in HonestLists
    BY <1>1, <1>6 DEF AnswerArrives, ListHonest
  <2>2. WithWaiting(get.list) \in HonestLists
    BY <2>1, WithWaitingHonest
  <2>3. <<>> \in Seq(Honest)
    BY EmptySeq
  <2> QED
    BY <1>3, <1>6, <2>1, <2>2, <2>3 DEF AnswerArrives, ListHonest
<1>7. CASE GetFails
  <2>1. <<>> \in Seq(Honest)
    BY EmptySeq
  <2> QED
    BY <1>1, <1>3, <1>7, <2>1 DEF GetFails, ListHonest
<1>8. CASE EmbedAgain
  BY <1>1, <1>3, <1>8 DEF EmbedAgain, ListHonest
<1> QED
  BY <1>4, <1>5, <1>6, <1>7, <1>8 DEF ListNext

LEMMA DispatchHonest ==
  ASSUME HistoryInv, NEW c \in Connections, Dispatch(c)
  PROVE  ListHonest'
<1> DEFINE m == stream[c][read[c] + 1]
<1>1. m \in Honest
  BY Dispatched
<1>2. m.kind = "ObjectTypeDeleted" \/ m \in Server!ObjectMessage
  BY <1>1 DEF Honest, Server!TypeMessage
<1> HIDE DEF m
<1>3. ListHonest
  BY DEF HistoryInv, ListHonest
<1>4. UNCHANGED <<known, base, get>>
  BY DEF Dispatch, serverVars
<1>5. Honest' = Honest /\ HonestLists' = HonestLists
  BY <1>4 DEF Honest, HonestLists
<1>6. shown' \in HonestLists /\ waiting' \in Seq(Honest)
  <2>1. shown \in HonestLists /\ waiting \in Seq(Honest)
    BY <1>3 DEF ListHonest
  <2>2. CASE UNCHANGED <<shown, waiting>>
    BY <2>1, <2>2
  <2>3. CASE m \in Server!ObjectMessage /\ shown' = Updated(m, shown) /\ UNCHANGED waiting
    BY <1>1, <2>1, <2>3, UpdatedHonest
  <2>4. CASE waiting' = Append(waiting, m) /\ UNCHANGED shown
    BY <1>1, <2>1, <2>4
  <2> QED
    BY <1>2, <2>2, <2>3, <2>4 DEF Dispatch, m
<1> QED
  BY <1>3, <1>4, <1>5, <1>6 DEF ListHonest

LEMMA LinkHonestStep ==
  ASSUME HistoryInv, LinkNext
  PROVE  ListHonest' /\ ServerHonest'
<1>1. ListHonest /\ ServerHonest
  BY DEF HistoryInv, ListHonest, ServerHonest
<1>2. UNCHANGED serverVars
  BY DEF LinkNext, Connect, Opens, Breaks, Dispatch
<1>3. Honest' = Honest /\ HonestLists' = HonestLists
  BY <1>2 DEF Honest, HonestLists, serverVars
<1>4. Carries(Honest)'
  <2>1. PICK H : H = Honest
    OBVIOUS
  <2>2. Carries(H)
    BY <1>1, <2>1 DEF ServerHonest
  <2>3. Carries(H)'
    <3>1. ASSUME UNCHANGED hubVars PROVE Carries(H)'
      BY <2>2, <3>1 DEF Carries, hubVars
    <3> QED
      BY <2>2, <3>1, CarriesSubscribe, CarriesCancel
         DEF LinkNext, Connect, Opens, Breaks, Dispatch
  <2> QED
    BY <1>3, <2>1, <2>3 DEF Carries
<1>5. ServerHonest'
  BY <1>1, <1>2, <1>3, <1>4 DEF ServerHonest, serverVars
<1>6. ListHonest'
  <2>1. ASSUME UNCHANGED listVars PROVE ListHonest'
    BY <1>1, <1>3, <2>1 DEF ListHonest, listVars
  <2>2. ASSUME NEW c \in Connections, Opens(c) PROVE ListHonest'
    BY <1>1, <1>3, <2>2 DEF ListHonest, Opens, Ask
  <2> QED
    BY <2>1, <2>2, DispatchHonest DEF LinkNext, Connect, Breaks
<1> QED
  BY <1>5, <1>6

LEMMA HubHonestStep ==
  ASSUME HistoryInv, HubRuns
  PROVE  ListHonest' /\ ServerHonest'
<1>1. ListHonest /\ ServerHonest
  BY DEF HistoryInv, ListHonest, ServerHonest
<1>2. UNCHANGED <<serverVars, listVars>> /\ HubStep
  BY DEF HubRuns
<1>3. Honest' = Honest /\ HonestLists' = HonestLists
  BY <1>2 DEF Honest, HonestLists, serverVars
<1>4. Carries(Honest)'
  <2>1. PICK H : H = Honest
    OBVIOUS
  <2>2. Carries(H)'
    BY <1>1, <1>2, <2>1, CarriesStep DEF ServerHonest
  <2> QED
    BY <1>3, <2>1, <2>2 DEF Carries
<1> QED
  BY <1>1, <1>2, <1>3, <1>4 DEF ServerHonest, ListHonest, serverVars, listVars

LEMMA HistoryStep ==
  ASSUME HistoryInv, [Next]_vars
  PROVE  HistoryInv'
<1>1. ReplicaTypeOK'
  BY TypeStep
<1>2. ListHonest' /\ ServerHonest'
  <2>1. ListHonest /\ ServerHonest
    BY DEF HistoryInv, ListHonest, ServerHonest
  <2>2. CASE ServerNext
    <3>1. UNCHANGED <<waiting, base, shown, get>>
      BY <2>2 DEF ServerNext, ServerChanges, ServerChangesAndPrepares, ServerObserves,
         ServerTells, ServerTellsType, ServerLoses, listVars
    <3> QED
      BY <1>1, <2>1, <2>2, <3>1, ServerHonestStep, ListHonestStays
  <2>3. CASE ListNext
    <3>1. ServerHonest'
      <4>1. UNCHANGED <<hubVars, status, pending, known>>
        BY <2>3 DEF ListNext, Refresh, ServerAnswers, AnswerArrives, GetFails, EmbedAgain,
           serverVars
      <4> QED
        BY <2>1, <4>1 DEF ServerHonest, hubVars, Carries, Honest, HonestLists
    <3> QED
      BY <2>3, <3>1, ListHonestStep
  <2>4. CASE UNCHANGED vars
    <3>1. ServerHonest'
      BY <2>1, <2>4, ServerHonestStays DEF vars
    <3>2. ListHonest'
      BY <2>1, <2>4 DEF ListHonest, vars, listVars, serverVars, Honest, HonestLists
    <3> QED
      BY <3>1, <3>2
  <2> QED
    BY <2>2, <2>3, <2>4, LinkHonestStep, HubHonestStep DEF Next
<1> QED
  BY <1>1, <1>2 DEF HistoryInv, ListHonest, ServerHonest

LEMMA HistoryInit == Init => HistoryInv
<1> SUFFICES ASSUME Init PROVE HistoryInv
  OBVIOUS
<1>1. ReplicaTypeOK
  BY TypeInit
<1>2. Carries(Honest)
  BY EmptySeq DEF Init, HubInit, Carries
<1>3. waiting \in Seq(Honest)
  BY EmptySeq DEF Init
<1>4. status \in HonestLists /\ base \in HonestLists /\ shown \in HonestLists
  BY <1>1 DEF Init, HonestLists, Lists, ReplicaTypeOK, Server!FeedTypeOK
<1> QED
  BY <1>1, <1>2, <1>3, <1>4 DEF Init, HistoryInv, Server!FeedInit

\* Every part of the state of the server, the streams and the browser's list
\* has its type.  The list's own part rests on HistoryInv, as a listener takes
\* its event from a stream.
THEOREM ReplicaTypeCorrect == Spec => []ReplicaTypeOK
<1>1. HistoryInv => ReplicaTypeOK
  BY DEF HistoryInv
<1> QED
  BY <1>1, HistoryInit, HistoryStep, PTL DEF Spec

\* Whatever was lost, late, repeated or overwritten on the way, an object is
\* never shown with a status that it has not had (ObjectsService.updateLocalObject
\* and its pipeline of GET /objects/complete).
THEOREM NothingInvented == Spec => []NeverInvented
<1>1. HistoryInv => NeverInvented
  BY DEF HistoryInv, HonestLists, NeverInvented
<1> QED
  BY <1>1, HistoryInit, HistoryStep, PTL DEF Spec

----------------------------------------------------------------------------
(* The streams of this system are those of SseHub: the browser subscribes  *)
(* each connection once and breaks only what it has subscribed.            *)

ConnInv ==
  \A c \in Connections :
    /\ conn[c] = "unused" => Fresh(c)
    /\ conn[c] \in {"connecting", "open"} => ~Fresh(c)

\* The mailbox gets longer at its end.
LEMMA MailboxGrows ==
  ASSUME HubTypeOK, NEW m \in SubscribeMsg \cup SendMsg, mailbox' = Append(mailbox, m)
  PROVE  /\ \A i \in DOMAIN mailbox : i \in DOMAIN mailbox' /\ mailbox'[i] = mailbox[i]
         /\ \A i \in DOMAIN mailbox' : i \in DOMAIN mailbox \/ mailbox'[i] = m
         /\ \E i \in DOMAIN mailbox' : mailbox'[i] = m
<1>1. /\ Len(mailbox) \in Nat /\ DOMAIN mailbox = 1..Len(mailbox)
      /\ DOMAIN mailbox' = 1..(Len(mailbox) + 1)
      /\ mailbox'[Len(mailbox) + 1] = m
      /\ \A i \in 1..Len(mailbox) : mailbox'[i] = mailbox[i]
  BY DEF HubTypeOK
<1> QED
  BY <1>1

\* Taking its first message away moves the others by one.
LEMMA MailboxShrinks ==
  ASSUME HubTypeOK, mailbox # <<>>, mailbox' = Tail(mailbox)
  PROVE  /\ \A i \in DOMAIN mailbox' : i + 1 \in DOMAIN mailbox /\ mailbox'[i] = mailbox[i + 1]
         /\ \A i \in DOMAIN mailbox : mailbox[i] = Head(mailbox)
              \/ \E j \in DOMAIN mailbox' : mailbox'[j] = mailbox[i]
<1>1. mailbox \in Seq(SubscribeMsg \cup SendMsg)
  BY DEF HubTypeOK
<1>2. /\ Len(mailbox) \in Nat /\ DOMAIN mailbox = 1..Len(mailbox)
      /\ DOMAIN mailbox' = 1..(Len(mailbox) - 1)
      /\ Head(mailbox) = mailbox[1]
      /\ \A i \in 1..(Len(mailbox) - 1) : mailbox'[i] = mailbox[i + 1]
  BY <1>1, HeadTailProperties, LenProperties
<1>3. ASSUME NEW i \in DOMAIN mailbox, i # 1
      PROVE  \E j \in DOMAIN mailbox' : mailbox'[j] = mailbox[i]
  <2>1. i - 1 \in 1..(Len(mailbox) - 1) /\ (i - 1) + 1 = i
    BY <1>2, <1>3
  <2> QED
    BY <1>2, <2>1
<1> QED
  BY <1>2, <1>3

LEMMA FreshStays ==
  ASSUME HubTypeOK, NEW c \in Connections, Fresh(c),
         \/ \E e \in Events : Send(e)
         \/ HubStep
         \/ \E d \in Connections \ {c} : Subscribe(d) \/ Cancel(d)
  PROVE  Fresh(c)'
<1>1. ASSUME NEW e \in Events, Send(e) PROVE Fresh(c)'
  <2>1. [kind |-> "Send", event |-> e] \in SendMsg
    BY DEF SendMsg
  <2>2. [kind |-> "Send", event |-> e].kind # [kind |-> "Subscribe", conn |-> c].kind
    OBVIOUS
  <2> QED
    BY <1>1, <2>1, <2>2, MailboxGrows DEF Send, Fresh, SubscribesAt
<1>2. ASSUME NEW d \in Connections \ {c}, Subscribe(d) PROVE Fresh(c)'
  <2>1. [kind |-> "Subscribe", conn |-> d] \in SubscribeMsg
    BY DEF SubscribeMsg
  <2>2. [kind |-> "Subscribe", conn |-> d].conn # [kind |-> "Subscribe", conn |-> c].conn
    OBVIOUS
  <2> QED
    BY <1>2, <2>1, <2>2, MailboxGrows DEF Subscribe, Fresh, SubscribesAt
<1>3. ASSUME NEW d \in Connections \ {c}, Cancel(d) PROVE Fresh(c)'
  BY <1>3 DEF Cancel, Fresh, SubscribesAt, HubTypeOK
<1>4. CASE ReceiveSubscribe \/ ReceiveSend
  <2>1. \A i \in DOMAIN mailbox' : ~SubscribesAt(i, c)'
    BY <1>4, MailboxShrinks DEF ReceiveSubscribe, ReceiveSend, Fresh, SubscribesAt
  <2>2. CASE ReceiveSubscribe
    <3>1. Head(mailbox) \in SubscribeMsg /\ Head(mailbox) = mailbox[1] /\ 1 \in DOMAIN mailbox
      BY <2>2, HeadTailProperties, LenProperties, EmptySeq
         DEF HubTypeOK, ReceiveSubscribe, SubscribeMsg, SendMsg
    <3>2. Head(mailbox) = [kind |-> "Subscribe", conn |-> Head(mailbox).conn]
      BY <3>1 DEF SubscribeMsg
    <3>3. Head(mailbox).conn # c
      BY <3>1, <3>2 DEF Fresh, SubscribesAt
    <3> QED
      BY <2>1, <2>2, <3>3 DEF ReceiveSubscribe, Fresh
  <2>3. CASE ReceiveSend
    BY <2>1, <2>3 DEF ReceiveSend, Fresh, StillSubscribed
  <2> QED
    BY <1>4, <2>2, <2>3
<1>5. ASSUME NEW d \in Connections, Pull(d) PROVE Fresh(c)'
  <2>1. c # d
    BY <1>5 DEF Pull, Fresh
  <2> QED
    BY <1>5, <2>1 DEF Pull, Fresh, SubscribesAt, HubTypeOK
<1> QED
  BY <1>1, <1>2, <1>3, <1>4, <1>5 DEF HubStep

\* A connection is known to the hub for ever: its Subscribe waits, it is
\* subscribed, it was dropped with something in its queue, or it is over.
LEMMA KnownStays ==
  ASSUME HubTypeOK, NEW c \in Connections, ~Fresh(c), HubNext
  PROVE  ~Fresh(c)'
<1>1. ASSUME NEW e \in Events, Send(e) PROVE ~Fresh(c)'
  <2>1. [kind |-> "Send", event |-> e] \in SendMsg
    BY DEF SendMsg
  <2> QED
    BY <1>1, <2>1, MailboxGrows DEF Send, Fresh, SubscribesAt
<1>2. ASSUME NEW d \in Connections, Subscribe(d) PROVE ~Fresh(c)'
  <2>1. [kind |-> "Subscribe", conn |-> d] \in SubscribeMsg
    BY DEF SubscribeMsg
  <2> QED
    BY <1>2, <2>1, MailboxGrows DEF Subscribe, Fresh, SubscribesAt
<1>3. ASSUME NEW d \in Connections, Cancel(d) PROVE ~Fresh(c)'
  BY <1>3 DEF Cancel, Fresh, SubscribesAt, HubTypeOK
<1>4. CASE ReceiveSubscribe
  <2>1. ASSUME NEW i \in DOMAIN mailbox, SubscribesAt(i, c) PROVE ~Fresh(c)'
    <3>1. CASE mailbox[i] = Head(mailbox)
      <4>1. Head(mailbox).conn = c
        BY <2>1, <3>1 DEF SubscribesAt
      <4> QED
        BY <1>4, <4>1 DEF ReceiveSubscribe, Fresh
    <3>2. CASE \E j \in DOMAIN mailbox' : mailbox'[j] = mailbox[i]
      BY <2>1, <3>2 DEF Fresh, SubscribesAt
    <3> QED
      BY <1>4, <3>1, <3>2, MailboxShrinks DEF ReceiveSubscribe
  <2> QED
    BY <1>4, <2>1 DEF ReceiveSubscribe, Fresh
<1>5. CASE ReceiveSend
  <2>1. ASSUME NEW i \in DOMAIN mailbox, SubscribesAt(i, c) PROVE ~Fresh(c)'
    <3>1. mailbox[i] # Head(mailbox)
      BY <1>5, <2>1 DEF SubscribesAt, ReceiveSend
    <3>2. \E j \in DOMAIN mailbox' : mailbox'[j] = mailbox[i]
      BY <1>5, <3>1, MailboxShrinks DEF ReceiveSend
    <3> QED
      BY <2>1, <3>2 DEF Fresh, SubscribesAt
  <2>2. ASSUME c \in subscribers, ~Accepts(c) PROVE ~Fresh(c)'
    <3>1. c \in cancelled \/ queue[c] # <<>>
      BY <2>2, EmptySeq, HubAssumption DEF Accepts
    <3>2. queue'[c] = queue[c]
      BY <1>5, <2>2 DEF ReceiveSend
    <3> QED
      BY <1>5, <3>1, <3>2 DEF ReceiveSend, Fresh
  <2>3. ASSUME c \in subscribers, Accepts(c) PROVE ~Fresh(c)'
    BY <1>5, <2>3 DEF ReceiveSend, StillSubscribed, Fresh
  <2>4. ASSUME c \notin subscribers, \A i \in DOMAIN mailbox : ~SubscribesAt(i, c)
        PROVE  ~Fresh(c)'
    BY <1>5, <2>4 DEF ReceiveSend, Fresh
  <2> QED
    BY <2>1, <2>2, <2>3, <2>4
<1>6. ASSUME NEW d \in Connections, Pull(d) PROVE ~Fresh(c)'
  <2>1. CASE c = d
    <3>1. stream[d] \in Seq(Events) /\ Head(queue[d]) \in Events
      BY <1>6, HeadTailProperties DEF HubTypeOK, Pull
    <3>2. stream'[d] = Append(stream[d], Head(queue[d]))
      BY <1>6 DEF Pull, HubTypeOK
    <3>3. stream'[d] # <<>>
      BY <3>1, <3>2
    <3> QED
      BY <2>1, <3>3 DEF Fresh
  <2>2. CASE c # d
    BY <1>6, <2>2 DEF Pull, Fresh, SubscribesAt, HubTypeOK
  <2> QED
    BY <2>1, <2>2
<1> QED
  BY <1>1, <1>2, <1>3, <1>4, <1>5, <1>6 DEF HubNext, HubStep

\* What one step of the system is to the hub.
LEMMA HubSees ==
  ASSUME HistoryInv, [Next]_vars
  PROVE  \/ UNCHANGED hubVars /\ UNCHANGED conn
         \/ UNCHANGED hubVars /\ \E c \in Connections : Opens(c)
         \/ HubStep /\ UNCHANGED conn
         \/ (\E e \in Events : Send(e)) /\ UNCHANGED conn
         \/ \E c \in Connections, again \in BOOLEAN : Connect(again, c)
         \/ \E c \in Connections : Breaks(c)
<1>1. ASSUME ServerTells PROVE \E e \in Events : Send(e)
  <2>1. PICK r \in Requests : \E q \in pending[r] : Send(q.msg)
    BY <1>1 DEF ServerTells
  <2>2. PICK p \in pending[r] : Send(p.msg)
    BY <2>1
  <2>3. p.msg \in Events
    BY ReplicaAssumption DEF HistoryInv, ReplicaTypeOK, Server!FeedTypeOK, Server!Prepared
  <2> QED
    BY <2>2, <2>3
<1>2. ASSUME ServerTellsType PROVE \E e \in Events : Send(e)
  <2>1. PICK t \in Types : Send([kind |-> "ObjectTypeDeleted", type |-> t])
    BY <1>2 DEF ServerTellsType
  <2>2. [kind |-> "ObjectTypeDeleted", type |-> t] \in Events
    BY ReplicaAssumption DEF Server!TypeMessage
  <2> QED
    BY <2>1, <2>2
<1>3. CASE ServerNext
  BY <1>1, <1>2, <1>3 DEF ServerNext, ServerChanges, ServerChangesAndPrepares,
     ServerObserves, ServerTells, ServerTellsType, ServerLoses, linkVars
<1>4. CASE HubRuns
  BY <1>4 DEF HubRuns, linkVars
<1>5. CASE LinkNext
  BY <1>5 DEF LinkNext, Dispatch, Opens
<1>6. CASE ListNext
  BY <1>6 DEF ListNext, Refresh, ServerAnswers, AnswerArrives, GetFails, EmbedAgain, linkVars
<1>7. CASE UNCHANGED vars
  BY <1>7 DEF vars, linkVars
<1> QED
  BY <1>3, <1>4, <1>5, <1>6, <1>7 DEF Next

LEMMA HubImplemented ==
  ASSUME HistoryInv, ConnInv, [Next]_vars
  PROVE  [HubNext]_hubVars
<1>1. ASSUME NEW c \in Connections, NEW again \in BOOLEAN, Connect(again, c) PROVE HubNext
  BY <1>1 DEF Connect, ConnInv, HubNext
<1>2. ASSUME NEW c \in Connections, Breaks(c) PROVE HubNext
  BY <1>2 DEF Breaks, ConnInv, HubNext
<1> QED
  BY <1>1, <1>2, HubSees DEF HubNext

LEMMA ConnStep ==
  ASSUME HistoryInv, ConnInv, [Next]_vars
  PROVE  ConnInv'
<1>1. HubTypeOK /\ conn \in [Connections -> {"unused", "connecting", "open", "closed"}]
  BY DEF HistoryInv, ReplicaTypeOK
<1>2. [HubNext]_hubVars
  BY HubImplemented
<1>3. ASSUME NEW c \in Connections, ~Fresh(c) PROVE ~Fresh(c)'
  BY <1>1, <1>2, <1>3, KnownStays DEF hubVars, Fresh, SubscribesAt
<1>4. ASSUME NEW c \in Connections
      PROVE  /\ conn'[c] = "unused" => Fresh(c)'
             /\ conn'[c] \in {"connecting", "open"} => ~Fresh(c)'
  <2>1. CASE UNCHANGED hubVars /\ (UNCHANGED conn \/ \E d \in Connections : Opens(d))
    <3>1. Fresh(c)' = Fresh(c)
      BY <2>1 DEF hubVars, Fresh, SubscribesAt
    <3>2. conn'[c] = conn[c] \/ (conn[c] = "connecting" /\ conn'[c] = "open")
      BY <1>1, <2>1 DEF Opens
    <3> QED
      BY <3>1, <3>2 DEF ConnInv
  <2>2. CASE (HubStep \/ \E e \in Events : Send(e)) /\ UNCHANGED conn
    BY <1>1, <1>3, <2>2, FreshStays DEF ConnInv
  <2>3. ASSUME NEW d \in Connections, NEW again \in BOOLEAN, Connect(again, d)
        PROVE  /\ conn'[c] = "unused" => Fresh(c)'
               /\ conn'[c] \in {"connecting", "open"} => ~Fresh(c)'
    <3>1. CASE c = d
      <4>1. [kind |-> "Subscribe", conn |-> d] \in SubscribeMsg
        BY DEF SubscribeMsg
      <4>2. ~Fresh(d)'
        BY <1>1, <2>3, <4>1, MailboxGrows DEF Connect, Subscribe, Fresh, SubscribesAt
      <4>3. conn'[d] = "connecting"
        BY <1>1, <2>3 DEF Connect
      <4> QED
        BY <3>1, <4>2, <4>3
    <3>2. CASE c # d
      <4>1. conn'[c] = conn[c] /\ Subscribe(d) /\ d \in Connections \ {c}
        BY <2>3, <3>2, <1>1 DEF Connect
      <4> QED
        BY <1>1, <1>3, <4>1, FreshStays DEF ConnInv
    <3> QED
      BY <3>1, <3>2
  <2>4. ASSUME NEW d \in Connections, Breaks(d)
        PROVE  /\ conn'[c] = "unused" => Fresh(c)'
               /\ conn'[c] \in {"connecting", "open"} => ~Fresh(c)'
    <3>1. CASE c = d
      BY <1>1, <2>4, <3>1 DEF Breaks
    <3>2. CASE c # d
      <4>1. conn'[c] = conn[c] /\ Cancel(d) /\ d \in Connections \ {c}
        BY <2>4, <3>2, <1>1 DEF Breaks
      <4> QED
        BY <1>1, <1>3, <4>1, FreshStays DEF ConnInv
    <3> QED
      BY <3>1, <3>2
  <2> QED
    BY <2>1, <2>2, <2>3, <2>4, HubSees
<1> QED
  BY <1>4 DEF ConnInv

LEMMA ConnInit == Init => ConnInv
<1> SUFFICES ASSUME Init PROVE ConnInv
  OBVIOUS
<1>1. DOMAIN <<>> = {}
  OBVIOUS
<1> QED
  BY <1>1 DEF Init, HubInit, ConnInv, Fresh

\* The streams of the whole system behave as SseHub says.
THEOREM ImplementsHub == Spec => HubSpec
<1>1. Init => HubInit
  BY DEF Init
<1>2. HistoryInv /\ ConnInv /\ [Next]_vars => HistoryInv' /\ ConnInv' /\ [HubNext]_hubVars
  BY HistoryStep, ConnStep, HubImplemented
<1> QED
  BY <1>1, <1>2, HistoryInit, ConnInit, PTL DEF Spec, HubSpec

\* Therefore no stream of any browser has a gap, however many there are.
THEOREM ReplicaStreamsUnbroken == Spec => []Unbroken
<1> QED
  BY ImplementsHub, StreamsUnbroken, PTL

----------------------------------------------------------------------------
(* A reconnection misses nothing: the mailbox numbers its messages.  What  *)
(* the feed has told was fanned out or still is in the mailbox, so that a  *)
(* connection is subscribed before the events that are told after it was   *)
(* opened.                                                                 *)

\* n[i] is how many events have been fanned out once the first i messages of
\* the mailbox are received.
IsCount(n) ==
  /\ n \in [0..Len(mailbox) -> Nat]
  /\ n[0] = Len(sent)
  /\ \A i \in 1..Len(mailbox) :
        n[i] = n[i - 1] + (IF mailbox[i].kind = "Send" THEN 1 ELSE 0)
  /\ \A i, j \in 0..Len(mailbox) : i <= j => n[i] <= n[j]
  /\ n[Len(mailbox)] <= Len(feed)

\* A list read when at events were told has all that c was not given.
Covered(c, n, at) ==
  /\ c \in subscribers => from[c] <= at
  /\ \A i \in 1..Len(mailbox) : SubscribesAt(i, c) => n[i] <= at

RenewedCovered(c, n) ==
  conn[c] = "open" /\ renews[c] /\ ~failed =>
    /\ get.phase = "answered" => Covered(c, n, get.at)
    /\ get.phase = "none" => loaded /\ Covered(c, n, baseAt)

GapInv ==
  /\ \A c \in Connections : from[c] <= Len(sent)
  /\ \E n \in [0..Len(mailbox) -> Nat] :
       IsCount(n) /\ \A c \in Connections : RenewedCovered(c, n)

LEMMA MailboxNumbers ==
  ASSUME HubTypeOK
  PROVE  /\ Len(mailbox) \in Nat /\ DOMAIN mailbox = 1..Len(mailbox)
         /\ Len(sent) \in Nat
BY LenProperties DEF HubTypeOK

LEMMA CountAppended ==
  ASSUME HubTypeOK, NEW m \in SubscribeMsg \cup SendMsg, mailbox' = Append(mailbox, m),
         sent' = sent, NEW n, IsCount(n), Len(feed) \in Nat, Len(feed') \in Nat,
         Len(feed) + (IF m.kind = "Send" THEN 1 ELSE 0) <= Len(feed')
  PROVE  \E k \in [0..Len(mailbox') -> Nat] :
            IsCount(k)' /\ \A i \in 0..Len(mailbox) : k[i] = n[i]
<1> DEFINE L == Len(mailbox)
           more == IF m.kind = "Send" THEN 1 ELSE 0
           numbers == [i \in 0..(L + 1) |-> IF i <= L THEN n[i] ELSE n[L] + more]
<1>1. /\ L \in Nat /\ Len(mailbox') = L + 1
      /\ mailbox'[L + 1] = m
      /\ \A i \in 1..L : mailbox'[i] = mailbox[i]
  BY DEF HubTypeOK
<1>2. more \in {0, 1}
  OBVIOUS
<1>3. \A i \in 0..L : n[i] \in Nat
  BY DEF IsCount
<1>4. numbers \in [0..(L + 1) -> Nat]
  BY <1>1, <1>2, <1>3
<1>5. PICK k \in [0..(L + 1) -> Nat] : k = numbers
  BY <1>4
<1>6. (\A i \in 0..L : k[i] = n[i]) /\ k[L + 1] = n[L] + more
  BY <1>1, <1>5
<1>7. k[0] = Len(sent')
  BY <1>1, <1>6 DEF IsCount
<1>8. ASSUME NEW i \in 1..(L + 1)
      PROVE  k[i] = k[i - 1] + (IF mailbox'[i].kind = "Send" THEN 1 ELSE 0)
  <2>1. CASE i = L + 1
    BY <1>1, <1>6, <2>1
  <2>2. CASE i # L + 1
    <3>1. i \in 1..L /\ i \in 0..L /\ i - 1 \in 0..L
      BY <1>1, <2>2
    <3> QED
      BY <1>1, <1>6, <3>1 DEF IsCount
  <2> QED
    BY <2>1, <2>2
<1>9. ASSUME NEW i \in 0..(L + 1), NEW j \in 0..(L + 1), i <= j
      PROVE  k[i] <= k[j]
  <2>1. CASE j # L + 1
    <3>1. i \in 0..L /\ j \in 0..L
      BY <1>1, <1>9, <2>1
    <3> QED
      BY <1>6, <1>9, <3>1 DEF IsCount
  <2>2. CASE j = L + 1 /\ i # L + 1
    <3>1. i \in 0..L /\ L \in 0..L /\ i <= L
      BY <1>1, <2>2
    <3>2. n[i] <= n[L]
      BY <3>1 DEF IsCount
    <3> QED
      BY <1>2, <1>3, <1>6, <2>2, <3>1, <3>2
  <2>3. CASE i = j
    BY <2>3
  <2> QED
    BY <1>9, <2>1, <2>2, <2>3
<1>10. k[L + 1] <= Len(feed')
  <2>1. n[L] <= Len(feed) /\ L \in 0..L
    BY <1>1 DEF IsCount
  <2> QED
    BY <1>2, <1>3, <1>6, <2>1
<1> HIDE DEF numbers, more
<1>11. IsCount(k)'
  BY <1>1, <1>7, <1>8, <1>9, <1>10 DEF IsCount
<1> QED
  BY <1>1, <1>6, <1>11

LEMMA CountTaken ==
  ASSUME HubTypeOK, mailbox # <<>>, mailbox' = Tail(mailbox),
         Len(sent') = Len(sent) + (IF Head(mailbox).kind = "Send" THEN 1 ELSE 0),
         feed' = feed, NEW n, IsCount(n)
  PROVE  \E k \in [0..Len(mailbox') -> Nat] :
            IsCount(k)' /\ \A i \in 0..Len(mailbox') : k[i] = n[i + 1]
<1> DEFINE L == Len(mailbox)
           numbers == [i \in 0..(L - 1) |-> n[i + 1]]
<1>1. mailbox \in Seq(SubscribeMsg \cup SendMsg)
  BY DEF HubTypeOK
<1>2. /\ L \in Nat \ {0} /\ Len(mailbox') = L - 1
      /\ Head(mailbox) = mailbox[1]
      /\ \A i \in 1..(L - 1) : mailbox'[i] = mailbox[i + 1]
  BY <1>1, HeadTailProperties, LenProperties, EmptySeq
<1>3. \A i \in 0..(L - 1) : i + 1 \in 0..L /\ i + 1 \in 1..L
  BY <1>2
<1>4. numbers \in [0..(L - 1) -> Nat]
  BY <1>3 DEF IsCount
<1>5. PICK k \in [0..(L - 1) -> Nat] : k = numbers
  BY <1>4
<1>6. \A i \in 0..(L - 1) : k[i] = n[i + 1]
  BY <1>5
<1>7. k[0] = Len(sent')
  <2>1. 0 \in 0..(L - 1) /\ 1 \in 1..L /\ 1 - 1 = 0
    BY <1>2
  <2>2. n[1] = n[0] + (IF mailbox[1].kind = "Send" THEN 1 ELSE 0)
    BY <2>1 DEF IsCount
  <2> QED
    BY <1>2, <1>6, <2>1, <2>2 DEF IsCount
<1>8. ASSUME NEW i \in 1..(L - 1)
      PROVE  k[i] = k[i - 1] + (IF mailbox'[i].kind = "Send" THEN 1 ELSE 0)
  <2>1. i \in 0..(L - 1) /\ i - 1 \in 0..(L - 1) /\ i + 1 \in 1..L /\ (i - 1) + 1 = i /\ (i + 1) - 1 = i
    BY <1>2
  <2>2. n[i + 1] = n[(i + 1) - 1] + (IF mailbox[i + 1].kind = "Send" THEN 1 ELSE 0)
    BY <2>1 DEF IsCount
  <2> QED
    BY <1>2, <1>6, <2>1, <2>2
<1>9. ASSUME NEW i \in 0..(L - 1), NEW j \in 0..(L - 1), i <= j
      PROVE  k[i] <= k[j]
  <2>1. i + 1 <= j + 1
    BY <1>2, <1>9
  <2> QED
    BY <1>3, <1>6, <2>1 DEF IsCount
<1>10. k[L - 1] <= Len(feed')
  <2>1. L - 1 \in 0..(L - 1) /\ (L - 1) + 1 = L
    BY <1>2
  <2> QED
    BY <1>6, <2>1 DEF IsCount
<1> HIDE DEF numbers
<1>11. IsCount(k)'
  BY <1>2, <1>7, <1>8, <1>9, <1>10 DEF IsCount
<1> QED
  BY <1>2, <1>6, <1>11

\* Every event that was fanned out was told.
LEMMA SentIsTold ==
  ASSUME HubTypeOK, Len(feed) \in Nat, NEW n, IsCount(n)
  PROVE  /\ Len(sent) <= Len(feed)
         /\ \A i \in 1..Len(mailbox) : n[i] <= Len(feed)
<1>1. Len(mailbox) \in Nat
  BY MailboxNumbers
<1>2. \A i \in 0..Len(mailbox) : n[i] \in Nat /\ n[i] <= n[Len(mailbox)]
  BY <1>1 DEF IsCount
<1>3. 0 \in 0..Len(mailbox) /\ Len(mailbox) \in 0..Len(mailbox)
      /\ \A i \in 1..Len(mailbox) : i \in 0..Len(mailbox)
  BY <1>1
<1> QED
  BY <1>2, <1>3 DEF IsCount

\* A step that leaves the mailbox, the feed and who is subscribed alone.
LEMMA SameCount ==
  ASSUME NEW n, IsCount(n), UNCHANGED <<mailbox, sent, feed>>
  PROVE  IsCount(n)'
BY DEF IsCount

LEMMA GapList ==
  ASSUME HistoryInv, GapInv, ListNext
  PROVE  GapInv'
<1>1. HubTypeOK /\ Len(feed) \in Nat
  BY LenProperties DEF HistoryInv, ReplicaTypeOK, Server!FeedTypeOK
<1>2. UNCHANGED <<mailbox, sent, feed, subscribers, from, conn, renews>>
  BY DEF ListNext, Refresh, ServerAnswers, AnswerArrives, GetFails, EmbedAgain,
     hubVars, linkVars, serverVars
<1>3. PICK n \in [0..Len(mailbox) -> Nat] :
        IsCount(n) /\ \A c \in Connections : RenewedCovered(c, n)
  BY DEF GapInv
<1>4. IsCount(n)'
  BY <1>2, <1>3, SameCount
<1>5. Len(sent) <= Len(feed) /\ \A i \in 1..Len(mailbox) : n[i] <= Len(feed)
  BY <1>1, <1>3, SentIsTold
<1>6. \A c \in Connections : from[c] <= Len(sent)
  BY DEF GapInv
<1>7. ASSUME NEW c \in Connections PROVE Covered(c, n, Len(feed))
  <2>1. from[c] <= Len(feed)
    BY <1>1, <1>5, <1>6, MailboxNumbers DEF HubTypeOK
  <2> QED
    BY <1>5, <2>1 DEF Covered
<1>9. ASSUME NEW c \in Connections PROVE RenewedCovered(c, n)'
  <2>0. RenewedCovered(c, n)
    BY <1>3
  <2>1. CASE Refresh
    BY <2>1 DEF Refresh, Ask, RenewedCovered
  <2>2. CASE ServerAnswers
    <3>1. get'.phase = "answered" /\ get'.at = Len(feed)
      BY <2>2 DEF ServerAnswers
    <3>2. Covered(c, n, get.at)'
      BY <1>2, <1>7, <3>1 DEF Covered, SubscribesAt
    <3> QED
      BY <3>1, <3>2 DEF RenewedCovered
  <2>3. CASE AnswerArrives
    <3>1. /\ get.phase = "answered" /\ get'.phase = "none" /\ loaded'
          /\ baseAt' = get.at /\ failed' = failed
      BY <2>3 DEF AnswerArrives
    <3>2. conn'[c] = "open" /\ renews'[c] /\ ~failed' => Covered(c, n, baseAt)'
      BY <1>2, <2>0, <3>1 DEF Covered, SubscribesAt, RenewedCovered
    <3> QED
      BY <3>1, <3>2 DEF RenewedCovered
  <2>4. CASE GetFails
    BY <2>4 DEF GetFails, RenewedCovered
  <2>5. CASE EmbedAgain
    BY <1>2, <2>0, <2>5 DEF EmbedAgain, RenewedCovered, Covered, SubscribesAt
  <2> QED
    BY <2>1, <2>2, <2>3, <2>4, <2>5 DEF ListNext
<1>10. (\A c \in Connections : from[c] <= Len(sent))'
  BY <1>2, <1>6
<1> QED
  BY <1>2, <1>3, <1>4, <1>9, <1>10 DEF GapInv

\* What was covered stays so when the mailbox gets longer, but for the one
\* who subscribes.
LEMMA CoveredAppended ==
  ASSUME HubTypeOK, NEW m \in SubscribeMsg \cup SendMsg, mailbox' = Append(mailbox, m),
         UNCHANGED <<subscribers, from>>, NEW n, NEW k,
         \A i \in 0..Len(mailbox) : k[i] = n[i],
         NEW c \in Connections, m # [kind |-> "Subscribe", conn |-> c],
         NEW at, Covered(c, n, at)
  PROVE  /\ c \in subscribers' => from'[c] <= at
         /\ \A i \in 1..Len(mailbox') : SubscribesAt(i, c)' => k[i] <= at
<1>1. /\ Len(mailbox) \in Nat /\ Len(mailbox') = Len(mailbox) + 1
      /\ mailbox'[Len(mailbox) + 1] = m
      /\ \A i \in 1..Len(mailbox) : mailbox'[i] = mailbox[i]
  BY DEF HubTypeOK
<1>2. ASSUME NEW i \in 1..Len(mailbox'), SubscribesAt(i, c)' PROVE k[i] <= at
  <2>1. i # Len(mailbox) + 1
    BY <1>1, <1>2 DEF SubscribesAt
  <2>2. i \in 1..Len(mailbox) /\ i \in 0..Len(mailbox)
    BY <1>1, <2>1
  <2> QED
    BY <1>1, <1>2, <2>2 DEF Covered, SubscribesAt
<1> QED
  BY <1>2 DEF Covered

LEMMA GapAppended ==
  ASSUME HistoryInv, GapInv, NEW m \in SubscribeMsg \cup SendMsg,
         mailbox' = Append(mailbox, m), UNCHANGED <<subscribers, from, sent>>,
         UNCHANGED <<get, loaded, failed, baseAt>>,
         \A c \in Connections : conn'[c] = "open" =>
            conn[c] = "open" /\ renews'[c] = renews[c] /\ m # [kind |-> "Subscribe", conn |-> c],
         Len(feed') \in Nat,
         Len(feed) + (IF m.kind = "Send" THEN 1 ELSE 0) <= Len(feed')
  PROVE  GapInv'
<1>1. HubTypeOK /\ Len(feed) \in Nat
  BY LenProperties DEF HistoryInv, ReplicaTypeOK, Server!FeedTypeOK
<1>2. PICK n \in [0..Len(mailbox) -> Nat] :
        IsCount(n) /\ \A c \in Connections : RenewedCovered(c, n)
  BY DEF GapInv
<1>3. PICK k \in [0..Len(mailbox') -> Nat] :
        IsCount(k)' /\ \A i \in 0..Len(mailbox) : k[i] = n[i]
  BY <1>1, <1>2, CountAppended
<1>4. ASSUME NEW c \in Connections, conn'[c] = "open", renews'[c], ~failed'
      PROVE  /\ get'.phase = "answered" => Covered(c, k, get.at)'
             /\ get'.phase = "none" => loaded' /\ Covered(c, k, baseAt)'
  <2>1. /\ conn[c] = "open" /\ renews[c] /\ ~failed
        /\ get' = get /\ loaded' = loaded /\ baseAt' = baseAt
        /\ m # [kind |-> "Subscribe", conn |-> c]
    BY <1>4
  <2>2. ASSUME NEW at, Covered(c, n, at)
        PROVE  /\ c \in subscribers' => from'[c] <= at
               /\ \A i \in 1..Len(mailbox') : SubscribesAt(i, c)' => k[i] <= at
    BY <1>1, <1>3, <2>1, <2>2, CoveredAppended
  <2>3. get.phase = "answered" => Covered(c, k, get.at)'
    <3>1. get.phase = "answered" => Covered(c, n, get.at)
      BY <1>2, <2>1 DEF RenewedCovered
    <3> QED
      BY <2>1, <2>2, <3>1 DEF Covered
  <2>4. get.phase = "none" => loaded /\ Covered(c, k, baseAt)'
    <3>1. get.phase = "none" => loaded /\ Covered(c, n, baseAt)
      BY <1>2, <2>1 DEF RenewedCovered
    <3> QED
      BY <2>1, <2>2, <3>1 DEF Covered
  <2> QED
    BY <2>1, <2>3, <2>4
<1>5. \A c \in Connections : RenewedCovered(c, k)'
  BY <1>4 DEF RenewedCovered
<1>6. (\A c \in Connections : from[c] <= Len(sent))'
  BY DEF GapInv
<1> QED
  BY <1>3, <1>5, <1>6 DEF GapInv

\* What was covered stays so when the first message is taken.
LEMMA CoveredTaken ==
  ASSUME HubTypeOK, mailbox # <<>>, mailbox' = Tail(mailbox),
         NEW n, NEW k, IsCount(n), \A i \in 0..Len(mailbox') : k[i] = n[i + 1],
         NEW c \in Connections, NEW at, Covered(c, n, at),
         c \in subscribers' =>
            \/ c \in subscribers /\ from'[c] = from[c]
            \/ Head(mailbox) = [kind |-> "Subscribe", conn |-> c] /\ from'[c] = Len(sent)
  PROVE  /\ c \in subscribers' => from'[c] <= at
         /\ \A i \in 1..Len(mailbox') : SubscribesAt(i, c)' => k[i] <= at
<1>1. mailbox \in Seq(SubscribeMsg \cup SendMsg)
  BY DEF HubTypeOK
<1>2. /\ Len(mailbox) \in Nat \ {0} /\ Len(mailbox') = Len(mailbox) - 1
      /\ Head(mailbox) = mailbox[1]
      /\ \A i \in 1..(Len(mailbox) - 1) : mailbox'[i] = mailbox[i + 1]
  BY <1>1, HeadTailProperties, LenProperties, EmptySeq
<1>3. ASSUME NEW i \in 1..Len(mailbox'), SubscribesAt(i, c)' PROVE k[i] <= at
  <2>1. i + 1 \in 1..Len(mailbox) /\ i \in 0..Len(mailbox') /\ i \in 1..(Len(mailbox) - 1)
    BY <1>2
  <2> QED
    BY <1>2, <1>3, <2>1 DEF Covered, SubscribesAt
<1>4. ASSUME Head(mailbox) = [kind |-> "Subscribe", conn |-> c]
      PROVE  Len(sent) <= at
  <2>1. 1 \in 1..Len(mailbox) /\ SubscribesAt(1, c)
    BY <1>2, <1>4 DEF SubscribesAt
  <2>2. n[1] = n[1 - 1] + 0
    BY <1>2, <1>4, <2>1 DEF IsCount
  <2>3. n[1] = Len(sent)
    BY <2>2, MailboxNumbers DEF IsCount
  <2> QED
    BY <2>1, <2>3 DEF Covered
<1> QED
  BY <1>3, <1>4 DEF Covered

LEMMA GapReceived ==
  ASSUME HistoryInv, GapInv, ReceiveSubscribe \/ ReceiveSend,
         UNCHANGED <<feed, conn, renews, get, loaded, failed, baseAt>>
  PROVE  GapInv'
<1>1. HubTypeOK /\ Len(feed) \in Nat
  BY LenProperties DEF HistoryInv, ReplicaTypeOK, Server!FeedTypeOK
<1>2. mailbox # <<>> /\ mailbox' = Tail(mailbox)
  BY DEF ReceiveSubscribe, ReceiveSend
<1>3. Head(mailbox) \in SubscribeMsg \cup SendMsg
  BY <1>1, <1>2, HeadTailProperties DEF HubTypeOK
<1>4. Len(sent) \in Nat /\ Len(sent') = Len(sent) + (IF Head(mailbox).kind = "Send" THEN 1 ELSE 0)
  <2>1. CASE ReceiveSubscribe
    BY <1>1, <2>1, MailboxNumbers DEF ReceiveSubscribe
  <2>2. CASE ReceiveSend
    <3>1. Head(mailbox).event \in Events /\ sent \in Seq(Events)
      BY <1>1, <1>3, <2>2 DEF ReceiveSend, SubscribeMsg, SendMsg, HubTypeOK
    <3> QED
      BY <2>2, <3>1 DEF ReceiveSend
  <2> QED
    BY <2>1, <2>2
<1>5. PICK n \in [0..Len(mailbox) -> Nat] :
        IsCount(n) /\ \A c \in Connections : RenewedCovered(c, n)
  BY DEF GapInv
<1>6. PICK k \in [0..Len(mailbox') -> Nat] :
        IsCount(k)' /\ \A i \in 0..Len(mailbox') : k[i] = n[i + 1]
  BY <1>1, <1>2, <1>4, <1>5, CountTaken
<1>7. ASSUME NEW c \in Connections
      PROVE  /\ c \in subscribers' =>
                  \/ c \in subscribers /\ from'[c] = from[c]
                  \/ Head(mailbox) = [kind |-> "Subscribe", conn |-> c] /\ from'[c] = Len(sent)
             /\ from'[c] \in {from[c], Len(sent)}
  <2>1. CASE ReceiveSubscribe
    <3>1. Head(mailbox) = [kind |-> "Subscribe", conn |-> Head(mailbox).conn]
      BY <1>3, <2>1 DEF ReceiveSubscribe, SubscribeMsg, SendMsg
    <3> QED
      BY <1>1, <2>1, <3>1 DEF ReceiveSubscribe, HubTypeOK
  <2>2. CASE ReceiveSend
    BY <2>2 DEF ReceiveSend, StillSubscribed
  <2> QED
    BY <2>1, <2>2
<1>8. ASSUME NEW c \in Connections PROVE RenewedCovered(c, k)'
  <2>1. ASSUME NEW at, Covered(c, n, at)
        PROVE  /\ c \in subscribers' => from'[c] <= at
               /\ \A i \in 1..Len(mailbox') : SubscribesAt(i, c)' => k[i] <= at
    BY <1>1, <1>2, <1>5, <1>6, <1>7, <2>1, CoveredTaken
  <2>2. RenewedCovered(c, n)
    BY <1>5
  <2> QED
    BY <2>1, <2>2 DEF RenewedCovered, Covered
<1>9. (\A c \in Connections : from[c] <= Len(sent))'
  <2> SUFFICES ASSUME NEW c \in Connections PROVE from'[c] <= Len(sent')
    OBVIOUS
  <2>1. from[c] \in Nat /\ from[c] <= Len(sent)
    BY <1>1 DEF GapInv, HubTypeOK
  <2> QED
    BY <1>4, <1>7, <2>1
<1> QED
  BY <1>6, <1>8, <1>9 DEF GapInv

\* A step that the count and the list do not see; a connection may close.
LEMMA GapUnseen ==
  ASSUME GapInv,
         UNCHANGED <<mailbox, sent, subscribers, from, feed, renews, get, loaded, failed, baseAt>>,
         \A c \in Connections : conn'[c] = "open" => conn[c] = "open"
  PROVE  GapInv'
<1>1. PICK n \in [0..Len(mailbox) -> Nat] :
        IsCount(n) /\ \A c \in Connections : RenewedCovered(c, n)
  BY DEF GapInv
<1>2. IsCount(n)'
  BY <1>1, SameCount
<1>3. \A c \in Connections : RenewedCovered(c, n)'
  BY <1>1 DEF RenewedCovered, Covered, SubscribesAt
<1>4. (\A c \in Connections : from[c] <= Len(sent))'
  BY DEF GapInv
<1> QED
  BY <1>1, <1>2, <1>3, <1>4 DEF GapInv

LEMMA GapOpens ==
  ASSUME HistoryInv, GapInv, NEW d \in Connections, Opens(d)
  PROVE  GapInv'
<1>1. PICK n \in [0..Len(mailbox) -> Nat] :
        IsCount(n) /\ \A c \in Connections : RenewedCovered(c, n)
  BY DEF GapInv
<1>2. UNCHANGED <<mailbox, sent, subscribers, from, feed, renews, loaded, failed, baseAt>>
  BY DEF Opens, hubVars, serverVars
<1>3. IsCount(n)'
  BY <1>1, <1>2, SameCount
<1>4. ASSUME NEW c \in Connections PROVE RenewedCovered(c, n)'
  <2>1. RenewedCovered(c, n)
    BY <1>1
  <2>2. CASE renews[d]
    BY <1>2, <2>2 DEF Opens, Ask, RenewedCovered
  <2>3. CASE ~renews[d] /\ c = d
    BY <1>2, <2>3 DEF RenewedCovered
  <2>4. CASE ~renews[d] /\ c # d
    <3>1. conn'[c] = conn[c] /\ get' = get
      BY <2>4 DEF Opens, HistoryInv, ReplicaTypeOK
    <3> QED
      BY <1>2, <2>1, <3>1 DEF RenewedCovered, Covered, SubscribesAt
  <2> QED
    BY <2>2, <2>3, <2>4
<1>5. (\A c \in Connections : from[c] <= Len(sent))'
  BY <1>2 DEF GapInv
<1> QED
  BY <1>1, <1>2, <1>3, <1>4, <1>5 DEF GapInv

LEMMA GapServer ==
  ASSUME HistoryInv, GapInv, ServerNext
  PROVE  GapInv'
<1>1. feed \in Seq(Server!ObjectMessage \cup Server!TypeMessage)
  BY DEF HistoryInv, ReplicaTypeOK, Server!FeedTypeOK
<1>2. ASSUME NEW m, m \in Server!ObjectMessage \cup Server!TypeMessage,
             feed' = Append(feed, m), Send(m), UNCHANGED <<linkVars, listVars>>
      PROVE  GapInv'
  <2>1. [kind |-> "Send", event |-> m] \in SendMsg
    BY <1>2, ReplicaAssumption DEF SendMsg
  <2>2. Len(feed) \in Nat /\ Len(feed') = Len(feed) + 1
    BY <1>1, <1>2
  <2>3. \A c \in Connections : [kind |-> "Send", event |-> m] # [kind |-> "Subscribe", conn |-> c]
    <3> SUFFICES ASSUME NEW c \in Connections
                 PROVE  [kind |-> "Send", event |-> m].kind # [kind |-> "Subscribe", conn |-> c].kind
      OBVIOUS
    <3> QED
      OBVIOUS
  <2>4. /\ UNCHANGED <<conn, renews, get, loaded, failed, baseAt, subscribers, from, sent>>
        /\ mailbox' = Append(mailbox, [kind |-> "Send", event |-> m])
    BY <1>2 DEF Send, linkVars, listVars
  <2>5. \A c \in Connections : conn'[c] = "open" =>
            /\ conn[c] = "open" /\ renews'[c] = renews[c]
            /\ [kind |-> "Send", event |-> m] # [kind |-> "Subscribe", conn |-> c]
    BY <2>3, <2>4
  <2>6. Len(feed) + (IF [kind |-> "Send", event |-> m].kind = "Send" THEN 1 ELSE 0) <= Len(feed')
    BY <2>2
  <2> QED
    BY <2>1, <2>2, <2>4, <2>5, <2>6, GapAppended
<1>3. CASE ServerTells
  <2>1. PICK r \in Requests : \E q \in pending[r] : Server!Tells(r, q) /\ Send(q.msg)
    BY <1>3 DEF ServerTells
  <2>2. PICK p \in pending[r] : Server!Tells(r, p) /\ Send(p.msg)
    BY <2>1
  <2>3. p.msg \in Server!ObjectMessage
    BY DEF HistoryInv, ReplicaTypeOK, Server!FeedTypeOK, Server!Prepared
  <2> QED
    BY <1>2, <1>3, <2>2, <2>3 DEF ServerTells, Server!Tells
<1>4. CASE ServerTellsType
  <2>1. PICK t \in Types : /\ Server!TellsType(t)
                           /\ Send([kind |-> "ObjectTypeDeleted", type |-> t])
    BY <1>4 DEF ServerTellsType
  <2>2. [kind |-> "ObjectTypeDeleted", type |-> t] \in Server!TypeMessage
    BY DEF Server!TypeMessage
  <2> QED
    BY <1>2, <1>4, <2>1, <2>2 DEF ServerTellsType, Server!TellsType
<1>5. CASE ServerChanges \/ ServerChangesAndPrepares \/ ServerObserves \/ ServerLoses
  <2>1. UNCHANGED <<feed, hubVars, linkVars, listVars>>
    BY <1>5 DEF ServerChanges, ServerChangesAndPrepares, ServerObserves, ServerLoses,
       Server!Appear, Server!Retire, Server!Change, Server!Observe, Server!Loses
  <2> QED
    BY <2>1, GapUnseen DEF hubVars, linkVars, listVars
<1> QED
  BY <1>3, <1>4, <1>5 DEF ServerNext

LEMMA GapLink ==
  ASSUME HistoryInv, GapInv, LinkNext
  PROVE  GapInv'
<1>1. ASSUME NEW c \in Connections, NEW again \in BOOLEAN, Connect(again, c)
      PROVE  GapInv'
  <2>1. [kind |-> "Subscribe", conn |-> c] \in SubscribeMsg
    BY DEF SubscribeMsg
  <2>2. Len(feed) \in Nat
    BY LenProperties DEF HistoryInv, ReplicaTypeOK, Server!FeedTypeOK
  <2>3. /\ mailbox' = Append(mailbox, [kind |-> "Subscribe", conn |-> c])
        /\ UNCHANGED <<subscribers, from, sent, feed, get, loaded, failed, baseAt>>
    BY <1>1 DEF Connect, Subscribe, serverVars, listVars
  <2>4. /\ conn'[c] = "connecting"
        /\ \A d \in Connections \ {c} : conn'[d] = conn[d] /\ renews'[d] = renews[d]
    BY <1>1 DEF Connect, HistoryInv, ReplicaTypeOK
  <2>5. ASSUME NEW d \in Connections, conn'[d] = "open"
        PROVE  /\ conn[d] = "open" /\ renews'[d] = renews[d]
               /\ [kind |-> "Subscribe", conn |-> c] # [kind |-> "Subscribe", conn |-> d]
    <3>1. d # c /\ conn[d] = "open" /\ renews'[d] = renews[d]
      BY <2>4, <2>5
    <3>2. [kind |-> "Subscribe", conn |-> c].conn # [kind |-> "Subscribe", conn |-> d].conn
      BY <3>1
    <3> QED
      BY <3>1, <3>2
  <2> QED
    BY <2>1, <2>2, <2>3, <2>4, <2>5, GapAppended
<1>2. ASSUME NEW c \in Connections, Opens(c) PROVE GapInv'
  BY <1>2, GapOpens
<1>3. ASSUME NEW c \in Connections, Breaks(c) PROVE GapInv'
  <2>1. \A d \in Connections : conn'[d] = "open" => conn[d] = "open"
    BY <1>3 DEF Breaks, HistoryInv, ReplicaTypeOK
  <2> QED
    BY <1>3, <2>1, GapUnseen DEF Breaks, Cancel, serverVars, listVars
<1>4. ASSUME NEW c \in Connections, Dispatch(c) PROVE GapInv'
  BY <1>4, GapUnseen DEF Dispatch, hubVars, serverVars
<1> QED
  BY <1>1, <1>2, <1>3, <1>4 DEF LinkNext

LEMMA GapStep ==
  ASSUME HistoryInv, GapInv, [Next]_vars
  PROVE  GapInv'
<1>1. CASE HubRuns
  <2>1. UNCHANGED <<feed, conn, renews, get, loaded, failed, baseAt>>
    BY <1>1 DEF HubRuns, serverVars, linkVars, listVars
  <2>2. ASSUME NEW c \in Connections, Pull(c) PROVE GapInv'
    BY <2>1, <2>2, GapUnseen DEF Pull
  <2> QED
    BY <1>1, <2>1, <2>2, GapReceived DEF HubRuns, HubStep
<1>2. CASE UNCHANGED vars
  BY <1>2, GapUnseen DEF vars, hubVars, serverVars, linkVars, listVars
<1> QED
  BY <1>1, <1>2, GapServer, GapLink, GapList DEF Next

LEMMA GapInit == Init => GapInv
<1> SUFFICES ASSUME Init PROVE GapInv
  OBVIOUS
<1>1. mailbox = <<>> /\ sent = <<>> /\ feed = <<>> /\ Len(<<>>) = 0
  BY DEF Init, HubInit, Server!FeedInit
<1>2. PICK n \in [0..Len(mailbox) -> Nat] : n = [i \in 0..0 |-> 0]
  BY <1>1
<1>3. IsCount(n)
  BY <1>1, <1>2 DEF IsCount
<1>4. \A c \in Connections : RenewedCovered(c, n) /\ from[c] <= Len(sent)
  BY <1>1 DEF Init, HubInit, RenewedCovered
<1> QED
  BY <1>3, <1>4 DEF GapInv

\* Once a renewed connection is open and its refresh is through, the list was
\* read after the connection was subscribed: what happened in between is not
\* missed, however many connections break and whatever waits in the mailbox.
THEOREM ReconnectionMissesNothing == Spec => []RefreshCoversGap
<1>1. GapInv => RefreshCoversGap
  <2> SUFFICES ASSUME GapInv, NEW c \in Connections, conn[c] = "open", renews[c],
                      c \in subscribers, get.phase = "none", ~failed
               PROVE  loaded /\ from[c] <= baseAt
    BY DEF RefreshCoversGap
  <2> QED
    BY DEF GapInv, RenewedCovered, Covered
<1>2. Init => HistoryInv /\ GapInv
  BY HistoryInit, GapInit
<1>3. HistoryInv /\ GapInv /\ [Next]_vars => HistoryInv' /\ GapInv'
  BY HistoryStep, GapStep
<1> QED
  BY <1>1, <1>2, <1>3, PTL DEF Spec

----------------------------------------------------------------------------
(* The server of the composition is ChangeFeed, and its streams tell what  *)
(* ChangeFeed told.                                                        *)

\* The server of the composition keeps the promise of ChangeFeed: the client
\* and its connections add nothing to it.
THEOREM ImplementsServer == Spec => Server!FeedSpec
<1>1. Init => Server!FeedInit
  BY DEF Init
<1>2. [Next]_vars => [Server!FeedNext]_(Server!feedVars)
  <2> SUFFICES ASSUME [Next]_vars PROVE [Server!FeedNext]_(Server!feedVars)
    OBVIOUS
  <2>1. CASE HubRuns \/ LinkNext \/ ListNext \/ UNCHANGED vars
    BY <2>1 DEF HubRuns, LinkNext, ListNext, Connect, Opens, Breaks, Dispatch, Refresh,
       ServerAnswers, AnswerArrives, GetFails, EmbedAgain, vars, serverVars, Server!feedVars
  <2> QED
    BY <2>1, ServerIsFeed DEF Next
<1> QED
  BY <1>1, <1>2, PTL DEF Spec, Server!FeedSpec

\* What was told is what was fanned out and then what the mailbox holds.
Conveyed(n) ==
  /\ IsCount(n) /\ n[Len(mailbox)] = Len(feed)
  /\ \A k \in 1..Len(sent) : sent[k] = feed[k]
  /\ \A i \in 1..Len(mailbox) : mailbox[i].kind = "Send" => mailbox[i].event = feed[n[i]]

MailInv == \E n \in [0..Len(mailbox) -> Nat] : Conveyed(n)

LEMMA MailAppended ==
  ASSUME HubTypeOK, MailInv, NEW F, feed \in Seq(F), NEW m \in SubscribeMsg \cup SendMsg,
         mailbox' = Append(mailbox, m), sent' = sent,
         m.kind = "Send" => m.event \in F /\ feed' = Append(feed, m.event),
         m.kind # "Send" => feed' = feed
  PROVE  MailInv'
<1>1. /\ Len(mailbox) \in Nat /\ Len(mailbox') = Len(mailbox) + 1 /\ Len(sent) \in Nat
      /\ mailbox'[Len(mailbox) + 1] = m
      /\ \A i \in 1..Len(mailbox) : mailbox'[i] = mailbox[i]
  BY MailboxNumbers DEF HubTypeOK
<1>2. /\ Len(feed) \in Nat
      /\ Len(feed') = Len(feed) + (IF m.kind = "Send" THEN 1 ELSE 0)
      /\ \A i \in 1..Len(feed) : feed'[i] = feed[i]
      /\ m.kind = "Send" => feed'[Len(feed) + 1] = m.event
  <2>1. CASE m.kind = "Send"
    BY <2>1
  <2>2. CASE m.kind # "Send"
    BY <2>2
  <2> QED
    BY <2>1, <2>2
<1>3. PICK n \in [0..Len(mailbox) -> Nat] : Conveyed(n)
  BY DEF MailInv
<1>4. /\ IsCount(n) /\ n[Len(mailbox)] = Len(feed)
      /\ \A k \in 1..Len(sent) : sent[k] = feed[k]
      /\ \A i \in 1..Len(mailbox) : mailbox[i].kind = "Send" => mailbox[i].event = feed[n[i]]
  BY <1>3 DEF Conveyed
<1>5. /\ IsCount(n) /\ Len(feed) \in Nat /\ Len(feed') \in Nat
      /\ Len(feed) + (IF m.kind = "Send" THEN 1 ELSE 0) <= Len(feed')
  BY <1>2, <1>4
<1>6. PICK k \in [0..Len(mailbox') -> Nat] : IsCount(k)' /\ \A i \in 0..Len(mailbox) : k[i] = n[i]
  BY <1>5, CountAppended, Zenon
<1>7. k[Len(mailbox')] = Len(feed')
  <2>1. Len(mailbox) + 1 \in 1..(Len(mailbox) + 1) /\ Len(mailbox) \in 0..Len(mailbox)
        /\ (Len(mailbox) + 1) - 1 = Len(mailbox)
    BY <1>1
  <2>2. k[Len(mailbox) + 1] = k[Len(mailbox)] + (IF m.kind = "Send" THEN 1 ELSE 0)
    BY <1>1, <1>6, <2>1 DEF IsCount
  <2> QED
    BY <1>1, <1>2, <1>4, <1>6, <2>1, <2>2
<1>8. Len(sent) <= Len(feed)
  BY <1>2, <1>4, SentIsTold
<1>9. \A i \in 1..Len(sent) : sent'[i] = feed'[i]
  BY <1>1, <1>2, <1>4, <1>8
<1>10. ASSUME NEW i \in 1..Len(mailbox'), mailbox'[i].kind = "Send"
       PROVE  mailbox'[i].event = feed'[k[i]]
  <2>1. CASE i = Len(mailbox) + 1
    BY <1>1, <1>2, <1>7, <1>10, <2>1
  <2>2. CASE i \in 1..Len(mailbox)
    <3>1. /\ i \in 0..Len(mailbox) /\ i - 1 \in 0..Len(mailbox) /\ mailbox[i].kind = "Send"
      BY <1>1, <1>10, <2>2
    <3>2. n[i] = n[i - 1] + 1 /\ n[i - 1] \in Nat
      BY <1>4, <2>2, <3>1 DEF IsCount
    <3>3. n[i] <= Len(feed)
      BY <1>2, <1>4, <2>2, SentIsTold
    <3>4. n[i] \in 1..Len(feed)
      BY <1>2, <3>2, <3>3
    <3> QED
      BY <1>1, <1>2, <1>4, <1>6, <2>2, <3>1, <3>4
  <2> QED
    BY <1>1, <2>1, <2>2
<1> QED
  BY <1>6, <1>7, <1>9, <1>10 DEF MailInv, Conveyed

LEMMA MailTaken ==
  ASSUME HubTypeOK, MailInv, ReceiveSubscribe \/ ReceiveSend, feed' = feed, Len(feed) \in Nat
  PROVE  MailInv'
<1>1. /\ mailbox # <<>> /\ mailbox' = Tail(mailbox)
      /\ mailbox \in Seq(SubscribeMsg \cup SendMsg) /\ sent \in Seq(Events)
  BY DEF HubTypeOK, ReceiveSubscribe, ReceiveSend
<1>2. /\ Len(mailbox) \in Nat \ {0} /\ Len(mailbox') = Len(mailbox) - 1
      /\ Head(mailbox) = mailbox[1] /\ Head(mailbox) \in SubscribeMsg \cup SendMsg
      /\ \A i \in 1..(Len(mailbox) - 1) : mailbox'[i] = mailbox[i + 1]
  BY <1>1, HeadTailProperties, LenProperties, EmptySeq
<1>3. PICK n \in [0..Len(mailbox) -> Nat] : Conveyed(n)
  BY DEF MailInv
<1>4. /\ IsCount(n) /\ n[Len(mailbox)] = Len(feed)
      /\ \A k \in 1..Len(sent) : sent[k] = feed[k]
      /\ \A i \in 1..Len(mailbox) : mailbox[i].kind = "Send" => mailbox[i].event = feed[n[i]]
  BY <1>3 DEF Conveyed
<1>5. Len(sent) \in Nat
  BY <1>1
<1>6. ASSUME ReceiveSend
      PROVE  /\ Len(sent') = Len(sent) + (IF Head(mailbox).kind = "Send" THEN 1 ELSE 0)
             /\ \A i \in 1..Len(sent') : sent'[i] = feed[i]
  <2>1. /\ Head(mailbox).kind = "Send" /\ Head(mailbox).event \in Events
        /\ sent' = Append(sent, Head(mailbox).event)
    BY <1>2, <1>6 DEF ReceiveSend, SubscribeMsg, SendMsg
  <2>2. /\ Len(sent') = Len(sent) + 1 /\ sent'[Len(sent) + 1] = mailbox[1].event
        /\ \A i \in 1..Len(sent) : sent'[i] = sent[i]
    BY <1>1, <1>2, <2>1
  <2>3. n[1] = Len(sent) + 1
    <3>1. 1 \in 1..Len(mailbox) /\ 1 - 1 = 0
      BY <1>2
    <3> QED
      BY <1>2, <1>4, <2>1, <3>1 DEF IsCount
  <2>4. mailbox[1].event = feed[Len(sent) + 1]
    BY <1>2, <1>4, <2>1, <2>3
  <2>5. ASSUME NEW i \in 1..Len(sent') PROVE sent'[i] = feed[i]
    <3>1. i \in 1..Len(sent) \/ i = Len(sent) + 1
      BY <1>5, <2>2
    <3> QED
      BY <1>4, <2>2, <2>4, <3>1
  <2> QED
    BY <2>1, <2>2, <2>5
<1>7. ASSUME ReceiveSubscribe
      PROVE  /\ Len(sent') = Len(sent) + (IF Head(mailbox).kind = "Send" THEN 1 ELSE 0)
             /\ \A i \in 1..Len(sent') : sent'[i] = feed[i]
  BY <1>4, <1>5, <1>7 DEF ReceiveSubscribe
<1>8. /\ Len(sent') = Len(sent) + (IF Head(mailbox).kind = "Send" THEN 1 ELSE 0)
      /\ \A i \in 1..Len(sent') : sent'[i] = feed[i]
  BY <1>6, <1>7
<1>9. PICK k \in [0..Len(mailbox') -> Nat] :
        IsCount(k)' /\ \A i \in 0..Len(mailbox') : k[i] = n[i + 1]
  BY <1>1, <1>4, <1>8, CountTaken
<1>10. k[Len(mailbox')] = Len(feed')
  <2>1. Len(mailbox') \in 0..Len(mailbox') /\ Len(mailbox') + 1 = Len(mailbox)
    BY <1>2
  <2> QED
    BY <1>4, <1>9, <2>1
<1>11. ASSUME NEW i \in 1..Len(mailbox'), mailbox'[i].kind = "Send"
       PROVE  mailbox'[i].event = feed'[k[i]]
  <2>1. i \in 0..Len(mailbox') /\ i \in 1..(Len(mailbox) - 1) /\ i + 1 \in 1..Len(mailbox)
    BY <1>2
  <2> QED
    BY <1>2, <1>4, <1>9, <1>11, <2>1
<1> QED
  BY <1>8, <1>9, <1>10, <1>11 DEF MailInv, Conveyed

LEMMA MailStep ==
  ASSUME HistoryInv, MailInv, [Next]_vars
  PROVE  MailInv'
<1>1. HubTypeOK /\ feed \in Seq(Server!ObjectMessage \cup Server!TypeMessage)
  BY DEF HistoryInv, ReplicaTypeOK, Server!FeedTypeOK
<1>2. ASSUME UNCHANGED <<mailbox, sent, feed>> PROVE MailInv'
  BY <1>2, SameCount DEF MailInv, Conveyed
<1>3. ASSUME NEW e \in Server!ObjectMessage \cup Server!TypeMessage,
             Send(e), feed' = Append(feed, e)
      PROVE  MailInv'
  <2>1. /\ [kind |-> "Send", event |-> e] \in SubscribeMsg \cup SendMsg
        /\ mailbox' = Append(mailbox, [kind |-> "Send", event |-> e]) /\ sent' = sent
    BY <1>3, ReplicaAssumption DEF Send, SendMsg
  <2> QED
    BY <1>1, <1>3, <2>1, MailAppended
<1>4. CASE ServerNext
  <2>1. CASE ServerTells
    <3>1. PICK r \in Requests : \E q \in pending[r] : Server!Tells(r, q) /\ Send(q.msg)
      BY <2>1 DEF ServerTells
    <3>2. PICK p \in pending[r] : Server!Tells(r, p) /\ Send(p.msg)
      BY <3>1
    <3>3. p.msg \in Server!ObjectMessage
      BY DEF HistoryInv, ReplicaTypeOK, Server!FeedTypeOK, Server!Prepared
    <3> QED
      BY <1>3, <3>2, <3>3 DEF Server!Tells
  <2>2. CASE ServerTellsType
    <3>1. PICK t \in Types : /\ Server!TellsType(t)
                             /\ Send([kind |-> "ObjectTypeDeleted", type |-> t])
      BY <2>2 DEF ServerTellsType
    <3>2. [kind |-> "ObjectTypeDeleted", type |-> t] \in Server!TypeMessage
      BY DEF Server!TypeMessage
    <3> QED
      BY <1>3, <3>1, <3>2 DEF Server!TellsType
  <2>3. CASE ServerChanges \/ ServerChangesAndPrepares \/ ServerObserves \/ ServerLoses
    <3>1. UNCHANGED <<feed, hubVars>>
      BY <2>3 DEF ServerChanges, ServerChangesAndPrepares, ServerObserves, ServerLoses,
         Server!Appear, Server!Retire, Server!Change, Server!Observe, Server!Loses
    <3> QED
      BY <1>2, <3>1 DEF hubVars
  <2> QED
    BY <1>4, <2>1, <2>2, <2>3 DEF ServerNext
<1>5. CASE HubRuns
  <2>1. feed' = feed /\ Len(feed) \in Nat
    BY <1>1, <1>5, LenProperties DEF HubRuns, serverVars
  <2>2. ASSUME NEW c \in Connections, Pull(c) PROVE MailInv'
    BY <1>2, <2>1, <2>2 DEF Pull
  <2> QED
    BY <1>1, <1>5, <2>1, <2>2, MailTaken DEF HubRuns, HubStep
<1>6. ASSUME NEW c \in Connections, NEW again \in BOOLEAN, Connect(again, c) PROVE MailInv'
  <2>1. /\ [kind |-> "Subscribe", conn |-> c] \in SubscribeMsg \cup SendMsg
        /\ mailbox' = Append(mailbox, [kind |-> "Subscribe", conn |-> c])
        /\ sent' = sent /\ feed' = feed
    BY <1>6 DEF Connect, Subscribe, serverVars, SubscribeMsg
  <2> QED
    BY <1>1, <2>1, MailAppended
<1>7. ASSUME NEW c \in Connections, Opens(c) \/ Breaks(c) \/ Dispatch(c) PROVE MailInv'
  BY <1>2, <1>7 DEF Opens, Breaks, Dispatch, Cancel, hubVars, serverVars
<1>8. CASE ListNext \/ UNCHANGED vars
  BY <1>2, <1>8 DEF ListNext, Refresh, ServerAnswers, AnswerArrives, GetFails, EmbedAgain,
     vars, hubVars, serverVars
<1> QED
  BY <1>4, <1>5, <1>6, <1>7, <1>8 DEF Next, LinkNext

LEMMA MailInit == Init => MailInv
<1> SUFFICES ASSUME Init PROVE MailInv
  OBVIOUS
<1>1. mailbox = <<>> /\ sent = <<>> /\ feed = <<>> /\ Len(<<>>) = 0
  BY DEF Init, HubInit, Server!FeedInit
<1>2. PICK n \in [0..Len(mailbox) -> Nat] : n = [i \in 0..0 |-> 0]
  BY <1>1
<1> QED
  BY <1>1, <1>2 DEF MailInv, Conveyed, IsCount

\* Every event of a stream is the next one the server told, counted from the
\* moment the connection was subscribed.
StreamsTellFeed ==
  \A c \in Connections : \A i \in 1..Len(stream[c]) :
    from[c] + i <= Len(feed) /\ stream[c][i] = feed[from[c] + i]

\* What a browser hears over a connection is what the requests of the server
\* told, in that order and without a gap, from where the actor subscribed the
\* connection: from notifyObjectChanged and the others through the mailbox,
\* SSEActor.receive and the queue.
THEOREM StreamsTellTheFeed == Spec => []StreamsTellFeed
<1>1. HistoryInv /\ MailInv /\ StreamInv => StreamsTellFeed
  <2> SUFFICES ASSUME HistoryInv, MailInv, StreamInv, NEW c \in Connections,
                      NEW i \in 1..Len(stream[c])
               PROVE  from[c] + i <= Len(feed) /\ stream[c][i] = feed[from[c] + i]
    BY DEF StreamsTellFeed
  <2>1. /\ Len(stream[c]) \in Nat /\ Len(queue[c]) \in Nat /\ Len(sent) \in Nat
        /\ from[c] \in Nat /\ HubTypeOK
    BY LenProperties DEF StreamInv, HubTypeOK
  <2>2. Len(feed) \in Nat
    BY LenProperties DEF HistoryInv, ReplicaTypeOK, Server!FeedTypeOK
  <2>3. from[c] + i \in 1..Len(sent) /\ stream[c][i] = sent[from[c] + i]
    BY <2>1 DEF StreamInv, Aligned, Follows
  <2>4. PICK n \in [0..Len(mailbox) -> Nat] : Conveyed(n)
    BY DEF MailInv
  <2>5. Len(sent) <= Len(feed)
    BY <2>1, <2>2, <2>4, SentIsTold DEF Conveyed
  <2> QED
    BY <2>1, <2>2, <2>3, <2>4, <2>5 DEF Conveyed
<1>2. Init => HistoryInv /\ MailInv
  BY HistoryInit, MailInit
<1>3. HistoryInv /\ MailInv /\ [Next]_vars => HistoryInv' /\ MailInv'
  BY HistoryStep, MailStep
<1>4. HubSpec => []StreamInv
  BY StreamInit, StreamStep, PTL DEF HubSpec
<1> QED
  BY <1>1, <1>2, <1>3, <1>4, ImplementsHub, PTL DEF Spec
=============================================================================
