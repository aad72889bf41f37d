---------------------------- MODULE SseHubProofs ----------------------------
(***************************************************************************)
(* Theorems about SseHub, for any number of connections and events and any *)
(* size of the queues.                                                     *)
(***************************************************************************)
EXTENDS SseHub, SequenceTheorems, TLAPS

----------------------------------------------------------------------------
(* Type correctness *)

LEMMA ReceiveSubscribeType ==
  ASSUME HubTypeOK, ReceiveSubscribe
  PROVE  HubTypeOK'
<1>1. Head(mailbox) \in SubscribeMsg /\ Tail(mailbox) \in Seq(SubscribeMsg \cup SendMsg)
  BY HeadTailProperties DEF HubTypeOK, ReceiveSubscribe, SubscribeMsg, SendMsg
<1>2. Head(mailbox).conn \in Connections
  BY <1>1 DEF SubscribeMsg
<1> QED
  BY <1>1, <1>2 DEF HubTypeOK, ReceiveSubscribe

LEMMA ReceiveSendType ==
  ASSUME HubTypeOK, ReceiveSend
  PROVE  HubTypeOK'
<1> DEFINE e == Head(mailbox).event
<1>1. Head(mailbox) \in SendMsg /\ Tail(mailbox) \in Seq(SubscribeMsg \cup SendMsg)
  BY HeadTailProperties DEF HubTypeOK, ReceiveSend, SubscribeMsg, SendMsg
<1>2. e \in Events
  BY <1>1 DEF SendMsg
<1>3. queue' \in [Connections -> Seq(Events)]
  BY <1>2 DEF HubTypeOK, ReceiveSend
<1>4. ASSUME NEW c \in Connections PROVE Len(queue'[c]) <= QueueSize
  <2>1. queue[c] \in Seq(Events)
    BY DEF HubTypeOK
  <2>2. CASE c \in subscribers /\ Accepts(c)
    <3>1. queue'[c] = Append(queue[c], e)
      BY <2>2 DEF ReceiveSend
    <3>2. Len(queue'[c]) = Len(queue[c]) + 1
      BY <2>1, <3>1, <1>2
    <3> QED
      BY <2>1, <2>2, <3>2, HubAssumption DEF Accepts
  <2>3. CASE ~(c \in subscribers /\ Accepts(c))
    BY <2>3 DEF ReceiveSend, HubTypeOK
  <2> QED
    BY <2>2, <2>3
<1>5. sent' \in Seq(Events)
  BY <1>2 DEF HubTypeOK, ReceiveSend
<1> QED
  BY <1>1, <1>3, <1>4, <1>5 DEF HubTypeOK, ReceiveSend, StillSubscribed

LEMMA PullType ==
  ASSUME HubTypeOK, NEW c \in Connections, Pull(c)
  PROVE  HubTypeOK'
<1>1. /\ Head(queue[c]) \in Events /\ Tail(queue[c]) \in Seq(Events)
      /\ Len(Tail(queue[c])) = Len(queue[c]) - 1
  BY HeadTailProperties DEF HubTypeOK, Pull
<1>2. \A d \in Connections : Len(queue'[d]) <= QueueSize
  BY <1>1, HubAssumption DEF HubTypeOK, Pull
<1> QED
  BY <1>1, <1>2 DEF HubTypeOK, Pull

LEMMA SubscribeType ==
  ASSUME HubTypeOK, NEW c \in Connections, Subscribe(c)
  PROVE  HubTypeOK'
<1>1. [kind |-> "Subscribe", conn |-> c] \in SubscribeMsg
  BY DEF SubscribeMsg
<1> QED
  BY <1>1 DEF HubTypeOK, Subscribe

LEMMA SendType ==
  ASSUME HubTypeOK, NEW e \in Events, Send(e)
  PROVE  HubTypeOK'
<1>1. [kind |-> "Send", event |-> e] \in SendMsg
  BY DEF SendMsg
<1> QED
  BY <1>1 DEF HubTypeOK, Send

LEMMA CancelType ==
  ASSUME HubTypeOK, NEW c \in Connections, Cancel(c)
  PROVE  HubTypeOK'
<1>1. Len(<<>>) = 0 /\ <<>> \in Seq(Events)
  OBVIOUS
<1>2. \A d \in Connections : Len(queue'[d]) <= QueueSize
  BY <1>1, HubAssumption DEF HubTypeOK, Cancel
<1> QED
  BY <1>1, <1>2 DEF HubTypeOK, Cancel

LEMMA HubTypeStep ==
  ASSUME HubTypeOK, [HubNext]_hubVars
  PROVE  HubTypeOK'
<1>1. CASE UNCHANGED hubVars
  BY <1>1 DEF hubVars, HubTypeOK
<1> QED
  BY <1>1, SubscribeType, SendType, CancelType, ReceiveSubscribeType, ReceiveSendType,
     PullType
     DEF HubNext, HubStep

LEMMA HubTypeInit == HubInit => HubTypeOK
<1>1. Len(<<>>) = 0 /\ <<>> \in Seq(Events) /\ <<>> \in Seq(SubscribeMsg \cup SendMsg)
  OBVIOUS
<1> QED
  BY <1>1, HubAssumption DEF HubInit, HubTypeOK

\* Messages, queues and streams hold what they should, and no queue ever holds
\* more than its size (SSEService.subscribe, SSEActor.receive).
THEOREM HubTypeCorrect == HubSpec => []HubTypeOK
<1> QED
  BY HubTypeInit, HubTypeStep, PTL DEF HubSpec

----------------------------------------------------------------------------
(* Unbroken streams.  What a connection was given and what its queue still *)
(* holds are consecutive events, counted from the moment it was subscribed.*)

\* The elements of s, then those of t, are the elements of w after the first f.
Follows(s, t, w, f) ==
  /\ f + Len(s) + Len(t) <= Len(w)
  /\ \A i \in 1..Len(s) : s[i] = w[f + i]
  /\ \A i \in 1..Len(t) : t[i] = w[f + Len(s) + i]

\* A position in the events for every position in the stream and the queue.
Aligned(c) == Follows(stream[c], queue[c], sent, from[c])

\* Nothing is missing as long as the connection is subscribed and goes on.
Complete(c) ==
  c \in subscribers \ cancelled =>
    from[c] + Len(stream[c]) + Len(queue[c]) = Len(sent)

\* A connection whose Subscribe is in the mailbox has been given nothing.
Waits(c) ==
  \A i \in DOMAIN mailbox : SubscribesAt(i, c) =>
    /\ c \notin subscribers /\ stream[c] = <<>> /\ queue[c] = <<>>
    /\ \A j \in DOMAIN mailbox : SubscribesAt(j, c) => i = j

StreamInv == HubTypeOK /\ \A c \in Connections : Aligned(c) /\ Complete(c) /\ Waits(c)

\* Taking the first message off the mailbox shifts the others by one.
LEMMA WaitsAfterTail ==
  ASSUME HubTypeOK, mailbox # <<>>, mailbox' = Tail(mailbox), NEW c \in Connections, Waits(c)
  PROVE  /\ \A i \in DOMAIN mailbox' :
              /\ i \in Nat \ {0} /\ i + 1 \in DOMAIN mailbox
              /\ mailbox'[i] = mailbox[i + 1]
         /\ \A i \in DOMAIN mailbox' : SubscribesAt(i, c)' =>
              /\ c \notin subscribers /\ stream[c] = <<>> /\ queue[c] = <<>>
              /\ \A j \in DOMAIN mailbox' : SubscribesAt(j, c)' => i = j
<1>1. /\ DOMAIN mailbox = 1..Len(mailbox) /\ Len(mailbox) \in Nat
      /\ DOMAIN mailbox' = 1..Len(mailbox')
      /\ Len(mailbox') = Len(mailbox) - 1
      /\ \A i \in 1..Len(mailbox') : mailbox'[i] = mailbox[i + 1]
  <2>1. mailbox \in Seq(SubscribeMsg \cup SendMsg)
    BY DEF HubTypeOK
  <2>2. mailbox' \in Seq(SubscribeMsg \cup SendMsg)
    BY <2>1, HeadTailProperties
  <2> QED
    BY <2>1, <2>2, HeadTailProperties, LenProperties
<1>2. \A i \in DOMAIN mailbox' :
        /\ i \in Nat \ {0} /\ i + 1 \in DOMAIN mailbox
        /\ mailbox'[i] = mailbox[i + 1]
  BY <1>1
<1>3. ASSUME NEW i \in DOMAIN mailbox', SubscribesAt(i, c)'
      PROVE  SubscribesAt(i + 1, c)
  BY <1>2, <1>3 DEF SubscribesAt
<1>4. ASSUME NEW i \in DOMAIN mailbox', SubscribesAt(i, c)'
      PROVE  /\ c \notin subscribers /\ stream[c] = <<>> /\ queue[c] = <<>>
             /\ \A j \in DOMAIN mailbox' : SubscribesAt(j, c)' => i = j
  <2>1. ASSUME NEW j \in DOMAIN mailbox', SubscribesAt(j, c)'
        PROVE  i = j
    <3>1. SubscribesAt(i + 1, c) /\ SubscribesAt(j + 1, c)
      BY <1>3, <1>4, <2>1
    <3>2. i + 1 = j + 1
      BY <1>2, <3>1 DEF Waits
    <3> QED
      BY <1>2, <3>2
  <2> QED
    BY <1>2, <1>3, <1>4, <2>1 DEF Waits
<1> QED
  BY <1>2, <1>4

LEMMA StreamInit == HubInit => StreamInv
<1> SUFFICES ASSUME HubInit PROVE StreamInv
  OBVIOUS
<1>1. HubTypeOK
  BY HubTypeInit
<1>2. Len(<<>>) = 0 /\ DOMAIN <<>> = {}
  OBVIOUS
<1>3. ASSUME NEW c \in Connections PROVE Aligned(c) /\ Complete(c) /\ Waits(c)
  BY <1>2 DEF HubInit, Aligned, Follows, Complete, Waits
<1> QED
  BY <1>1, <1>3 DEF StreamInv

\* subscribe appends the one Subscribe of a fresh connection.
LEMMA SubscribeStream ==
  ASSUME StreamInv, HubTypeOK', NEW d \in Connections, Fresh(d), Subscribe(d)
  PROVE  StreamInv'
<1>1. ASSUME NEW c \in Connections PROVE Aligned(c)' /\ Complete(c)'
  BY DEF StreamInv, Aligned, Follows, Complete, Subscribe
<1>2. ASSUME NEW c \in Connections PROVE Waits(c)'
  <2>1. PICK n \in Nat :
          /\ DOMAIN mailbox = 1..n /\ DOMAIN mailbox' = 1..(n + 1)
          /\ mailbox'[n + 1] = [kind |-> "Subscribe", conn |-> d]
          /\ \A i \in 1..n : mailbox'[i] = mailbox[i]
    <3>1. /\ Len(mailbox) \in Nat /\ DOMAIN mailbox = 1..Len(mailbox)
          /\ DOMAIN mailbox' = 1..(Len(mailbox) + 1)
          /\ mailbox'[Len(mailbox) + 1] = [kind |-> "Subscribe", conn |-> d]
          /\ \A i \in 1..Len(mailbox) : mailbox'[i] = mailbox[i]
      BY DEF StreamInv, HubTypeOK, Subscribe
    <3> QED
      BY <3>1
  <2>2. \A i \in DOMAIN mailbox : SubscribesAt(i, c)' <=> SubscribesAt(i, c)
    BY <2>1 DEF SubscribesAt
  <2>3. SubscribesAt(n + 1, c)' <=> c = d
    <3>1. /\ [kind |-> "Subscribe", conn |-> d].conn = d
          /\ [kind |-> "Subscribe", conn |-> c].conn = c
      OBVIOUS
    <3>2. [kind |-> "Subscribe", conn |-> d] = [kind |-> "Subscribe", conn |-> c] <=> c = d
      BY <3>1
    <3> QED
      BY <2>1, <3>2 DEF SubscribesAt
  <2>4. UNCHANGED <<subscribers, stream, queue>>
    BY DEF Subscribe
  <2>5. CASE c = d
    <3>1. \A i \in DOMAIN mailbox' : SubscribesAt(i, c)' => i = n + 1
      BY <2>1, <2>2, <2>5 DEF Fresh
    <3> QED
      BY <3>1, <2>4, <2>5 DEF Fresh, Waits
  <2>6. CASE c # d
    <3>1. \A i \in DOMAIN mailbox' : SubscribesAt(i, c)' => i \in DOMAIN mailbox /\ SubscribesAt(i, c)
      <4>1. \A i \in DOMAIN mailbox' : i \in DOMAIN mailbox \/ i = n + 1
        BY <2>1
      <4>2. ~SubscribesAt(n + 1, c)'
        BY <2>3, <2>6
      <4> QED
        BY <2>2, <4>1, <4>2
    <3>2. Waits(c)
      BY DEF StreamInv
    <3> QED
      BY <3>1, <3>2, <2>4 DEF Waits
  <2> QED
    BY <2>5, <2>6
<1> QED
  BY <1>1, <1>2 DEF StreamInv

LEMMA SendStream ==
  ASSUME StreamInv, HubTypeOK', NEW e \in Events, Send(e)
  PROVE  StreamInv'
<1>1. ASSUME NEW c \in Connections PROVE Aligned(c)' /\ Complete(c)'
  BY DEF StreamInv, Aligned, Follows, Complete, Send
<1>2. ASSUME NEW c \in Connections PROVE Waits(c)'
  <2>1. /\ Len(mailbox) \in Nat /\ DOMAIN mailbox = 1..Len(mailbox)
        /\ DOMAIN mailbox' = 1..(Len(mailbox) + 1)
        /\ mailbox'[Len(mailbox) + 1] = [kind |-> "Send", event |-> e]
        /\ \A i \in DOMAIN mailbox : mailbox'[i] = mailbox[i]
    BY DEF StreamInv, HubTypeOK, Send
  <2>2. [kind |-> "Send", event |-> e] # [kind |-> "Subscribe", conn |-> c]
    <3>1. [kind |-> "Send", event |-> e].kind # [kind |-> "Subscribe", conn |-> c].kind
      OBVIOUS
    <3> QED
      BY <3>1
  <2>3. \A i \in DOMAIN mailbox' : SubscribesAt(i, c)' => i \in DOMAIN mailbox /\ SubscribesAt(i, c)
    BY <2>1, <2>2 DEF SubscribesAt
  <2>4. Waits(c)
    BY DEF StreamInv
  <2> QED
    BY <2>3, <2>4 DEF Waits, Send
<1> QED
  BY <1>1, <1>2 DEF StreamInv

LEMMA ReceiveSubscribeStream ==
  ASSUME StreamInv, HubTypeOK', ReceiveSubscribe
  PROVE  StreamInv'
<1>1. PICK d \in Connections : /\ SubscribesAt(1, d) /\ 1 \in DOMAIN mailbox
                               /\ subscribers' = subscribers \cup {d}
                               /\ from' = [from EXCEPT ![d] = Len(sent)]
  <2>1. Head(mailbox) \in SubscribeMsg /\ Head(mailbox) = mailbox[1] /\ 1 \in DOMAIN mailbox
    BY HeadTailProperties, LenProperties
       DEF StreamInv, HubTypeOK, ReceiveSubscribe, SubscribeMsg, SendMsg
  <2>2. Head(mailbox).conn \in Connections /\ SubscribesAt(1, Head(mailbox).conn)
    BY <2>1 DEF SubscribeMsg, SubscribesAt
  <2> QED
    BY <2>1, <2>2 DEF ReceiveSubscribe
<1>2. UNCHANGED <<queue, stream, cancelled, sent>> /\ mailbox' = Tail(mailbox) /\ mailbox # <<>>
  BY DEF ReceiveSubscribe
<1>3. /\ stream[d] = <<>> /\ queue[d] = <<>>
      /\ \A j \in DOMAIN mailbox : SubscribesAt(j, d) => j = 1
  BY <1>1 DEF StreamInv, Waits
<1>4. Len(<<>>) = 0 /\ Len(sent) \in Nat
  BY DEF StreamInv, HubTypeOK
<1>5. ASSUME NEW c \in Connections PROVE Aligned(c)' /\ Complete(c)'
  <2>1. CASE c = d
    <3>1. from'[c] = Len(sent)
      BY <1>1, <2>1 DEF StreamInv, HubTypeOK
    <3> QED
      <4>1. /\ stream'[c] = <<>> /\ queue'[c] = <<>> /\ sent' = sent
            /\ Len(<<>>) = 0 /\ Len(sent) \in Nat
        BY <1>2, <1>3, <1>4, <2>1
      <4>2. from'[c] + Len(stream'[c]) + Len(queue'[c]) = Len(sent')
        BY <3>1, <4>1
      <4>3. 1..Len(stream'[c]) = {} /\ 1..Len(queue'[c]) = {} /\ Len(sent') <= Len(sent')
        BY <4>1
      <4> QED
        BY <4>2, <4>3 DEF Aligned, Follows, Complete
  <2>2. CASE c # d
    <3>1. from'[c] = from[c] /\ (c \in subscribers' => c \in subscribers)
      BY <1>1, <2>2 DEF StreamInv, HubTypeOK
    <3> QED
      BY <1>2, <3>1 DEF StreamInv, Aligned, Follows, Complete
  <2> QED
    BY <2>1, <2>2
<1>6. ASSUME NEW c \in Connections PROVE Waits(c)'
  <2>1. Waits(c) /\ HubTypeOK
    BY DEF StreamInv
  <2>2. /\ \A i \in DOMAIN mailbox' :
             /\ i \in Nat \ {0} /\ i + 1 \in DOMAIN mailbox
             /\ mailbox'[i] = mailbox[i + 1]
        /\ \A i \in DOMAIN mailbox' : SubscribesAt(i, c)' =>
             /\ c \notin subscribers /\ stream[c] = <<>> /\ queue[c] = <<>>
             /\ \A j \in DOMAIN mailbox' : SubscribesAt(j, c)' => i = j
    BY <2>1, <1>2, WaitsAfterTail
  <2>3. ASSUME NEW i \in DOMAIN mailbox', SubscribesAt(i, c)'
        PROVE  c \notin subscribers'
    <3>1. SubscribesAt(i + 1, c) /\ i + 1 # 1
      BY <2>2, <2>3 DEF SubscribesAt
    <3>2. c # d
      BY <1>3, <2>2, <3>1
    <3> QED
      BY <1>1, <2>2, <2>3, <3>2
  <2> QED
    BY <1>2, <2>2, <2>3 DEF Waits
<1> QED
  BY <1>5, <1>6 DEF StreamInv

LEMMA ReceiveSendStream ==
  ASSUME StreamInv, HubTypeOK', ReceiveSend
  PROVE  StreamInv'
<1> DEFINE e == Head(mailbox).event
<1>1. /\ mailbox' = Tail(mailbox) /\ mailbox # <<>>
      /\ UNCHANGED <<stream, cancelled, from>>
      /\ subscribers' = StillSubscribed
      /\ sent' = Append(sent, e)
  BY DEF ReceiveSend
<1>2. e \in Events
  <2>1. Head(mailbox) \in SendMsg
    BY HeadTailProperties DEF StreamInv, HubTypeOK, ReceiveSend, SubscribeMsg, SendMsg
  <2> QED
    BY <2>1 DEF SendMsg
<1>3. /\ Len(sent) \in Nat /\ Len(sent') = Len(sent) + 1
      /\ sent'[Len(sent) + 1] = e
      /\ \A i \in 1..Len(sent) : sent'[i] = sent[i]
  BY <1>1, <1>2 DEF StreamInv, HubTypeOK
<1>4. ASSUME NEW c \in Connections PROVE Aligned(c)' /\ Complete(c)'
  <2>1. /\ from[c] \in Nat /\ Len(stream[c]) \in Nat /\ Len(queue[c]) \in Nat
        /\ Aligned(c) /\ Complete(c)
    BY DEF StreamInv, HubTypeOK
  <2>4. queue[c] \in Seq(Events)
    BY DEF StreamInv, HubTypeOK
  <2>5. /\ \A i \in 1..Len(stream[c]) : from[c] + i \in 1..Len(sent)
        /\ \A i \in 1..Len(queue[c]) : from[c] + Len(stream[c]) + i \in 1..Len(sent)
    <3> DEFINE f == from[c]  m == Len(stream[c])  n == Len(queue[c])  k == Len(sent)
    <3>1. f \in Nat /\ m \in Nat /\ n \in Nat /\ k \in Nat /\ f + m + n <= k
      BY <2>1, <1>3 DEF Aligned, Follows
    <3> HIDE DEF f, m, n, k
    <3>2. /\ \A i \in 1..m : f + i \in 1..k
          /\ \A i \in 1..n : f + m + i \in 1..k
      BY <3>1
    <3> QED
      BY <3>2 DEF f, m, n, k
  <2>6. /\ \A i \in 1..Len(stream[c]) : stream[c][i] = sent'[from[c] + i]
        /\ \A i \in 1..Len(queue[c]) : queue[c][i] = sent'[from[c] + Len(stream[c]) + i]
    BY <2>1, <2>5, <1>3 DEF Aligned, Follows
  <2>2. CASE c \in subscribers /\ Accepts(c)
    <3>1. queue'[c] = Append(queue[c], e)
      BY <2>2 DEF ReceiveSend
    <3>2. /\ Len(queue'[c]) = Len(queue[c]) + 1
          /\ queue'[c][Len(queue[c]) + 1] = e
          /\ \A i \in 1..Len(queue[c]) : queue'[c][i] = queue[c][i]
      BY <2>4, <3>1, <1>2
    <3>3. from[c] + Len(stream[c]) + Len(queue[c]) = Len(sent)
      BY <2>1, <2>2 DEF Complete, Accepts
    <3>4. ASSUME NEW i \in 1..Len(queue'[c])
          PROVE  queue'[c][i] = sent'[from[c] + Len(stream[c]) + i]
      <4>1. CASE i = Len(queue[c]) + 1
        <5>1. queue'[c][i] = e
          BY <3>2, <4>1
        <5>2. from[c] + Len(stream[c]) + i = Len(sent) + 1
          <6> DEFINE f == from[c]  m == Len(stream[c])  n == Len(queue[c])  k == Len(sent)
          <6>1. f \in Nat /\ m \in Nat /\ n \in Nat /\ f + m + n = k /\ i = n + 1
            BY <2>1, <3>3, <4>1
          <6> HIDE DEF f, m, n, k
          <6>2. f + m + i = k + 1
            BY <6>1
          <6> QED
            BY <6>2 DEF f, m, n, k
        <5>3. sent'[Len(sent) + 1] = e
          BY <1>3
        <5> QED
          BY <5>1, <5>2, <5>3
      <4>2. CASE i \in 1..Len(queue[c])
        BY <4>2, <2>6, <3>2
      <4> QED
        BY <3>2, <2>1, <4>1, <4>2
    <3>5. from[c] + Len(stream[c]) + Len(queue'[c]) = Len(sent')
      <4>1. Len(queue'[c]) = Len(queue[c]) + 1 /\ Len(sent') = Len(sent) + 1
        BY <1>3, <3>2
      <4>2. from[c] \in Nat /\ Len(stream[c]) \in Nat /\ Len(queue[c]) \in Nat
        BY <2>1
      <4> QED
        BY <3>3, <4>1, <4>2
    <3>6. Len(sent') <= Len(sent')
      BY <1>3
    <3>7. UNCHANGED <<stream, from>>
      BY <1>1
    <3> QED
      BY <2>6, <3>4, <3>5, <3>6, <3>7 DEF Aligned, Follows, Complete
  <2>3. CASE ~(c \in subscribers /\ Accepts(c))
    <3>1. queue'[c] = queue[c] /\ c \notin subscribers'
      BY <2>3, <1>1 DEF ReceiveSend, StillSubscribed
    <3>2. from[c] + Len(stream[c]) + Len(queue[c]) <= Len(sent')
      BY <1>3, <2>1 DEF Aligned, Follows
    <3>3. UNCHANGED <<stream, from>>
      BY <1>1
    <3> QED
      BY <2>6, <3>1, <3>2, <3>3 DEF Aligned, Follows, Complete
  <2> QED
    BY <2>2, <2>3
<1>5. ASSUME NEW c \in Connections PROVE Waits(c)'
  <2>1. Waits(c) /\ HubTypeOK
    BY DEF StreamInv
  <2>2. \A i \in DOMAIN mailbox' : SubscribesAt(i, c)' =>
          /\ c \notin subscribers /\ stream[c] = <<>> /\ queue[c] = <<>>
          /\ \A j \in DOMAIN mailbox' : SubscribesAt(j, c)' => i = j
    BY <2>1, <1>1, WaitsAfterTail
  <2>3. c \notin subscribers => c \notin subscribers' /\ queue'[c] = queue[c]
    BY <1>1 DEF StillSubscribed, ReceiveSend
  <2> QED
    BY <1>1, <2>2, <2>3 DEF Waits
<1> QED
  BY <1>4, <1>5 DEF StreamInv

LEMMA PullStream ==
  ASSUME StreamInv, HubTypeOK', NEW d \in Connections, Pull(d)
  PROVE  StreamInv'
<1>1. UNCHANGED <<mailbox, subscribers, cancelled, sent, from>> /\ queue[d] # <<>>
  BY DEF Pull
<1>2. ASSUME NEW c \in Connections PROVE Aligned(c)' /\ Complete(c)'
  <2>1. /\ from[c] \in Nat /\ Len(stream[c]) \in Nat /\ Len(queue[c]) \in Nat
        /\ Aligned(c) /\ Complete(c)
    BY DEF StreamInv, HubTypeOK
  <2>4. queue[c] \in Seq(Events) /\ stream[c] \in Seq(Events)
    BY DEF StreamInv, HubTypeOK
  <2>2. CASE c = d
    <3>1. /\ stream'[c] = Append(stream[c], Head(queue[c]))
          /\ queue'[c] = Tail(queue[c])
      BY <2>2 DEF StreamInv, HubTypeOK, Pull
    <3>2. /\ Head(queue[c]) = queue[c][1] /\ Len(queue[c]) >= 1
          /\ Head(queue[c]) \in Events
          /\ Len(queue'[c]) = Len(queue[c]) - 1
          /\ \A i \in 1..Len(queue'[c]) : queue'[c][i] = queue[c][i + 1]
      BY <1>1, <2>2, <2>4, <3>1, HeadTailProperties, EmptySeq
    <3>3. /\ Len(stream'[c]) = Len(stream[c]) + 1
          /\ stream'[c][Len(stream[c]) + 1] = queue[c][1]
          /\ \A i \in 1..Len(stream[c]) : stream'[c][i] = stream[c][i]
      BY <2>4, <3>1, <3>2
    <3>4. \A i \in 1..Len(stream'[c]) : stream'[c][i] = sent[from[c] + i]
      <4>1. queue[c][1] = sent[from[c] + Len(stream[c]) + 1]
        BY <2>1, <3>2 DEF Aligned, Follows
      <4>2. \A i \in 1..Len(stream[c]) : stream'[c][i] = sent[from[c] + i]
        BY <2>1, <3>3 DEF Aligned, Follows
      <4>3. \A i \in 1..Len(stream'[c]) : i \in 1..Len(stream[c]) \/ i = Len(stream[c]) + 1
        BY <2>1, <3>3
      <4>4. from[c] + Len(stream[c]) + 1 = from[c] + (Len(stream[c]) + 1)
        BY <2>1
      <4> QED
        BY <3>3, <4>1, <4>2, <4>3, <4>4
    <3>5. ASSUME NEW i \in 1..Len(queue'[c])
          PROVE  queue'[c][i] = sent[from[c] + Len(stream'[c]) + i]
      <4>1. i + 1 \in 1..Len(queue[c]) /\ i \in Nat
        BY <2>1, <3>2
      <4>2. queue[c][i + 1] = sent[from[c] + Len(stream[c]) + (i + 1)]
        BY <2>1, <4>1 DEF Aligned, Follows
      <4>3. from[c] + Len(stream[c]) + (i + 1) = from[c] + Len(stream'[c]) + i
        <5>1. Len(stream'[c]) = Len(stream[c]) + 1 /\ i \in Nat
          BY <3>3, <4>1
        <5>2. from[c] \in Nat /\ Len(stream[c]) \in Nat
          BY <2>1
        <5> QED
          BY <5>1, <5>2
      <4> QED
        BY <3>2, <4>2, <4>3
    <3> QED
      <4>1. from[c] + Len(stream'[c]) + Len(queue'[c]) = from[c] + Len(stream[c]) + Len(queue[c])
        <5>1. Len(stream'[c]) = Len(stream[c]) + 1 /\ Len(queue'[c]) = Len(queue[c]) - 1
          BY <3>2, <3>3
        <5>2. from[c] \in Nat /\ Len(stream[c]) \in Nat /\ Len(queue[c]) \in Nat
          BY <2>1
        <5> DEFINE f == from[c]  m == Len(stream[c])  n == Len(queue[c])
                   m2 == Len(stream'[c])  n2 == Len(queue'[c])
        <5>3. f \in Nat /\ m \in Nat /\ n \in Nat /\ m2 = m + 1 /\ n2 = n - 1
          BY <5>1, <5>2
        <5> HIDE DEF f, m, n, m2, n2
        <5>4. f + m2 + n2 = f + m + n
          BY <5>3
        <5> QED
          BY <5>4 DEF f, m, n, m2, n2
      <4>2. UNCHANGED <<subscribers, cancelled, sent, from>>
        BY <1>1
      <4> QED
        BY <2>1, <3>4, <3>5, <4>1, <4>2 DEF Aligned, Follows, Complete
  <2>3. CASE c # d
    <3>1. stream'[c] = stream[c] /\ queue'[c] = queue[c]
      BY <2>3 DEF StreamInv, HubTypeOK, Pull
    <3> QED
      BY <1>1, <2>1, <3>1 DEF Aligned, Follows, Complete
  <2> QED
    BY <2>2, <2>3
<1>3. ASSUME NEW c \in Connections PROVE Waits(c)'
  <2>1. CASE c = d
    <3>1. \A i \in DOMAIN mailbox : ~SubscribesAt(i, c)
      BY <1>1, <2>1 DEF StreamInv, Waits
    <3> QED
      BY <1>1, <3>1 DEF Waits, SubscribesAt
  <2>2. CASE c # d
    <3>1. stream'[c] = stream[c] /\ queue'[c] = queue[c]
      BY <2>2 DEF StreamInv, HubTypeOK, Pull
    <3> QED
      BY <1>1, <3>1 DEF StreamInv, Waits, SubscribesAt
  <2> QED
    BY <2>1, <2>2
<1> QED
  BY <1>2, <1>3 DEF StreamInv

LEMMA CancelStream ==
  ASSUME StreamInv, HubTypeOK', NEW d \in Connections, Cancel(d)
  PROVE  StreamInv'
<1>1. UNCHANGED <<mailbox, subscribers, stream, sent, from>> /\ cancelled' = cancelled \cup {d}
  BY DEF Cancel
<1>2. ASSUME NEW c \in Connections PROVE Aligned(c)' /\ Complete(c)' /\ Waits(c)'
  <2>1. /\ from[c] \in Nat /\ Len(stream[c]) \in Nat /\ Len(queue[c]) \in Nat
        /\ Len(sent) \in Nat /\ Aligned(c) /\ Complete(c) /\ Waits(c)
    BY DEF StreamInv, HubTypeOK
  <2>2. CASE c = d
    <3>1. queue'[c] = <<>> /\ Len(<<>>) = 0 /\ c \in cancelled'
      BY <1>1, <2>2 DEF StreamInv, HubTypeOK, Cancel
    <3> QED
      BY <1>1, <2>1, <3>1 DEF Aligned, Follows, Complete, Waits, SubscribesAt
  <2>3. CASE c # d
    <3>1. queue'[c] = queue[c] /\ (c \in cancelled' <=> c \in cancelled)
      BY <1>1, <2>3 DEF StreamInv, HubTypeOK, Cancel
    <3> QED
      BY <1>1, <2>1, <3>1 DEF Aligned, Follows, Complete, Waits, SubscribesAt
  <2> QED
    BY <2>2, <2>3
<1> QED
  BY <1>2 DEF StreamInv

LEMMA StreamStep ==
  ASSUME StreamInv, [HubNext]_hubVars
  PROVE  StreamInv'
<1>1. HubTypeOK'
  BY HubTypeStep DEF StreamInv
<1>2. CASE UNCHANGED hubVars
  BY <1>1, <1>2 DEF StreamInv, hubVars, Aligned, Follows, Complete, Waits, SubscribesAt
<1>3. CASE HubNext
  BY <1>1, <1>3, SubscribeStream, CancelStream, SendStream, ReceiveSubscribeStream,
     ReceiveSendStream, PullStream
     DEF HubNext, HubStep
<1> QED
  BY <1>2, <1>3

\* What Follows says of elements, told of sequences.
Begins(given, run) ==
  Len(given) <= Len(run) /\ given = SubSeq(run, 1, Len(given))

LEMMA Consecutive ==
  ASSUME NEW S, NEW s \in Seq(S), NEW t \in Seq(S), NEW w \in Seq(S), NEW f \in Nat,
         Follows(s, t, w, f)
  PROVE  /\ Begins(s \o t, SubSeq(w, f + 1, Len(w)))
         /\ f + Len(s) + Len(t) = Len(w) => s \o t = SubSeq(w, f + 1, Len(w))
<1> USE DEF Follows, Begins
<1> DEFINE run == SubSeq(w, f + 1, Len(w))
           given == s \o t
<1>1. Len(s) \in Nat /\ Len(t) \in Nat /\ Len(w) \in Nat
  OBVIOUS
<1>2. given \in Seq(S) /\ Len(given) = Len(s) + Len(t)
  BY ConcatProperties
<1>3. ASSUME NEW i \in 1..(Len(s) + Len(t)) PROVE given[i] = w[f + i]
  <2>1. given[i] = IF i <= Len(s) THEN s[i] ELSE t[i - Len(s)]
    BY ConcatProperties
  <2>2. CASE i <= Len(s)
    <3>1. i \in 1..Len(s)
      BY <1>1, <2>2
    <3> QED
      BY <2>1, <2>2, <3>1
  <2>3. CASE i > Len(s)
    <3>1. i - Len(s) \in 1..Len(t) /\ f + Len(s) + (i - Len(s)) = f + i /\ ~(i <= Len(s))
      BY <1>1, <2>3
    <3> QED
      BY <2>1, <2>3, <3>1
  <2> QED
    BY <1>1, <2>2, <2>3
<1>4. run \in Seq(S) /\ Len(run) = Len(w) - f
      /\ \A i \in 1..(Len(w) - f) : run[i] = w[f + i]
  <2>1. \A i \in (f + 1)..Len(w) : w[i] \in S
    BY <1>1, ElementOfSeq
  <2>2. /\ run \in Seq(S)
        /\ Len(run) = IF f + 1 <= Len(w) THEN Len(w) - (f + 1) + 1 ELSE 0
        /\ \A i \in 1..(Len(w) - (f + 1) + 1) : run[i] = w[(f + 1) + i - 1]
    BY <1>1, <2>1, SubSeqProperties
  <2>3. /\ Len(w) - (f + 1) + 1 = Len(w) - f
        /\ \A i \in 1..(Len(w) - f) : (f + 1) + i - 1 = f + i
        /\ (~(f + 1 <= Len(w)) => Len(w) - f = 0)
    BY <1>1
  <2> QED
    BY <2>2, <2>3
<1> HIDE DEF run, given
<1>5. Len(given) <= Len(run) /\ Len(given) \in Nat /\ Len(run) \in Nat
  BY <1>1, <1>2, <1>4
<1>6. \A i \in 1..Len(given) : i \in 1..Len(run) /\ given[i] = run[i]
  <2>1. ASSUME NEW i \in 1..Len(given) PROVE i \in 1..Len(run)
    BY <1>5
  <2>2. Len(given) = Len(s) + Len(t) /\ Len(run) = Len(w) - f
    BY <1>2, <1>4
  <2>3. \A i \in 1..Len(given) : given[i] = w[f + i]
    BY <1>3, <2>2
  <2>4. \A i \in 1..Len(run) : run[i] = w[f + i]
    BY <1>4, <2>2
  <2> QED
    BY <2>1, <2>3, <2>4
<1>7. given = SubSeq(run, 1, Len(given))
  <2>1. \A i \in 1..Len(given) : run[i] \in S
    BY <1>4, <1>6, ElementOfSeq
  <2>2. /\ SubSeq(run, 1, Len(given)) \in Seq(S)
        /\ Len(SubSeq(run, 1, Len(given))) = IF 1 <= Len(given) THEN Len(given) - 1 + 1 ELSE 0
        /\ \A i \in 1..(Len(given) - 1 + 1) : SubSeq(run, 1, Len(given))[i] = run[1 + i - 1]
    BY <1>5, <2>1, SubSeqProperties
  <2>3. /\ Len(given) - 1 + 1 = Len(given)
        /\ \A i \in 1..Len(given) : 1 + i - 1 = i
        /\ (~(1 <= Len(given)) => Len(given) = 0)
    BY <1>5
  <2>4. /\ Len(SubSeq(run, 1, Len(given))) = Len(given)
        /\ \A i \in 1..Len(given) : given[i] = SubSeq(run, 1, Len(given))[i]
    BY <1>6, <2>2, <2>3
  <2> QED
    BY <1>2, <2>2, <2>4, SeqEqual
<1>8. f + Len(s) + Len(t) = Len(w) => given = run
  <2> HAVE f + Len(s) + Len(t) = Len(w)
  <2>1. Len(given) = Len(run)
    BY <1>1, <1>2, <1>4
  <2> QED
    BY <1>2, <1>4, <1>6, <2>1, SeqEqual
<1> QED
  BY <1>5, <1>7, <1>8 DEF run, given

\* Positions are enough to tell the sequences.
LEMMA StreamUnbroken == StreamInv => Unbroken
<1> SUFFICES ASSUME StreamInv, NEW c \in Connections
             PROVE  LET given == stream[c] \o queue[c] IN
                    /\ Len(given) <= Len(Window(c))
                    /\ given = SubSeq(Window(c), 1, Len(given))
                    /\ c \in subscribers \ cancelled => given = Window(c)
  BY DEF Unbroken
<1>1. /\ stream[c] \in Seq(Events) /\ queue[c] \in Seq(Events)
      /\ sent \in Seq(Events) /\ from[c] \in Nat
  BY DEF StreamInv, HubTypeOK
<1>2. Aligned(c) /\ Complete(c)
  BY DEF StreamInv
<1>3. Follows(stream[c], queue[c], sent, from[c])
  BY <1>2 DEF Aligned
<1>4. PICK s, t, w, f : s = stream[c] /\ t = queue[c] /\ w = sent /\ f = from[c]
  OBVIOUS
<1>5. /\ s \in Seq(Events) /\ t \in Seq(Events) /\ w \in Seq(Events) /\ f \in Nat
      /\ Follows(s, t, w, f)
  BY <1>1, <1>3, <1>4
<1>6. /\ Begins(s \o t, SubSeq(w, f + 1, Len(w)))
      /\ f + Len(s) + Len(t) = Len(w) => s \o t = SubSeq(w, f + 1, Len(w))
  BY ONLY <1>5, Consecutive
<1>7. Window(c) = SubSeq(w, f + 1, Len(w)) /\ stream[c] \o queue[c] = s \o t
  BY <1>4 DEF Window
<1>8. Begins(s \o t, Window(c)) /\ (c \in subscribers \ cancelled => s \o t = Window(c))
  BY <1>2, <1>4, <1>6, <1>7 DEF Complete
<1> QED
  BY <1>7, <1>8 DEF Begins

\* What a connection is given is an unbroken run of the events from the moment
\* it was subscribed, and the whole run while it is subscribed: an actor that
\* drops the subscriber whose queue refuses an event (SSEActor.receive) never
\* leaves a gap in a stream.
THEOREM StreamsUnbroken == HubSpec => []Unbroken
<1> QED
  BY StreamInit, StreamStep, StreamUnbroken, PTL DEF HubSpec

=============================================================================
