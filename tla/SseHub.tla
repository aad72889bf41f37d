------------------------------- MODULE SseHub -------------------------------
(***************************************************************************)
(* The server's fan-out of events: the mailbox of the SSE actor, the       *)
(* bounded queue of each subscription and the response stream behind it.   *)
(*                                                                         *)
(* The actor offers an event to every subscriber without waiting.  The one *)
(* whose queue does not take it is dropped from the map and never offered  *)
(* anything again; its stream is not completed.                            *)
(***************************************************************************)
EXTENDS Naturals, FiniteSets, Sequences

CONSTANTS
  Connections,  \* requests to /sse/subscribe, each with its own UUID
  Events,       \* what may be sent, the keep-alive among them
  QueueSize     \* Source.queue's buffer: 1 in the code

ASSUME HubAssumption == QueueSize \in Nat \ {0}

VARIABLES
  mailbox,      \* messages the actor has not received yet, in order
  subscribers,  \* keys of SSEActorState.subscribers
  queue,        \* events a subscription's queue holds
  stream,       \* events its response has taken from the queue, in order
  cancelled,    \* subscriptions whose response has ended
  sent,         \* history: the events the actor has fanned out, in order
  from          \* history: how many it had when a connection was subscribed

hubVars == <<mailbox, subscribers, queue, stream, cancelled, sent, from>>

SubscribeMsg == [kind: {"Subscribe"}, conn: Connections]
SendMsg == [kind: {"Send"}, event: Events]

HubTypeOK ==
  /\ mailbox \in Seq(SubscribeMsg \cup SendMsg)
  /\ subscribers \subseteq Connections
  /\ queue \in [Connections -> Seq(Events)]
  /\ \A c \in Connections : Len(queue[c]) <= QueueSize
  /\ stream \in [Connections -> Seq(Events)]
  /\ cancelled \subseteq Connections
  /\ sent \in Seq(Events)
  /\ from \in [Connections -> Nat]

HubInit ==
  /\ mailbox = <<>>
  /\ subscribers = {}
  /\ queue = [c \in Connections |-> <<>>]
  /\ stream = [c \in Connections |-> <<>>]
  /\ cancelled = {}
  /\ sent = <<>>
  /\ from = [c \in Connections |-> 0]

----------------------------------------------------------------------------

\* subscribe: the queue is made and the actor told of it.
Subscribe(c) ==
  /\ mailbox' = Append(mailbox, [kind |-> "Subscribe", conn |-> c])
  /\ UNCHANGED <<subscribers, queue, stream, cancelled, sent, from>>

\* send, and each tick of the keep-alive.
Send(e) ==
  /\ mailbox' = Append(mailbox, [kind |-> "Send", event |-> e])
  /\ UNCHANGED <<subscribers, queue, stream, cancelled, sent, from>>

ReceiveSubscribe ==
  /\ mailbox # <<>> /\ Head(mailbox).kind = "Subscribe"
  /\ LET c == Head(mailbox).conn IN
     /\ subscribers' = subscribers \cup {c}
     /\ from' = [from EXCEPT ![c] = Len(sent)]
  /\ mailbox' = Tail(mailbox)
  /\ UNCHANGED <<queue, stream, cancelled, sent>>

\* Mutant: the buffer takes one event too many.
AcceptsOneMore(c) == c \notin cancelled /\ Len(queue[c]) <= QueueSize

\* elem.offer(event) == QueueOfferResult.Enqueued
Accepts(c) == c \notin cancelled /\ Len(queue[c]) < QueueSize

\* Mutant: a queue that is full loses the event and keeps its subscription.
KeptAfterOffer == {c \in subscribers : c \notin cancelled}

\* The subscribers that took the event; the others are dropped.
StillSubscribed == {c \in subscribers : Accepts(c)}

ReceiveSend ==
  /\ mailbox # <<>> /\ Head(mailbox).kind = "Send"
  /\ LET e == Head(mailbox).event IN
     /\ queue' = [c \in Connections |->
                    IF c \in subscribers /\ Accepts(c)
                    THEN Append(queue[c], e) ELSE queue[c]]
     /\ sent' = Append(sent, e)
  /\ subscribers' = StillSubscribed
  /\ mailbox' = Tail(mailbox)
  /\ UNCHANGED <<stream, cancelled, from>>

\* The response asks its queue for the next event.
Pull(c) ==
  /\ queue[c] # <<>>
  /\ stream' = [stream EXCEPT ![c] = Append(@, Head(queue[c]))]
  /\ queue' = [queue EXCEPT ![c] = Tail(@)]
  /\ UNCHANGED <<mailbox, subscribers, cancelled, sent, from>>

\* The response ends, with the client or by the server's idle timeout; what the
\* queue still held is lost.
Cancel(c) ==
  /\ cancelled' = cancelled \cup {c}
  /\ queue' = [queue EXCEPT ![c] = <<>>]
  /\ UNCHANGED <<mailbox, subscribers, stream, sent, from>>

\* The actor and the responses run by themselves.
HubStep == ReceiveSubscribe \/ ReceiveSend \/ \E c \in Connections : Pull(c)

SubscribesAt(i, c) == mailbox[i] = [kind |-> "Subscribe", conn |-> c]

\* A UUID that subscribe has not drawn yet.
Fresh(c) ==
  /\ c \notin subscribers \cup cancelled
  /\ stream[c] = <<>> /\ queue[c] = <<>>
  /\ \A i \in DOMAIN mailbox : ~SubscribesAt(i, c)

HubNext ==
  \/ \E c \in Connections : (Fresh(c) /\ Subscribe(c)) \/ (~Fresh(c) /\ Cancel(c))
  \/ \E e \in Events : Send(e)
  \/ HubStep

HubSpec == HubInit /\ [][HubNext]_hubVars

----------------------------------------------------------------------------
(* Properties *)

Window(c) == SubSeq(sent, from[c] + 1, Len(sent))

\* What a connection is given is an unbroken run of the events, from the moment
\* it was subscribed: nothing is skipped, repeated or reordered.  As long as
\* the connection is subscribed and its response goes on, the run is complete.
\* This is why a subscriber that cannot keep up is dropped and not just passed
\* over.
Unbroken ==
  \A c \in Connections :
    LET given == stream[c] \o queue[c] IN
    /\ Len(given) <= Len(Window(c))
    /\ given = SubSeq(Window(c), 1, Len(given))
    /\ c \in subscribers \ cancelled => given = Window(c)

=============================================================================
