------------------------------ MODULE Delivery ------------------------------
(***************************************************************************)
(* smp.Client on one queue of a relay that keeps its side of the protocol  *)
(* as the client's comments state it: a message stays in the queue until   *)
(* it is acknowledged, only one is out at a time, SUB is answered by the   *)
(* first message if there is one, and END says that another connection has *)
(* taken over.  Between the two there is a stream each way.  The           *)
(* application reads the channels it is given and acknowledges what it     *)
(* reads.                                                                  *)
(***************************************************************************)
EXTENDS Client, FiniteSets

CONSTANTS
    Q,       \* the queue
    Last,    \* bound: messages sent to it, 1..Last
    Hasty    \* calls whose context may end

Subscribes == {c \in Calls : Op[c] = "Subscribe"}

ASSUME DeliveryAssumption ==
    /\ Q \in Queues /\ \A c \in Calls : Queue[c] = Q
    /\ Op \in [Calls -> {"Subscribe", "Ack"}]
    /\ Last \in Nat /\ Msgs = 1..Last
    /\ {"OK", "ERR"} \subseteq ReplyTypes
    /\ IsFiniteSet(Subscribes) /\ BufCap >= Cardinality(Subscribes)

VARIABLES
    arrived, acked,  \* the relay has 1..arrived of which 1..acked are gone
    held,            \* this connection is subscribed
    out,             \* acked + 1 has been sent on this subscription
    uplink,          \* commands under way
    downlink,        \* answers and events under way
    received,        \* history: what the application has read
    acking           \* acking[c]: the message that c acknowledges

relayVars == <<arrived, acked, held, out>>
linkVars == <<uplink, downlink>>
appVars == <<received, acking>>
deliveryVars == <<vars, relayVars, linkVars, appVars>>

DeliveryInit ==
    /\ Init
    /\ arrived = 0 /\ acked = 0
    /\ held = FALSE /\ out = FALSE
    /\ uplink = <<>> /\ downlink = <<>>
    /\ received = <<>>
    /\ acking = [c \in Calls |-> None]

-----------------------------------------------------------------------------
(* The relay.                                                              *)

Transmission(to, type, id) == [to |-> to, msg |-> Broker(type, id)]
Answer(type, id) == Transmission(Head(uplink), type, id)
Event(type, id) == Transmission(None, type, id)

Arrive ==
    /\ arrived < Last
    /\ arrived' = arrived + 1
    /\ UNCHANGED <<vars, acked, held, out, linkVars, appVars>>

\* The first message is sent again, whoever had it before.
RelaySub ==
    /\ uplink # <<>> /\ Op[Head(uplink)] = "Subscribe"
    /\ held' = TRUE
    /\ out' = (acked < arrived)
    /\ downlink' = Append(downlink, IF acked < arrived THEN Answer("MSG", acked + 1)
                                    ELSE Answer("OK", None))
    /\ uplink' = Tail(uplink)
    /\ UNCHANGED <<vars, arrived, acked, appVars>>

Acknowledges == held /\ out /\ acking[Head(uplink)] = acked + 1

RelayAck ==
    /\ uplink # <<>> /\ Op[Head(uplink)] = "Ack"
    /\ Acknowledges
    /\ acked' = acked + 1
    /\ out' = FALSE
    /\ downlink' = Append(downlink, Answer("OK", None))
    /\ uplink' = Tail(uplink)
    /\ UNCHANGED <<vars, arrived, held, appVars>>

RelayAckRefused ==
    /\ uplink # <<>> /\ Op[Head(uplink)] = "Ack"
    /\ ~Acknowledges
    /\ downlink' = Append(downlink, Answer("ERR", None))
    /\ uplink' = Tail(uplink)
    /\ UNCHANGED <<vars, relayVars, appVars>>

\* Mutant: the message is sent again although it is out.
RelayPushAgain ==
    /\ held
    /\ acked < arrived
    /\ out' = TRUE
    /\ downlink' = Append(downlink, Event("MSG", acked + 1))
    /\ UNCHANGED <<vars, arrived, acked, held, uplink, appVars>>

RelayPush ==
    /\ held /\ ~out
    /\ acked < arrived
    /\ out' = TRUE
    /\ downlink' = Append(downlink, Event("MSG", acked + 1))
    /\ UNCHANGED <<vars, arrived, acked, held, uplink, appVars>>

\* Another connection subscribes; it leaves the messages where they are.
TakeOver ==
    /\ held
    /\ held' = FALSE /\ out' = FALSE
    /\ downlink' = Append(downlink, Event("END", None))
    /\ UNCHANGED <<vars, arrived, acked, uplink, appVars>>

Relay == Arrive \/ RelaySub \/ RelayAck \/ RelayAckRefused \/ RelayPush \/ TakeOver

-----------------------------------------------------------------------------
(* The client between the two streams.                                     *)

Transmit(c) ==
    /\ WriteOut(c)
    /\ uplink' = Append(uplink, c)
    /\ UNCHANGED <<relayVars, downlink, appVars>>

Next1 == Head(downlink)

\* The reader takes the next transmission; dispatch finds whom it is for.
TakeReply ==
    /\ downlink # <<>> /\ Next1.to # None
    /\ downlink' = Tail(downlink)
    /\ IF Next1.to \in sentCmds THEN DispatchReply(Next1.to, Next1.msg) ELSE DropTransmission
    /\ UNCHANGED <<relayVars, uplink, appVars>>

TakeMsg ==
    /\ downlink # <<>> /\ Next1.to = None /\ Next1.msg.type = "MSG"
    /\ downlink' = Tail(downlink)
    /\ IF subs[Q] # None THEN DispatchMsg(Q, Next1.msg.id) ELSE DropTransmission
    /\ UNCHANGED <<relayVars, uplink, appVars>>

TakeEnd ==
    /\ downlink # <<>> /\ Next1.to = None /\ Next1.msg.type = "END"
    /\ downlink' = Tail(downlink)
    /\ IF subs[Q] # None THEN DispatchEnd(Q) ELSE DropTransmission
    /\ UNCHANGED <<relayVars, uplink, appVars>>

TakeNext == TakeReply \/ TakeMsg \/ TakeEnd

\* The steps of a call which neither stream sees.
Quiet(c) ==
    /\ \/ SubscribeRefused(c) \/ SubscribeRegister(c) \/ BeginSend(c)
       \/ WriteDone(c) \/ WriteFail(c) \/ Select(c) \/ Settle(c)
       \/ c \in Hasty /\ Cancel(c)
    /\ UNCHANGED <<relayVars, linkVars, appVars>>

-----------------------------------------------------------------------------
(* The application.                                                        *)

Read(c) ==
    /\ Receive(c)
    /\ received' = Append(received, Head(buf[c]))
    /\ UNCHANGED <<relayVars, linkVars, acking>>

Seen == {received[i] : i \in 1..Len(received)}

\* What was read and no other Ack is about, or has been.
Unacknowledged(m) ==
    m \in Seen /\ \A a \in Calls : acking[a] = m => outcome[a] \notin {"none", "ok"}

StartAck(a, m) ==
    /\ Op[a] = "Ack"
    /\ Unacknowledged(m)
    /\ Start(a)
    /\ acking' = [acking EXCEPT ![a] = m]
    /\ UNCHANGED <<relayVars, linkVars, received>>

SessionEnds == HandleReadError /\ UNCHANGED <<relayVars, linkVars, appVars>>

DeliveryNext ==
    \/ Relay \/ TakeNext \/ SessionEnds
    \/ \E c \in Calls : Quiet(c) \/ Transmit(c) \/ Read(c) \/ \E m \in Msgs : StartAck(c, m)

DeliverySpec == DeliveryInit /\ [][DeliveryNext]_deliveryVars

-----------------------------------------------------------------------------
(* Fairness: the goroutines, the reader, the relay and the application each *)
(* do what they can; nobody need call, cancel, take over or end a session.  *)

DeliveryFairSpec ==
    /\ DeliverySpec
    /\ WF_deliveryVars(RelaySub \/ RelayAck \/ RelayAckRefused)
    /\ WF_deliveryVars(RelayPush)
    /\ WF_deliveryVars(TakeNext)
    /\ \A c \in Calls : WF_deliveryVars(Read(c))

-----------------------------------------------------------------------------
(* Properties.                                                             *)

Pushed == {downlink[i].msg.id : i \in {j \in 1..Len(downlink) :
                                        downlink[j].to = None /\ downlink[j].msg.type = "MSG"}}
Buffered(c) == {buf[c][i] : i \in 1..Len(buf[c])}

UnderWay(c) == pc[c] \notin {"idle", "returned"}

\* c's subscription is one that both ends know of, and no other Subscribe is under
\* way.  One that is, while c is registered, has lost its registration to an END,
\* or to a Subscribe that is about to panic; its SUB may come after c's and be
\* answered with the message.
Subscribed(c) ==
    /\ Running /\ held
    /\ subs[Q] = c /\ outcome[c] = "ok"
    /\ \A d \in Subscribes : ~UnderWay(d)

\* A message that reaches the reader finds room in the channel it is for, and so
\* does one that came as the answer to SUB, whose sender would wait for ever: with
\* one message out at a time, a channel fills only with what SUBs send again.
PushFindsRoom ==
    \A c \in Calls :
        (subs[Q] = c /\ downlink # <<>> /\ Next1.to = None /\ Next1.msg.type = "MSG") \/ pc[c] = "pushing"
            => HasRoom(c)

\* The message that is out on such a subscription is under way, in the channel
\* or has been read: dispatch drops none for want of room, none goes to a
\* channel nobody reads, and none came as an answer that was thrown away.
NothingLost ==
    \A c \in Calls : Subscribed(c) /\ out => acked + 1 \in Pushed \cup Buffered(c) \cup Seen

Handled == {c \in Subscribes \cap written : \A i \in 1..Len(uplink) : uplink[i] # c}
Times(m) == Cardinality({i \in 1..Len(received) : received[i] = m})

\* A message is read for the first time when every earlier one has been read,
\* although the answer to SUB is put in the channel by another goroutine than
\* the messages that follow it; and again only after another SUB.
ReadInOrder ==
    /\ \A i \in 1..Len(received) : \A m \in 1..(received[i] - 1) :
           \E j \in 1..(i - 1) : received[j] = m
    /\ \A m \in Msgs : Times(m) <= Cardinality(Handled)

\* On a subscription that lasts, the message at the head of the queue is read.
Delivered ==
    \A m \in Msgs :
        (acked = m - 1 /\ arrived >= m /\ \E c \in Calls : Subscribed(c))
            ~> (m \in Seen \/ ~\E c \in Calls : Subscribed(c))

=============================================================================
