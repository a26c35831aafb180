--------------------------- MODULE DeliveryProofs ---------------------------
(***************************************************************************)
(* Proofs about Delivery, for every number of calls and of messages.       *)
(*                                                                         *)
(* First, that the client of Delivery is the client of Client: a relay     *)
(* that keeps to the protocol, the streams and the application only choose *)
(* among its steps, and what ClientProofs shows for any peer holds with    *)
(* this one.  Then, that no message is lost: no channel fills, because     *)
(* each copy of a message stands for a SUB or an acknowledgement; and the  *)
(* message that is out is somewhere on its way, because the commands of a  *)
(* queue's Subscribes reach the relay in the order of their registrations. *)
(* Last, that messages are read in order: there are no copies of one       *)
(* before those before it are acknowledged, and never more than SUBs the   *)
(* relay has handled.                                                      *)
(***************************************************************************)
EXTENDS Delivery, ClientProofs, SequenceTheorems, FiniteSetTheorems

Events == [to : {None}, msg : {Broker("MSG", m) : m \in Msgs} \cup {Broker("END", None)}]
Answers == [to : Calls, msg : Replies]

\* The streams carry what the client can be sent.
LinkInv ==
    /\ arrived \in 0..Last /\ acked \in Nat
    /\ uplink \in Seq(Calls)
    /\ downlink \in Seq(Answers \cup Events)

LEMMA Constants ==
    /\ None \notin Calls /\ Q \in Queues /\ Last \in Nat /\ Msgs = 1..Last
    /\ Broker("OK", None) \in Replies /\ Broker("ERR", None) \in Replies
    /\ \A m \in Msgs : Broker("MSG", m) \in Replies
<1>1. None \notin Calls
  BY ConstantsAssumption
<1>2. Q \in Queues /\ Last \in Nat /\ Msgs = 1..Last /\ "OK" \in ReplyTypes /\ "ERR" \in ReplyTypes
  BY DeliveryAssumption
<1> QED BY <1>1, <1>2 DEF Replies

LEMMA LinkInit == DeliveryInit => LinkInv
<1> SUFFICES ASSUME DeliveryInit PROVE LinkInv
  OBVIOUS
<1>1. arrived = 0 /\ acked = 0 /\ uplink = <<>> /\ downlink = <<>>
  BY DEF DeliveryInit
<1> QED BY <1>1, Constants, EmptySeq DEF LinkInv

\* What is at the head of a stream is one of these.
LEMMA Heads ==
    ASSUME LinkInv
    PROVE  /\ uplink # <<>> => Head(uplink) \in Calls /\ Tail(uplink) \in Seq(Calls)
           /\ downlink # <<>> =>
                /\ Next1 \in Answers \cup Events
                /\ Tail(downlink) \in Seq(Answers \cup Events)
BY HeadTailProperties DEF LinkInv, Next1

LEMMA Appended ==
    ASSUME LinkInv, NEW t \in Answers \cup Events
    PROVE  Append(downlink, t) \in Seq(Answers \cup Events)
BY AppendProperties DEF LinkInv

LEMMA AnswerIsAnswer ==
    ASSUME LinkInv, uplink # <<>>, NEW type, NEW id, Broker(type, id) \in Replies
    PROVE  Answer(type, id) \in Answers \cup Events
<1>1. Head(uplink) \in Calls
  BY Heads
<1> QED BY <1>1 DEF Answer, Transmission, Answers

LEMMA EventIsEvent ==
    /\ \A m \in Msgs : Event("MSG", m) \in Answers \cup Events
    /\ Event("END", None) \in Answers \cup Events
BY DEF Event, Transmission, Events

LEMMA LinkStep == LinkInv /\ [DeliveryNext]_deliveryVars => LinkInv'
<1> SUFFICES ASSUME LinkInv, [DeliveryNext]_deliveryVars PROVE LinkInv'
  OBVIOUS
<1>1. CASE Arrive
  BY <1>1, Constants DEF Arrive, LinkInv, linkVars
<1>2. CASE RelaySub
  <2>1. acked < arrived => Broker("MSG", acked + 1) \in Replies
    BY Constants DEF LinkInv
  <2>2. /\ uplink # <<>> /\ uplink' = Tail(uplink) /\ UNCHANGED <<arrived, acked>>
        /\ downlink' = Append(downlink, IF acked < arrived THEN Answer("MSG", acked + 1)
                                        ELSE Answer("OK", None))
    BY <1>2 DEF RelaySub
  <2>3. downlink' \in Seq(Answers \cup Events)
    <3>1. CASE acked < arrived
      BY <2>1, <2>2, <3>1, AnswerIsAnswer, Appended
    <3>2. CASE ~(acked < arrived)
      BY <2>2, <3>2, Constants, AnswerIsAnswer, Appended
    <3> QED BY <3>1, <3>2
  <2> QED BY <2>2, <2>3, Heads DEF LinkInv
<1>3. CASE RelayAck
  <2>1. /\ uplink # <<>> /\ uplink' = Tail(uplink) /\ arrived' = arrived /\ acked' = acked + 1
        /\ downlink' = Append(downlink, Answer("OK", None))
    BY <1>3 DEF RelayAck
  <2>2. downlink' \in Seq(Answers \cup Events)
    BY <2>1, Constants, AnswerIsAnswer, Appended
  <2> QED BY <2>1, <2>2, Heads DEF LinkInv
<1>4. CASE RelayAckRefused
  <2>1. /\ uplink # <<>> /\ uplink' = Tail(uplink) /\ UNCHANGED <<arrived, acked>>
        /\ downlink' = Append(downlink, Answer("ERR", None))
    BY <1>4 DEF RelayAckRefused, relayVars
  <2>2. downlink' \in Seq(Answers \cup Events)
    BY <2>1, Constants, AnswerIsAnswer, Appended
  <2> QED BY <2>1, <2>2, Heads DEF LinkInv
<1>5. CASE RelayPush
  <2>1. acked + 1 \in Msgs
    BY <1>5, Constants DEF RelayPush, LinkInv
  <2>2. downlink' = Append(downlink, Event("MSG", acked + 1)) /\ UNCHANGED <<arrived, acked, uplink>>
    BY <1>5 DEF RelayPush
  <2>3. downlink' \in Seq(Answers \cup Events)
    BY <2>1, <2>2, EventIsEvent, Appended
  <2> QED BY <2>2, <2>3 DEF LinkInv
<1>6. CASE TakeOver
  <2>1. downlink' = Append(downlink, Event("END", None)) /\ UNCHANGED <<arrived, acked, uplink>>
    BY <1>6 DEF TakeOver
  <2>2. downlink' \in Seq(Answers \cup Events)
    BY <2>1, EventIsEvent, Appended
  <2> QED BY <2>1, <2>2 DEF LinkInv
<1>7. CASE TakeNext
  <2>1. downlink # <<>> /\ downlink' = Tail(downlink) /\ UNCHANGED <<arrived, acked, uplink>>
    BY <1>7 DEF TakeNext, TakeReply, TakeMsg, TakeEnd, relayVars
  <2> QED BY <2>1, Heads DEF LinkInv
<1>8. ASSUME NEW c \in Calls, Transmit(c) PROVE LinkInv'
  <2>1. uplink' = Append(uplink, c) /\ UNCHANGED <<arrived, acked, downlink>>
    BY <1>8 DEF Transmit, relayVars
  <2> QED BY <2>1, AppendProperties DEF LinkInv
<1>9. CASE SessionEnds \/ \E c \in Calls : Quiet(c) \/ Read(c) \/ \E m \in Msgs : StartAck(c, m)
  BY <1>9 DEF SessionEnds, Quiet, Read, StartAck, relayVars, linkVars, LinkInv
<1>10. CASE UNCHANGED deliveryVars
  BY <1>10 DEF deliveryVars, relayVars, linkVars, LinkInv
<1> QED BY <1>1, <1>2, <1>3, <1>4, <1>5, <1>6, <1>7, <1>8, <1>9, <1>10 DEF DeliveryNext, Relay

\* The reader takes what an arbitrary peer could have sent.
LEMMA TakenByReader ==
    ASSUME LinkInv, TakeNext
    PROVE  Reader
<1>1. downlink # <<>> /\ Next1 \in Answers \cup Events
  BY Heads DEF TakeNext, TakeReply, TakeMsg, TakeEnd
<1>2. CASE TakeReply
  <2>1. Next1 \in Answers
    BY <1>1, <1>2 DEF TakeReply, Events
  <2>2. Next1.to \in Calls /\ Next1.msg \in Replies
    BY <2>1 DEF Answers
  <2>3. DispatchReply(Next1.to, Next1.msg) \/ DropTransmission
    BY <1>2 DEF TakeReply
  <2> QED BY <2>2, <2>3 DEF Reader
<1>3. CASE TakeMsg
  <2>1. Next1 \in Events /\ Next1.msg.type = "MSG"
    BY <1>1, <1>3, Constants DEF TakeMsg, Answers
  <2>2. Next1.msg.id \in Msgs
    BY <2>1 DEF Events, Broker
  <2>3. DispatchMsg(Q, Next1.msg.id) \/ DropTransmission
    BY <1>3 DEF TakeMsg
  <2> QED BY <2>2, <2>3, Constants DEF Reader
<1>4. CASE TakeEnd
  <2>1. DispatchEnd(Q) \/ DropTransmission
    BY <1>4 DEF TakeEnd
  <2> QED BY <2>1, Constants DEF Reader
<1> QED BY <1>2, <1>3, <1>4 DEF TakeNext

LEMMA ClientStep == LinkInv /\ [DeliveryNext]_deliveryVars => [Next]_vars
<1> SUFFICES ASSUME LinkInv, [DeliveryNext]_deliveryVars PROVE [Next]_vars
  OBVIOUS
<1>1. CASE Relay
  BY <1>1 DEF Relay, Arrive, RelaySub, RelayAck, RelayAckRefused, RelayPush, TakeOver
<1>2. CASE TakeNext
  BY <1>2, TakenByReader DEF Next
<1>3. CASE SessionEnds
  BY <1>3 DEF SessionEnds, Next, Reader
<1>4. ASSUME NEW c \in Calls, Quiet(c) PROVE Next
  <2>1. Call(c) \/ Cancel(c)
    BY <1>4 DEF Quiet, Call, Begin, Write
  <2> QED BY <2>1 DEF Next, Environment
<1>5. ASSUME NEW c \in Calls, Transmit(c) PROVE Next
  BY <1>5 DEF Transmit, Next, Call, Write
<1>6. ASSUME NEW c \in Calls, Read(c) PROVE Next
  BY <1>6 DEF Read, Next, Environment
<1>7. ASSUME NEW c \in Calls, NEW m \in Msgs, StartAck(c, m) PROVE Next
  BY <1>7 DEF StartAck, Next, Call, Begin
<1>8. CASE UNCHANGED deliveryVars
  BY <1>8 DEF deliveryVars
<1> QED BY <1>1, <1>2, <1>3, <1>4, <1>5, <1>6, <1>7, <1>8 DEF DeliveryNext

\* Whatever holds of the client with any peer holds between this relay and this
\* application.
THEOREM ClientInside == DeliverySpec => Spec
<1>1. DeliveryInit => Init
  BY DEF DeliveryInit
<1> QED BY <1>1, LinkInit, LinkStep, ClientStep, PTL DEF DeliverySpec, Spec

\* For one: between this relay and this application, too, no caller is left
\* waiting for an answer that nobody can give, and no run-time panic is left in
\* the code that holds the lock.
THEOREM NotStrandedInside == DeliverySpec => [](NoStranded /\ LockedCodeNeverPanics)
BY ClientInside, NeverStranded, LockedCodeSafe, PTL

-----------------------------------------------------------------------------
(* Sequences by what is in them.                                           *)

Items(s) == {s[i] : i \in 1..Len(s)}
Distinct(s) == \A i, j \in 1..Len(s) : s[i] = s[j] => i = j

\* At most one transmission for each call.
OnceTo(s) == \A i, j \in 1..Len(s) : s[i].to = s[j].to /\ s[i].to # None => i = j

LEMMA Taken ==
    ASSUME NEW S, NEW s \in Seq(S), s # <<>>
    PROVE  /\ Tail(s) \in Seq(S) /\ Len(Tail(s)) = Len(s) - 1 /\ Len(s) \in Nat \ {0}
           /\ \A i \in 1..Len(Tail(s)) : Tail(s)[i] = s[i + 1]
           /\ Head(s) = s[1]
BY HeadTailProperties

LEMMA TailItems ==
    ASSUME NEW S, NEW s \in Seq(S), s # <<>>
    PROVE  Items(Tail(s)) \subseteq Items(s) /\ Items(s) = Items(Tail(s)) \cup {Head(s)}
<1> DEFINE t == Tail(s)
<1>1. /\ Len(t) = Len(s) - 1 /\ Len(s) \in Nat \ {0}
      /\ \A i \in 1..Len(t) : t[i] = s[i + 1]
      /\ Head(s) = s[1]
  BY Taken
<1> HIDE DEF t
<1>2. \A i \in 1..Len(t) : i + 1 \in 1..Len(s)
  BY <1>1
<1>3. \A i \in 1..Len(s) : i = 1 \/ (i - 1 \in 1..Len(t) /\ s[i] = t[i - 1])
  <2> SUFFICES ASSUME NEW i \in 1..Len(s), i # 1 PROVE i - 1 \in 1..Len(t) /\ s[i] = t[i - 1]
    OBVIOUS
  <2>1. i - 1 \in 1..Len(t) /\ (i - 1) + 1 = i
    BY <1>1
  <2> QED BY <1>1, <2>1
<1>4. 1 \in 1..Len(s)
  BY <1>1
<1>5. Items(t) \subseteq Items(s)
  BY <1>1, <1>2 DEF Items
<1>6. Items(s) \subseteq Items(t) \cup {Head(s)}
  BY <1>1, <1>3 DEF Items
<1>7. Head(s) \in Items(s)
  BY <1>1, <1>4 DEF Items
<1> QED BY <1>5, <1>6, <1>7 DEF t

LEMMA TailDistinct ==
    ASSUME NEW S, NEW s \in Seq(S), s # <<>>, Distinct(s)
    PROVE  Distinct(Tail(s)) /\ Head(s) \notin Items(Tail(s))
<1> DEFINE t == Tail(s)
<1>1. /\ Len(t) = Len(s) - 1 /\ Len(s) \in Nat \ {0}
      /\ \A i \in 1..Len(t) : t[i] = s[i + 1]
      /\ Head(s) = s[1]
  BY Taken
<1> HIDE DEF t
<1>2. \A i \in 1..Len(t) : i + 1 \in 1..Len(s) /\ i + 1 # 1 /\ i \in Int
  BY <1>1
<1>3. 1 \in 1..Len(s)
  BY <1>1
<1>4. Distinct(t)
  <2> SUFFICES ASSUME NEW i \in 1..Len(t), NEW j \in 1..Len(t), t[i] = t[j] PROVE i = j
    BY DEF Distinct
  <2>1. i + 1 = j + 1
    BY <1>1, <1>2 DEF Distinct
  <2> QED BY <1>2, <2>1
<1>5. Head(s) \notin Items(t)
  BY <1>1, <1>2, <1>3 DEF Distinct, Items
<1> QED BY <1>4, <1>5 DEF t

LEMMA TailOnceTo ==
    ASSUME NEW S, NEW s \in Seq(S), s # <<>>, OnceTo(s)
    PROVE  /\ OnceTo(Tail(s))
           /\ \A x \in Items(Tail(s)) : Head(s).to # None => x.to # Head(s).to
<1> DEFINE t == Tail(s)
<1>1. /\ Len(t) = Len(s) - 1 /\ Len(s) \in Nat \ {0}
      /\ \A i \in 1..Len(t) : t[i] = s[i + 1]
      /\ Head(s) = s[1]
  BY Taken
<1> HIDE DEF t
<1>2. \A i \in 1..Len(t) : i + 1 \in 1..Len(s) /\ i + 1 # 1 /\ i \in Int
  BY <1>1
<1>3. 1 \in 1..Len(s)
  BY <1>1
<1>4. OnceTo(t)
  <2> SUFFICES ASSUME NEW i \in 1..Len(t), NEW j \in 1..Len(t),
                      t[i].to = t[j].to, t[i].to # None
               PROVE  i = j
    BY DEF OnceTo
  <2>1. i + 1 = j + 1
    BY <1>1, <1>2 DEF OnceTo
  <2> QED BY <1>2, <2>1
<1>5. ASSUME NEW x \in Items(t), Head(s).to # None PROVE x.to # Head(s).to
  <2>1. PICK i \in 1..Len(t) : x = t[i]
    BY DEF Items
  <2> QED BY <1>1, <1>2, <1>3, <1>5, <2>1 DEF OnceTo
<1> QED BY <1>4, <1>5 DEF t

LEMMA Added ==
    ASSUME NEW S, NEW s \in Seq(S), NEW x \in S
    PROVE  LET t == Append(s, x) IN
           /\ Items(t) = Items(s) \cup {x}
           /\ Len(t) = Len(s) + 1 /\ Len(s) \in Nat /\ t[Len(s) + 1] = x
           /\ \A i \in 1..Len(s) : t[i] = s[i]
           /\ Distinct(s) /\ x \notin Items(s) => Distinct(t)
           /\ OnceTo(s) /\ (\A y \in Items(s) : x.to # None => y.to # x.to) => OnceTo(t)
<1> DEFINE t == Append(s, x)
<1>1. /\ Len(t) = Len(s) + 1 /\ Len(s) \in Nat
      /\ t[Len(s) + 1] = x
      /\ \A i \in 1..Len(s) : t[i] = s[i]
  BY AppendProperties
<1> HIDE DEF t
<1>2. \A i \in 1..Len(t) : i \in 1..Len(s) \/ i = Len(s) + 1
  BY <1>1
<1>3. /\ \A i \in 1..Len(s) : i \in 1..Len(t)
      /\ Len(s) + 1 \in 1..Len(t)
  BY <1>1
<1>4. Items(t) = Items(s) \cup {x}
  BY <1>1, <1>2, <1>3 DEF Items
<1>5. Distinct(s) /\ x \notin Items(s) => Distinct(t)
  BY <1>1, <1>2 DEF Distinct, Items
<1>6. OnceTo(s) /\ (\A y \in Items(s) : x.to # None => y.to # x.to) => OnceTo(t)
  BY <1>1, <1>2 DEF OnceTo, Items
<1> QED BY <1>1, <1>4, <1>5, <1>6 DEF t

-----------------------------------------------------------------------------
(* A command is under way, or its answer is, or the answer has come.       *)

InDown(d) == \E x \in Items(downlink) : x.to = d

CallTraffic(d) ==
    /\ pc[d] \in {"idle", "sending", "writing"} => d \notin written
    /\ outcome[d] = "ok" => resp[d] \in Replies
    /\ resp[d] \in Replies => d \in written
    /\ d \in Items(uplink) => d \in written /\ resp[d] \notin Replies /\ ~InDown(d)
    /\ InDown(d) => d \in written /\ resp[d] \notin Replies

Traffic ==
    /\ \A d \in Calls : CallTraffic(d)
    /\ Distinct(uplink) /\ OnceTo(downlink)

LEMMA ItemTypes ==
    ASSUME LinkInv
    PROVE  Items(uplink) \subseteq Calls /\ Items(downlink) \subseteq Answers \cup Events
BY DEF LinkInv, Items

LEMMA TrafficInit == DeliveryInit => Traffic
<1> SUFFICES ASSUME DeliveryInit PROVE Traffic
  OBVIOUS
<1>1. uplink = <<>> /\ downlink = <<>>
  BY DEF DeliveryInit
<1>2. Items(uplink) = {} /\ Items(downlink) = {} /\ Distinct(uplink) /\ OnceTo(downlink)
  BY <1>1 DEF Items, Distinct, OnceTo
<1>3. ASSUME NEW d \in Calls PROVE CallTraffic(d)
  <2>1. pc[d] = "idle" /\ outcome[d] = "none" /\ resp[d] = NoResp /\ written = {}
    BY DEF DeliveryInit, Init
  <2>2. NoResp \notin Replies
    BY NoRespIsNoResult DEF Results
  <2> QED BY <1>2, <2>1, <2>2 DEF CallTraffic, InDown
<1> QED BY <1>2, <1>3 DEF Traffic

\* The relay answers the command at the head of the stream.
LEMMA TrafficAnswered ==
    ASSUME LinkInv, Traffic, uplink # <<>>, uplink' = Tail(uplink), UNCHANGED vars,
           NEW t \in Answers \cup Events, t.to = Head(uplink), downlink' = Append(downlink, t)
    PROVE  Traffic'
<1> DEFINE h == Head(uplink)
<1>1. /\ Items(uplink') \subseteq Items(uplink) /\ Items(uplink) = Items(uplink') \cup {h}
      /\ Distinct(uplink') /\ h \notin Items(uplink')
  BY TailItems, TailDistinct DEF Traffic, LinkInv
<1>2. h \in Calls /\ h # None
  BY <1>1, ItemTypes, ConstantsAssumption
<1>3. CallTraffic(h) /\ h \in Items(uplink)
  BY <1>1, <1>2 DEF Traffic
<1>4. /\ Items(downlink') = Items(downlink) \cup {t}
      /\ OnceTo(downlink) /\ (\A y \in Items(downlink) : t.to # None => y.to # t.to) => OnceTo(downlink')
  BY Added DEF LinkInv
<1>5. OnceTo(downlink')
  BY <1>3, <1>4 DEF CallTraffic, InDown, Traffic
<1>6. ASSUME NEW d \in Calls PROVE CallTraffic(d)'
  <2>1. CallTraffic(d) /\ UNCHANGED <<pc, outcome, resp, written>>
    BY DEF Traffic, vars, callVars, chanVars, wireVars
  <2>2. InDown(d)' <=> InDown(d) \/ d = h
    BY <1>4 DEF InDown
  <2> QED BY <1>1, <1>3, <2>1, <2>2 DEF CallTraffic
<1> QED BY <1>1, <1>5, <1>6 DEF Traffic

\* What the relay sends of its own accord is no answer.
LEMMA TrafficEvent ==
    ASSUME LinkInv, Traffic, UNCHANGED <<vars, uplink>>,
           NEW t \in Answers \cup Events, t.to = None, downlink' = Append(downlink, t)
    PROVE  Traffic'
<1>1. /\ Items(downlink') = Items(downlink) \cup {t} /\ OnceTo(downlink')
  BY Added DEF LinkInv, Traffic
<1>2. ASSUME NEW d \in Calls PROVE CallTraffic(d)'
  <2>1. CallTraffic(d) /\ UNCHANGED <<pc, outcome, resp, written, uplink>> /\ d # None
    BY ConstantsAssumption DEF Traffic, vars, callVars, chanVars, wireVars
  <2>2. InDown(d)' <=> InDown(d)
    BY <1>1, <2>1 DEF InDown
  <2> QED BY <2>1, <2>2 DEF CallTraffic
<1> QED BY <1>1, <1>2 DEF Traffic

\* A step that touches neither the streams nor the answers.
LEMMA TrafficKept ==
    ASSUME Traffic, UNCHANGED <<uplink, downlink, written>>,
           \A d \in Calls :
               /\ pc'[d] \in {"idle", "sending", "writing"} => pc[d] \in {"idle", "sending", "writing"}
               /\ outcome'[d] = "ok" => outcome[d] = "ok" \/ resp'[d] \in Replies
               /\ resp'[d] = resp[d] \/ (resp'[d] \notin Replies /\ outcome'[d] # "ok")
    PROVE  Traffic'
<1>1. ASSUME NEW d \in Calls PROVE CallTraffic(d)'
  <2>1. CallTraffic(d) /\ (InDown(d)' <=> InDown(d))
    BY DEF Traffic, InDown
  <2> QED BY <2>1 DEF CallTraffic
<1> QED BY <1>1 DEF Traffic

\* The reader takes what is at the head of the stream, and may give an answer
\* to its call.
LEMMA TrafficTaken ==
    ASSUME LinkInv, Traffic, downlink # <<>>, downlink' = Tail(downlink),
           UNCHANGED <<callVars, written, uplink>>,
           \A d \in Calls : resp'[d] = resp[d] \/ (d = Next1.to /\ resp'[d] \in Replies)
    PROVE  Traffic'
<1>1. /\ OnceTo(downlink') /\ Items(downlink') \subseteq Items(downlink) /\ Next1 \in Items(downlink)
      /\ \A x \in Items(downlink') : Next1.to # None => x.to # Next1.to
  BY TailItems, TailOnceTo DEF LinkInv, Traffic, Next1
<1>2. ASSUME NEW d \in Calls PROVE CallTraffic(d)'
  <2>1. CallTraffic(d) /\ UNCHANGED <<pc, outcome, written, uplink>> /\ d # None
    BY ConstantsAssumption DEF Traffic, callVars
  <2>2. InDown(d)' => InDown(d) /\ d # Next1.to
    BY <1>1, <2>1 DEF InDown
  <2>3. d = Next1.to => InDown(d)
    BY <1>1 DEF InDown
  <2> QED BY <2>1, <2>2, <2>3 DEF CallTraffic
<1> QED BY <1>1, <1>2 DEF Traffic

LEMMA TrafficSent ==
    ASSUME LinkInv, Traffic, TypeOK, NEW c \in Calls, Transmit(c)
    PROVE  Traffic'
<1>1. /\ pc[c] = "writing" /\ pc' = [pc EXCEPT ![c] = "written"] /\ written' = written \cup {c}
      /\ UNCHANGED <<outcome, resp, downlink>> /\ uplink' = Append(uplink, c)
  BY DEF Transmit, WriteOut, Goto, chanVars
<1>2. CallTraffic(c) /\ c \notin written
  BY <1>1 DEF Traffic, CallTraffic
<1>3. c \notin Items(uplink) /\ ~InDown(c) /\ resp[c] \notin Replies
  BY <1>2 DEF CallTraffic
<1>4. Items(uplink') = Items(uplink) \cup {c} /\ Distinct(uplink')
  BY <1>1, <1>3, Added DEF LinkInv, Traffic
<1>5. ASSUME NEW d \in Calls PROVE CallTraffic(d)'
  <2>1. CallTraffic(d) /\ (InDown(d)' <=> InDown(d)) /\ (d # c => pc'[d] = pc[d]) /\ pc'[c] = "written"
    BY <1>1 DEF Traffic, InDown, TypeOK
  <2> QED BY <1>1, <1>2, <1>3, <1>4, <2>1 DEF CallTraffic
<1> QED BY <1>1, <1>4, <1>5 DEF Traffic

LEMMA TrafficQuiet ==
    ASSUME Traffic, Inductive, NEW c \in Calls, Quiet(c)
    PROVE  Traffic'
<1>0. TypeOK /\ Books /\ CallBooks(c) /\ UNCHANGED <<uplink, downlink>>
  BY DEF Inductive, Books, Quiet, linkVars
<1>1. pc \in [Calls -> PCs] /\ outcome \in [Calls -> Outcomes]
  BY <1>0 DEF TypeOK
<1>2. CASE SubscribeRefused(c) \/ SubscribeRegister(c) \/ BeginSend(c)
  <2>1. /\ pc[c] \in {"idle", "sending"}
        /\ UNCHANGED <<resp, written>>
        /\ \A d \in Calls : d # c => UNCHANGED <<pc[d], outcome[d]>>
        /\ outcome'[c] # "ok" \/ outcome'[c] = outcome[c]
    BY <1>1, <1>2 DEF SubscribeRefused, SubscribeRegister, BeginSend, SendRefused, SendRegister,
                      Goto, Return, Fail, End, chanVars, wireVars
  <2> QED BY <1>0, <2>1, TrafficKept
<1>3. CASE WriteDone(c) \/ WriteFail(c) \/ ContextDone(c)
  <2>1. /\ UNCHANGED <<resp, written>> /\ pc'[c] \in {"waiting", "unregister", "returned"}
        /\ \A d \in Calls : d # c => UNCHANGED <<pc[d], outcome[d]>>
        /\ outcome'[c] # "ok" \/ outcome'[c] = outcome[c]
    BY <1>1, <1>3 DEF WriteDone, WriteFail, ContextDone, Goto, Fail, End, chanVars, wireVars
  <2> QED BY <1>0, <2>1, TrafficKept
<1>4. CASE ReceiveResponse(c)
  <2>1. resp[c] \in Results
    BY <1>0, <1>4 DEF ReceiveResponse, TypeOK
  <2>2. Verdict(c) = "ok" => resp[c] \in Replies
    BY <2>1, VerdictOk
  <2>3. /\ UNCHANGED <<resp, written>> /\ pc'[c] \in {"pushing", "unregister", "returned"}
        /\ \A d \in Calls : d # c => UNCHANGED <<pc[d], outcome[d]>>
        /\ outcome'[c] = "ok" => Verdict(c) = "ok" \/ outcome'[c] = outcome[c]
    BY <1>1, <1>4 DEF ReceiveResponse, Goto, Return, Fail, End, chanVars, wireVars
  <2> QED BY <1>0, <2>2, <2>3, TrafficKept
<1>5. CASE Settle(c)
  <2>1. /\ UNCHANGED <<resp, written>> /\ pc'[c] \in {"pushing", "closing", "returned"}
        /\ \A d \in Calls : d # c => UNCHANGED <<pc[d], outcome[d]>>
        /\ outcome'[c] = outcome[c] \/ pc[c] = "pushing"
    BY <1>1, <1>5 DEF Settle, PushInline, Unregister, CloseOwn, Goto, Return, End, callVars, chanVars, wireVars
  <2>2. pc[c] = "pushing" => resp[c] \in Replies
    BY <1>0 DEF CallBooks
  <2> QED BY <1>0, <2>1, <2>2, TrafficKept
<1>6. CASE Cancel(c)
  <2>1. UNCHANGED <<resp, written, pc, outcome>>
    BY <1>6 DEF Cancel, callVars, chanVars, wireVars
  <2> QED BY <1>0, <2>1, TrafficKept
<1> QED BY <1>2, <1>3, <1>4, <1>5, <1>6 DEF Quiet, Select

LEMMA TrafficEnded ==
    ASSUME Traffic, Inductive, SessionEnds
    PROVE  Traffic'
<1>1. UNCHANGED <<uplink, downlink, written, pc, outcome>>
  BY DEF SessionEnds, HandleReadError, Drain, linkVars, wireVars, callVars
<1>2. ASSUME NEW d \in Calls PROVE resp'[d] = resp[d] \/ (resp'[d] \notin Replies /\ outcome'[d] # "ok")
  <2>1. resp'[d] = resp[d] \/ (d \in sentCmds /\ \E err \in LocalErrors : resp'[d] = Broker(err, None))
    BY DEF SessionEnds, HandleReadError, Drain, Pending, LocalErrors, chanVars
  <2>2. d \in sentCmds => outcome[d] = "none"
    BY DEF Inductive, Books, CallBooks, InSend
  <2> QED BY <1>1, <2>1, <2>2, LocalErrorIsNoReply
<1> QED BY <1>1, <1>2, TrafficKept

LEMMA TrafficStep == LinkInv /\ Inductive /\ Traffic /\ [DeliveryNext]_deliveryVars => Traffic'
<1> SUFFICES ASSUME LinkInv, Inductive, Traffic, [DeliveryNext]_deliveryVars PROVE Traffic'
  OBVIOUS
<1>1. CASE Arrive \/ UNCHANGED deliveryVars
  BY <1>1, TrafficKept DEF Arrive, deliveryVars, vars, linkVars, callVars, chanVars, wireVars
<1>2. CASE RelaySub \/ RelayAck \/ RelayAckRefused
  <2>1. uplink # <<>> /\ uplink' = Tail(uplink) /\ UNCHANGED vars
    BY <1>2 DEF RelaySub, RelayAck, RelayAckRefused
  <2>2. \E t \in Answers \cup Events : t.to = Head(uplink) /\ downlink' = Append(downlink, t)
    <3>1. CASE RelaySub /\ acked < arrived
      <4>1. Broker("MSG", acked + 1) \in Replies
        BY <3>1, Constants DEF LinkInv
      <4> QED BY <2>1, <3>1, <4>1, AnswerIsAnswer DEF RelaySub, Answer, Transmission
    <3>2. CASE RelaySub /\ ~(acked < arrived)
      BY <2>1, <3>2, Constants, AnswerIsAnswer DEF RelaySub, Answer, Transmission
    <3>3. CASE RelayAck
      BY <2>1, <3>3, Constants, AnswerIsAnswer DEF RelayAck, Answer, Transmission
    <3>4. CASE RelayAckRefused
      BY <2>1, <3>4, Constants, AnswerIsAnswer DEF RelayAckRefused, Answer, Transmission
    <3> QED BY <1>2, <3>1, <3>2, <3>3, <3>4
  <2> QED BY <2>1, <2>2, TrafficAnswered
<1>3. CASE RelayPush
  <2>1. acked + 1 \in Msgs
    BY <1>3, Constants DEF RelayPush, LinkInv
  <2> QED BY <1>3, <2>1, EventIsEvent, TrafficEvent DEF RelayPush, Event, Transmission
<1>4. CASE TakeOver
  BY <1>4, EventIsEvent, TrafficEvent DEF TakeOver, Event, Transmission
<1>5. CASE TakeNext
  <2>1. /\ downlink # <<>> /\ downlink' = Tail(downlink) /\ UNCHANGED uplink
        /\ Next1 \in Answers \cup Events
    BY <1>5, Heads DEF TakeNext, TakeReply, TakeMsg, TakeEnd
  <2>2. UNCHANGED <<callVars, written>>
    BY <1>5 DEF TakeNext, TakeReply, TakeMsg, TakeEnd, DispatchReply, DispatchMsg, DispatchEnd,
                DropTransmission, Take
  <2>3. CASE UNCHANGED resp
    BY <2>1, <2>2, <2>3, TrafficTaken
  <2>4. CASE TakeReply /\ resp' = [resp EXCEPT ![Next1.to] = Next1.msg]
    <3>1. Next1.msg \in Replies
      BY <2>1, <2>4, Constants DEF TakeReply, Answers, Events
    <3>2. resp \in [Calls -> Results \cup {NoResp}]
      BY DEF Inductive, TypeOK
    <3>3. \A d \in Calls : resp'[d] = resp[d] \/ (d = Next1.to /\ resp'[d] \in Replies)
      BY <2>4, <3>1, <3>2
    <3> QED BY <2>1, <2>2, <3>3, TrafficTaken
  <2> QED BY <1>5, <2>3, <2>4 DEF TakeNext, TakeReply, TakeMsg, TakeEnd, DispatchReply, DispatchMsg,
                                  DispatchEnd, DropTransmission, chanVars
<1>6. ASSUME NEW c \in Calls, Transmit(c) PROVE Traffic'
  BY <1>6, TrafficSent DEF Inductive
<1>7. ASSUME NEW c \in Calls, Quiet(c) PROVE Traffic'
  BY <1>7, TrafficQuiet
<1>8. ASSUME NEW c \in Calls, Read(c) PROVE Traffic'
  BY <1>8, TrafficKept DEF Read, Receive, linkVars, callVars, wireVars
<1>9. ASSUME NEW c \in Calls, NEW m \in Msgs, StartAck(c, m) PROVE Traffic'
  <2>1. UNCHANGED <<uplink, downlink, resp, written, outcome>> /\ pc[c] = "idle"
        /\ \A d \in Calls : d # c => pc'[d] = pc[d]
    BY <1>9, DeliveryAssumption DEF StartAck, Start, Goto, linkVars, chanVars, wireVars, Inductive, TypeOK
  <2> QED BY <2>1, TrafficKept
<1>10. CASE SessionEnds
  BY <1>10, TrafficEnded
<1> QED BY <1>1, <1>2, <1>3, <1>4, <1>5, <1>6, <1>7, <1>8, <1>9, <1>10 DEF DeliveryNext, Relay

-----------------------------------------------------------------------------
(* What the client adds.                                                    *)

Sound ==
    /\ \A c \in Calls : resp[c] \in Replies \cup {NoResp} \/ closed
    /\ \A c \in Calls : subs[Q] = c /\ pc[c] = "returned" => outcome[c] = "ok"

LEMMA SoundInit == DeliveryInit => Sound
BY ConstantsAssumption, Constants DEF DeliveryInit, Init, Sound

\* A result that is no answer of the peer came with the end of the session; a
\* call that failed has deleted the registration.
LEMMA SoundStep == Inductive /\ Sound /\ [Next]_vars => Sound'
<1> SUFFICES ASSUME Inductive, Sound, [Next]_vars PROVE Sound'
  OBVIOUS
<1> USE Constants
<1>0. /\ TypeOK /\ Books /\ \A c \in Calls : CallBooks(c)
      /\ QueueBooks(Q)
      /\ pc \in [Calls -> PCs] /\ outcome \in [Calls -> Outcomes]
      /\ subs \in [Queues -> Calls \cup {None}]
  BY DEF Inductive, Books, TypeOK
<1>1. ASSUME NEW c \in Calls PROVE resp'[c] \in Replies \cup {NoResp} \/ closed'
  <2>1. resp[c] \in Replies \cup {NoResp} \/ closed
    BY DEF Sound
  <2>2. closed => closed'
    BY DEF Next, Call, Begin, BeginSend, Write, Select, Settle, Close, Reader, Environment, Halted,
           Start, SubscribeRefused, SubscribeRegister, SendRefused, SendRegister, WriteOut, WriteDone,
           WriteFail, ReceiveResponse, ContextDone, PushInline, Unregister, CloseOwn, CloseBegin,
           CloseAgain, CloseTx, CloseJoin, DispatchReply, DispatchMsg, DispatchEnd, DropTransmission,
           HandleReadError, Cancel, Receive, Drain, clientVars, vars
  <2>3. UNCHANGED resp \/ closed' \/ \E d \in Calls, msg \in Replies : resp' = [resp EXCEPT ![d] = msg]
    BY DEF Next, Call, Begin, BeginSend, Write, Select, Settle, Close, Reader, Environment, Halted,
           Start, SubscribeRefused, SubscribeRegister, SendRefused, SendRegister, WriteOut, WriteDone,
           WriteFail, ReceiveResponse, ContextDone, PushInline, Unregister, CloseOwn, CloseBegin,
           CloseAgain, CloseTx, CloseJoin, DispatchReply, DispatchMsg, DispatchEnd, DropTransmission,
           HandleReadError, Cancel, Receive, Drain, chanVars, vars
  <2>4. resp \in [Calls -> Results \cup {NoResp}]
    BY <1>0 DEF TypeOK
  <2> QED BY <2>1, <2>2, <2>3, <2>4
<1>2. ASSUME NEW c \in Calls, subs'[Q] = c, pc'[c] = "returned" PROVE outcome'[c] = "ok"
  <2>1. subs[Q] = c => pc[c] \notin {"idle", "closing"} /\ Op[c] = "Subscribe" /\ Queue[c] = Q
    BY <1>0 DEF QueueBooks
  <2>2. subs[Q] = c /\ pc[c] = "returned" => outcome[c] = "ok"
    BY DEF Sound
  <2>3. ASSUME NEW d \in Calls, Begin(d) PROVE outcome'[c] = "ok"
    BY <1>0, <1>2, <2>1, <2>2, <2>3 DEF Begin, Start, SubscribeRefused, SubscribeRegister, Goto,
                                      Return, End, clientVars
  <2>4. ASSUME NEW d \in Calls, BeginSend(d) \/ Write(d) \/ Select(d) PROVE outcome'[c] = "ok"
    BY <1>0, <1>2, <2>1, <2>2, <2>4 DEF BeginSend, SendRefused, SendRegister, Write, WriteOut, WriteDone,
         WriteFail, Select, ReceiveResponse, ContextDone, Goto, Fail, Return, End, clientVars
  <2>5. ASSUME NEW d \in Calls, Settle(d) PROVE outcome'[c] = "ok"
    BY <1>0, <1>2, <2>1, <2>2, <2>5 DEF Settle, PushInline, Unregister, CloseOwn, Goto, Return, End,
         clientVars, callVars
  <2>6. CASE UNCHANGED callVars /\ subs'[Q] \in {subs[Q], None}
    BY <1>2, <2>2, <2>6 DEF callVars
  <2>7. (\E k \in Closers : Close(k)) \/ Environment \/ Halted \/ UNCHANGED vars
           => UNCHANGED callVars /\ subs'[Q] \in {subs[Q], None}
    BY DEF Close, CloseBegin, CloseAgain, CloseTx, CloseJoin, Environment, Cancel, Receive,
           Halted, Drain, clientVars, vars
  <2>8. Reader => UNCHANGED callVars /\ subs'[Q] \in {subs[Q], None}
    BY <1>0 DEF Reader, DispatchReply, DispatchMsg, DispatchEnd, AfterEnd, DropTransmission,
                HandleReadError, Drain, clientVars
  <2> QED BY <2>3, <2>4, <2>5, <2>6, <2>7, <2>8 DEF Next, Call
<1> QED BY <1>1, <1>2 DEF Sound

-----------------------------------------------------------------------------
(* The command of a Subscribe that is over is ahead of that of the one       *)
(* registered now.                                                          *)

Ahead(d, c) ==
    \A j \in 1..Len(uplink) : uplink[j] = d => \E i \in (j + 1)..Len(uplink) : uplink[i] = c

Order ==
    \A c \in Calls, d \in Subscribes :
        subs[Q] = c /\ c \in written /\ d # c /\ pc[d] \in {"closing", "returned"} => Ahead(d, c)

LEMMA NotThere == ASSUME NEW d, NEW c, d \notin Items(uplink) PROVE Ahead(d, c)
BY DEF Ahead, Items

LEMMA AheadTail ==
    ASSUME LinkInv, uplink # <<>>, uplink' = Tail(uplink), NEW d, NEW c, Ahead(d, c)
    PROVE  Ahead(d, c)'
<1>1. /\ Len(uplink') = Len(uplink) - 1 /\ Len(uplink) \in Nat \ {0}
      /\ \A i \in 1..Len(uplink') : uplink'[i] = uplink[i + 1]
  BY Taken DEF LinkInv
<1> SUFFICES ASSUME NEW j \in 1..Len(uplink'), uplink'[j] = d
             PROVE  \E i \in (j + 1)..Len(uplink') : uplink'[i] = c
  BY DEF Ahead
<1>2. j + 1 \in 1..Len(uplink) /\ uplink[j + 1] = d
  BY <1>1
<1>3. PICK i \in (j + 1 + 1)..Len(uplink) : uplink[i] = c
  BY <1>2 DEF Ahead
<1>4. i - 1 \in (j + 1)..Len(uplink') /\ i - 1 \in 1..Len(uplink') /\ (i - 1) + 1 = i
  BY <1>1, <1>3
<1> QED BY <1>1, <1>3, <1>4

LEMMA AheadAppended ==
    ASSUME LinkInv, NEW e \in Calls, uplink' = Append(uplink, e), NEW d, NEW c,
           e # d, e = c \/ Ahead(d, c)
    PROVE  Ahead(d, c)'
<1>1. /\ Len(uplink') = Len(uplink) + 1 /\ Len(uplink) \in Nat
      /\ uplink'[Len(uplink) + 1] = e
      /\ \A i \in 1..Len(uplink) : uplink'[i] = uplink[i]
  BY Added DEF LinkInv
<1> SUFFICES ASSUME NEW j \in 1..Len(uplink'), uplink'[j] = d
             PROVE  \E i \in (j + 1)..Len(uplink') : uplink'[i] = c
  BY DEF Ahead
<1>2. j \in 1..Len(uplink) /\ uplink[j] = d
  BY <1>1
<1>3. CASE e = c
  <2>1. Len(uplink) + 1 \in (j + 1)..Len(uplink')
    BY <1>1, <1>2
  <2> QED BY <1>1, <1>3, <2>1
<1>4. CASE Ahead(d, c)
  <2>1. PICK i \in (j + 1)..Len(uplink) : uplink[i] = c
    BY <1>2, <1>4 DEF Ahead
  <2>2. i \in (j + 1)..Len(uplink') /\ i \in 1..Len(uplink)
    BY <1>1, <2>1
  <2> QED BY <1>1, <2>1, <2>2
<1> QED BY <1>3, <1>4

\* A call that is done with its answer, or never sent its command, is not in the
\* stream to the relay.
LEMMA AnsweredIsGone ==
    ASSUME Traffic, NEW d \in Calls, pc[d] \in {"idle", "sending", "writing"} \/ resp[d] \in Replies
    PROVE  d \notin Items(uplink) /\ ~InDown(d)
BY DEF Traffic, CallTraffic

LEMMA OrderInit == DeliveryInit => Order
BY Constants DEF DeliveryInit, Init, Order

\* How a Subscribe comes to its end.
LEMMA EndsBy ==
    ASSUME Traffic, Inductive, NEW d \in Subscribes, Quiet(d), pc'[d] \in {"closing", "returned"}
    PROVE  \/ pc[d] = "closing" /\ subs' = subs
           \/ subs'[Q] = None
           \/ subs' = subs /\ (pc[d] = "idle" \/ resp[d] \in Replies)
<1> USE Constants
<1>0. /\ d \in Calls /\ Op[d] = "Subscribe" /\ Queue[d] = Q /\ CallBooks(d)
      /\ resp[d] \in Results \cup {NoResp}
      /\ pc \in [Calls -> PCs] /\ subs \in [Queues -> Calls \cup {None}]
  BY DeliveryAssumption DEF Subscribes, Inductive, Books, TypeOK
<1>1. CASE SubscribeRefused(d) \/ SubscribeRegister(d) \/ BeginSend(d) \/ WriteDone(d) \/ WriteFail(d)
           \/ ContextDone(d) \/ Cancel(d)
  BY <1>0, <1>1 DEF SubscribeRefused, SubscribeRegister, BeginSend, SendRefused, SendRegister,
     WriteDone, WriteFail, ContextDone, Cancel, Goto, Return, Fail, End, clientVars, callVars, CallBooks
<1>2. CASE ReceiveResponse(d)
  <2>1. subs' = subs /\ resp[d] # NoResp /\ Verdict(d) = "ok"
    BY <1>0, <1>2 DEF ReceiveResponse, Goto, Return, Fail, End, clientVars
  <2> QED BY <1>0, <2>1, VerdictOk
<1>3. CASE Settle(d)
  BY <1>0, <1>3 DEF Settle, PushInline, Unregister, CloseOwn, Goto, Return, End, clientVars, callVars, CallBooks
<1> QED BY <1>1, <1>2, <1>3 DEF Quiet, Select

LEMMA QuietMoves ==
    ASSUME Inductive, NEW e \in Calls, Quiet(e)
    PROVE  /\ UNCHANGED <<uplink, downlink, written, acked, held, out, received, resp>>
           /\ \A d \in Calls : d # e => pc'[d] = pc[d]
           /\ subs' = subs \/ subs'[Q] = None \/ (subs'[Q] = e /\ pc[e] = "idle")
<1>1. /\ pc \in [Calls -> PCs] /\ subs \in [Queues -> Calls \cup {None}] /\ Q \in Queues /\ Queue[e] = Q
  BY Constants, DeliveryAssumption DEF Inductive, TypeOK
<1>2. UNCHANGED <<uplink, downlink, acked, held, out, received>>
  BY DEF Quiet, linkVars, relayVars, appVars
<1>3. UNCHANGED <<written, resp>>
  BY DEF Quiet, SubscribeRefused, SubscribeRegister, BeginSend, SendRefused, SendRegister, WriteDone,
     WriteFail, Select, ReceiveResponse, ContextDone, Settle, PushInline, Unregister, CloseOwn, Cancel,
     chanVars, wireVars
<1>4. \A d \in Calls : d # e => pc'[d] = pc[d]
  BY <1>1 DEF Quiet, SubscribeRefused, SubscribeRegister, BeginSend, SendRefused, SendRegister, WriteDone,
     WriteFail, Select, ReceiveResponse, ContextDone, Settle, PushInline, Unregister, CloseOwn, Cancel,
     Goto, Return, Fail, End, callVars
<1>5. subs' = subs \/ subs'[Q] = None \/ (subs'[Q] = e /\ pc[e] = "idle")
  BY <1>1 DEF Quiet, SubscribeRefused, SubscribeRegister, BeginSend, SendRefused, SendRegister, WriteDone,
     WriteFail, Select, ReceiveResponse, ContextDone, Settle, PushInline, Unregister, CloseOwn, Cancel,
     clientVars
<1> QED BY <1>2, <1>3, <1>4, <1>5

\* What the reader, the end of the session and the application leave alone.
LEMMA OthersMove ==
    ASSUME Inductive,
           TakeNext \/ SessionEnds \/ \E e \in Calls : Read(e) \/ \E m \in Msgs : StartAck(e, m)
    PROVE  /\ UNCHANGED <<uplink, written, acked, held, out>>
           /\ subs'[Q] \in {subs[Q], None}
           /\ \A d \in Subscribes : pc'[d] = pc[d]
<1>1. /\ pc \in [Calls -> PCs] /\ subs \in [Queues -> Calls \cup {None}] /\ Q \in Queues
  BY Constants DEF Inductive, TypeOK
<1>2. CASE TakeNext
  BY <1>1, <1>2 DEF TakeNext, TakeReply, TakeMsg, TakeEnd, DispatchReply, DispatchMsg, DispatchEnd,
     AfterEnd, DropTransmission, Take, relayVars, clientVars, callVars
<1>3. CASE SessionEnds
  BY <1>1, <1>3 DEF SessionEnds, HandleReadError, Drain, relayVars, linkVars, clientVars, callVars, wireVars
<1>4. ASSUME NEW e \in Calls, Read(e)
      PROVE  UNCHANGED <<uplink, written, acked, held, out, subs, pc>>
  BY <1>4 DEF Read, Receive, relayVars, linkVars, clientVars, callVars, wireVars
<1>5. ASSUME NEW e \in Calls, NEW m \in Msgs, StartAck(e, m)
      PROVE  /\ UNCHANGED <<uplink, written, acked, held, out, subs>>
             /\ \A d \in Subscribes : pc'[d] = pc[d]
  BY <1>1, <1>5 DEF StartAck, Start, Goto, Return, End, Subscribes, relayVars, linkVars, clientVars, wireVars
<1> QED BY <1>2, <1>3, <1>4, <1>5

LEMMA OrderStep == LinkInv /\ Inductive /\ Traffic /\ Order /\ [DeliveryNext]_deliveryVars => Order'
<1> SUFFICES ASSUME LinkInv, Inductive, Traffic, Order, [DeliveryNext]_deliveryVars,
                    NEW c \in Calls, NEW d \in Subscribes, subs'[Q] = c, c \in written', d # c,
                    pc'[d] \in {"closing", "returned"}
             PROVE  Ahead(d, c)'
  BY DEF Order
<1> USE Constants
<1>0. d \in Calls /\ c # None
  BY DEF Subscribes
<1>1. CASE UNCHANGED <<uplink, written, pc>> /\ subs'[Q] \in {subs[Q], None}
  BY <1>0, <1>1 DEF Order, Ahead
<1>2. CASE Relay
  <2>1. UNCHANGED <<pc, subs, written>>
    BY <1>2 DEF Relay, Arrive, RelaySub, RelayAck, RelayAckRefused, RelayPush, TakeOver, vars,
                clientVars, callVars, wireVars
  <2>2. Ahead(d, c)
    BY <2>1 DEF Order
  <2>3. UNCHANGED uplink \/ (uplink # <<>> /\ uplink' = Tail(uplink))
    BY <1>2 DEF Relay, Arrive, RelaySub, RelayAck, RelayAckRefused, RelayPush, TakeOver, linkVars
  <2>4. CASE UNCHANGED uplink
    BY <2>2, <2>4 DEF Ahead
  <2> QED BY <2>2, <2>3, <2>4, AheadTail
<1>3. CASE TakeNext \/ SessionEnds \/ \E e \in Calls : Read(e) \/ \E m \in Msgs : StartAck(e, m)
  <2>1. UNCHANGED <<uplink, written>> /\ subs[Q] = c /\ pc[d] = pc'[d]
    BY <1>0, <1>3, OthersMove
  <2> QED BY <2>1 DEF Order, Ahead
<1>4. ASSUME NEW e \in Calls, Transmit(e) PROVE Ahead(d, c)'
  <2>1. /\ pc' = [pc EXCEPT ![e] = "written"] /\ written' = written \cup {e}
        /\ UNCHANGED subs /\ uplink' = Append(uplink, e)
    BY <1>4 DEF Transmit, WriteOut, Goto, clientVars
  <2>2. pc \in [Calls -> PCs]
    BY DEF Inductive, TypeOK
  <2>3. e # d /\ pc[d] = pc'[d]
    BY <1>0, <2>1, <2>2
  <2>4. e = c \/ Ahead(d, c)
    BY <2>1, <2>3 DEF Order
  <2> QED BY <2>1, <2>3, <2>4, AheadAppended
<1>5. ASSUME NEW e \in Calls, Quiet(e) PROVE Ahead(d, c)'
  <2>1. /\ UNCHANGED <<uplink, written>>
        /\ d # e => pc'[d] = pc[d]
        /\ subs[Q] = c \/ (c = e /\ pc[e] = "idle")
    BY <1>0, <1>5, QuietMoves
  <2>2. ~(c = e /\ pc[e] = "idle")
    BY <2>1 DEF Traffic, CallTraffic
  <2>3. pc[d] \in {"closing", "returned"} \/ pc[d] = "idle" \/ resp[d] \in Replies
    BY <1>0, <1>5, <2>1, EndsBy
  <2>4. Ahead(d, c)
    BY <1>0, <2>1, <2>2, <2>3, AnsweredIsGone, NotThere DEF Order
  <2> QED BY <2>1, <2>4 DEF Ahead
<1>6. CASE UNCHANGED deliveryVars
  BY <1>1, <1>6 DEF deliveryVars, vars, linkVars, clientVars, callVars, wireVars
<1> QED BY <1>2, <1>3, <1>4, <1>5, <1>6 DEF DeliveryNext

-----------------------------------------------------------------------------
(* Where the message that is out is.                                        *)

Now == acked + 1

Due(d) == Transmission(d, "MSG", Now) \in Items(downlink) /\ pc[d] \notin {"closing", "returned"}
Holding(d) == resp[d] = Broker("MSG", Now) /\ pc[d] \in {"written", "waiting", "pushing"}
Part(d) == Due(d) \/ Holding(d) \/ pc[d] = "unregister"
Doomed(d) == pc[d] = "closing" /\ d \notin open

\* On its way to c or to another Subscribe, with c, or about to be lost with the
\* registration.
Accounted(c) ==
    \/ Event("MSG", Now) \in Items(downlink)
    \/ Now \in Buffered(c) \cup Seen
    \/ \E d \in Subscribes : Doomed(d) \/ Part(d)

Kept ==
    \A c \in Calls :
        Running /\ held /\ out /\ subs[Q] = c /\ c \in written /\ c \notin Items(uplink) => Accounted(c)

LEMMA StillAccounted ==
    ASSUME NEW c \in Calls, Accounted(c), acked' = acked,
           Event("MSG", Now) \in Items(downlink) => Accounted(c)',
           Buffered(c) \cup Seen \subseteq Buffered(c)' \cup Seen',
           \A d \in Subscribes : Doomed(d) => Doomed(d)',
           \A d \in Subscribes : Part(d) => Accounted(c)'
    PROVE  Accounted(c)'
BY DEF Accounted, Now

\* No step but its own changes what d has to do with the message.
LEMMA PartStays ==
    ASSUME acked' = acked, NEW d \in Subscribes, pc'[d] = pc[d], resp'[d] = resp[d],
           Transmission(d, "MSG", Now) \in Items(downlink) => Transmission(d, "MSG", Now) \in Items(downlink'),
           NEW c \in Calls
    PROVE  Part(d) => Accounted(c)'
BY DEF Part, Due, Holding, Accounted, Now

LEMMA BufferedIs ==
    ASSUME TypeOK, NEW c \in Calls
    PROVE  /\ buf[c] \in Seq(Msgs) /\ Buffered(c) = Items(buf[c])
           /\ Seen = Items(received)
BY DEF TypeOK, Buffered, Items, Seen

LEMMA ReadStep == TypeOK /\ received \in Seq(Msgs) /\ [DeliveryNext]_deliveryVars => received' \in Seq(Msgs)
<1> SUFFICES ASSUME TypeOK, received \in Seq(Msgs), [DeliveryNext]_deliveryVars PROVE received' \in Seq(Msgs)
  OBVIOUS
<1>1. ASSUME NEW c \in Calls, Read(c) PROVE received' \in Seq(Msgs)
  <2>1. buf[c] \in Seq(Msgs) /\ buf[c] # <<>> /\ received' = Append(received, Head(buf[c]))
    BY <1>1 DEF Read, Receive, TypeOK
  <2>2. Head(buf[c]) \in Msgs
    BY <2>1, HeadTailProperties
  <2> QED BY <2>1, <2>2, AppendProperties
<1>2. CASE UNCHANGED received
  BY <1>2
<1> QED BY <1>1, <1>2 DEF DeliveryNext, Relay, Arrive, RelaySub, RelayAck, RelayAckRefused, RelayPush,
           TakeOver, TakeNext, TakeReply, TakeMsg, TakeEnd, SessionEnds, Quiet, Transmit, StartAck,
           appVars, deliveryVars

\* The relay has answered the command at the head of the stream: if that was a
\* Subscribe's, the message is on its way to it; if it is over by now, the
\* command of the one registered is still to come.
LEMMA KeptSub ==
    ASSUME LinkInv, Inductive, Traffic, Sound, Order, RelaySub, NEW c \in Calls,
           (Running /\ held /\ out /\ subs[Q] = c /\ c \in written /\ c \notin Items(uplink))'
    PROVE  Accounted(c)'
<1>0. uplink # <<>> /\ Head(uplink) \in Calls
  BY Heads DEF RelaySub
<1>. PICK h \in Calls : h = Head(uplink)
  BY <1>0
<1>1. /\ uplink # <<>> /\ Op[h] = "Subscribe" /\ UNCHANGED <<vars, acked>> /\ acked < arrived
      /\ uplink' = Tail(uplink) /\ downlink' = Append(downlink, Transmission(h, "MSG", Now))
  BY DEF RelaySub, Answer, Now
<1>2. /\ uplink \in Seq(Calls) /\ h \in Items(uplink) /\ Items(uplink) = Items(uplink') \cup {h}
      /\ h = uplink[1] /\ Len(uplink) \in Nat \ {0} /\ Len(uplink') = Len(uplink) - 1
      /\ \A i \in 1..Len(uplink') : uplink'[i] = uplink[i + 1]
  BY <1>1, TailItems, Taken DEF LinkInv
<1>3. h \in Subscribes /\ h \in Calls
  BY <1>1, <1>2, ItemTypes DEF Subscribes
<1>4. Transmission(h, "MSG", Now) \in Items(downlink') /\ Now' = Now
  <2>1. Broker("MSG", acked + 1) \in Replies
    BY <1>1, Constants DEF LinkInv
  <2>2. Transmission(h, "MSG", Now) \in Answers \cup Events
    BY <1>1, <2>1, AnswerIsAnswer DEF Answer, Now
  <2> QED BY <1>1, <2>2, Added DEF LinkInv, Now
<1>5. UNCHANGED <<pc, subs, written, outcome, resp>>
  BY <1>1 DEF vars, clientVars, callVars, wireVars, chanVars
<1>6. pc[h] \notin {"closing", "returned"}
  <2> SUFFICES ASSUME pc[h] \in {"closing", "returned"} PROVE FALSE
    OBVIOUS
  <2>1. CASE h = c
    <3>1. pc[h] # "closing"
      BY <1>5, <2>1, Constants DEF Inductive, Books, QueueBooks
    <3>2. outcome[h] = "ok"
      BY <1>5, <2>1, <3>1 DEF Sound
    <3> QED BY <1>2, <1>3, <3>2 DEF Traffic, CallTraffic
  <2>2. CASE h # c
    <3>1. Ahead(h, c)
      BY <1>3, <1>5, <2>2 DEF Order
    <3>2. PICK i \in 2..Len(uplink) : uplink[i] = c
      BY <1>2, <3>1 DEF Ahead
    <3>3. i - 1 \in 1..Len(uplink') /\ (i - 1) + 1 = i
      BY <1>2, <3>2
    <3>4. uplink'[i - 1] = c
      BY <1>2, <3>2, <3>3
    <3> QED BY <3>3, <3>4 DEF Items
  <2> QED BY <2>1, <2>2
<1>7. Due(h)'
  BY <1>4, <1>5, <1>6 DEF Due
<1> QED BY <1>3, <1>7 DEF Accounted, Part

\* A step that takes nothing from the stream and moves no Subscribe.
LEMMA KeptAside ==
    ASSUME NEW c \in Calls, Accounted(c), UNCHANGED <<acked, open>>,
           Items(downlink) \subseteq Items(downlink'),
           Buffered(c) \cup Seen \subseteq Buffered(c)' \cup Seen',
           \A d \in Subscribes : pc'[d] = pc[d] /\ resp'[d] = resp[d]
    PROVE  Accounted(c)'
<1>1. Event("MSG", Now) \in Items(downlink) => Accounted(c)'
  BY DEF Accounted, Now
<1>2. \A d \in Subscribes : Doomed(d) => Doomed(d)'
  BY DEF Doomed
<1>3. \A d \in Subscribes : Part(d) => Accounted(c)'
  BY PartStays
<1> QED BY <1>1, <1>2, <1>3, StillAccounted

\* The reader takes the message: it is in the channel, or in the hands of the
\* Subscribe it answers, unless that one is on its way out.
LEMMA KeptTaken ==
    ASSUME LinkInv, Inductive, Traffic, Sound, PushFindsRoom, TakeReply \/ TakeMsg,
           NEW c \in Calls, subs[Q] = c, Accounted(c)
    PROVE  Accounted(c)'
<1>1. /\ downlink # <<>> /\ downlink' = Tail(downlink) /\ UNCHANGED <<acked, received, pc, open, written, subs>>
      /\ Next1 \in Answers \cup Events
  BY Heads DEF TakeReply, TakeMsg, DispatchReply, DispatchMsg, DropTransmission, Take, relayVars, appVars,
               clientVars, callVars, chanVars
<1>2. Items(downlink) = Items(downlink') \cup {Next1} /\ Seen' = Seen /\ Now' = Now
  BY <1>1, TailItems DEF LinkInv, Next1, Seen, Now
<1>3. \A d \in Subscribes : Doomed(d) => Doomed(d)'
  BY <1>1 DEF Doomed
<1>4. TypeOK /\ resp \in [Calls -> Results \cup {NoResp}] /\ buf \in [Calls -> Seq(Msgs)] /\ None \notin Calls
  BY Constants DEF Inductive, TypeOK
<1>5. CASE TakeReply
  <2>1. Next1.to # None /\ Next1 \in Answers
    BY <1>1, <1>5 DEF TakeReply, Events
  <2>2. buf' = buf /\ Event("MSG", Now) # Next1
    BY <1>5, <2>1 DEF TakeReply, DispatchReply, DropTransmission, chanVars, Event, Transmission
  <2>3. Event("MSG", Now) \in Items(downlink) => Accounted(c)'
    BY <1>2, <2>2 DEF Accounted
  <2>4. Buffered(c)' = Buffered(c)
    BY <2>2 DEF Buffered
  <2>5. ASSUME NEW d \in Subscribes, Part(d) PROVE Accounted(c)'
    <3>0. d \in Calls /\ pc \in [Calls -> PCs] /\ CallBooks(d)
      BY DEF Subscribes, Inductive, TypeOK, Books
    <3>1. CASE Due(d) /\ Transmission(d, "MSG", Now) = Next1
      <4>1. Next1.to = d /\ Next1.msg = Broker("MSG", Now) /\ InDown(d)
        BY <1>2, <3>1 DEF Transmission, InDown
      <4>2. d \in written /\ resp[d] \notin Replies /\ pc[d] \notin {"idle", "sending", "writing"}
        BY <3>0, <4>1 DEF Traffic, CallTraffic
      <4>3. CASE d \in sentCmds
        <5>1. resp' = [resp EXCEPT ![d] = Broker("MSG", Now)] /\ pc[d] \in InSend
          BY <1>5, <3>0, <4>1, <4>3 DEF TakeReply, DispatchReply, CallBooks
        <5>2. Holding(d)'
          BY <1>1, <1>2, <1>4, <3>0, <4>2, <5>1 DEF Holding, InSend
        <5> QED BY <5>2 DEF Accounted, Part
      <4>4. CASE d \notin sentCmds
        <5>1. ~closed
          BY Constants DEF Inductive, Books, ClosedDrained, Registered
        <5>2. pc[d] \notin InSend
          BY <3>0, <4>2, <4>4, <5>1 DEF Sound, CallBooks
        <5>3. pc[d] # "pushing"
          BY <3>0, <4>2 DEF CallBooks
        <5>4. pc[d] = "unregister"
          BY <3>0, <3>1, <4>2, <5>2, <5>3 DEF Due, PCs, InSend
        <5> QED BY <1>1, <5>4 DEF Accounted, Part
      <4> QED BY <4>3, <4>4
    <3>2. CASE Due(d) /\ Transmission(d, "MSG", Now) # Next1
      <4>1. Due(d)'
        BY <1>1, <1>2, <3>2 DEF Due
      <4> QED BY <4>1 DEF Accounted, Part
    <3>3. CASE pc[d] = "unregister"
      BY <1>1, <3>3 DEF Accounted, Part
    <3>4. CASE Holding(d)
      <4>1. Broker("MSG", Now) # NoResp
        BY DEF Broker, NoResp
      <4>2. d \notin sentCmds
        BY <3>0, <3>4, <4>1 DEF CallBooks, Holding
      <4>3. resp'[d] = resp[d]
        BY <1>4, <1>5, <3>0, <4>2 DEF TakeReply, DispatchReply, DropTransmission, chanVars
      <4>4. Holding(d)'
        BY <1>1, <1>2, <3>4, <4>3 DEF Holding
      <4> QED BY <4>4 DEF Accounted, Part
    <3> QED BY <2>5, <3>1, <3>2, <3>3, <3>4 DEF Part
  <2> QED BY <1>1, <1>2, <1>3, <2>3, <2>4, <2>5, StillAccounted
<1>6. CASE TakeMsg
  <2>1. Next1.to = None /\ Next1 \in Events /\ Next1.msg.type = "MSG" /\ Next1.msg.id \in Msgs
    BY <1>1, <1>4, <1>6 DEF TakeMsg, Answers, Events, Broker
  <2>2. resp' = resp /\ buf' = [buf EXCEPT ![c] = Append(@, Next1.msg.id)]
    <3>1. HasRoom(c)
      BY <1>1, <2>1 DEF PushFindsRoom
    <3> QED BY <1>4, <1>6, <3>1 DEF TakeMsg, DispatchMsg
  <2>3. buf[c] \in Seq(Msgs) /\ buf'[c] = Append(buf[c], Next1.msg.id)
    BY <1>4, <2>2
  <2>4. Buffered(c)' = Buffered(c) \cup {Next1.msg.id}
    <3>1. Items(buf'[c]) = Items(buf[c]) \cup {Next1.msg.id}
      BY <2>1, <2>3, Added
    <3> QED BY <3>1 DEF Buffered, Items
  <2>5. Event("MSG", Now) \in Items(downlink) => Accounted(c)'
    <3>1. Event("MSG", Now) = Next1 => Next1.msg.id = Now
      BY DEF Event, Transmission, Broker
    <3> QED BY <1>2, <2>4, <3>1 DEF Accounted
  <2>6. ASSUME NEW d \in Subscribes PROVE Part(d) => Accounted(c)'
    <3>1. Transmission(d, "MSG", Now) # Next1
      BY <1>4, <2>1 DEF Transmission, Subscribes
    <3> QED BY <1>1, <1>2, <2>2, <3>1, PartStays
  <2> QED BY <1>1, <1>2, <1>3, <2>4, <2>5, <2>6, StillAccounted
<1> QED BY <1>5, <1>6

\* The application takes the message out of the channel.
LEMMA KeptRead ==
    ASSUME Inductive, received \in Seq(Msgs), NEW e \in Calls, Read(e), NEW c \in Calls, Accounted(c)
    PROVE  Accounted(c)'
<1>1. /\ TypeOK /\ buf[e] \in Seq(Msgs) /\ buf[e] # <<>> /\ buf' = [buf EXCEPT ![e] = Tail(buf[e])]
      /\ received' = Append(received, Head(buf[e]))
      /\ UNCHANGED <<acked, open, pc, resp, downlink>>
      /\ buf \in [Calls -> Seq(Msgs)]
  BY DEF Read, Receive, Inductive, TypeOK, relayVars, linkVars, callVars
<1>2. Head(buf[e]) \in Msgs
  BY <1>1, HeadTailProperties
<1>3. Items(received') = Items(received) \cup {Head(buf[e])}
  BY <1>1, <1>2, Added
<1>4. Items(buf[e]) = Items(Tail(buf[e])) \cup {Head(buf[e])}
  BY <1>1, TailItems
<1>5. Seen = Items(received) /\ Seen' = Items(received') /\ Buffered(c) = Items(buf[c]) /\ Buffered(c)' = Items(buf'[c])
  BY DEF Seen, Buffered, Items
<1>6. Buffered(c) \cup Seen \subseteq Buffered(c)' \cup Seen'
  BY <1>1, <1>3, <1>4, <1>5
<1> QED BY <1>1, <1>6, KeptAside

\* A step of a call: a Subscribe passes the message on to its channel, or gives
\* up and takes the registration with it.
LEMMA KeptQuiet ==
    ASSUME LinkInv, Inductive, Traffic, NEW e \in Calls, Quiet(e), Running',
           NEW c \in Calls, subs[Q] = c, subs'[Q] = c, Accounted(c)
    PROVE  Accounted(c)'
<1>0. /\ TypeOK /\ CallBooks(e) /\ CallTraffic(e) /\ NoOrphanChannel
      /\ pc \in [Calls -> PCs] /\ resp[e] \in Results \cup {NoResp} /\ open \subseteq Calls
      /\ buf \in [Calls -> Seq(Msgs)] /\ subs \in [Queues -> Calls \cup {None}]
      /\ Queue[e] = Q /\ Q \in Queues /\ None \notin Calls
  BY Constants, DeliveryAssumption DEF Inductive, Books, TypeOK, Traffic
<1>1. /\ UNCHANGED <<downlink, acked, received, resp>>
      /\ \A d \in Calls : d # e => pc'[d] = pc[d]
  BY QuietMoves
<1>2. Seen' = Seen /\ Now' = Now
  BY <1>1 DEF Seen, Now
<1>3. Event("MSG", Now) \in Items(downlink) => Accounted(c)'
  BY <1>1, <1>2 DEF Accounted
<1>4. \A d \in Subscribes : d # e => (Part(d) => Accounted(c)')
  <2> SUFFICES ASSUME NEW d \in Subscribes, d # e PROVE Part(d) => Accounted(c)'
    OBVIOUS
  <2>1. pc'[d] = pc[d] /\ resp'[d] = resp[d]
    BY <1>1 DEF Subscribes
  <2> QED BY <1>1, <2>1, PartStays
<1>5. SUFFICES ASSUME e \in Subscribes
               PROVE  /\ Buffered(c) \subseteq Buffered(c)'
                      /\ \A d \in Subscribes : Doomed(d) => Doomed(d)'
                      /\ Part(e) => Accounted(c)'
  <2>1. CASE e \in Subscribes
    BY <1>1, <1>2, <1>3, <1>4, <1>5, <2>1, StillAccounted
  <2>2. CASE e \notin Subscribes
    <3>1. Op[e] # "Subscribe"
      BY <2>2 DEF Subscribes
    <3>2. UNCHANGED <<open, buf>>
      BY <1>0, <3>1 DEF Quiet, SubscribeRefused, SubscribeRegister, BeginSend, SendRefused, SendRegister,
           WriteDone, WriteFail, Select, ReceiveResponse, ContextDone, Settle, PushInline, Unregister,
           CloseOwn, Cancel, CallBooks, chanVars
    <3>3. \A d \in Subscribes : Doomed(d) => Doomed(d)'
      BY <1>1, <2>2, <3>2 DEF Doomed, Subscribes
    <3>4. Buffered(c)' = Buffered(c)
      BY <3>2 DEF Buffered
    <3>5. \A d \in Subscribes : Part(d) => Accounted(c)'
      BY <1>4, <2>2
    <3> QED BY <1>1, <1>2, <1>3, <3>3, <3>4, <3>5, StillAccounted
  <2> QED BY <2>1, <2>2
<1>6. Op[e] = "Subscribe"
  BY <1>5 DEF Subscribes
\* The message for e would still be under way only if e had no answer yet.
<1>7. Due(e) => pc[e] \notin {"idle", "sending", "writing"} /\ resp[e] \notin Replies
  <2>1. Due(e) => InDown(e)
    BY DEF Due, InDown, Transmission
  <2> QED BY <1>0, <2>1 DEF CallTraffic
<1>8. CASE /\ buf' = buf /\ open' \subseteq open \cup {e} /\ pc[e] # "closing"
           /\ \/ ~Part(e)
              \/ pc'[e] = "unregister"
              \/ pc[e] = "written" /\ pc'[e] = "waiting"
              \/ pc[e] = "waiting" /\ pc'[e] = "pushing"
  <2>1. \A d \in Subscribes : Doomed(d) => Doomed(d)'
    BY <1>1, <1>8 DEF Doomed, Subscribes
  <2>2. Due(e) /\ pc'[e] \notin {"closing", "returned"} => Due(e)'
    BY <1>1, <1>2 DEF Due
  <2>3. Holding(e) /\ pc'[e] \in {"waiting", "pushing"} => Holding(e)'
    BY <1>1, <1>2 DEF Holding
  <2>4. pc[e] = "unregister" => ~(pc[e] = "written" \/ pc[e] = "waiting")
    OBVIOUS
  <2>5. Buffered(c)' = Buffered(c)
    BY <1>8 DEF Buffered
  <2>6. Part(e) => Part(e)'
    BY <1>8, <2>2, <2>3, <2>4 DEF Part
  <2> QED BY <1>5, <2>1, <2>5, <2>6 DEF Accounted
<1>9. CASE SubscribeRefused(e) \/ SubscribeRegister(e) \/ SendRegister(e)
  <2>1. pc[e] \in {"idle", "sending"}
    BY <1>9 DEF SubscribeRefused, SubscribeRegister, SendRegister
  <2>2. ~Part(e)
    BY <1>7, <2>1 DEF Part, Holding
  <2>3. buf' = buf /\ open' \subseteq open \cup {e}
    BY <1>9 DEF SubscribeRefused, SubscribeRegister, SendRegister, chanVars
  <2> QED BY <1>8, <2>1, <2>2, <2>3
<1>10. CASE SendRefused(e) \/ WriteDone(e) \/ WriteFail(e) \/ ContextDone(e)
  <2>1. /\ pc[e] # "closing" /\ UNCHANGED <<buf, open>>
        /\ pc'[e] = "unregister" \/ (pc[e] = "written" /\ pc'[e] = "waiting")
    BY <1>0, <1>6, <1>10 DEF SendRefused, WriteDone, WriteFail, ContextDone, Goto, Fail, End, chanVars
  <2> QED BY <1>8, <2>1
<1>11. CASE ReceiveResponse(e)
  <2>1. /\ pc[e] = "waiting" /\ UNCHANGED <<buf, open>> /\ resp[e] # NoResp
        /\ \/ pc'[e] = "unregister" \/ pc'[e] = "pushing"
           \/ Verdict(e) = "ok" /\ resp[e].type # "MSG"
    BY <1>0, <1>6, <1>11 DEF ReceiveResponse, Goto, Fail, End, Return, chanVars
  <2>2. CASE Verdict(e) = "ok" /\ resp[e].type # "MSG"
    <3>1. resp[e] \in Replies
      BY <1>0, <2>1, <2>2, VerdictOk
    <3>2. ~Holding(e)
      BY <2>2 DEF Holding, Broker
    <3>3. ~Part(e)
      BY <1>7, <2>1, <3>1, <3>2 DEF Part
    <3> QED BY <1>8, <2>1, <3>3
  <2> QED BY <1>8, <2>1, <2>2
<1>12. CASE PushInline(e)
  <2>1. /\ pc[e] = "pushing" /\ e \in open /\ open' = open
        /\ buf' = [buf EXCEPT ![e] = Append(@, resp[e].id)]
    BY <1>12 DEF PushInline, Running
  <2>2. resp[e] \in Replies /\ resp[e].type = "MSG" /\ resp[e].id \in Msgs
    BY <1>0, <2>1, MessageId DEF CallBooks
  <2>3. buf[e] \in Seq(Msgs) /\ buf'[e] = Append(buf[e], resp[e].id) /\ (c # e => buf'[c] = buf[c])
    BY <1>0, <2>1
  <2>4. Items(buf'[e]) = Items(buf[e]) \cup {resp[e].id}
    BY <2>2, <2>3, Added
  <2>5. Buffered(c) = Items(buf[c]) /\ Buffered(c)' = Items(buf'[c])
    BY DEF Buffered, Items
  <2>6. Buffered(c) \subseteq Buffered(c)'
    BY <2>3, <2>4, <2>5
  <2>7. \A d \in Subscribes : Doomed(d) => d # e /\ Doomed(d)'
    BY <1>1, <2>1 DEF Doomed, Subscribes
  <2>8. ASSUME Part(e) PROVE Accounted(c)'
    <3>1. resp[e].id = Now
      BY <1>7, <2>1, <2>2, <2>8 DEF Part, Holding, Broker
    <3>2. CASE c = e
      BY <1>2, <2>4, <2>5, <3>1, <3>2 DEF Accounted
    <3>3. CASE c # e
      <4>1. PICK d \in Calls : Op[d] = "Subscribe" /\ Queue[d] = Q /\ pc[d] = "closing" /\ d \notin open
        BY <1>0, <2>1, <3>3 DEF NoOrphanChannel
      <4>2. d \in Subscribes /\ Doomed(d)
        BY <4>1 DEF Subscribes, Doomed
      <4> QED BY <2>7, <4>2 DEF Accounted
    <3> QED BY <3>2, <3>3
  <2> QED BY <2>6, <2>7, <2>8
<1>13. CASE Unregister(e)
  <2>1. subs'[Q] = None
    BY <1>0, <1>13 DEF Unregister
  <2> QED BY <1>0, <2>1
<1>14. CASE CloseOwn(e)
  <2>1. pc[e] = "closing" /\ e \in open /\ open' = open \ {e} /\ buf' = buf
    BY <1>14 DEF CloseOwn, Running
  <2>2. \A d \in Subscribes : Doomed(d) => Doomed(d)'
    BY <1>1, <2>1 DEF Doomed, Subscribes
  <2>3. ~Part(e) /\ Buffered(c)' = Buffered(c)
    BY <2>1 DEF Part, Due, Holding, Buffered
  <2> QED BY <2>2, <2>3
<1>15. CASE Cancel(e)
  <2>1. UNCHANGED <<pc, open, buf>>
    BY <1>15 DEF Cancel, callVars, chanVars
  <2>2. \A d \in Subscribes : Doomed(d) => Doomed(d)'
    BY <2>1 DEF Doomed
  <2>3. Buffered(c)' = Buffered(c)
    BY <2>1 DEF Buffered
  <2>4. Part(e) => Accounted(c)'
    BY <1>1, <1>5, <2>1, PartStays
  <2> QED BY <2>2, <2>3, <2>4
<1> QED BY <1>9, <1>10, <1>11, <1>12, <1>13, <1>14, <1>15 DEF Quiet, BeginSend, Select, Settle

LEMMA KeptSent ==
    ASSUME LinkInv, Inductive, NEW e \in Calls, Transmit(e), NEW c \in Calls, Accounted(c)
    PROVE  Accounted(c)'
<1>1. /\ pc' = [pc EXCEPT ![e] = "written"] /\ pc[e] = "writing" /\ pc \in [Calls -> PCs]
      /\ UNCHANGED <<acked, downlink, received, buf, open, resp>>
  BY DEF Transmit, WriteOut, Goto, relayVars, appVars, chanVars, Inductive, TypeOK
<1>2. Seen' = Seen /\ Now' = Now /\ Buffered(c)' = Buffered(c)
  BY <1>1 DEF Seen, Now, Buffered
<1>3. Event("MSG", Now) \in Items(downlink) => Accounted(c)'
  BY <1>1, <1>2 DEF Accounted
<1>4. \A d \in Subscribes : Doomed(d) => Doomed(d)'
  BY <1>1 DEF Doomed, Subscribes
<1>5. ASSUME NEW d \in Subscribes, Part(d) PROVE Accounted(c)'
  <2>1. CASE d = e
    <3>1. Due(d)'
      BY <1>1, <1>2, <1>5, <2>1 DEF Part, Due, Holding
    <3> QED BY <3>1 DEF Accounted, Part
  <2>2. CASE d # e
    <3>1. pc'[d] = pc[d]
      BY <1>1, <2>2 DEF Subscribes
    <3> QED BY <1>1, <1>5, <3>1, PartStays
  <2> QED BY <2>1, <2>2
<1> QED BY <1>1, <1>2, <1>3, <1>4, <1>5, StillAccounted

LEMMA KeptStep ==
    ASSUME LinkInv, Inductive, Traffic, Sound, Order, received \in Seq(Msgs), Kept, PushFindsRoom,
           [DeliveryNext]_deliveryVars
    PROVE  Kept'
<1> SUFFICES ASSUME NEW c \in Calls,
                    (Running /\ held /\ out /\ subs[Q] = c /\ c \in written /\ c \notin Items(uplink))'
             PROVE  Accounted(c)'
  BY DEF Kept
<1>0. /\ Running' /\ held' /\ out' /\ subs'[Q] = c /\ c \in written' /\ c \notin Items(uplink')
      /\ c # None /\ TypeOK /\ received \in Seq(Msgs)
  BY Constants DEF Inductive, Items
<1>1. ASSUME Running, held, out, subs[Q] = c, c \in written, c \notin Items(uplink) PROVE Accounted(c)
  BY <1>1 DEF Kept
<1>2. CASE UNCHANGED <<fault, held, out, acked, subs, written, linkVars, open, pc, resp, buf, received>>
  <2>1. Accounted(c)
    BY <1>0, <1>1, <1>2 DEF Running, linkVars
  <2>2. Seen' = Seen /\ Buffered(c)' = Buffered(c) /\ Items(downlink) \subseteq Items(downlink')
    BY <1>2 DEF Seen, Buffered, linkVars
  <2> QED BY <1>2, <2>1, <2>2, KeptAside
<1>3. CASE RelaySub
  BY <1>3, KeptSub
<1>4. CASE RelayAckRefused
  <2>1. /\ UNCHANGED <<vars, held, out, acked, received>> /\ uplink # <<>> /\ uplink' = Tail(uplink)
        /\ Op[Head(uplink)] = "Ack" /\ downlink' = Append(downlink, Answer("ERR", None))
    BY <1>4 DEF RelayAckRefused, relayVars, appVars
  <2>2. UNCHANGED <<fault, subs, written, open, pc, resp, buf>>
    BY <2>1 DEF vars, clientVars, callVars, chanVars, wireVars
  <2>3. Op[c] = "Subscribe"
    BY <1>0, <2>2, Constants DEF Inductive, Books, QueueBooks
  <2>4. Items(uplink) = Items(uplink') \cup {Head(uplink)}
    BY <2>1, TailItems DEF LinkInv
  <2>5. Accounted(c)
    BY <1>0, <1>1, <2>1, <2>2, <2>3, <2>4 DEF Running
  <2>6. Items(downlink) \subseteq Items(downlink')
    <3>1. PICK t \in Answers \cup Events : downlink' = Append(downlink, t)
      BY <2>1, Constants, AnswerIsAnswer
    <3>2. downlink \in Seq(Answers \cup Events)
      BY DEF LinkInv
    <3>3. Items(downlink') = Items(downlink) \cup {t}
      BY <3>1, <3>2, Added
    <3> QED BY <3>3
  <2>7. Seen' = Seen /\ Buffered(c)' = Buffered(c)
    BY <2>1, <2>2 DEF Seen, Buffered
  <2> QED BY <2>1, <2>2, <2>5, <2>6, <2>7, KeptAside
<1>5. CASE RelayPush
  <2>1. acked + 1 \in Msgs
    BY <1>5, Constants DEF RelayPush, LinkInv
  <2>2. acked' = acked /\ downlink' = Append(downlink, Event("MSG", Now)) /\ Event("MSG", Now) \in Answers \cup Events
    BY <1>5, <2>1, EventIsEvent DEF RelayPush, Now
  <2>3. Event("MSG", Now) \in Items(downlink') /\ Now' = Now
    BY <2>2, Added DEF LinkInv, Now
  <2> QED BY <2>3 DEF Accounted
<1>6. ~RelayAck /\ ~TakeOver
  BY <1>0 DEF RelayAck, TakeOver
<1>7. CASE TakeNext \/ SessionEnds \/ \E e \in Calls : Read(e) \/ \E m \in Msgs : StartAck(e, m)
  <2>1. UNCHANGED <<uplink, written, acked, held, out>> /\ subs[Q] = c /\ \A d \in Subscribes : pc'[d] = pc[d]
    BY <1>0, <1>7, OthersMove
  <2>2. Running
    BY <1>7 DEF TakeNext, TakeReply, TakeMsg, TakeEnd, DispatchReply, DispatchMsg, DispatchEnd, DropTransmission,
                Take, SessionEnds, HandleReadError, Read, Receive, StartAck, Start
  <2>3. Accounted(c)
    BY <1>0, <1>1, <2>1, <2>2
  <2>4. CASE TakeReply \/ TakeMsg
    BY <2>1, <2>3, <2>4, KeptTaken
  <2>5. ~TakeEnd
    BY <1>0, <2>1, Constants DEF TakeEnd, DispatchEnd, AfterEnd, Inductive, TypeOK
  <2>6. ~SessionEnds
    <3>1. ~closed
      BY <1>0, <2>1, Constants DEF Inductive, Books, ClosedDrained, Registered
    <3> QED BY <1>0, <3>1, Constants DEF SessionEnds, HandleReadError, Drain
  <2>7. ASSUME NEW e \in Calls, Read(e) PROVE Accounted(c)'
    BY <2>3, <2>7, KeptRead
  <2>8. ASSUME NEW e \in Calls, NEW m \in Msgs, StartAck(e, m) PROVE Accounted(c)'
    <3>1. UNCHANGED <<acked, open, downlink, buf, received, resp>>
      BY <2>8 DEF StartAck, Start, relayVars, linkVars, chanVars
    <3>2. Seen' = Seen /\ Buffered(c)' = Buffered(c) /\ Items(downlink) \subseteq Items(downlink')
      BY <3>1 DEF Seen, Buffered
    <3> QED BY <2>1, <2>3, <3>1, <3>2, KeptAside
  <2> QED BY <1>7, <2>4, <2>5, <2>6, <2>7, <2>8 DEF TakeNext
<1>8. ASSUME NEW e \in Calls, Transmit(e) PROVE Accounted(c)'
  <2>1. /\ UNCHANGED <<fault, held, out, acked, subs>> /\ written' = written \cup {e}
        /\ uplink' = Append(uplink, e)
    BY <1>8 DEF Transmit, WriteOut, relayVars, clientVars
  <2>2. Items(uplink') = Items(uplink) \cup {e}
    BY <2>1, Added DEF LinkInv
  <2>3. Accounted(c)
    BY <1>0, <1>1, <2>1, <2>2 DEF Running
  <2> QED BY <1>8, <2>3, KeptSent
<1>9. ASSUME NEW e \in Calls, Quiet(e) PROVE Accounted(c)'
  <2>1. /\ UNCHANGED <<uplink, written, held, out>>
        /\ subs[Q] = c \/ (c = e /\ pc[e] = "idle")
    BY <1>0, <1>9, QuietMoves
  <2>2. Running
    BY <1>9 DEF Quiet, SubscribeRefused, SubscribeRegister, BeginSend, SendRefused, SendRegister, WriteDone,
       WriteFail, Select, ReceiveResponse, ContextDone, Settle, PushInline, Unregister, CloseOwn, Cancel
  <2>3. subs[Q] = c
    BY <1>0, <2>1 DEF Traffic, CallTraffic
  <2>4. Accounted(c)
    BY <1>0, <1>1, <2>1, <2>2, <2>3
  <2> QED BY <1>0, <1>9, <2>3, <2>4, KeptQuiet
<1>10. CASE Arrive \/ UNCHANGED deliveryVars
  BY <1>2, <1>10 DEF Arrive, deliveryVars, relayVars, linkVars, appVars, vars, clientVars, callVars, chanVars, wireVars
<1> QED BY <1>3, <1>4, <1>5, <1>6, <1>7, <1>8, <1>9, <1>10 DEF DeliveryNext, Relay

-----------------------------------------------------------------------------
(* Copies of messages.  M is the messages that are counted: all of them, for *)
(* the room they take, or one, for how often it is read.  A copy of one of  *)
(* them has been read, is in a channel, is on its way as an event, or is an *)
(* answer to SUB that has yet to be put in the channel.                     *)

At(s, M) == {i \in 1..Len(s) : s[i] \in M}
Cells(M) == {x \in Subscribes \X (1..BufCap) : x[2] <= Len(buf[x[1]]) /\ buf[x[1]][x[2]] \in M}
Copy(x, M) == x.msg.type = "MSG" /\ x.msg.id \in M
Copies(s, M) == {j \in 1..Len(s) : s[j].to = None /\ Copy(s[j], M)}
AnsweredMsg(d, M) ==
    \/ \E x \in Items(downlink) : x.to = d /\ Copy(x, M)
    \/ resp[d].type = "MSG" /\ resp[d].id \in M /\ pc[d] \in InSend \cup {"pushing"}
ToPush(M) == {d \in Subscribes : AnsweredMsg(d, M)}
Load(M) == Cardinality(At(received, M)) + Cardinality(Cells(M)) + Cardinality(Copies(downlink, M))
           + Cardinality(ToPush(M))

\* The relay may push one.
Credit == IF held /\ ~out THEN 1 ELSE 0

\* The channel never fills: each copy stands for a SUB the relay has handled or
\* for a message acknowledged.
Budget == Load(Msgs) + Credit <= Cardinality(Handled) + acked

\* Of one message there are no more copies than SUBs the relay has handled, and
\* none before those before it are acknowledged.
Round(m) ==
    /\ m > Now => Load({m}) = 0
    /\ Load({m}) + (IF m = Now THEN Credit ELSE 0) <= Cardinality(Handled)
Rounds ==
    /\ held => Cardinality(Handled) >= 1
    /\ \A m \in Msgs : Round(m)

\* Only what has been read is acknowledged.
AckedRead ==
    /\ out => acked < arrived
    /\ 1..acked \subseteq Seen
    /\ \A a \in Calls : acking[a] \in Seen \cup {None}

LEMMA Sizes ==
    ASSUME LinkInv, TypeOK, received \in Seq(Msgs), NEW M
    PROVE  /\ IsFiniteSet(At(received, M)) /\ Cardinality(At(received, M)) \in Nat
           /\ IsFiniteSet(Cells(M)) /\ Cardinality(Cells(M)) \in Nat
           /\ IsFiniteSet(Copies(downlink, M)) /\ Cardinality(Copies(downlink, M)) \in Nat
           /\ IsFiniteSet(ToPush(M)) /\ Cardinality(ToPush(M)) \in Nat
           /\ Load(M) \in Nat
<1>1. IsFiniteSet(Subscribes) /\ BufCap \in Nat
  BY DeliveryAssumption, ConstantsAssumption
<1>2. IsFiniteSet(1..BufCap)
  BY <1>1, FS_Interval
<1>3. IsFiniteSet(Subscribes \X (1..BufCap))
  BY <1>1, <1>2, FS_Product
<1>4. IsFiniteSet(Cells(M))
  BY <1>3, FS_Subset DEF Cells
<1>5. IsFiniteSet(Copies(downlink, M))
  <2>1. Len(downlink) \in Nat
    BY DEF LinkInv
  <2>2. IsFiniteSet(1..Len(downlink))
    BY <2>1, FS_Interval
  <2> QED BY <2>2, FS_Subset DEF Copies
<1>6. IsFiniteSet(ToPush(M))
  BY <1>1, FS_Subset DEF ToPush
<1>7. IsFiniteSet(At(received, M))
  <2>1. Len(received) \in Nat
    OBVIOUS
  <2>2. IsFiniteSet(1..Len(received))
    BY <2>1, FS_Interval
  <2> QED BY <2>2, FS_Subset DEF At
<1>8. /\ Cardinality(At(received, M)) \in Nat /\ Cardinality(Cells(M)) \in Nat
      /\ Cardinality(Copies(downlink, M)) \in Nat /\ Cardinality(ToPush(M)) \in Nat
  BY <1>4, <1>5, <1>6, <1>7, FS_CardinalityType
<1> QED BY <1>4, <1>5, <1>6, <1>7, <1>8 DEF Load

LEMMA HandledSize ==
    /\ IsFiniteSet(Handled) /\ Cardinality(Handled) \in Nat /\ Cardinality(Handled) <= BufCap
    /\ BufCap \in Nat /\ Credit \in {0, 1}
<1>1. IsFiniteSet(Subscribes) /\ BufCap \in Nat /\ BufCap >= Cardinality(Subscribes)
  BY DeliveryAssumption, ConstantsAssumption
<1>2. IsFiniteSet(Handled) /\ Cardinality(Handled) <= Cardinality(Subscribes)
  BY <1>1, FS_Subset DEF Handled
<1>3. Cardinality(Handled) \in Nat /\ Cardinality(Subscribes) \in Nat
  BY <1>1, <1>2, FS_CardinalityType
<1> QED BY <1>1, <1>2, <1>3 DEF Credit

LEMMA UpTo ==
    ASSUME NEW n \in Nat
    PROVE  Cardinality(1..n) = n
BY FS_Interval

\* Fewer of them, or as many, or one more.
LEMMA NoMore ==
    ASSUME NEW S, IsFiniteSet(S), NEW T, T \subseteq S
    PROVE  IsFiniteSet(T) /\ Cardinality(T) <= Cardinality(S) /\ Cardinality(T) \in Nat
<1>1. IsFiniteSet(T) /\ Cardinality(T) <= Cardinality(S)
  BY FS_Subset
<1> QED BY <1>1, FS_CardinalityType

LEMMA OneMore ==
    ASSUME NEW S, IsFiniteSet(S), NEW x, NEW T, T \subseteq S \cup {x}
    PROVE  Cardinality(T) <= Cardinality(S) + 1 /\ Cardinality(T) \in Nat
<1>1. Cardinality(S) \in Nat
  BY FS_CardinalityType
<1>2. IsFiniteSet(S \cup {x}) /\ Cardinality(S \cup {x}) <= Cardinality(S) + 1
  BY <1>1, FS_AddElement
<1>3. Cardinality(S \cup {x}) \in Nat
  BY <1>2, FS_CardinalityType
<1>4. Cardinality(T) <= Cardinality(S \cup {x}) /\ Cardinality(T) \in Nat
  BY <1>2, NoMore
<1> QED BY <1>1, <1>2, <1>3, <1>4

\* One fewer: all but x, one for one.
LEMMA OneFewer ==
    ASSUME NEW S, IsFiniteSet(S), NEW x, NEW T, NEW f \in Injection(T, S \ {x})
    PROVE  /\ Cardinality(T) <= Cardinality(S) /\ Cardinality(T) \in Nat
           /\ x \in S => Cardinality(T) <= Cardinality(S) - 1
<1>1. IsFiniteSet(S \ {x})
      /\ Cardinality(S \ {x}) = IF x \in S THEN Cardinality(S) - 1 ELSE Cardinality(S)
  BY FS_RemoveElement
<1>2. IsFiniteSet(T) /\ Cardinality(T) <= Cardinality(S \ {x})
  BY <1>1, FS_Injection
<1>3. Cardinality(T) \in Nat /\ Cardinality(S) \in Nat
  BY <1>2, FS_CardinalityType
<1> QED BY <1>1, <1>2, <1>3

LEMMA CopiesAdded ==
    ASSUME NEW S, NEW s \in Seq(S), NEW x \in S, NEW M
    PROVE  /\ Cardinality(Copies(Append(s, x), M)) \in Nat
           /\ ~(x.to = None /\ Copy(x, M)) => Copies(Append(s, x), M) = Copies(s, M)
           /\ Cardinality(Copies(Append(s, x), M)) <= Cardinality(Copies(s, M)) + 1
<1> DEFINE t == Append(s, x)
<1>1. /\ Len(t) = Len(s) + 1 /\ Len(s) \in Nat /\ t[Len(s) + 1] = x
      /\ \A i \in 1..Len(s) : t[i] = s[i]
  BY AppendProperties
<1> HIDE DEF t
<1>2. Copies(t, M) \subseteq Copies(s, M) \cup {Len(s) + 1} /\ Copies(s, M) \subseteq Copies(t, M)
  BY <1>1 DEF Copies
<1>3. Len(s) + 1 \in Copies(t, M) <=> (x.to = None /\ Copy(x, M))
  BY <1>1 DEF Copies
<1>4. IsFiniteSet(Copies(s, M))
  <2>1. IsFiniteSet(1..Len(s))
    BY <1>1, FS_Interval
  <2> QED BY <2>1, FS_Subset DEF Copies
<1>5. Cardinality(Copies(t, M)) <= Cardinality(Copies(s, M)) + 1 /\ Cardinality(Copies(t, M)) \in Nat
  BY <1>2, <1>4, OneMore
<1>6. ~(x.to = None /\ Copy(x, M)) => Copies(t, M) = Copies(s, M)
  BY <1>2, <1>3
<1> QED BY <1>5, <1>6 DEF t

LEMMA CopiesTaken ==
    ASSUME NEW S, NEW s \in Seq(S), s # <<>>, NEW M
    PROVE  /\ Cardinality(Copies(Tail(s), M)) \in Nat
           /\ Cardinality(Copies(Tail(s), M)) <= Cardinality(Copies(s, M))
           /\ Head(s).to = None /\ Copy(Head(s), M) =>
                Cardinality(Copies(Tail(s), M)) <= Cardinality(Copies(s, M)) - 1
<1> DEFINE t == Tail(s)
<1>1. /\ Len(t) = Len(s) - 1 /\ Len(s) \in Nat \ {0}
      /\ \A i \in 1..Len(t) : t[i] = s[i + 1]
      /\ Head(s) = s[1]
  BY Taken
<1> HIDE DEF t
<1> DEFINE f == [j \in Copies(t, M) |-> j + 1]
<1>2. \A j \in Copies(t, M) : j \in Int /\ j + 1 \in Copies(s, M) \ {1}
  BY <1>1 DEF Copies
<1>3. f \in Injection(Copies(t, M), Copies(s, M) \ {1})
  <2>1. f \in [Copies(t, M) -> Copies(s, M) \ {1}]
    BY <1>2
  <2>2. IsInjective(f)
    BY <1>2 DEF IsInjective
  <2> QED BY <2>1, <2>2 DEF Injection
<1>4. IsFiniteSet(Copies(s, M))
  <2>1. IsFiniteSet(1..Len(s))
    BY <1>1, FS_Interval
  <2> QED BY <2>1, FS_Subset DEF Copies
<1>5. 1 \in Copies(s, M) <=> Head(s).to = None /\ Copy(Head(s), M)
  BY <1>1 DEF Copies
<1> HIDE DEF f
<1>6. /\ Cardinality(Copies(t, M)) <= Cardinality(Copies(s, M)) /\ Cardinality(Copies(t, M)) \in Nat
      /\ 1 \in Copies(s, M) => Cardinality(Copies(t, M)) <= Cardinality(Copies(s, M)) - 1
  BY <1>3, <1>4, OneFewer
<1> QED BY <1>5, <1>6 DEF t

LEMMA SeenGrows ==
    ASSUME TypeOK, received \in Seq(Msgs), [DeliveryNext]_deliveryVars
    PROVE  Seen \subseteq Seen'
<1>1. ASSUME NEW c \in Calls, Read(c) PROVE Seen \subseteq Seen'
  <2>1. buf[c] \in Seq(Msgs) /\ buf[c] # <<>> /\ received' = Append(received, Head(buf[c]))
    BY <1>1 DEF Read, Receive, TypeOK
  <2>2. Head(buf[c]) \in Msgs
    BY <2>1, HeadTailProperties
  <2>3. Items(received') = Items(received) \cup {Head(buf[c])}
    BY <2>1, <2>2, Added
  <2> QED BY <2>3 DEF Seen, Items
<1>2. CASE UNCHANGED received
  BY <1>2 DEF Seen
<1> QED BY <1>1, <1>2 DEF DeliveryNext, Relay, Arrive, RelaySub, RelayAck, RelayAckRefused, RelayPush,
           TakeOver, TakeNext, TakeReply, TakeMsg, TakeEnd, SessionEnds, Quiet, Transmit, StartAck,
           appVars, deliveryVars

LEMMA AckedReadStep ==
    ASSUME LinkInv, TypeOK, received \in Seq(Msgs), AckedRead, [DeliveryNext]_deliveryVars
    PROVE  AckedRead'
<1>1. arrived \in Int /\ acked \in Nat /\ arrived <= Last
  BY Constants DEF LinkInv
<1>2. out' => acked' < arrived'
  <2>1. CASE Arrive
    BY <1>1, <2>1 DEF AckedRead, Arrive
  <2>3. CASE RelaySub
    BY <2>3 DEF RelaySub
  <2>4. CASE RelayAck \/ TakeOver
    BY <2>4 DEF RelayAck, TakeOver
  <2>5. CASE RelayPush
    BY <2>5 DEF RelayPush
  <2>2. CASE UNCHANGED relayVars
    BY <2>2 DEF AckedRead, relayVars
  <2> QED BY <2>1, <2>2, <2>3, <2>4, <2>5 DEF DeliveryNext, Relay, RelayAckRefused, TakeNext, TakeReply, TakeMsg, TakeEnd,
     SessionEnds, Quiet, Transmit, Read, StartAck, deliveryVars
<1>3. acked' = acked \/ (RelayAck /\ acked' = acked + 1)
  BY DEF DeliveryNext, Relay, Arrive, RelaySub, RelayAck, RelayAckRefused, RelayPush,
     TakeOver, TakeNext, TakeReply, TakeMsg, TakeEnd, SessionEnds, Quiet, Transmit, Read, StartAck,
     relayVars, deliveryVars
<1>4. 1..acked' \subseteq Seen
  <2>1. CASE RelayAck /\ acked' = acked + 1
    <3>1. acked + 1 \in Msgs /\ acked + 1 # None
      BY <1>1, <2>1, Constants, ConstantsAssumption DEF RelayAck, Acknowledges, AckedRead
    <3>2. acked + 1 \in Seen
      BY <2>1, <3>1, Heads DEF RelayAck, Acknowledges, AckedRead
    <3> QED BY <1>1, <2>1, <3>2 DEF AckedRead
  <2> QED BY <1>3, <2>1 DEF AckedRead
<1>5. ASSUME NEW a \in Calls PROVE acking'[a] \in Seen \cup {None}
  <2>1. ASSUME NEW c \in Calls, NEW m \in Msgs, StartAck(c, m)
        PROVE  acking'[a] \in {acking[a], m} /\ m \in Seen
    BY <2>1 DEF StartAck, Unacknowledged
  <2>2. CASE UNCHANGED acking
    BY <2>2 DEF AckedRead
  <2> QED BY <2>1, <2>2 DEF AckedRead, DeliveryNext, Relay, Arrive, RelaySub, RelayAck, RelayAckRefused,
     RelayPush, TakeOver, TakeNext, TakeReply, TakeMsg, TakeEnd, SessionEnds, Quiet, Transmit, Read,
     appVars, deliveryVars
<1> QED BY <1>2, <1>4, <1>5, SeenGrows DEF AckedRead

LEMMA AckedAtMost ==
    ASSUME LinkInv, AckedRead, received \in Seq(Msgs)
    PROVE  acked <= Len(received)
<1>1. Len(received) \in Nat /\ acked \in Nat
  BY DEF LinkInv
<1> DEFINE f == [i \in 1..Len(received) |-> received[i]]
<1>2. f \in Surjection(1..Len(received), Seen)
  BY DEF Surjection, Seen
<1>3. Cardinality(Seen) <= Len(received)
  <2> HIDE DEF f
  <2>1. ExistsSurjection(1..Len(received), Seen)
    BY <1>2 DEF ExistsSurjection
  <2> QED BY <1>1, <2>1, FS_SurjCardinalityBound
<1>4. IsFiniteSet(Seen)
  <2> HIDE DEF f
  <2>1. IsFiniteSet(1..Len(received))
    BY <1>1, FS_Interval
  <2> QED BY <1>2, <2>1, FS_Surjection
<1> HIDE DEF f
<1>5. Cardinality(1..acked) = acked
  BY <1>1, UpTo
<1>6. Cardinality(1..acked) <= Cardinality(Seen) /\ Cardinality(Seen) \in Nat
  BY <1>4, FS_Subset, FS_CardinalityType DEF AckedRead
<1> QED BY <1>1, <1>3, <1>5, <1>6

LEMMA CellsFilled ==
    ASSUME LinkInv, TypeOK, received \in Seq(Msgs), NEW M, NEW e \in Subscribes, NEW m \in Msgs,
           buf' = [buf EXCEPT ![e] = Append(@, m)]
    PROVE  /\ Cardinality(Cells(M)') <= Cardinality(Cells(M)) + 1 /\ Cardinality(Cells(M)') \in Nat
           /\ m \notin M => Cardinality(Cells(M)') <= Cardinality(Cells(M))
<1>1. e \in Calls /\ buf[e] \in Seq(Msgs) /\ buf \in [Calls -> Seq(Msgs)] /\ Subscribes \subseteq Calls
  BY DEF Subscribes, TypeOK
<1>2. /\ Len(buf'[e]) = Len(buf[e]) + 1 /\ Len(buf[e]) \in Nat
      /\ \A i \in 1..Len(buf[e]) : buf'[e][i] = buf[e][i]
      /\ buf'[e][Len(buf[e]) + 1] = m
      /\ \A c \in Calls \ {e} : buf'[c] = buf[c]
  <2>1. buf'[e] = Append(buf[e], m) /\ \A c \in Calls \ {e} : buf'[c] = buf[c]
    BY <1>1
  <2> QED BY <1>1, <2>1, Added
<1>3. ASSUME NEW x \in Cells(M)', x \notin Cells(M)
      PROVE  x = <<e, Len(buf[e]) + 1>> /\ m \in M
  <2>1. PICK c \in Subscribes, i \in 1..BufCap : x = <<c, i>>
    BY DEF Cells
  <2>2. i <= Len(buf'[c]) /\ buf'[c][i] \in M /\ c \in Calls /\ i \in Int /\ i >= 1
    BY <1>1, <2>1, ConstantsAssumption DEF Cells
  <2>3. ~(i <= Len(buf[c]) /\ buf[c][i] \in M)
    BY <1>3, <2>1 DEF Cells
  <2>4. c = e
    BY <1>2, <2>2, <2>3
  <2>5. ~(i <= Len(buf[e]))
    BY <1>2, <2>2, <2>3, <2>4
  <2>6. i = Len(buf[e]) + 1
    BY <1>2, <2>2, <2>4, <2>5
  <2> QED BY <1>2, <2>1, <2>2, <2>4, <2>6
<1>4. Cells(M)' \subseteq Cells(M) \cup {<<e, Len(buf[e]) + 1>>}
  BY <1>3
<1>5. m \notin M => Cells(M)' \subseteq Cells(M)
  BY <1>3
<1> QED BY <1>4, <1>5, Sizes, NoMore, OneMore

LEMMA CellsEmptied ==
    ASSUME LinkInv, TypeOK, received \in Seq(Msgs), NEW M, NEW e \in Subscribes, buf[e] # <<>>,
           buf' = [buf EXCEPT ![e] = Tail(@)]
    PROVE  /\ <<e, 1>> \in Cells(M) <=> Head(buf[e]) \in M
           /\ Cardinality(Cells(M)') <= Cardinality(Cells(M)) /\ Cardinality(Cells(M)') \in Nat
           /\ Head(buf[e]) \in M => Cardinality(Cells(M)') <= Cardinality(Cells(M)) - 1
<1>1. /\ e \in Calls /\ buf[e] \in Seq(Msgs) /\ buf \in [Calls -> Seq(Msgs)] /\ BufCap \in Nat
      /\ Subscribes \subseteq Calls /\ Len(buf[e]) <= BufCap
  BY ConstantsAssumption DEF Subscribes, TypeOK
<1>2. /\ Len(buf'[e]) = Len(buf[e]) - 1 /\ Len(buf[e]) \in Nat \ {0}
      /\ \A i \in 1..Len(buf'[e]) : buf'[e][i] = buf[e][i + 1]
      /\ Head(buf[e]) = buf[e][1]
      /\ \A c \in Calls \ {e} : buf'[c] = buf[c]
  <2>1. buf'[e] = Tail(buf[e]) /\ \A c \in Calls \ {e} : buf'[c] = buf[c]
    BY <1>1
  <2> QED BY <1>1, <2>1, Taken
<1>3. <<e, 1>> \in Cells(M) <=> Head(buf[e]) \in M
  BY <1>1, <1>2 DEF Cells
<1> DEFINE R == Cells(M) \ {<<e, 1>>}
           To(x) == IF x[1] = e THEN <<e, x[2] + 1>> ELSE x
           f == [x \in Cells(M)' |-> To(x)]
<1>4. ASSUME NEW x \in Cells(M)'
      PROVE  /\ x = <<x[1], x[2]>> /\ x[2] \in Int /\ To(x) \in R
  <2>1. PICK c \in Subscribes, i \in 1..BufCap : x = <<c, i>>
    BY DEF Cells
  <2>2. i <= Len(buf'[c]) /\ buf'[c][i] \in M /\ c \in Calls /\ i \in Int /\ i >= 1
    BY <1>1, <2>1 DEF Cells
  <2>3. CASE c = e
    <3>1. i + 1 \in 1..BufCap /\ i + 1 <= Len(buf[e]) /\ buf[e][i + 1] \in M /\ i + 1 # 1
      BY <1>1, <1>2, <2>2, <2>3
    <3>2. <<e, i + 1>> \in R
      BY <3>1 DEF Cells
    <3> QED BY <2>1, <2>2, <2>3, <3>2
  <2>4. CASE c # e
    <3>1. x \in Cells(M) /\ x # <<e, 1>>
      BY <1>2, <2>1, <2>2, <2>4 DEF Cells
    <3> QED BY <2>1, <2>2, <2>4, <3>1
  <2> QED BY <2>3, <2>4
<1>5. f \in Injection(Cells(M)', R)
  <2>1. f \in [Cells(M)' -> R]
    <3> HIDE DEF To, R
    <3> QED BY <1>4
  <2>2. ASSUME NEW x \in Cells(M)', NEW y \in Cells(M)', To(x) = To(y) PROVE x = y
    <3>1. x = <<x[1], x[2]>> /\ x[2] \in Int /\ y = <<y[1], y[2]>> /\ y[2] \in Int
      BY <1>4
    <3>2. To(x)[1] = x[1] /\ To(y)[1] = y[1]
      BY <3>1
    <3>3. CASE x[1] = e
      BY <2>2, <3>1, <3>2, <3>3
    <3>4. CASE x[1] # e
      BY <2>2, <3>1, <3>2, <3>4
    <3> QED BY <3>3, <3>4
  <2>3. IsInjective(f)
    <3> HIDE DEF To
    <3> QED BY <2>2 DEF IsInjective
  <2> QED BY <2>1, <2>3 DEF Injection
<1> HIDE DEF f, To
<1>6. /\ Cardinality(Cells(M)') <= Cardinality(Cells(M)) /\ Cardinality(Cells(M)') \in Nat
      /\ <<e, 1>> \in Cells(M) => Cardinality(Cells(M)') <= Cardinality(Cells(M)) - 1
  <2>1. IsFiniteSet(Cells(M))
    BY Sizes
  <2> QED BY <1>5, <2>1, OneFewer
<1> QED BY <1>3, <1>6

LEMMA ReadsAdded ==
    ASSUME NEW s \in Seq(Msgs), NEW x \in Msgs, NEW M, IsFiniteSet(At(s, M))
    PROVE  /\ Cardinality(At(Append(s, x), M)) \in Nat
           /\ Cardinality(At(Append(s, x), M)) <= Cardinality(At(s, M)) + 1
           /\ x \notin M => Cardinality(At(Append(s, x), M)) <= Cardinality(At(s, M))
<1> DEFINE t == Append(s, x)
<1>1. /\ Len(t) = Len(s) + 1 /\ Len(s) \in Nat /\ t[Len(s) + 1] = x
      /\ \A i \in 1..Len(s) : t[i] = s[i]
  BY AppendProperties
<1> HIDE DEF t
<1>2. At(t, M) \subseteq At(s, M) \cup {Len(s) + 1} /\ (x \notin M => At(t, M) \subseteq At(s, M))
  BY <1>1 DEF At
<1>3. Cardinality(At(t, M)) <= Cardinality(At(s, M)) + 1 /\ Cardinality(At(t, M)) \in Nat
  BY <1>2, OneMore
<1>4. x \notin M => Cardinality(At(t, M)) <= Cardinality(At(s, M))
  BY <1>2, NoMore
<1> QED BY <1>3, <1>4 DEF t

\* What may happen to the copies without any being made.
LEMMA LoadKept ==
    ASSUME LinkInv, TypeOK, received \in Seq(Msgs), NEW M, UNCHANGED <<buf, received>>,
           Cardinality(Copies(downlink', M)) <= Cardinality(Copies(downlink, M)),
           Cardinality(Copies(downlink', M)) \in Nat,
           \A d \in Subscribes : AnsweredMsg(d, M)' => AnsweredMsg(d, M)
    PROVE  Load(M)' <= Load(M) /\ Load(M)' \in Nat
<1>1. Cells(M)' = Cells(M)
  BY DEF Cells
<1>2. ToPush(M)' \subseteq ToPush(M)
  BY DEF ToPush
<1>3. Cardinality(ToPush(M)') <= Cardinality(ToPush(M)) /\ Cardinality(ToPush(M)') \in Nat
  BY <1>2, Sizes, NoMore
<1>4. Load(M)' = Cardinality(At(received, M)) + Cardinality(Cells(M))
                 + Cardinality(Copies(downlink', M)) + Cardinality(ToPush(M)')
  BY <1>1 DEF Load
<1> QED BY <1>3, <1>4, Sizes DEF Load

\* The relay sends one, or none.
Sends == RelayPush \/ (RelaySub /\ acked < arrived)

LEMMA LoadRelay ==
    ASSUME LinkInv, TypeOK, received \in Seq(Msgs), NEW M, Relay
    PROVE  /\ Load(M)' <= Load(M) + 1 /\ Load(M)' \in Nat
           /\ ~(Sends /\ Now \in M) => Load(M)' <= Load(M)
<1>0. /\ UNCHANGED <<buf, received, resp, pc>> /\ Cells(M)' = Cells(M) /\ At(received, M)' = At(received, M)
      /\ None \notin Calls /\ downlink \in Seq(Answers \cup Events) /\ acked \in Nat /\ arrived <= Last
      /\ arrived \in Nat
  BY Constants DEF LinkInv, Relay, Arrive, RelaySub, RelayAck, RelayAckRefused, RelayPush, TakeOver, Cells, At,
         vars, appVars, chanVars, callVars
<1>1. ASSUME NEW t \in Answers \cup Events, downlink' = Append(downlink, t),
             Copy(t, M) => Sends /\ Now \in M
      PROVE  /\ Load(M)' <= Load(M) + 1 /\ Load(M)' \in Nat
             /\ ~(Sends /\ Now \in M) => Load(M)' <= Load(M)
  <2>1. Items(downlink') = Items(downlink) \cup {t}
    BY <1>0, <1>1, Added
  <2>2. /\ Cardinality(Copies(downlink', M)) \in Nat
        /\ ~(t.to = None /\ Copy(t, M)) => Copies(downlink', M) = Copies(downlink, M)
        /\ Cardinality(Copies(downlink', M)) <= Cardinality(Copies(downlink, M)) + 1
    BY <1>0, <1>1, CopiesAdded
  <2>3. ToPush(M)' \subseteq ToPush(M) \cup {t.to}
    BY <1>0, <2>1 DEF ToPush, AnsweredMsg
  <2>4. ~(t.to # None /\ Copy(t, M)) => ToPush(M)' \subseteq ToPush(M)
    BY <1>0, <2>1 DEF ToPush, AnsweredMsg, Subscribes
  <2>5. Cardinality(ToPush(M)') <= Cardinality(ToPush(M)) + 1 /\ Cardinality(ToPush(M)') \in Nat
    BY <2>3, Sizes, OneMore
  <2>6. ~(t.to # None /\ Copy(t, M)) => Cardinality(ToPush(M)') <= Cardinality(ToPush(M))
    BY <2>4, Sizes, NoMore
  <2>7. Load(M)' = Cardinality(At(received, M)) + Cardinality(Cells(M))
                   + Cardinality(Copies(downlink', M)) + Cardinality(ToPush(M)')
    BY <1>0 DEF Load
  <2>8. CASE ~Copy(t, M)
    BY <2>2, <2>5, <2>6, <2>7, <2>8, Sizes DEF Load
  <2>9. CASE t.to = None /\ Copy(t, M)
    <3>1. Sends /\ Now \in M
      BY <1>1, <2>9
    <3> QED BY <2>2, <2>5, <2>6, <2>7, <2>9, <3>1, Sizes DEF Load
  <2>10. CASE t.to # None /\ Copy(t, M)
    <3>1. Sends /\ Now \in M
      BY <1>1, <2>10
    <3> QED BY <2>2, <2>5, <2>7, <2>10, <3>1, Sizes DEF Load
  <2> QED BY <2>8, <2>9, <2>10
<1>2. CASE Arrive
  <2>1. downlink' = downlink
    BY <1>2 DEF Arrive, linkVars
  <2>2. \A d \in Subscribes : AnsweredMsg(d, M)' => AnsweredMsg(d, M)
    BY <1>0, <2>1 DEF AnsweredMsg
  <2>3. Load(M)' <= Load(M) /\ Load(M)' \in Nat
    BY <1>0, <2>1, <2>2, Sizes, LoadKept
  <2> QED BY <2>3, Sizes
<1>3. CASE RelaySub /\ acked < arrived
  <2>1. Broker("MSG", acked + 1) \in Replies /\ uplink # <<>>
    BY <1>0, <1>3, Constants DEF RelaySub
  <2>2. Answer("MSG", acked + 1) \in Answers \cup Events
    BY <2>1, AnswerIsAnswer
  <2>3. downlink' = Append(downlink, Answer("MSG", acked + 1))
    BY <1>3 DEF RelaySub
  <2>4. Copy(Answer("MSG", acked + 1), M) => Sends /\ Now \in M
    BY <1>3 DEF Copy, Answer, Transmission, Broker, Sends, Now
  <2> QED BY <1>1, <2>2, <2>3, <2>4
<1>4. CASE RelaySub /\ ~(acked < arrived)
  <2>1. Broker("OK", None) \in Replies /\ uplink # <<>>
    BY <1>4, Constants DEF RelaySub
  <2>2. Answer("OK", None) \in Answers \cup Events
    BY <2>1, AnswerIsAnswer
  <2>3. downlink' = Append(downlink, Answer("OK", None))
    BY <1>4 DEF RelaySub
  <2>4. ~Copy(Answer("OK", None), M)
    BY DEF Copy, Answer, Transmission, Broker
  <2> QED BY <1>1, <2>2, <2>3, <2>4
<1>5. CASE RelayAck \/ RelayAckRefused
  <2>1. PICK type \in {"OK", "ERR"} : downlink' = Append(downlink, Answer(type, None))
    BY <1>5 DEF RelayAck, RelayAckRefused
  <2>2. Broker(type, None) \in Replies /\ uplink # <<>>
    BY <1>5, Constants DEF RelayAck, RelayAckRefused
  <2>3. Answer(type, None) \in Answers \cup Events
    BY <2>2, AnswerIsAnswer
  <2>4. ~Copy(Answer(type, None), M)
    BY DEF Copy, Answer, Transmission, Broker
  <2> QED BY <1>1, <2>1, <2>3, <2>4
<1>6. CASE RelayPush
  <2>1. acked + 1 \in Msgs
    BY <1>0, <1>6, Constants DEF RelayPush
  <2>2. Event("MSG", acked + 1) \in Answers \cup Events
    BY <2>1, EventIsEvent
  <2>3. downlink' = Append(downlink, Event("MSG", acked + 1))
    BY <1>6 DEF RelayPush
  <2>4. Copy(Event("MSG", acked + 1), M) => Sends /\ Now \in M
    BY <1>6 DEF Copy, Event, Transmission, Broker, Sends, Now
  <2> QED BY <1>1, <2>2, <2>3, <2>4
<1>7. CASE TakeOver
  <2>1. Event("END", None) \in Answers \cup Events
    BY EventIsEvent
  <2>2. downlink' = Append(downlink, Event("END", None))
    BY <1>7 DEF TakeOver
  <2>3. ~Copy(Event("END", None), M)
    BY DEF Copy, Event, Transmission, Broker
  <2> QED BY <1>1, <2>1, <2>2, <2>3
<1> QED BY <1>2, <1>3, <1>4, <1>5, <1>6, <1>7 DEF Relay

\* The reader's steps: a copy leaves the stream for the channel, or is dropped.
LEMMA LoadTaken ==
    ASSUME LinkInv, Inductive, received \in Seq(Msgs), NEW M, TakeNext
    PROVE  Load(M)' <= Load(M) /\ Load(M)' \in Nat
<1>1. /\ downlink # <<>> /\ downlink' = Tail(downlink) /\ downlink \in Seq(Answers \cup Events)
      /\ UNCHANGED <<received, pc>>
      /\ Next1 \in Answers \cup Events /\ TypeOK /\ resp \in [Calls -> Results \cup {NoResp}]
      /\ buf \in [Calls -> Seq(Msgs)]
  BY Heads DEF TakeNext, TakeReply, TakeMsg, TakeEnd, DispatchReply, DispatchMsg, DispatchEnd,
     DropTransmission, Take, appVars, callVars, Inductive, TypeOK, LinkInv
<1>2. Items(downlink') \subseteq Items(downlink) /\ Next1 \in Items(downlink)
  BY <1>1, TailItems DEF Next1
<1>3. /\ Cardinality(Copies(downlink', M)) <= Cardinality(Copies(downlink, M))
      /\ Next1.to = None /\ Copy(Next1, M) =>
            Cardinality(Copies(downlink', M)) <= Cardinality(Copies(downlink, M)) - 1
      /\ Cardinality(Copies(downlink', M)) \in Nat
  BY <1>1, CopiesTaken DEF Next1
<1>5. ASSUME NEW d \in Subscribes, AnsweredMsg(d, M)' PROVE AnsweredMsg(d, M)
  <2>1. d \in Calls
    BY DEF Subscribes
  <2>2. resp'[d] = resp[d] \/ (Next1.to = d /\ resp'[d] = Next1.msg)
    BY <1>1, <2>1 DEF TakeNext, TakeReply, TakeMsg, TakeEnd, DispatchReply, DispatchMsg, DispatchEnd,
       DropTransmission, chanVars
  <2> QED BY <1>1, <1>2, <1>5, <2>2 DEF AnsweredMsg, Copy
<1>6. CASE UNCHANGED buf
  BY <1>1, <1>3, <1>5, <1>6, LoadKept
<1>7. CASE TakeMsg /\ subs[Q] # None /\ HasRoom(subs[Q])
  <2>1. PICK c \in Calls : c = subs[Q] /\ c \in Subscribes
    BY <1>7, Constants DEF Inductive, TypeOK, Books, QueueBooks, Subscribes
  <2>2. Next1.to = None /\ Next1.msg.type = "MSG" /\ Next1.msg.id \in Msgs
    BY <1>1, <1>7, Constants DEF TakeMsg, Answers, Events, Broker
  <2>3. buf' = [buf EXCEPT ![c] = Append(@, Next1.msg.id)]
    BY <1>7, <2>1 DEF TakeMsg, DispatchMsg
  <2>4. /\ Cardinality(Cells(M)') <= Cardinality(Cells(M)) + 1 /\ Cardinality(Cells(M)') \in Nat
        /\ Next1.msg.id \notin M => Cardinality(Cells(M)') <= Cardinality(Cells(M))
    <3>1. TypeOK
      BY <1>1
    <3> QED BY <2>1, <2>2, <2>3, <3>1, CellsFilled
  <2>5. ToPush(M)' \subseteq ToPush(M)
    BY <1>5 DEF ToPush
  <2>6. Cardinality(ToPush(M)') <= Cardinality(ToPush(M)) /\ Cardinality(ToPush(M)') \in Nat
    BY <1>1, <2>5, Sizes, NoMore
  <2>7. Next1.msg.id \in M => Cardinality(Copies(downlink', M)) <= Cardinality(Copies(downlink, M)) - 1
    BY <1>3, <2>2 DEF Copy
  <2>8. Load(M)' = Cardinality(At(received, M)) + Cardinality(Cells(M)')
                   + Cardinality(Copies(downlink', M)) + Cardinality(ToPush(M)')
    BY <1>1 DEF Load
  <2>9. /\ Cardinality(At(received, M)) \in Nat /\ Cardinality(Cells(M)) \in Nat
        /\ Cardinality(Copies(downlink, M)) \in Nat /\ Cardinality(ToPush(M)) \in Nat
        /\ Cardinality(Copies(downlink', M)) \in Nat
        /\ Cardinality(Copies(downlink', M)) <= Cardinality(Copies(downlink, M))
    BY <1>1, <1>3, Sizes
  <2>10. CASE Next1.msg.id \in M
    BY <2>4, <2>6, <2>7, <2>8, <2>9, <2>10 DEF Load
  <2>11. CASE Next1.msg.id \notin M
    BY <2>4, <2>6, <2>8, <2>9, <2>11 DEF Load
  <2> QED BY <2>10, <2>11
<1> QED BY <1>6, <1>7 DEF TakeNext, TakeReply, TakeMsg, TakeEnd, DispatchReply, DispatchMsg, DispatchEnd,
     DropTransmission, chanVars

\* A call's steps: only Subscribe's own push makes a copy, of the answer it had.
LEMMA LoadQuiet ==
    ASSUME LinkInv, Inductive, Traffic, received \in Seq(Msgs), NEW M, NEW e \in Calls, Quiet(e)
    PROVE  Load(M)' <= Load(M) /\ Load(M)' \in Nat
<1>1. /\ UNCHANGED <<downlink, received, resp>>
      /\ \A d \in Calls : d # e => pc'[d] = pc[d]
      /\ TypeOK /\ CallBooks(e) /\ CallTraffic(e) /\ pc \in [Calls -> PCs] /\ buf \in [Calls -> Seq(Msgs)]
      /\ Subscribes \subseteq Calls
  BY QuietMoves DEF Inductive, Books, TypeOK, Subscribes, Traffic
<1>2. /\ Copies(downlink', M) = Copies(downlink, M)
      /\ Cardinality(Copies(downlink, M)) \in Nat /\ Cardinality(At(received, M)) \in Nat
      /\ Cardinality(Cells(M)) \in Nat /\ Cardinality(ToPush(M)) \in Nat /\ IsFiniteSet(ToPush(M))
  BY <1>1, Sizes
<1>3. pc'[e] \in InSend \cup {"pushing"} => pc[e] \in InSend \cup {"pushing"} \/ resp[e] = NoResp
  <2>1. pc[e] \in {"idle", "sending"} => resp[e] = NoResp
    BY <1>1 DEF CallBooks
  <2> QED BY <1>1, <2>1 DEF Quiet, SubscribeRefused, SubscribeRegister, BeginSend, SendRefused, SendRegister,
     WriteDone, WriteFail, Select, ReceiveResponse, ContextDone, Settle, PushInline, Unregister, CloseOwn,
     Cancel, Goto, Return, Fail, End, callVars, InSend
<1>4. ASSUME NEW d \in Subscribes, AnsweredMsg(d, M)' PROVE AnsweredMsg(d, M)
  <2>1. d \in Calls /\ NoResp.type # "MSG"
    BY DEF Subscribes, NoResp, Broker
  <2> QED BY <1>1, <1>3, <1>4, <2>1 DEF AnsweredMsg
<1>5. CASE UNCHANGED buf
  BY <1>1, <1>2, <1>4, <1>5, LoadKept
<1>6. CASE PushInline(e) /\ ~UNCHANGED buf
  <2>1. /\ pc[e] = "pushing" /\ buf' = [buf EXCEPT ![e] = Append(@, resp[e].id)]
        /\ pc' = [pc EXCEPT ![e] = "returned"]
    BY <1>6 DEF PushInline, Return, End
  <2>2. e \in Subscribes /\ resp[e] \in Replies /\ resp[e].type = "MSG" /\ resp[e].id \in Msgs
    BY <1>1, <2>1, MessageId DEF CallBooks, Subscribes
  <2>3. /\ Cardinality(Cells(M)') <= Cardinality(Cells(M)) + 1 /\ Cardinality(Cells(M)') \in Nat
        /\ resp[e].id \notin M => Cardinality(Cells(M)') <= Cardinality(Cells(M))
    BY <1>1, <2>1, <2>2, CellsFilled
  <2>4. e \notin ToPush(M)' /\ (resp[e].id \in M => e \in ToPush(M))
    <3>1. resp[e].id \in M => AnsweredMsg(e, M)
      BY <2>1, <2>2 DEF AnsweredMsg
    <3>2. ~InDown(e)
      BY <1>1, <2>2 DEF CallTraffic
    <3>3. pc'[e] = "returned"
      BY <1>1, <2>1
    <3>4. ~AnsweredMsg(e, M)'
      BY <1>1, <3>2, <3>3 DEF AnsweredMsg, InDown, InSend
    <3> QED BY <2>2, <3>1, <3>4 DEF ToPush
  <2>5. ToPush(M)' \subseteq ToPush(M) \ {e} /\ ToPush(M)' \subseteq ToPush(M)
    BY <1>4, <2>4 DEF ToPush
  <2>6. /\ IsFiniteSet(ToPush(M) \ {e})
        /\ resp[e].id \in M => Cardinality(ToPush(M) \ {e}) = Cardinality(ToPush(M)) - 1
    BY <1>2, <2>4, FS_RemoveElement
  <2>7. /\ Cardinality(ToPush(M)') <= Cardinality(ToPush(M) \ {e}) /\ Cardinality(ToPush(M)') \in Nat
        /\ Cardinality(ToPush(M)') <= Cardinality(ToPush(M))
    BY <1>2, <2>5, <2>6, NoMore
  <2>8. Load(M)' = Cardinality(At(received, M)) + Cardinality(Cells(M)')
                   + Cardinality(Copies(downlink, M)) + Cardinality(ToPush(M)')
    BY <1>1, <1>2 DEF Load
  <2>9. CASE resp[e].id \in M
    BY <1>2, <2>3, <2>6, <2>7, <2>8, <2>9 DEF Load
  <2>10. CASE resp[e].id \notin M
    BY <1>2, <2>3, <2>7, <2>8, <2>10 DEF Load
  <2> QED BY <2>9, <2>10
<1> QED BY <1>5, <1>6 DEF Quiet, SubscribeRefused, SubscribeRegister, BeginSend, SendRefused, SendRegister,
     WriteDone, WriteFail, Select, ReceiveResponse, ContextDone, Settle, Unregister, CloseOwn, Cancel, chanVars

\* The application takes it out of the channel.
LEMMA LoadRead ==
    ASSUME LinkInv, TypeOK, received \in Seq(Msgs), NEW M, NEW e \in Calls, Read(e)
    PROVE  Load(M)' <= Load(M) /\ Load(M)' \in Nat
<1>1. /\ Op[e] = "Subscribe" /\ buf[e] # <<>> /\ buf' = [buf EXCEPT ![e] = Tail(@)] /\ buf[e] \in Seq(Msgs)
      /\ received' = Append(received, Head(buf[e])) /\ UNCHANGED <<downlink, resp, pc>>
  BY DEF Read, Receive, linkVars, callVars, TypeOK
<1>2. e \in Subscribes /\ Head(buf[e]) \in Msgs
  BY <1>1, HeadTailProperties DEF Subscribes
<1>3. /\ Cardinality(Cells(M)') <= Cardinality(Cells(M)) /\ Cardinality(Cells(M)') \in Nat
      /\ Head(buf[e]) \in M => Cardinality(Cells(M)') <= Cardinality(Cells(M)) - 1
  BY <1>1, <1>2, CellsEmptied
<1>4. /\ Cardinality(At(received', M)) \in Nat
      /\ Cardinality(At(received', M)) <= Cardinality(At(received, M)) + 1
      /\ Head(buf[e]) \notin M => Cardinality(At(received', M)) <= Cardinality(At(received, M))
  <2>1. IsFiniteSet(At(received, M))
    BY Sizes
  <2> QED BY <1>1, <1>2, <2>1, ReadsAdded
<1>5. Copies(downlink, M)' = Copies(downlink, M) /\ ToPush(M)' = ToPush(M)
  BY <1>1 DEF ToPush, AnsweredMsg
<1>6. Load(M)' = Cardinality(At(received', M)) + Cardinality(Cells(M)')
                 + Cardinality(Copies(downlink, M)) + Cardinality(ToPush(M))
  BY <1>5 DEF Load
<1>7. CASE Head(buf[e]) \in M
  BY <1>3, <1>4, <1>6, <1>7, Sizes DEF Load
<1>8. CASE Head(buf[e]) \notin M
  BY <1>3, <1>4, <1>6, <1>8, Sizes DEF Load
<1> QED BY <1>7, <1>8

\* Only the relay makes copies.
LEMMA LoadElsewhere ==
    ASSUME LinkInv, Inductive, Traffic, received \in Seq(Msgs), NEW M, [DeliveryNext]_deliveryVars, ~Relay
    PROVE  Load(M)' <= Load(M) /\ Load(M)' \in Nat
<1>0. TypeOK /\ pc \in [Calls -> PCs] /\ Subscribes \subseteq Calls
  BY DEF Inductive, TypeOK, Subscribes
<1>1. ASSUME UNCHANGED <<buf, received, downlink>>,
             \A d \in Subscribes : AnsweredMsg(d, M)' => AnsweredMsg(d, M)
      PROVE  Load(M)' <= Load(M) /\ Load(M)' \in Nat
  BY <1>0, <1>1, Sizes, LoadKept
<1>2. CASE TakeNext
  BY <1>2, LoadTaken
<1>3. ASSUME NEW e \in Calls, Quiet(e) PROVE Load(M)' <= Load(M) /\ Load(M)' \in Nat
  BY <1>3, LoadQuiet
<1>4. ASSUME NEW e \in Calls, Transmit(e) PROVE Load(M)' <= Load(M) /\ Load(M)' \in Nat
  <2>1. /\ pc' = [pc EXCEPT ![e] = "written"] /\ pc[e] = "writing"
        /\ UNCHANGED <<downlink, received, buf, resp>>
    BY <1>4 DEF Transmit, WriteOut, Goto, appVars, chanVars
  <2>2. \A d \in Subscribes : pc'[d] = pc[d] \/ pc[d] = "writing"
    BY <1>0, <2>1
  <2>3. \A d \in Subscribes : AnsweredMsg(d, M)' => AnsweredMsg(d, M)
    BY <2>1, <2>2 DEF AnsweredMsg, InSend
  <2> QED BY <1>1, <2>1, <2>3
<1>5. ASSUME NEW e \in Calls, Read(e) PROVE Load(M)' <= Load(M) /\ Load(M)' \in Nat
  BY <1>0, <1>5, LoadRead
<1>6. ASSUME NEW e \in Calls, NEW m \in Msgs, StartAck(e, m)
      PROVE  Load(M)' <= Load(M) /\ Load(M)' \in Nat
  <2>1. UNCHANGED <<downlink, resp, buf, received>>
    BY <1>6 DEF StartAck, Start, linkVars, chanVars
  <2>2. \A d \in Subscribes : pc'[d] = pc[d]
    BY <1>6, OthersMove
  <2>3. \A d \in Subscribes : AnsweredMsg(d, M)' => AnsweredMsg(d, M)
    BY <2>1, <2>2 DEF AnsweredMsg
  <2> QED BY <1>1, <2>1, <2>3
<1>7. CASE SessionEnds
  <2>1. UNCHANGED <<downlink, buf, received, pc>>
    BY <1>7 DEF SessionEnds, HandleReadError, Drain, linkVars, appVars, callVars, chanVars
  <2>2. \A d \in Calls : resp'[d] = resp[d] \/ resp'[d].type # "MSG"
    BY <1>7 DEF SessionEnds, HandleReadError, Drain, chanVars, Broker
  <2>3. \A d \in Subscribes : AnsweredMsg(d, M)' => AnsweredMsg(d, M)
    BY <1>0, <2>1, <2>2 DEF AnsweredMsg
  <2> QED BY <1>1, <2>1, <2>3
<1>8. CASE UNCHANGED deliveryVars
  <2>1. UNCHANGED <<downlink, buf, received, pc, resp>>
    BY <1>8 DEF deliveryVars, vars, linkVars, appVars, callVars, chanVars
  <2>2. \A d \in Subscribes : AnsweredMsg(d, M)' => AnsweredMsg(d, M)
    BY <2>1 DEF AnsweredMsg
  <2> QED BY <1>1, <2>1, <2>2
<1> QED BY <1>2, <1>3, <1>4, <1>5, <1>6, <1>7, <1>8 DEF DeliveryNext

LEMMA HandledIs == Handled = {c \in Subscribes \cap written : c \notin Items(uplink)}
BY DEF Handled, Items

\* Only RelaySub handles a SUB.
LEMMA SubIsHandled ==
    ASSUME LinkInv, Traffic, RelaySub
    PROVE  Cardinality(Handled') = Cardinality(Handled) + 1
<1>1. PICK h \in Calls : h = Head(uplink) /\ h \in Subscribes
  BY Heads DEF RelaySub, Subscribes
<1>2. uplink # <<>> /\ uplink' = Tail(uplink) /\ written' = written
  BY DEF RelaySub, vars, wireVars
<1>3. /\ h \in Items(uplink) /\ Items(uplink) = Items(uplink') \cup {h} /\ h \notin Items(uplink')
  BY <1>1, <1>2, TailItems, TailDistinct DEF LinkInv, Traffic
<1>4. h \in written
  BY <1>3 DEF Traffic, CallTraffic
<1>5. Handled' = Handled \cup {h} /\ h \notin Handled
  <2>1. Handled' = {c \in Subscribes \cap written' : c \notin Items(uplink')}
    BY DEF Handled, Items
  <2> QED BY <1>1, <1>2, <1>3, <1>4, <2>1, HandledIs
<1> QED BY <1>5, HandledSize, FS_AddElement

LEMMA NoSubIsHandled ==
    ASSUME LinkInv, Inductive, Traffic, [DeliveryNext]_deliveryVars, ~RelaySub
    PROVE  Handled' = Handled
<1>1. CASE UNCHANGED <<uplink, written>>
  BY <1>1 DEF Handled
<1>2. CASE RelayAck \/ RelayAckRefused
  <2>1. PICK h \in Calls : h = Head(uplink) /\ h \notin Subscribes
    BY <1>2, Heads DEF RelayAck, RelayAckRefused, Subscribes
  <2>2. uplink # <<>> /\ uplink' = Tail(uplink) /\ written' = written
    BY <1>2 DEF RelayAck, RelayAckRefused, vars, wireVars
  <2>3. Items(uplink) = Items(uplink') \cup {h}
    BY <2>1, <2>2, TailItems DEF LinkInv
  <2>4. Handled' = {c \in Subscribes \cap written' : c \notin Items(uplink')}
    BY DEF Handled, Items
  <2> QED BY <2>1, <2>2, <2>3, <2>4, HandledIs
<1>3. ASSUME NEW e \in Calls, Transmit(e) PROVE Handled' = Handled
  <2>1. pc[e] = "writing" /\ written' = written \cup {e} /\ uplink' = Append(uplink, e)
    BY <1>3 DEF Transmit, WriteOut
  <2>2. Items(uplink') = Items(uplink) \cup {e}
    BY <2>1, Added DEF LinkInv
  <2>3. e \notin written
    BY <2>1 DEF Traffic, CallTraffic
  <2>4. Handled' = {c \in Subscribes \cap written' : c \notin Items(uplink')}
    BY DEF Handled, Items
  <2> QED BY <2>1, <2>2, <2>3, <2>4, HandledIs
<1>4. CASE Arrive \/ RelayPush \/ TakeOver \/ UNCHANGED deliveryVars
  <2>1. UNCHANGED <<uplink, written>>
    BY <1>4 DEF Arrive, RelayPush, TakeOver, deliveryVars, vars, linkVars, wireVars
  <2> QED BY <1>1, <2>1
<1>5. ASSUME NEW e \in Calls, Quiet(e) PROVE Handled' = Handled
  BY <1>1, <1>5, QuietMoves
<1>6. CASE TakeNext \/ SessionEnds \/ \E e \in Calls : Read(e) \/ \E m \in Msgs : StartAck(e, m)
  BY <1>1, <1>6, OthersMove
<1> QED BY <1>2, <1>3, <1>4, <1>5, <1>6 DEF DeliveryNext, Relay

\* What a step does to the relay's books.
LEMMA Booked ==
    ASSUME LinkInv, Inductive, Traffic, received \in Seq(Msgs), [DeliveryNext]_deliveryVars
    PROVE  \/ /\ RelaySub /\ acked' = acked
              /\ Cardinality(Handled') = Cardinality(Handled) + 1
              /\ Sends => Credit' = 0
           \/ /\ RelayPush /\ UNCHANGED <<acked, held>> /\ Handled' = Handled
              /\ Credit = 1 /\ Credit' = 0
           \/ /\ RelayAck /\ ~Sends /\ acked' = acked + 1 /\ held /\ held' = held /\ Handled' = Handled
              /\ Credit = 0
           \/ /\ ~Sends /\ acked' = acked /\ Handled' = Handled
              /\ held' => held
              /\ Credit' <= Credit
<1>1. CASE RelaySub
  <2>1. Cardinality(Handled') = Cardinality(Handled) + 1
    BY <1>1, SubIsHandled
  <2>2. Sends => acked < arrived
    BY DEF Sends, RelayPush
  <2> QED BY <1>1, <2>1, <2>2 DEF RelaySub, Credit
<1>2. CASE RelayPush /\ ~RelaySub
  <2>1. Handled' = Handled
    BY <1>2, NoSubIsHandled
  <2> QED BY <1>2, <2>1 DEF RelayPush, Credit
<1>3. CASE RelayAck /\ ~RelaySub /\ ~RelayPush
  <2>1. Handled' = Handled
    BY <1>3, NoSubIsHandled
  <2> QED BY <1>3, <2>1 DEF RelayAck, Acknowledges, Credit, Sends
<1>4. CASE ~RelaySub /\ ~RelayPush /\ ~RelayAck
  <2>1. Handled' = Handled /\ ~Sends
    BY <1>4, NoSubIsHandled DEF Sends
  <2>2. acked' = acked /\ (UNCHANGED <<held, out>> \/ TakeOver)
    <3>1. ASSUME NEW e \in Calls, Quiet(e) PROVE UNCHANGED <<acked, held, out>>
      BY <3>1, QuietMoves
    <3>2. ASSUME NEW e \in Calls, Transmit(e) PROVE UNCHANGED <<acked, held, out>>
      BY <3>2 DEF Transmit, relayVars
    <3>3. CASE TakeNext \/ SessionEnds \/ \E e \in Calls : Read(e) \/ \E m \in Msgs : StartAck(e, m)
      BY <3>3, OthersMove
    <3>4. CASE Arrive \/ RelayAckRefused \/ UNCHANGED deliveryVars
      BY <3>4 DEF Arrive, RelayAckRefused, deliveryVars, relayVars
    <3>5. CASE TakeOver
      BY <3>5 DEF TakeOver
    <3> QED BY <1>4, <3>1, <3>2, <3>3, <3>4, <3>5 DEF DeliveryNext, Relay
  <2>3. TakeOver => held /\ ~held'
    BY DEF TakeOver
  <2> QED BY <2>1, <2>2, <2>3 DEF Credit
<1> QED BY <1>1, <1>2, <1>3, <1>4

\* And to the copies.
LEMMA Loaded ==
    ASSUME LinkInv, Inductive, Traffic, received \in Seq(Msgs), NEW M, [DeliveryNext]_deliveryVars
    PROVE  /\ Load(M)' <= Load(M) + 1 /\ Load(M)' \in Nat /\ Load(M) \in Nat
           /\ ~(Sends /\ Now \in M) => Load(M)' <= Load(M)
<1>1. TypeOK
  BY DEF Inductive
<1>2. Load(M) \in Nat
  BY <1>1, Sizes
<1>3. CASE Relay
  BY <1>1, <1>2, <1>3, LoadRelay
<1>4. CASE ~Relay
  BY <1>2, <1>4, LoadElsewhere
<1> QED BY <1>3, <1>4

LEMMA BooksInit == DeliveryInit => Budget /\ Rounds /\ AckedRead
<1> SUFFICES ASSUME DeliveryInit PROVE Budget /\ Rounds /\ AckedRead
  OBVIOUS
<1>1. /\ Init /\ acked = 0 /\ out = FALSE /\ held = FALSE /\ uplink = <<>> /\ downlink = <<>>
      /\ received = <<>> /\ acking = [c \in Calls |-> None]
  BY DEF DeliveryInit
<1>2. ASSUME NEW M PROVE Load(M) = 0
  <2>1. Cells(M) = {}
    <3>1. \A c \in Subscribes : buf[c] = <<>>
      BY <1>1 DEF Init, Subscribes
    <3> QED BY <3>1 DEF Cells
  <2>2. Copies(downlink, M) = {} /\ At(received, M) = {}
    BY <1>1 DEF Copies, At
  <2>3. ToPush(M) = {}
    BY <1>1 DEF Init, ToPush, AnsweredMsg, Items, NoResp, Broker, InSend, Subscribes
  <2> QED BY <2>1, <2>2, <2>3, FS_EmptySet DEF Load
<1>3. Credit = 0 /\ Cardinality(Handled) >= 0 /\ Cardinality(Handled) \in Nat
  BY <1>1, HandledSize DEF Credit
<1>4. Budget
  BY <1>1, <1>2, <1>3 DEF Budget
<1>5. Rounds
  BY <1>1, <1>2, <1>3 DEF Rounds, Round
<1> QED BY <1>1, <1>4, <1>5 DEF AckedRead

LEMMA BudgetStep ==
    ASSUME LinkInv, Inductive, Traffic, received \in Seq(Msgs), Budget, [DeliveryNext]_deliveryVars
    PROVE  Budget'
<1> DEFINE l == Load(Msgs)  h == Cardinality(Handled)
<1>1. l' <= l + 1 /\ l' \in Nat /\ l \in Nat /\ (~Sends => l' <= l)
  BY Loaded
<1>2. h \in Nat /\ Credit \in {0, 1} /\ Credit' \in {0, 1} /\ acked \in Nat /\ l + Credit <= h + acked
  BY HandledSize DEF LinkInv, Budget, Credit
<1>3. \/ acked' = acked /\ h' = h + 1 /\ (Sends => Credit' = 0)
      \/ acked' = acked /\ h' = h /\ Credit = 1 /\ Credit' = 0
      \/ ~Sends /\ acked' = acked + 1 /\ h' = h /\ Credit = 0
      \/ ~Sends /\ acked' = acked /\ h' = h /\ Credit' <= Credit
  BY Booked
<1> HIDE DEF l, h
<1>4. l' + Credit' <= h' + acked'
  BY <1>1, <1>2, <1>3
<1> QED BY <1>4 DEF Budget, l, h

LEMMA RoundsStep ==
    ASSUME LinkInv, Inductive, Traffic, received \in Seq(Msgs), Rounds, [DeliveryNext]_deliveryVars
    PROVE  Rounds'
<1> DEFINE h == Cardinality(Handled)
<1>1. h \in Nat /\ Credit \in {0, 1} /\ Credit' \in {0, 1} /\ Now \in Nat /\ (held => h >= 1)
  BY HandledSize DEF LinkInv, Rounds, Credit, Now
<1>2. \/ Now' = Now /\ h' = h + 1 /\ (Sends => Credit' = 0)
      \/ Now' = Now /\ h' = h /\ held' = held /\ Credit = 1 /\ Credit' = 0
      \/ ~Sends /\ Now' = Now + 1 /\ h' = h /\ held /\ held' = held /\ Credit = 0
      \/ ~Sends /\ Now' = Now /\ h' = h /\ (held' => held) /\ Credit' <= Credit
  <2>1. acked \in Nat
    BY DEF LinkInv
  <2> QED BY <2>1, Booked DEF Now
<1> HIDE DEF h
<1>3. held' => h' >= 1
  <2>1. h' = h + 1 \/ (h' = h /\ (held' => held))
    BY <1>2
  <2>2. h' = h + 1 => h' >= 1
    BY <1>1
  <2> QED BY <1>1, <2>1, <2>2
<1>4. ASSUME NEW m \in Msgs PROVE Round(m)'
  <2> DEFINE l == Load({m})
  <2>1. /\ l' <= l + 1 /\ l' \in Nat /\ l \in Nat
        /\ ~(Sends /\ Now = m) => l' <= l
    <3>1. Now \in {m} <=> Now = m
      OBVIOUS
    <3>2. Load({m})' <= Load({m}) + 1 /\ Load({m})' \in Nat /\ Load({m}) \in Nat
          /\ (~(Sends /\ Now \in {m}) => Load({m})' <= Load({m}))
      BY Loaded
    <3> QED BY <3>1, <3>2
  <2>2. (m > Now => l = 0) /\ l + (IF m = Now THEN Credit ELSE 0) <= h
    BY DEF Rounds, Round, h
  <2>3. m \in Nat
    BY Constants
  <2> HIDE DEF l
  <2>4. (m > Now)' => l' = 0
    BY <1>1, <1>2, <2>1, <2>2, <2>3
  <2>5. l' + (IF m = Now' THEN Credit' ELSE 0) <= h'
    BY <1>1, <1>2, <2>1, <2>2, <2>3
  <2> QED BY <2>4, <2>5 DEF Round, l, h
<1> QED BY <1>3, <1>4 DEF Rounds, h

\* With a message at the head of the stream, or about to be put in the channel by
\* Subscribe, one of the copies the budget allows is not in the channel.
LEMMA BudgetLeavesRoom ==
    ASSUME LinkInv, Inductive, received \in Seq(Msgs), Budget, AckedRead
    PROVE  PushFindsRoom
<1> SUFFICES ASSUME NEW c \in Calls,
                    \/ subs[Q] = c /\ downlink # <<>> /\ Next1.to = None /\ Next1.msg.type = "MSG"
                    \/ pc[c] = "pushing"
             PROVE  Len(buf[c]) < BufCap
  BY DEF PushFindsRoom, HasRoom
<1>1. TypeOK /\ c \in Subscribes /\ BufCap \in Nat
  <2>1. TypeOK /\ BufCap \in Nat /\ Op[c] = "Subscribe"
    BY Constants, ConstantsAssumption DEF Inductive, Books, QueueBooks, CallBooks
  <2> QED BY <2>1 DEF Subscribes
<1>2. buf[c] \in Seq(Msgs) /\ Len(buf[c]) \in Nat /\ Len(buf[c]) <= BufCap
  BY <1>1 DEF TypeOK
<1>3. Cardinality(Copies(downlink, Msgs)) >= 1 \/ Cardinality(ToPush(Msgs)) >= 1
  <2>0. ASSUME pc[c] # "pushing" PROVE Cardinality(Copies(downlink, Msgs)) >= 1
    <3>1. /\ Len(downlink) \in Nat \ {0} /\ Next1 = downlink[1]
      BY <2>0, Taken DEF LinkInv, Next1
    <3>2. Next1.msg.id \in Msgs
      <4>1. Next1 \in Events
        BY <2>0, Heads, Constants DEF Answers
      <4> QED BY <2>0, <4>1 DEF Events, Broker
    <3>3. {1} \subseteq Copies(downlink, Msgs)
      BY <2>0, <3>1, <3>2 DEF Copies, Copy
    <3>4. Cardinality({1}) = 1
      BY FS_Singleton
    <3>5. Cardinality({1}) <= Cardinality(Copies(downlink, Msgs))
      BY <1>1, <3>3, Sizes, NoMore
    <3> QED BY <1>1, <3>4, <3>5, Sizes
  <2>1. ASSUME pc[c] = "pushing" PROVE Cardinality(ToPush(Msgs)) >= 1
    <3>1. resp[c] \in Replies /\ resp[c].type = "MSG"
      BY <2>1 DEF Inductive, Books, CallBooks
    <3>2. resp[c].id \in Msgs
      BY <3>1, Constants, ConstantsAssumption DEF Replies, Broker, BrokerTypes
    <3>3. {c} \subseteq ToPush(Msgs)
      BY <1>1, <2>1, <3>1, <3>2 DEF ToPush, AnsweredMsg
    <3>4. Cardinality({c}) = 1
      BY FS_Singleton
    <3>5. Cardinality({c}) <= Cardinality(ToPush(Msgs))
      BY <1>1, <3>3, Sizes, NoMore
    <3> QED BY <1>1, <3>4, <3>5, Sizes
  <2> QED BY <2>0, <2>1
<1>4. Len(buf[c]) <= Cardinality(Cells(Msgs))
  <2> DEFINE f == [i \in 1..Len(buf[c]) |-> <<c, i>>]
  <2>1. \A i \in 1..Len(buf[c]) : i \in 1..BufCap /\ buf[c][i] \in Msgs
    BY <1>1, <1>2
  <2>2. \A i \in 1..Len(buf[c]) : <<c, i>> \in Cells(Msgs)
    BY <1>1, <2>1 DEF Cells
  <2>3. f \in Injection(1..Len(buf[c]), Cells(Msgs))
    BY <2>2 DEF Injection, IsInjective
  <2> HIDE DEF f
  <2>4. Cardinality(1..Len(buf[c])) <= Cardinality(Cells(Msgs))
    BY <1>1, <2>3, Sizes, FS_Injection
  <2>5. Cardinality(1..Len(buf[c])) = Len(buf[c])
    BY <1>2, UpTo
  <2> QED BY <2>4, <2>5
<1>5. acked <= Len(received) /\ acked \in Nat /\ Len(received) \in Nat
  BY AckedAtMost DEF LinkInv
<1>6. Cardinality(At(received, Msgs)) = Len(received)
  <2>1. At(received, Msgs) = 1..Len(received)
    BY DEF At
  <2>2. Cardinality(1..Len(received)) = Len(received)
    BY <1>5, UpTo
  <2> QED BY <2>1, <2>2
<1>7. /\ Cardinality(Cells(Msgs)) \in Nat /\ Cardinality(Copies(downlink, Msgs)) \in Nat
      /\ Cardinality(ToPush(Msgs)) \in Nat
  BY <1>1, Sizes
<1>8. Credit \in {0, 1} /\ Cardinality(Handled) \in Nat /\ Cardinality(Handled) <= BufCap
  BY HandledSize
<1>9. Len(received) + Cardinality(Cells(Msgs)) + Cardinality(Copies(downlink, Msgs))
      + Cardinality(ToPush(Msgs)) + Credit <= Cardinality(Handled) + acked
  BY <1>6 DEF Budget, Load
<1> DEFINE r == Len(received)  b == Cardinality(Cells(Msgs))  d == Cardinality(Copies(downlink, Msgs))
           p == Cardinality(ToPush(Msgs))  h == Cardinality(Handled)  n == Len(buf[c])
<1>10. /\ r \in Nat /\ b \in Nat /\ d \in Nat /\ p \in Nat /\ h \in Nat /\ acked \in Nat /\ Credit \in Nat
       /\ acked <= r /\ (d >= 1 \/ p >= 1) /\ r + b + d + p + Credit <= h + acked
       /\ n \in Nat /\ n <= b /\ h <= BufCap /\ BufCap \in Nat
  BY <1>1, <1>2, <1>3, <1>4, <1>5, <1>7, <1>8, <1>9
<1> HIDE DEF r, b, d, p, h, n
<1>11. b + 1 <= h
  BY <1>10
<1>12. n < BufCap
  BY <1>10, <1>11
<1> QED BY <1>12 DEF n

-----------------------------------------------------------------------------
(* Messages are read in order: a copy is of a message all of whose          *)
(* predecessors have been acknowledged, and so read.                        *)

InOrder ==
    \A i \in 1..Len(received) : \A m \in 1..(received[i] - 1) :
        \E j \in 1..(i - 1) : received[j] = m

LEMMA InOrderStep ==
    ASSUME LinkInv, TypeOK, received \in Seq(Msgs), Rounds, AckedRead, InOrder,
           [DeliveryNext]_deliveryVars
    PROVE  InOrder'
<1>1. ASSUME NEW e \in Calls, Read(e) PROVE InOrder'
  <2>1. /\ Op[e] = "Subscribe" /\ buf[e] # <<>> /\ buf[e] \in Seq(Msgs) /\ buf' = [buf EXCEPT ![e] = Tail(@)]
        /\ received' = Append(received, Head(buf[e]))
    BY <1>1 DEF Read, Receive, TypeOK
  <2> DEFINE h == Head(buf[e])
  <2>2. h \in Msgs /\ e \in Subscribes
    BY <1>1, <2>1, HeadTailProperties DEF Subscribes
  <2>3. /\ Len(received') = Len(received) + 1 /\ Len(received) \in Nat
        /\ received'[Len(received) + 1] = h
        /\ \A i \in 1..Len(received) : received'[i] = received[i]
    BY <2>1, <2>2, AppendProperties
  <2>4. Load({h}) >= 1
    <3>1. <<e, 1>> \in Cells({h})
      BY <2>1, <2>2, CellsEmptied
    <3>2. Cardinality({<<e, 1>>}) = 1
      BY FS_Singleton
    <3>3. Cardinality({<<e, 1>>}) <= Cardinality(Cells({h}))
      <4>1. {<<e, 1>>} \subseteq Cells({h})
        BY <3>1
      <4>2. IsFiniteSet(Cells({h}))
        BY Sizes
      <4> HIDE DEF h
      <4> QED BY <4>1, <4>2, NoMore
    <3> HIDE DEF h
    <3> QED BY <3>2, <3>3, Sizes DEF Load
  <2>5. h <= acked + 1 /\ h \in Nat /\ acked \in Nat
    <3>1. Round(h) /\ h \in Nat /\ acked \in Nat
      BY <2>2, Constants DEF Rounds, LinkInv
    <3> HIDE DEF h
    <3> QED BY <2>4, <3>1 DEF Round, Now
  <2>6. ASSUME NEW m \in 1..(h - 1) PROVE \E j \in 1..Len(received) : received[j] = m
    <3>1. m \in 1..acked
      BY <2>5
    <3> QED BY <3>1 DEF AckedRead, Seen
  <2> HIDE DEF h
  <2>7. ASSUME NEW i \in 1..Len(received'), NEW m \in 1..(received'[i] - 1)
        PROVE  \E j \in 1..(i - 1) : received'[j] = m
    <3>1. CASE i \in 1..Len(received)
      <4>1. PICK j \in 1..(i - 1) : received[j] = m
        BY <2>3, <2>7, <3>1 DEF InOrder
      <4>2. j \in 1..Len(received)
        BY <2>3, <3>1
      <4> QED BY <2>3, <4>1, <4>2
    <3>2. CASE i = Len(received) + 1
      <4>1. PICK j \in 1..Len(received) : received[j] = m
        BY <2>3, <2>6, <2>7, <3>2
      <4>2. j \in 1..(i - 1)
        BY <2>3, <3>2
      <4> QED BY <2>3, <4>1, <4>2
    <3> QED BY <2>3, <3>1, <3>2
  <2> QED BY <2>7 DEF InOrder
<1>2. CASE UNCHANGED received
  BY <1>2 DEF InOrder
<1> QED BY <1>1, <1>2 DEF DeliveryNext, Relay, Arrive, RelaySub, RelayAck, RelayAckRefused, RelayPush,
           TakeOver, TakeNext, TakeReply, TakeMsg, TakeEnd, SessionEnds, Quiet, Transmit, StartAck,
           appVars, deliveryVars

\* A message that was read is a copy of it.
LEMMA RoundsRead ==
    ASSUME LinkInv, TypeOK, received \in Seq(Msgs), Rounds, InOrder
    PROVE  ReadInOrder
<1>1. ASSUME NEW m \in Msgs PROVE Times(m) <= Cardinality(Handled)
  <2>1. Times(m) = Cardinality(At(received, {m}))
    <3>1. {i \in 1..Len(received) : received[i] = m} = At(received, {m})
      BY DEF At
    <3> QED BY <3>1 DEF Times
  <2>2. Load({m}) + (IF m = Now THEN Credit ELSE 0) <= Cardinality(Handled)
    BY DEF Rounds, Round
  <2>3. /\ Cardinality(At(received, {m})) \in Nat /\ Cardinality(Cells({m})) \in Nat
        /\ Cardinality(Copies(downlink, {m})) \in Nat /\ Cardinality(ToPush({m})) \in Nat
    BY Sizes
  <2>4. Credit \in {0, 1} /\ Cardinality(Handled) \in Nat
    BY HandledSize
  <2> QED BY <2>1, <2>2, <2>3, <2>4 DEF Load
<1> QED BY <1>1 DEF ReadInOrder, InOrder

-----------------------------------------------------------------------------
(* The theorems.                                                            *)

DeliveryInv ==
    /\ LinkInv /\ Inductive /\ received \in Seq(Msgs)
    /\ Traffic /\ Sound /\ Order
    /\ Budget /\ Rounds /\ AckedRead
    /\ Kept /\ InOrder

LEMMA DeliveryInvariant == DeliverySpec => []DeliveryInv
<1>1. DeliveryInit => DeliveryInv
  <2> SUFFICES ASSUME DeliveryInit PROVE DeliveryInv
    OBVIOUS
  <2>1. Init /\ held = FALSE /\ received = <<>>
    BY DEF DeliveryInit
  <2> QED BY <2>1, LinkInit, InductiveInit, TrafficInit, SoundInit, OrderInit, BooksInit, EmptySeq
          DEF DeliveryInv, Kept, InOrder
<1>2. DeliveryInv /\ [DeliveryNext]_deliveryVars => DeliveryInv'
  <2> SUFFICES ASSUME DeliveryInv, [DeliveryNext]_deliveryVars PROVE DeliveryInv'
    OBVIOUS
  <2>1. /\ LinkInv /\ Inductive /\ Traffic /\ Sound /\ Order /\ received \in Seq(Msgs) /\ Budget
        /\ Rounds /\ AckedRead /\ Kept /\ InOrder /\ TypeOK
    BY DEF DeliveryInv, Inductive
  <2>2. [Next]_vars /\ PushFindsRoom
    BY <2>1, ClientStep, BudgetLeavesRoom
  <2>3. Inductive' /\ Sound'
    BY <2>1, <2>2, InductiveStep, SoundStep
  <2>4. LinkInv' /\ Traffic' /\ Order' /\ received' \in Seq(Msgs)
    BY <2>1, LinkStep, TrafficStep, OrderStep, ReadStep
  <2>5. Budget' /\ Rounds' /\ AckedRead'
    BY <2>1, BudgetStep, RoundsStep, AckedReadStep
  <2>6. Kept' /\ InOrder'
    BY <2>1, <2>2, KeptStep, InOrderStep
  <2> QED BY <2>3, <2>4, <2>5, <2>6 DEF DeliveryInv
<1> QED BY <1>1, <1>2, PTL DEF DeliverySpec

\* No message is dropped for want of room: with a relay that has one message out
\* at a time, a channel as large as the number of Subscribes never fills.
THEOREM RoomEnough == DeliverySpec => []PushFindsRoom
<1>1. DeliveryInv => PushFindsRoom
  BY BudgetLeavesRoom DEF DeliveryInv
<1> QED BY <1>1, DeliveryInvariant, PTL

\* A message is read for the first time after all those before it, and as often
\* as SUBs have been handled, at the most.
THEOREM ReadsInOrder == DeliverySpec => []ReadInOrder
<1>1. DeliveryInv => ReadInOrder
  BY RoundsRead DEF DeliveryInv, Inductive
<1> QED BY <1>1, DeliveryInvariant, PTL

\* Where the message is, once no Subscribe is under way.
LEMMA KeptIsNotLost == DeliveryInv => NothingLost
<1> SUFFICES ASSUME DeliveryInv, NEW c \in Calls, Subscribed(c), out
             PROVE  acked + 1 \in Pushed \cup Buffered(c) \cup Seen
  BY DEF NothingLost
<1>1. CallTraffic(c) /\ LinkInv /\ Traffic
  BY DEF DeliveryInv, Traffic
<1>2. c \in written /\ c \notin Items(uplink)
  BY <1>1 DEF Subscribed, CallTraffic
<1>3. Accounted(c)
  BY <1>2 DEF DeliveryInv, Kept, Subscribed
<1>4. \A d \in Subscribes : ~Doomed(d) /\ ~Part(d)
  <2> SUFFICES ASSUME NEW d \in Subscribes PROVE ~Doomed(d) /\ ~Part(d)
    OBVIOUS
  <2>1. pc[d] \in {"idle", "returned"} /\ CallTraffic(d)
    BY <1>1 DEF Subscribed, UnderWay, Subscribes, Traffic
  <2>2. Due(d) => InDown(d)
    BY DEF Due, InDown, Transmission
  <2> QED BY <2>1, <2>2 DEF Doomed, Part, Due, Holding, CallTraffic
<1>5. Event("MSG", Now) \in Items(downlink) => Now \in Pushed
  BY DEF Pushed, Items, Event, Transmission, Broker
<1> QED BY <1>3, <1>4, <1>5 DEF Accounted, Now

\* On a subscription that both ends know of, with no other Subscribe under way,
\* the message that is out is on its way, in the channel, or has been read.
THEOREM NeverLost == DeliverySpec => []NothingLost
BY DeliveryInvariant, KeptIsNotLost, PTL
=============================================================================
