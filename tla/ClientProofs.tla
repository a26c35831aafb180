---------------------------- MODULE ClientProofs ----------------------------
(* Proofs about Client, for every set of calls, queues, closers and messages. *)
EXTENDS Client, TLAPS

-----------------------------------------------------------------------------
(* Type correctness.                                                        *)

\* NoResp is told apart from every result by its type.
LEMMA NoRespIsNoResult == NoResp \notin Results
  BY ConstantsAssumption DEF NoResp, Results, Replies, Broker, LocalErrors, BrokerTypes

\* The error a drain delivers is no answer of the peer.
LEMMA LocalErrorIsNoReply == \A err \in LocalErrors : Broker(err, None) \notin Replies
  BY ConstantsAssumption DEF Replies, Broker, LocalErrors, BrokerTypes

\* What becomes of a received result is an outcome.
LEMMA VerdictIsOutcome ==
  ASSUME TypeOK, NEW c \in Calls, resp[c] # NoResp
  PROVE  Verdict(c) \in Outcomes \ {"none"}
  BY DEF Verdict, Outcomes, LocalErrors

\* What makes a call succeed came from the peer.
LEMMA VerdictOk ==
  ASSUME NEW c \in Calls, resp[c] \in Results, Verdict(c) = "ok"
  PROVE  resp[c] \in Replies
  BY DEF Verdict, Results, Broker, LocalErrors

\* Only Subscribe takes a message for an answer.
LEMMA VerdictMsg ==
  ASSUME NEW c \in Calls, resp[c].type = "MSG", Verdict(c) = "ok"
  PROVE  Op[c] = "Subscribe"
<1>1. Op[c] \in Ops
  BY ConstantsAssumption
<1>2. "MSG" \in Expected[Op[c]]
  BY DEF Verdict, LocalErrors
<1> QED
  BY <1>1, <1>2 DEF Ops, Expected

\* An inline push has a message to push.
PushingMessage ==
    \A c \in Calls : pc[c] = "pushing" => resp[c] \in Replies /\ resp[c].type = "MSG"

LEMMA MessageId == ASSUME NEW r \in Replies, r.type = "MSG" PROVE r.id \in Msgs
  BY ConstantsAssumption DEF Replies, Broker, BrokerTypes

\* Every step keeps the shape of the state and the capacity of the channels.
LEMMA TypeStep == TypeOK /\ PushingMessage /\ [Next]_vars => TypeOK'
<1> SUFFICES ASSUME TypeOK, PushingMessage, [Next]_vars PROVE TypeOK'
  OBVIOUS
<1> USE ConstantsAssumption
<1>1. ASSUME NEW c \in Calls, Start(c) PROVE TypeOK'
  <2>1. pc' \in [Calls -> PCs] /\ outcome' \in [Calls -> Outcomes]
    <3>1. CASE Goto(c, "sending")
      BY <3>1 DEF TypeOK, Goto, PCs
    <3>2. CASE Return(c, "errMode")
      BY <3>2 DEF TypeOK, Return, End, PCs, Outcomes
    <3> QED BY <1>1, <3>1, <3>2 DEF Start
  <2> QED BY <1>1, <2>1 DEF TypeOK, Start, clientVars, chanVars, wireVars, endVars
<1>2. ASSUME NEW c \in Calls, SubscribeRefused(c) PROVE TypeOK'
  <2>1. \E err \in Outcomes : Return(c, err)
    BY <1>2 DEF SubscribeRefused, Outcomes, LocalErrors
  <2>2. pc' \in [Calls -> PCs] /\ outcome' \in [Calls -> Outcomes]
    BY <2>1 DEF TypeOK, Return, End, PCs
  <2> QED BY <1>2, <2>2 DEF TypeOK, SubscribeRefused, clientVars, chanVars, wireVars, endVars
<1>3. ASSUME NEW c \in Calls, SubscribeRegister(c) PROVE TypeOK'
  BY <1>3 DEF TypeOK, SubscribeRegister, Goto, wireVars, endVars, PCs
<1>4. ASSUME NEW c \in Calls, SendRefused(c) PROVE TypeOK'
  BY <1>4 DEF TypeOK, SendRefused, Fail, End, clientVars, chanVars, wireVars, endVars, PCs, Outcomes, LocalErrors
<1>5. ASSUME NEW c \in Calls, SendRegister(c) PROVE TypeOK'
  BY <1>5 DEF TypeOK, SendRegister, Goto, chanVars, wireVars, endVars, PCs, InSend
<1>6. ASSUME NEW c \in Calls, WriteOut(c) PROVE TypeOK'
  BY <1>6 DEF TypeOK, WriteOut, Goto, clientVars, chanVars, endVars, PCs, InSend
<1>7. ASSUME NEW c \in Calls, WriteDone(c) PROVE TypeOK'
  BY <1>7 DEF TypeOK, WriteDone, Goto, clientVars, chanVars, wireVars, endVars, PCs, InSend
<1>8. ASSUME NEW c \in Calls, WriteFail(c) PROVE TypeOK'
  BY <1>8 DEF TypeOK, WriteFail, Fail, End, Forget, chanVars, wireVars, endVars, PCs, Outcomes
<1>9. ASSUME NEW c \in Calls, ReceiveResponse(c) PROVE TypeOK'
  <2>1. Verdict(c) \in Outcomes
    BY <1>9, VerdictIsOutcome DEF ReceiveResponse
  <2>2. pc' \in [Calls -> PCs] /\ outcome' \in [Calls -> Outcomes]
    <3>1. CASE Fail(c, Verdict(c))
      BY <2>1, <3>1 DEF TypeOK, Fail, End, PCs
    <3>2. CASE Goto(c, "pushing")
      BY <3>2 DEF TypeOK, Goto, PCs
    <3>3. CASE Return(c, "ok")
      BY <3>3 DEF TypeOK, Return, End, PCs, Outcomes
    <3> QED
      BY <1>9, <3>1, <3>2, <3>3 DEF ReceiveResponse
  <2> QED
    BY <1>9, <2>2 DEF TypeOK, ReceiveResponse, clientVars, chanVars, wireVars, endVars
<1>10. ASSUME NEW c \in Calls, ContextDone(c) PROVE TypeOK'
  BY <1>10 DEF TypeOK, ContextDone, Fail, End, Forget, chanVars, wireVars, endVars, PCs, Outcomes
<1>11. ASSUME NEW c \in Calls, PushInline(c) PROVE TypeOK'
  <2>1. resp[c].id \in Msgs
    BY <1>11, MessageId DEF PushInline, PushingMessage
  <2>2. buf' \in [Calls -> Seq(Msgs)] /\ \A e \in Calls : Len(buf'[e]) <= BufCap
    <3>1. CASE buf' = buf
      BY <3>1 DEF TypeOK
    <3>2. CASE HasRoom(c) /\ buf' = [buf EXCEPT ![c] = Append(@, resp[c].id)]
      BY <2>1, <3>2 DEF TypeOK, HasRoom
    <3> QED
      BY <1>11, <3>1, <3>2 DEF PushInline
  <2>3. pc' \in [Calls -> PCs]
    BY <1>11 DEF TypeOK, PushInline, Return, End, callVars, PCs
  <2>4. outcome' \in [Calls -> Outcomes]
    BY <1>11 DEF TypeOK, PushInline, Return, End, callVars, Outcomes
  <2>5. fault' \in {"none", "subscribe", "dispatch", "drain"}
    BY <1>11 DEF TypeOK, PushInline
  <2> QED
    BY <1>11, <2>2, <2>3, <2>4, <2>5 DEF TypeOK, PushInline, clientVars, wireVars, endVars
<1>12. ASSUME NEW c \in Calls, Unregister(c) PROVE TypeOK'
  BY <1>12 DEF TypeOK, Unregister, Goto, chanVars, wireVars, endVars, PCs
<1>13. ASSUME NEW c \in Calls, CloseOwn(c) PROVE TypeOK'
  <2>1. pc' \in [Calls -> PCs] /\ outcome' \in [Calls -> Outcomes]
    <3>1. CASE Goto(c, "returned")
      BY <3>1 DEF TypeOK, Goto, PCs
    <3>2. CASE UNCHANGED callVars
      BY <3>2 DEF TypeOK, callVars
    <3> QED BY <1>13, <3>1, <3>2 DEF CloseOwn
  <2>2. open' \subseteq Calls /\ fault' \in {"none", "subscribe", "dispatch", "drain"}
    BY <1>13 DEF TypeOK, CloseOwn
  <2> QED BY <1>13, <2>1, <2>2 DEF TypeOK, CloseOwn, clientVars, wireVars, endVars
<1>14. ASSUME NEW err \in LocalErrors, Drain(err), UNCHANGED txClosed,
              closer' \in [Closers -> CloserPCs], readerDone' \in BOOLEAN
       PROVE  TypeOK'
  <2>1. resp' \in [Calls -> Results \cup {NoResp}]
    BY <1>14 DEF TypeOK, Drain, Pending, Results, Broker
  <2>2. open' \subseteq Calls /\ subs' \in [Queues -> Calls \cup {None}]
    BY <1>14 DEF TypeOK, Drain, OpenAfterDrain
  <2>3. fault' \in {"none", "subscribe", "dispatch", "drain"}
    BY <1>14 DEF TypeOK, Drain
  <2>4. closed' \in BOOLEAN /\ sentCmds' \subseteq Calls
    BY <1>14 DEF Drain
  <2> QED BY <1>14, <2>1, <2>2, <2>3, <2>4 DEF TypeOK, Drain, callVars, wireVars
<1>15. ASSUME NEW k \in Closers, Close(k) PROVE TypeOK'
  <2>1. CASE CloseBegin(k)
    <3>1. closer' \in [Closers -> CloserPCs] /\ readerDone' \in BOOLEAN /\ UNCHANGED txClosed
      BY <2>1 DEF CloseBegin, TypeOK, CloserPCs
    <3> QED
      BY <1>14, <2>1, <3>1 DEF CloseBegin, LocalErrors
  <2>2. CASE CloseAgain(k)
    BY <2>2 DEF TypeOK, CloseAgain, clientVars, callVars, chanVars, wireVars, CloserPCs
  <2>3. CASE CloseTx(k)
    BY <2>3 DEF TypeOK, CloseTx, clientVars, callVars, chanVars, wireVars, CloserPCs
  <2>4. CASE CloseJoin(k)
    BY <2>4 DEF TypeOK, CloseJoin, clientVars, callVars, chanVars, wireVars, CloserPCs
  <2> QED
    BY <1>15, <2>1, <2>2, <2>3, <2>4 DEF Close
<1>16. ASSUME NEW c \in Calls, NEW msg \in Replies, DispatchReply(c, msg) PROVE TypeOK'
  BY <1>16 DEF TypeOK, DispatchReply, Take, AfterAnswer, Results, callVars, endVars
<1>17. ASSUME NEW q \in Queues, NEW m \in Msgs, DispatchMsg(q, m) PROVE TypeOK'
  <2> DEFINE c == subs[q]
  <2>1. c \in Calls
    BY <1>17 DEF DispatchMsg, TypeOK
  <2>2. buf' \in [Calls -> Seq(Msgs)] /\ \A e \in Calls : Len(buf'[e]) <= BufCap
    <3>1. CASE buf' = buf
      BY <3>1 DEF TypeOK
    <3>2. CASE HasRoom(c) /\ buf' = [buf EXCEPT ![c] = Append(@, m)]
      BY <2>1, <3>2 DEF TypeOK, HasRoom
    <3> QED
      BY <1>17, <3>1, <3>2 DEF DispatchMsg
  <2> QED
    BY <1>17, <2>2 DEF TypeOK, DispatchMsg, Take, callVars, clientVars, endVars
<1>18. ASSUME NEW q \in Queues, DispatchEnd(q) PROVE TypeOK'
  BY <1>18 DEF TypeOK, DispatchEnd, Take, AfterEnd, callVars, endVars
<1>19. ASSUME DropTransmission PROVE TypeOK'
  BY <1>19 DEF TypeOK, DropTransmission, Take, clientVars, callVars, chanVars, endVars
<1>20. ASSUME HandleReadError PROVE TypeOK'
  <2>1. readerDone' \in BOOLEAN /\ UNCHANGED <<closer, txClosed>>
    BY <1>20 DEF HandleReadError, ReaderDoneAfter
  <2>2. CASE Drain("errRead")
    BY <1>14, <2>1, <2>2 DEF TypeOK, LocalErrors
  <2>3. CASE UNCHANGED <<clientVars, callVars, chanVars, wireVars, ctxDone, fault>>
    BY <2>1, <2>3 DEF TypeOK, clientVars, callVars, chanVars, wireVars
  <2> QED
    BY <1>20, <2>2, <2>3 DEF HandleReadError
<1>21. ASSUME NEW c \in Calls, Cancel(c) PROVE TypeOK'
  BY <1>21 DEF TypeOK, Cancel, clientVars, callVars, chanVars, wireVars, endVars
<1>22. ASSUME NEW c \in Calls, Receive(c) PROVE TypeOK'
  <2>1. Tail(buf[c]) \in Seq(Msgs) /\ Len(Tail(buf[c])) <= BufCap
    BY <1>22 DEF TypeOK, Receive
  <2> QED
    BY <1>22, <2>1 DEF TypeOK, Receive, clientVars, callVars, wireVars, endVars
<1>23. CASE UNCHANGED vars
  BY <1>23 DEF TypeOK, vars, clientVars, callVars, chanVars, wireVars, endVars
<1> QED
  BY <1>1, <1>2, <1>3, <1>4, <1>5, <1>6, <1>7, <1>8, <1>9, <1>10, <1>11, <1>12, <1>13,
     <1>15, <1>16, <1>17, <1>18, <1>19, <1>20, <1>21, <1>22, <1>23
     DEF Next, Call, Begin, BeginSend, Write, Select, Settle, Reader, Environment, Halted

-----------------------------------------------------------------------------
(* The books kept under c.mu.                                               *)

\* What the state says of one call: how far it has come, whether its command is
\* pending, what is in its channels.
CallBooks(c) ==
    /\ outcome[c] = "none" <=> pc[c] \notin {"unregister", "closing", "returned"}
    /\ pc[c] \in {"idle", "sending"} => resp[c] = NoResp
    /\ pc[c] = "pushing" => resp[c] \in Replies /\ resp[c].type = "MSG"
    /\ pc[c] \in {"pushing", "unregister", "closing"} => Op[c] = "Subscribe"
    /\ c \in open => Op[c] = "Subscribe" /\ pc[c] # "idle"
    /\ c \in sentCmds => pc[c] \in InSend /\ resp[c] = NoResp
    /\ pc[c] \in InSend /\ c \notin sentCmds => resp[c] # NoResp

QueueBooks(q) ==
    LET c == subs[q] IN
        c # None => /\ c \in open
                    /\ Queue[c] = q /\ Op[c] = "Subscribe"
                    /\ pc[c] \notin {"idle", "closing"}

\* Inductive together with TypeOK.  A queue's part needs the calls' part to know
\* that a call about to delete a registration is a Subscribe; that the code
\* under c.mu does not panic needs both.
Books ==
    /\ \A c \in Calls : CallBooks(c)
    /\ \A q \in Queues : QueueBooks(q)
    /\ ClosedDrained
    /\ LockedCodeNeverPanics

\* The part of TypeOK that the books are about.
Shape ==
    /\ closed \in BOOLEAN
    /\ sentCmds \subseteq Calls
    /\ subs \in [Queues -> Calls \cup {None}]
    /\ pc \in [Calls -> PCs]
    /\ outcome \in [Calls -> Outcomes]
    /\ resp \in [Calls -> Results \cup {NoResp}]
    /\ open \subseteq Calls

\* A step that leaves these variables alone leaves the books alone.
LEMMA BooksKept ==
  Books /\ UNCHANGED <<clientVars, callVars, resp, open, fault>> => Books'
  BY DEF Books, CallBooks, QueueBooks, ClosedDrained, Registered, LockedCodeNeverPanics,
         clientVars, callVars

\* A step of call c that neither registers nor closes anything keeps the books
\* if it keeps those of c.
LEMMA OneCallMoves ==
  ASSUME Shape, Books, NEW c \in Calls, CallBooks(c)',
         \A e \in Calls \ {c} : pc'[e] = pc[e] /\ outcome'[e] = outcome[e],
         pc'[c] \notin {"idle", "closing"},
         sentCmds' \subseteq sentCmds \cup {c}, sentCmds \ {c} \subseteq sentCmds',
         closed => c \notin sentCmds',
         UNCHANGED <<closed, subs, resp, open, fault>>
  PROVE  Books'
<1>1. ASSUME NEW e \in Calls PROVE CallBooks(e)'
  BY <1>1 DEF CallBooks, Books, Shape
<1>2. ASSUME NEW q \in Queues PROVE QueueBooks(q)'
  BY <1>2 DEF QueueBooks, Books, Shape
<1>3. ClosedDrained' /\ LockedCodeNeverPanics'
  BY DEF ClosedDrained, Registered, LockedCodeNeverPanics, Books
<1> QED
  BY <1>1, <1>2, <1>3 DEF Books

LEMMA BooksStep == TypeOK /\ Books /\ [Next]_vars => Books'
<1> SUFFICES ASSUME TypeOK, Books, [Next]_vars PROVE Books'
  OBVIOUS
<1> USE ConstantsAssumption
<1>0. Shape
  BY DEF Shape, TypeOK
<1>1. ASSUME NEW c \in Calls, Start(c) PROVE Books'
  <2>1. CallBooks(c)' /\ pc'[c] \notin {"idle", "closing"}
    BY <1>0, <1>1 DEF Start, Goto, Return, End, Books, CallBooks, Shape, InSend, LocalErrors, clientVars, chanVars
  <2> QED
    BY <1>0, <1>1, <2>1, OneCallMoves DEF Start, Goto, Return, End, Books, ClosedDrained, Shape, clientVars, chanVars
<1>2. ASSUME NEW c \in Calls, SubscribeRefused(c) PROVE Books'
  <2>1. CallBooks(c)' /\ pc'[c] \notin {"idle", "closing"}
    BY <1>0, <1>2 DEF SubscribeRefused, Return, End, Books, CallBooks, Shape, InSend, LocalErrors, clientVars, chanVars
  <2> QED
    BY <1>0, <1>2, <2>1, OneCallMoves DEF SubscribeRefused, Return, End, Books, ClosedDrained, Shape, clientVars, chanVars
<1>3. ASSUME NEW c \in Calls, SendRefused(c) PROVE Books'
  <2>1. CallBooks(c)' /\ pc'[c] \notin {"idle", "closing"}
    BY <1>0, <1>3 DEF SendRefused, Fail, End, Books, CallBooks, Shape, InSend, LocalErrors, clientVars, chanVars
  <2> QED
    BY <1>0, <1>3, <2>1, OneCallMoves DEF SendRefused, Fail, End, Books, ClosedDrained, Shape, clientVars, chanVars
<1>4. ASSUME NEW c \in Calls, SendRegister(c) PROVE Books'
  <2>1. CallBooks(c)' /\ pc'[c] \notin {"idle", "closing"}
    BY <1>0, <1>4 DEF SendRegister, MayRegister, Goto, Books, CallBooks, Shape, InSend, LocalErrors, clientVars, chanVars
  <2> QED
    BY <1>0, <1>4, <2>1, OneCallMoves DEF SendRegister, MayRegister, Goto, Books, ClosedDrained, Shape, clientVars, chanVars
<1>5. ASSUME NEW c \in Calls, WriteOut(c) PROVE Books'
  <2>1. CallBooks(c)' /\ pc'[c] \notin {"idle", "closing"}
    BY <1>0, <1>5 DEF WriteOut, Goto, Books, CallBooks, Shape, InSend, LocalErrors, clientVars, chanVars
  <2> QED
    BY <1>0, <1>5, <2>1, OneCallMoves DEF WriteOut, Goto, Books, ClosedDrained, Shape, clientVars, chanVars
<1>6. ASSUME NEW c \in Calls, WriteDone(c) PROVE Books'
  <2>1. CallBooks(c)' /\ pc'[c] \notin {"idle", "closing"}
    BY <1>0, <1>6 DEF WriteDone, Goto, Books, CallBooks, Shape, InSend, LocalErrors, clientVars, chanVars
  <2> QED
    BY <1>0, <1>6, <2>1, OneCallMoves DEF WriteDone, Goto, Books, ClosedDrained, Shape, clientVars, chanVars
<1>7. ASSUME NEW c \in Calls, WriteFail(c) PROVE Books'
  <2>1. CallBooks(c)' /\ pc'[c] \notin {"idle", "closing"}
    BY <1>0, <1>7 DEF WriteFail, Forget, Fail, End, Books, CallBooks, Shape, InSend, LocalErrors, clientVars, chanVars
  <2> QED
    BY <1>0, <1>7, <2>1, OneCallMoves DEF WriteFail, Forget, Fail, End, Books, ClosedDrained, Shape, clientVars, chanVars
<1>8. ASSUME NEW c \in Calls, ContextDone(c) PROVE Books'
  <2>1. CallBooks(c)' /\ pc'[c] \notin {"idle", "closing"}
    BY <1>0, <1>8 DEF ContextDone, Forget, Fail, End, Books, CallBooks, Shape, InSend, LocalErrors, clientVars, chanVars
  <2> QED
    BY <1>0, <1>8, <2>1, OneCallMoves DEF ContextDone, Forget, Fail, End, Books, ClosedDrained, Shape, clientVars, chanVars
<1>9. ASSUME NEW c \in Calls, ReceiveResponse(c) PROVE Books'
  <2>1. Verdict(c) \in Outcomes \ {"none"}
    BY <1>9, VerdictIsOutcome DEF ReceiveResponse
  <2>2. Verdict(c) = "ok" => resp[c] \in Replies
    BY <1>0, <1>9, VerdictOk DEF ReceiveResponse, Shape
  <2>3. CallBooks(c)' /\ pc'[c] \notin {"idle", "closing"}
    <3>1. CASE Fail(c, Verdict(c))
      BY <1>0, <1>9, <2>1, <3>1 DEF ReceiveResponse, Fail, End, Books, CallBooks, Shape, InSend, clientVars, chanVars
    <3>2. CASE Verdict(c) = "ok" /\ resp[c].type = "MSG" /\ Goto(c, "pushing")
      BY <1>0, <1>9, <2>2, <3>2, VerdictMsg DEF ReceiveResponse, Goto, Books, CallBooks, Shape, InSend, clientVars, chanVars
    <3>3. CASE Return(c, "ok")
      BY <1>0, <1>9, <3>3 DEF ReceiveResponse, Return, End, Books, CallBooks, Shape, InSend, clientVars, chanVars
    <3> QED
      BY <1>9, <3>1, <3>2, <3>3 DEF ReceiveResponse
  <2> QED
    BY <1>0, <1>9, <2>3, OneCallMoves DEF ReceiveResponse, Fail, Return, Goto, End, Books, ClosedDrained, Shape, clientVars, chanVars
<1>10. ASSUME NEW c \in Calls, PushInline(c) PROVE Books'
  <2>1. CASE c \notin open
    BY <1>10, <2>1 DEF PushInline, Books, CallBooks, QueueBooks, ClosedDrained, Registered, LockedCodeNeverPanics, clientVars, callVars
  <2>2. CASE c \in open
    <3>1. CallBooks(c)' /\ pc'[c] \notin {"idle", "closing"}
      BY <1>0, <1>10, <2>2 DEF PushInline, Return, End, Books, CallBooks, Shape, InSend, clientVars
    <3> QED
      BY <1>0, <1>10, <2>2, <3>1, OneCallMoves DEF PushInline, Return, End, Books, ClosedDrained, Shape, clientVars
  <2> QED
    BY <2>1, <2>2
<1>11. ASSUME NEW c \in Calls, SubscribeRegister(c) PROVE Books'
  <2>1. ASSUME NEW e \in Calls PROVE CallBooks(e)'
    BY <1>0, <1>11, <2>1 DEF SubscribeRegister, Goto, Books, CallBooks, Shape, InSend, wireVars
  <2>2. ASSUME NEW q \in Queues PROVE QueueBooks(q)'
    BY <1>0, <1>11, <2>2 DEF SubscribeRegister, Goto, Books, CallBooks, QueueBooks, Shape, wireVars
  <2>3. ClosedDrained' /\ LockedCodeNeverPanics'
    BY <1>0, <1>11 DEF SubscribeRegister, Goto, Books, ClosedDrained, Registered, LockedCodeNeverPanics, Running, wireVars
  <2> QED
    BY <2>1, <2>2, <2>3 DEF Books
<1>12. ASSUME NEW c \in Calls, Unregister(c) PROVE Books'
  <2>1. ASSUME NEW e \in Calls PROVE CallBooks(e)'
    BY <1>0, <1>12, <2>1 DEF Unregister, Goto, Books, CallBooks, Shape, InSend, chanVars
  <2>2. ASSUME NEW q \in Queues PROVE QueueBooks(q)'
    BY <1>0, <1>12, <2>2 DEF Unregister, Goto, Books, CallBooks, QueueBooks, Shape, chanVars
  <2>3. ClosedDrained' /\ LockedCodeNeverPanics'
    BY <1>0, <1>12 DEF Unregister, Goto, Books, ClosedDrained, Registered, LockedCodeNeverPanics, Running, chanVars
  <2> QED
    BY <2>1, <2>2, <2>3 DEF Books
<1>13. ASSUME NEW c \in Calls, CloseOwn(c) PROVE Books'
  <2>1. ASSUME NEW e \in Calls PROVE CallBooks(e)'
    BY <1>0, <1>13, <2>1 DEF CloseOwn, Goto, Books, CallBooks, Shape, InSend, clientVars, callVars
  <2>2. ASSUME NEW q \in Queues PROVE QueueBooks(q)'
    BY <1>0, <1>13, <2>2 DEF CloseOwn, Goto, Books, CallBooks, QueueBooks, Shape, clientVars, callVars
  <2>3. ClosedDrained' /\ LockedCodeNeverPanics'
    BY <1>0, <1>13 DEF CloseOwn, Goto, Books, ClosedDrained, Registered, LockedCodeNeverPanics, Running, clientVars, callVars
  <2> QED
    BY <2>1, <2>2, <2>3 DEF Books
<1>14. ASSUME NEW err \in LocalErrors, Running, ~closed, Drain(err) PROVE Books'
  <2>1. ASSUME NEW e \in Calls PROVE CallBooks(e)'
    BY <1>0, <1>14, <2>1 DEF Drain, Pending, OpenAfterDrain, Books, CallBooks, Shape, InSend, NoResp, Broker, LocalErrors, callVars
  <2>2. ASSUME NEW q \in Queues PROVE QueueBooks(q)'
    BY <1>14 DEF Drain, QueueBooks
  <2>3. fault' = fault
    BY <1>0, <1>14 DEF Drain, Registered, Books, CallBooks, QueueBooks, Shape
  <2>4. ClosedDrained' /\ LockedCodeNeverPanics'
    BY <1>14, <2>3 DEF Drain, Books, ClosedDrained, Registered, LockedCodeNeverPanics
  <2> QED
    BY <2>1, <2>2, <2>4 DEF Books
<1>15. ASSUME NEW k \in Closers, Close(k) PROVE Books'
  BY <1>14, <1>15, BooksKept DEF Close, CloseBegin, CloseAgain, CloseTx, CloseJoin, LocalErrors, clientVars, callVars, chanVars
<1>16. ASSUME NEW c \in Calls, NEW msg \in Replies, DispatchReply(c, msg) PROVE Books'
  <2>1. ASSUME NEW e \in Calls PROVE CallBooks(e)'
    BY <1>0, <1>16, <2>1, NoRespIsNoResult DEF DispatchReply, AfterAnswer, Books, CallBooks, Shape, InSend, Results, callVars
  <2>2. ASSUME NEW q \in Queues PROVE QueueBooks(q)'
    BY <1>16, <2>2 DEF DispatchReply, Books, QueueBooks, callVars
  <2>3. ClosedDrained' /\ LockedCodeNeverPanics'
    BY <1>0, <1>16 DEF DispatchReply, AfterAnswer, Books, CallBooks, ClosedDrained, Registered, LockedCodeNeverPanics
  <2> QED
    BY <2>1, <2>2, <2>3 DEF Books
<1>17. ASSUME NEW q \in Queues, NEW m \in Msgs, DispatchMsg(q, m) PROVE Books'
  <2>1. fault' = fault
    BY <1>17 DEF DispatchMsg, Books, QueueBooks
  <2> QED
    BY <1>17, <2>1, BooksKept DEF DispatchMsg
<1>18. ASSUME NEW q \in Queues, DispatchEnd(q) PROVE Books'
  <2>1. ASSUME NEW e \in Calls PROVE CallBooks(e)'
    BY <1>18, <2>1 DEF DispatchEnd, Books, CallBooks, callVars
  <2>2. ASSUME NEW p \in Queues PROVE QueueBooks(p)'
    BY <1>0, <1>18, <2>2 DEF DispatchEnd, AfterEnd, Books, QueueBooks, Shape, callVars
  <2>3. ClosedDrained' /\ LockedCodeNeverPanics'
    BY <1>0, <1>18 DEF DispatchEnd, AfterEnd, Books, QueueBooks, ClosedDrained, Registered, LockedCodeNeverPanics, Shape
  <2> QED
    BY <2>1, <2>2, <2>3 DEF Books
<1>19. ASSUME DropTransmission PROVE Books'
  BY <1>19, BooksKept DEF DropTransmission, chanVars
<1>20. ASSUME HandleReadError PROVE Books'
  BY <1>14, <1>20, BooksKept DEF HandleReadError, LocalErrors, chanVars
<1>21. ASSUME NEW c \in Calls, Cancel(c) PROVE Books'
  BY <1>21, BooksKept DEF Cancel, chanVars
<1>22. ASSUME NEW c \in Calls, Receive(c) PROVE Books'
  BY <1>22, BooksKept DEF Receive
<1>23. CASE UNCHANGED vars
  BY <1>23, BooksKept DEF vars, chanVars
<1> QED
  BY <1>1, <1>2, <1>3, <1>4, <1>5, <1>6, <1>7, <1>8, <1>9, <1>10, <1>11, <1>12, <1>13,
     <1>15, <1>16, <1>17, <1>18, <1>19, <1>20, <1>21, <1>22, <1>23
     DEF Next, Call, Begin, BeginSend, Write, Select, Settle, Reader, Environment, Halted

-----------------------------------------------------------------------------
(* Channels without an owner.                                               *)

\* A step that registers, closes and unregisters nothing, and takes no call to
\* or from its close(ch), makes no orphan.
LEMMA NoOrphanKept ==
  ASSUME Shape, NoOrphanChannel, UNCHANGED <<subs, open>>,
         \A d \in Calls : pc[d] = "closing" <=> pc'[d] = "closing"
  PROVE  NoOrphanChannel'
  BY DEF NoOrphanChannel, Shape

\* Channels close and registrations end, the calls stay where they are: what
\* is left open was not registered.
LEMMA NoOrphanEnded ==
  ASSUME NoOrphanChannel, Shape, Books, UNCHANGED pc, NEW Q \in SUBSET Queues,
         open' = open \ {subs[q] : q \in Q},
         subs' = [q \in Queues |-> IF q \in Q THEN None ELSE subs[q]]
  PROVE  NoOrphanChannel'
  BY ConstantsAssumption DEF NoOrphanChannel, Shape, Books, QueueBooks

LEMMA NoOrphanStep == TypeOK /\ Books /\ NoOrphanChannel /\ [Next]_vars => NoOrphanChannel'
<1> SUFFICES ASSUME TypeOK, Books, NoOrphanChannel, [Next]_vars PROVE NoOrphanChannel'
  OBVIOUS
<1> USE ConstantsAssumption
<1>0. Shape
  BY DEF Shape, TypeOK
<1>1. ASSUME NEW c \in Calls, Start(c) \/ SubscribeRefused(c) PROVE NoOrphanChannel'
  BY <1>0, <1>1, NoOrphanKept DEF Start, SubscribeRefused, Goto, Return, End, Shape, clientVars, chanVars
<1>2. ASSUME NEW c \in Calls, BeginSend(c) PROVE NoOrphanChannel'
  BY <1>0, <1>2, NoOrphanKept DEF BeginSend, SendRefused, SendRegister, Fail, Goto, End, Shape, clientVars, chanVars
<1>3. ASSUME NEW c \in Calls, Write(c) PROVE NoOrphanChannel'
  BY <1>0, <1>3, NoOrphanKept DEF Write, WriteOut, WriteDone, WriteFail, Fail, Goto, End, Shape, clientVars, chanVars
<1>4. ASSUME NEW c \in Calls, Select(c) PROVE NoOrphanChannel'
  BY <1>0, <1>4, NoOrphanKept DEF Select, ReceiveResponse, ContextDone, Fail, Return, Goto, End, Shape, clientVars, chanVars
<1>5. ASSUME NEW c \in Calls, PushInline(c) PROVE NoOrphanChannel'
  BY <1>0, <1>5, NoOrphanKept DEF PushInline, Return, End, Shape, clientVars, callVars
<1>6. ASSUME NEW c \in Calls, SubscribeRegister(c) PROVE NoOrphanChannel'
  BY <1>0, <1>6 DEF SubscribeRegister, Goto, NoOrphanChannel, Books, CallBooks, Shape
<1>7. ASSUME NEW c \in Calls, Unregister(c) PROVE NoOrphanChannel'
  <2> SUFFICES ASSUME NEW e \in open, pc'[e] # "closing", subs'[Queue[e]] # e
               PROVE  \E d \in Calls : /\ Op[d] = "Subscribe" /\ Queue[d] = Queue[e]
                                     /\ pc'[d] = "closing" /\ d \notin open
    BY <1>7 DEF NoOrphanChannel, Unregister, chanVars
  <2>1. e # c /\ pc[e] # "closing"
    BY <1>0, <1>7 DEF Unregister, Goto, Shape
  <2>2. CASE subs[Queue[e]] = e /\ c \notin open
    BY <1>0, <1>7, <2>1, <2>2 DEF Unregister, Goto, Books, CallBooks, Shape
  <2>3. CASE subs[Queue[e]] = e /\ c \in open
    <3>1. Queue[c] = Queue[e]
      BY <1>0, <1>7, <2>3 DEF Unregister, Shape
    <3>2. subs[Queue[c]] # c
      BY <2>1, <2>3, <3>1
    <3>3. PICK d \in Calls : Op[d] = "Subscribe" /\ Queue[d] = Queue[c] /\ pc[d] = "closing" /\ d \notin open
      BY <1>7, <2>3, <3>2 DEF NoOrphanChannel, Unregister
    <3> QED
      BY <1>0, <1>7, <3>1, <3>3 DEF Unregister, Goto, Shape
  <2>4. CASE subs[Queue[e]] # e
    BY <1>0, <1>7, <2>1, <2>4 DEF NoOrphanChannel, Unregister, Goto, Shape
  <2> QED
    BY <2>2, <2>3, <2>4
<1>8. ASSUME NEW c \in Calls, CloseOwn(c) PROVE NoOrphanChannel'
  BY <1>0, <1>8 DEF CloseOwn, Goto, NoOrphanChannel, Shape, clientVars, callVars
<1>9. ASSUME NEW err \in LocalErrors, Drain(err) PROVE NoOrphanChannel'
  <2>1. open' = open \ {subs[q] : q \in Queues}
    BY <1>0, <1>9 DEF Drain, OpenAfterDrain, Registered, Shape
  <2> QED
    BY <1>0, <1>9, <2>1, NoOrphanEnded DEF Drain, callVars
<1>10. ASSUME NEW k \in Closers, Close(k) PROVE NoOrphanChannel'
  BY <1>0, <1>9, <1>10, NoOrphanKept DEF Close, CloseBegin, CloseAgain, CloseTx, CloseJoin, LocalErrors, clientVars, callVars, chanVars
<1>11. ASSUME NEW c \in Calls, NEW msg \in Replies, DispatchReply(c, msg) PROVE NoOrphanChannel'
  BY <1>0, <1>11, NoOrphanKept DEF DispatchReply, callVars
<1>12. ASSUME NEW q \in Queues, NEW m \in Msgs, DispatchMsg(q, m) PROVE NoOrphanChannel'
  BY <1>0, <1>12, NoOrphanKept DEF DispatchMsg, clientVars, callVars
<1>13. ASSUME NEW q \in Queues, DispatchEnd(q) PROVE NoOrphanChannel'
  <2>1. subs' = [p \in Queues |-> IF p \in {q} THEN None ELSE subs[p]]
    BY <1>0, <1>13 DEF DispatchEnd, AfterEnd, Shape
  <2>2. open' = open \ {subs[p] : p \in {q}} /\ UNCHANGED pc
    BY <1>13 DEF DispatchEnd, callVars
  <2>3. {q} \in SUBSET Queues
    OBVIOUS
  <2> QED
    BY <1>0, <2>1, <2>2, <2>3, NoOrphanEnded
<1>14. ASSUME DropTransmission PROVE NoOrphanChannel'
  BY <1>0, <1>14, NoOrphanKept DEF DropTransmission, clientVars, callVars, chanVars
<1>15. ASSUME HandleReadError PROVE NoOrphanChannel'
  BY <1>0, <1>9, <1>15, NoOrphanKept DEF HandleReadError, LocalErrors, clientVars, callVars, chanVars
<1>16. ASSUME NEW c \in Calls, Cancel(c) \/ Receive(c) PROVE NoOrphanChannel'
  BY <1>0, <1>16, NoOrphanKept DEF Cancel, Receive, clientVars, callVars, chanVars
<1>17. CASE UNCHANGED vars
  BY <1>0, <1>17, NoOrphanKept DEF vars, clientVars, callVars, chanVars
<1> QED
  BY <1>1, <1>2, <1>3, <1>4, <1>5, <1>6, <1>7, <1>8, <1>10, <1>11, <1>12, <1>13, <1>14,
     <1>15, <1>16, <1>17
     DEF Next, Call, Begin, Settle, Reader, Environment, Halted

-----------------------------------------------------------------------------
(* The theorems.                                                            *)

Inductive == TypeOK /\ Books /\ NoOrphanChannel

LEMMA InductiveInit == Init => Inductive
<1> SUFFICES ASSUME Init PROVE Inductive
  OBVIOUS
<1> USE ConstantsAssumption
<1>1. TypeOK
  <2>1. <<>> \in Seq(Msgs) /\ Len(<<>>) <= BufCap
    OBVIOUS
  <2>2. buf \in [Calls -> Seq(Msgs)] /\ \A c \in Calls : Len(buf[c]) <= BufCap
    BY <2>1 DEF Init
  <2>3. /\ pc \in [Calls -> PCs] /\ outcome \in [Calls -> Outcomes]
        /\ closer \in [Closers -> CloserPCs] /\ resp \in [Calls -> Results \cup {NoResp}]
    BY DEF Init, PCs, Outcomes, CloserPCs
  <2>4. subs \in [Queues -> Calls \cup {None}] /\ taken \in 0..MaxTaken
    BY DEF Init
  <2> QED
    BY <2>2, <2>3, <2>4 DEF Init, TypeOK
<1>2. Books
  BY DEF Init, Books, CallBooks, QueueBooks, ClosedDrained, LockedCodeNeverPanics, InSend
<1>3. NoOrphanChannel
  BY DEF Init, NoOrphanChannel
<1> QED
  BY <1>1, <1>2, <1>3 DEF Inductive

LEMMA InductiveStep == Inductive /\ [Next]_vars => Inductive'
<1>1. Inductive => PushingMessage
  BY DEF Inductive, Books, CallBooks, PushingMessage
<1> QED
  BY <1>1, TypeStep, BooksStep, NoOrphanStep DEF Inductive

LEMMA InductiveInvariant == Spec => []Inductive
  BY InductiveInit, InductiveStep, PTL DEF Spec

\* The state keeps its shape; no subscriber channel holds more than its capacity.
THEOREM TypeCorrect == Spec => []TypeOK
<1>1. Inductive => TypeOK
  BY DEF Inductive
<1> QED
  BY InductiveInvariant, <1>1, PTL

\* Every entry of sentCmds is of a call inside send that has no result yet.
THEOREM PendingUnansweredAlways == Spec => []PendingUnanswered
<1>1. Inductive => PendingUnanswered
  BY DEF Inductive, TypeOK, Books, CallBooks, PendingUnanswered
<1> QED
  BY InductiveInvariant, <1>1, PTL

\* No caller waits for a result that cannot come any more.
THEOREM NeverStranded == Spec => []NoStranded
<1>1. Inductive => NoStranded
  BY DEF Inductive, Books, CallBooks, NoStranded
<1> QED
  BY InductiveInvariant, <1>1, PTL

\* After the end of the session both maps stay empty.
THEOREM DrainedOnceClosed == Spec => []ClosedDrained
<1>1. Inductive => ClosedDrained
  BY DEF Inductive, Books
<1> QED
  BY InductiveInvariant, <1>1, PTL

\* What is registered is open and belongs to a Subscribe of that queue.
THEOREM RegisteredAlwaysOpen == Spec => []RegisteredOpen
<1>1. Inductive => RegisteredOpen
  BY DEF Inductive, Books, QueueBooks, RegisteredOpen
<1> QED
  BY InductiveInvariant, <1>1, PTL

\* Neither dispatch nor the drains of Close and handleReadError ever panic,
\* whatever the peer sends and however the calls interleave.
THEOREM LockedCodeSafe == Spec => []LockedCodeNeverPanics
<1>1. Inductive => LockedCodeNeverPanics
  BY DEF Inductive, Books
<1> QED
  BY InductiveInvariant, <1>1, PTL

\* No subscriber channel is left open with nobody to close it, short of the
\* panic NoOrphanChannel names.
THEOREM NoOrphans == Spec => []NoOrphanChannel
<1>1. Inductive => NoOrphanChannel
  BY DEF Inductive
<1> QED
  BY InductiveInvariant, <1>1, PTL

-----------------------------------------------------------------------------
(* Refinement.                                                              *)

AbstractStep == [Abstract!Next]_(Abstract!vars)

\* A step of one call that leaves its result and the session alone is a step of
\* the abstract call, told by its status before and after.
LEMMA OneStatusMoves ==
  ASSUME NEW c \in Calls, UNCHANGED <<closed, resp>>,
         \A e \in Calls \ {c} : pc'[e] = pc[e] /\ outcome'[e] = outcome[e],
         \/ Status(c)' = Status(c)
         \/ Status(c) \in {"idle", "pending"} /\ Status(c)' = "failed"
         \/ Status(c) = "idle" /\ ~closed /\ Status(c)' = "pending"
         \/ Status(c) = "pending" /\ resp[c] \in Replies /\ Status(c)' = "ok"
  PROVE  AbstractStep
<1> DEFINE st == [e \in Calls |-> Status(e)]
<1>1. \A e \in Calls \ {c} : Status(e)' = Status(e)
  BY DEF Status
<1>2. st' = [st EXCEPT ![c] = Status(c)']
  BY <1>1
<1>3. UNCHANGED {e \in Calls : resp[e] \in Replies}
  BY DEF Replies, Broker
<1>4. CASE Status(c)' = Status(c)
  <2>1. st' = st
    BY <1>2, <1>4
  <2> QED
    BY <1>3, <2>1 DEF AbstractStep, Abstract!vars
<1>5. CASE Status(c) \in {"idle", "pending"} /\ Status(c)' = "failed"
  BY <1>2, <1>3, <1>5 DEF AbstractStep, Abstract!Next, Abstract!Fail
<1>6. CASE Status(c) = "idle" /\ ~closed /\ Status(c)' = "pending"
  BY <1>2, <1>3, <1>6 DEF AbstractStep, Abstract!Next, Abstract!Invoke
<1>7. CASE Status(c) = "pending" /\ resp[c] \in Replies /\ Status(c)' = "ok"
  BY <1>2, <1>3, <1>7 DEF AbstractStep, Abstract!Next, Abstract!Succeed
<1> QED
  BY <1>4, <1>5, <1>6, <1>7

LEMMA AbstractStutter ==
  ASSUME UNCHANGED <<closed, resp, callVars>> PROVE AbstractStep
  BY DEF AbstractStep, Abstract!vars, Status, Replies, Broker, callVars

LEMMA RefinementStep == Inductive /\ [Next]_vars => AbstractStep
<1> SUFFICES ASSUME Inductive, [Next]_vars PROVE AbstractStep
  OBVIOUS
<1> USE ConstantsAssumption
<1>0. Shape /\ Books
  BY DEF Inductive, Shape, TypeOK
<1>1. ASSUME NEW c \in Calls, Start(c) PROVE AbstractStep
  BY <1>0, <1>1, OneStatusMoves DEF Start, Goto, Return, End, Status, Books, CallBooks, Shape, InSend, clientVars, chanVars
<1>2. ASSUME NEW c \in Calls, SubscribeRefused(c) PROVE AbstractStep
  BY <1>0, <1>2, OneStatusMoves DEF SubscribeRefused, Return, End, Status, Books, CallBooks, Shape, InSend, clientVars, chanVars
<1>3. ASSUME NEW c \in Calls, SubscribeRegister(c) PROVE AbstractStep
  BY <1>0, <1>3, OneStatusMoves DEF SubscribeRegister, Goto, Status, Books, CallBooks, Shape, InSend, clientVars, chanVars
<1>4. ASSUME NEW c \in Calls, SendRefused(c) PROVE AbstractStep
  BY <1>0, <1>4, OneStatusMoves DEF SendRefused, Fail, End, Status, Books, CallBooks, Shape, InSend, clientVars, chanVars
<1>5. ASSUME NEW c \in Calls, SendRegister(c) PROVE AbstractStep
  BY <1>0, <1>5, OneStatusMoves DEF SendRegister, MayRegister, Goto, Status, Books, CallBooks, Shape, InSend, clientVars, chanVars
<1>6. ASSUME NEW c \in Calls, WriteOut(c) PROVE AbstractStep
  BY <1>0, <1>6, OneStatusMoves DEF WriteOut, Goto, Status, Books, CallBooks, Shape, InSend, clientVars, chanVars
<1>7. ASSUME NEW c \in Calls, WriteDone(c) PROVE AbstractStep
  BY <1>0, <1>7, OneStatusMoves DEF WriteDone, Goto, Status, Books, CallBooks, Shape, InSend, clientVars, chanVars
<1>8. ASSUME NEW c \in Calls, WriteFail(c) PROVE AbstractStep
  BY <1>0, <1>8, OneStatusMoves DEF WriteFail, Fail, End, Status, Books, CallBooks, Shape, InSend, clientVars, chanVars
<1>9. ASSUME NEW c \in Calls, ContextDone(c) PROVE AbstractStep
  BY <1>0, <1>9, OneStatusMoves DEF ContextDone, Fail, End, Status, Books, CallBooks, Shape, InSend, clientVars, chanVars
<1>10. ASSUME NEW c \in Calls, ReceiveResponse(c) PROVE AbstractStep
  <2>1. Verdict(c) \in Outcomes \ {"none"}
    BY <1>10, VerdictIsOutcome DEF ReceiveResponse, Inductive
  <2>2. Verdict(c) = "ok" => resp[c] \in Replies
    BY <1>0, <1>10, VerdictOk DEF ReceiveResponse, Shape
  <2> QED
    BY <1>0, <1>10, <2>1, <2>2, OneStatusMoves DEF ReceiveResponse, Fail, Return, Goto, End, Status, Books, CallBooks, Shape, clientVars, chanVars
<1>11. ASSUME NEW c \in Calls, PushInline(c) PROVE AbstractStep
  BY <1>0, <1>11, AbstractStutter, OneStatusMoves DEF PushInline, Return, End, Status, Books, CallBooks, Shape, clientVars
<1>12. ASSUME NEW c \in Calls, Unregister(c) \/ CloseOwn(c) PROVE AbstractStep
  BY <1>0, <1>12, AbstractStutter, OneStatusMoves DEF Unregister, CloseOwn, Goto, Status, Books, CallBooks, Shape, clientVars, chanVars
<1>13. ASSUME NEW err \in LocalErrors, ~closed, Drain(err) PROVE AbstractStep
  <2>1. \A c \in Calls : resp'[c] \in Replies <=> resp[c] \in Replies
    <3> SUFFICES ASSUME NEW c \in Calls PROVE resp'[c] \in Replies <=> resp[c] \in Replies
      OBVIOUS
    <3>1. CASE c \in sentCmds
      <4>1. resp'[c] = Broker(err, None) /\ resp[c] = NoResp
        BY <1>0, <1>13, <3>1 DEF Drain, Pending, Books, CallBooks
      <4> QED
        BY <4>1, LocalErrorIsNoReply, NoRespIsNoResult DEF Results
    <3>2. CASE c \notin sentCmds
      BY <1>13, <3>2 DEF Drain, Pending
    <3> QED
      BY <3>1, <3>2
  <2>2. Abstract!Shutdown
    BY <1>13, <2>1 DEF Drain, Abstract!Shutdown, Status, callVars
  <2> QED
    BY <2>2 DEF AbstractStep, Abstract!Next
<1>14. ASSUME NEW k \in Closers, Close(k) PROVE AbstractStep
  BY <1>13, <1>14, AbstractStutter DEF Close, CloseBegin, CloseAgain, CloseTx, CloseJoin, LocalErrors, clientVars, chanVars
<1>15. ASSUME NEW c \in Calls, NEW msg \in Replies, DispatchReply(c, msg) PROVE AbstractStep
  <2>1. ~closed /\ Status(c) = "pending"
    BY <1>0, <1>15 DEF DispatchReply, Books, CallBooks, ClosedDrained, Status, InSend
  <2>2. {e \in Calls : resp'[e] \in Replies} = {e \in Calls : resp[e] \in Replies} \cup {c}
    BY <1>0, <1>15 DEF DispatchReply, Shape
  <2>3. Abstract!Answer(c)
    BY <1>15, <2>1, <2>2 DEF DispatchReply, Abstract!Answer, Status, Replies, Broker, callVars
  <2> QED
    BY <2>3 DEF AbstractStep, Abstract!Next
<1>16. ASSUME NEW q \in Queues, NEW m \in Msgs, DispatchMsg(q, m) PROVE AbstractStep
  BY <1>16, AbstractStutter DEF DispatchMsg, clientVars
<1>17. ASSUME NEW q \in Queues, DispatchEnd(q) PROVE AbstractStep
  BY <1>17, AbstractStutter DEF DispatchEnd
<1>18. ASSUME DropTransmission PROVE AbstractStep
  BY <1>18, AbstractStutter DEF DropTransmission, clientVars, chanVars
<1>19. ASSUME HandleReadError PROVE AbstractStep
  BY <1>13, <1>19, AbstractStutter DEF HandleReadError, LocalErrors, clientVars, chanVars
<1>20. ASSUME NEW c \in Calls, Cancel(c) \/ Receive(c) PROVE AbstractStep
  BY <1>20, AbstractStutter DEF Cancel, Receive, clientVars, chanVars
<1>21. CASE UNCHANGED vars
  BY <1>21, AbstractStutter DEF vars, clientVars, chanVars
<1> QED
  BY <1>1, <1>2, <1>3, <1>4, <1>5, <1>6, <1>7, <1>8, <1>9, <1>10, <1>11, <1>12, <1>14,
     <1>15, <1>16, <1>17, <1>18, <1>19, <1>20, <1>21
     DEF Next, Call, Begin, BeginSend, Write, Select, Settle, Reader, Environment, Halted

\* The client implements RequestReply: calls are taken on only before the
\* shutdown, end at most once, and succeed only on the peer's own answer.
THEOREM ClientRefinesRequestReply == Spec => RequestReplySpec
<1>1. Init => Abstract!Init
  BY NoRespIsNoResult DEF Init, Abstract!Init, Status, Results
<1>2. Inductive /\ [Next]_vars => [Abstract!Next]_(Abstract!vars)
  BY RefinementStep DEF AbstractStep
<1> QED
  BY InductiveInvariant, <1>1, <1>2, PTL DEF Spec, RequestReplySpec, Abstract!Spec
=============================================================================
