------------------------------- MODULE Client -------------------------------
(***************************************************************************)
(* smp.Client: goroutines that call its methods, the reader goroutine,     *)
(* goroutines that call Close, and an arbitrary peer at the other end of   *)
(* the transport.                                                          *)
(*                                                                         *)
(* A call makes one method call and has one correlation id, so a call      *)
(* stands for its goroutine, for its CorrID (24 fresh random bytes), for   *)
(* its response channel and, if it is a Subscribe, for its subscriber      *)
(* channel.  A critical section under c.mu is one action; everything done  *)
(* outside the lock is an action of its own.  A run-time panic ends the    *)
(* process: "fault" names the code that raised it.                         *)
(*                                                                         *)
(* The peer is arbitrary, so the wire towards the client needs no variable:*)
(* a block the reader takes at a step is any block the peer could have     *)
(* sent by then.  The one thing a peer cannot do is answer a CorrID it has *)
(* never been sent.                                                        *)
(***************************************************************************)
EXTENDS Integers, Sequences

CONSTANTS
    Calls,      \* method calls, each made at most once
    Op,         \* Op[c]: the method of c
    Queue,      \* Queue[c]: the queue c is about (meaningful for Subscribe)
    Queues,
    Closers,    \* goroutines that call Close
    Msgs,       \* identities of the messages the peer may deliver
    ReplyTypes, \* what the peer may answer, "MSG" apart
    BufCap,     \* capacity of a subscriber channel (32 in the code)
    MaxTaken,   \* bound: transmissions the reader takes from the transport
    None        \* no call, no message

Ops == {"Ping", "Send", "Ack", "NewQueue", "Subscribe"}
BrokerTypes == {"OK", "PONG", "IDS", "ERR", "END"}

ASSUME ConstantsAssumption ==
    /\ Op \in [Calls -> Ops]
    /\ Queue \in [Calls -> Queues]
    /\ ReplyTypes \subseteq BrokerTypes
    /\ BufCap \in Nat \ {0}
    /\ MaxTaken \in Nat
    /\ None \notin Calls /\ None \notin Msgs

VARIABLES
    closed, sentCmds, subs,  \* the fields of Client that c.mu guards
    pc, outcome,             \* where each call is, and how it ended
    resp,                    \* resp[c]: what was put in c's response channel
    open, buf,               \* open subscriber channels and their contents
    ctxDone,                 \* calls whose context is done
    closer,                  \* where each Close is
    readerDone, txClosed,    \* reader goroutine ended, transport closed
    written,                 \* commands whose block is on the wire
    taken,                   \* how many transmissions the reader took so far
    fault

clientVars == <<closed, sentCmds, subs>>
callVars == <<pc, outcome>>
chanVars == <<resp, open, buf>>
wireVars == <<written, taken>>
endVars == <<closer, readerDone, txClosed>>
vars == <<clientVars, callVars, chanVars, wireVars, endVars, ctxDone, fault>>

LocalErrors == {"ErrClientClosed", "errRead"}
Broker(type, id) == [type |-> type, id |-> id]
Replies == {Broker(t, None) : t \in ReplyTypes} \cup {Broker("MSG", m) : m \in Msgs}
Results == Replies \cup {Broker(e, None) : e \in LocalErrors}
NoResp == Broker("none", None)

InSend == {"writing", "written", "waiting"}
PCs == {"idle", "sending", "pushing", "unregister", "closing", "returned"} \cup InSend
Outcomes == {"none", "ok", "ErrMsg", "errUnexpected", "errDuplicate", "errMode",
             "errEncode", "errWrite", "errCtx"} \cup LocalErrors
CloserPCs == {"idle", "closing", "joining", "returned", "noop"}

TypeOK ==
    /\ closed \in BOOLEAN
    /\ sentCmds \subseteq Calls
    /\ subs \in [Queues -> Calls \cup {None}]
    /\ pc \in [Calls -> PCs]
    /\ outcome \in [Calls -> Outcomes]
    /\ resp \in [Calls -> Results \cup {NoResp}]
    /\ open \subseteq Calls
    /\ buf \in [Calls -> Seq(Msgs)]
    /\ \A c \in Calls : Len(buf[c]) <= BufCap
    /\ ctxDone \subseteq Calls
    /\ closer \in [Closers -> CloserPCs]
    /\ readerDone \in BOOLEAN
    /\ txClosed \in BOOLEAN
    /\ written \subseteq Calls
    /\ taken \in 0..MaxTaken
    /\ fault \in {"none", "subscribe", "dispatch", "drain"}

Init ==
    /\ closed = FALSE
    /\ sentCmds = {}
    /\ subs = [q \in Queues |-> None]
    /\ pc = [c \in Calls |-> "idle"]
    /\ outcome = [c \in Calls |-> "none"]
    /\ resp = [c \in Calls |-> NoResp]
    /\ open = {}
    /\ buf = [c \in Calls |-> <<>>]
    /\ ctxDone = {}
    /\ closer = [k \in Closers |-> "idle"]
    /\ readerDone = FALSE
    /\ txClosed = FALSE
    /\ written = {}
    /\ taken = 0
    /\ fault = "none"

-----------------------------------------------------------------------------
(* How a call moves and ends.                                               *)

\* A panic takes every goroutine of the process with it.
Running == fault = "none"

Goto(c, at) == pc' = [pc EXCEPT ![c] = at] /\ UNCHANGED outcome

End(c, at, with) ==
    /\ pc' = [pc EXCEPT ![c] = at]
    /\ outcome' = [outcome EXCEPT ![c] = with]

Return(c, with) == End(c, "returned", with)

\* send returned an error: Subscribe has its registration to undo.
Fail(c, err) == End(c, IF Op[c] = "Subscribe" THEN "unregister" ELSE "returned", err)

HasRoomOffByOne(c) == Len(buf[c]) <= BufCap  \* mutant
HasRoomForTwo(c) == Len(buf[c]) + 1 < BufCap  \* mutant
HasRoom(c) == Len(buf[c]) < BufCap

-----------------------------------------------------------------------------
(* The methods up to the common request-response path.                      *)

\* Ping, Send and Ack go straight to send; NewQueue first refuses a
\* SubscribeMode that is neither unset nor SubscribeManual.
Start(c) ==
    /\ Running
    /\ pc[c] = "idle"
    /\ Op[c] # "Subscribe"
    /\ \/ Goto(c, "sending")
       \/ Op[c] = "NewQueue" /\ Return(c, "errMode")
    /\ UNCHANGED <<clientVars, chanVars, wireVars, endVars, ctxDone, fault>>

SubscribeRefused(c) ==
    /\ Running
    /\ pc[c] = "idle"
    /\ Op[c] = "Subscribe"
    /\ \/ closed /\ Return(c, "ErrClientClosed")
       \/ ~closed /\ subs[Queue[c]] # None /\ Return(c, "errDuplicate")
    /\ UNCHANGED <<clientVars, chanVars, wireVars, endVars, ctxDone, fault>>

\* The channel is registered before SUB is sent.
SubscribeRegister(c) ==
    /\ Running
    /\ pc[c] = "idle"
    /\ Op[c] = "Subscribe"
    /\ ~closed
    /\ subs[Queue[c]] = None
    /\ subs' = [subs EXCEPT ![Queue[c]] = c]
    /\ open' = open \cup {c}
    /\ Goto(c, "sending")
    /\ UNCHANGED <<closed, sentCmds, resp, buf, wireVars, endVars, ctxDone, fault>>

-----------------------------------------------------------------------------
(* send.                                                                    *)

\* Encoding or authorizing failed, or the client is closed.
SendRefused(c) ==
    /\ Running
    /\ pc[c] = "sending"
    /\ \/ Fail(c, "errEncode")
       \/ closed /\ Fail(c, "ErrClientClosed")
    /\ UNCHANGED <<clientVars, chanVars, wireVars, endVars, ctxDone, fault>>

MayRegisterAlways == TRUE  \* mutant: send does not look at c.closed
MayRegister == ~closed

SendRegister(c) ==
    /\ Running
    /\ pc[c] = "sending"
    /\ MayRegister
    /\ sentCmds' = sentCmds \cup {c}
    /\ Goto(c, "writing")
    /\ UNCHANGED <<closed, subs, chanVars, wireVars, endVars, ctxDone, fault>>

\* WriteBlock runs outside c.mu: the block leaves before the call returns, so
\* the answer may overtake the return.
WriteOut(c) ==
    /\ Running
    /\ pc[c] = "writing"
    /\ ~txClosed
    /\ written' = written \cup {c}
    /\ Goto(c, "written")
    /\ UNCHANGED <<clientVars, chanVars, taken, endVars, ctxDone, fault>>

WriteDone(c) ==
    /\ Running
    /\ pc[c] = "written"
    /\ Goto(c, "waiting")
    /\ UNCHANGED <<clientVars, chanVars, wireVars, endVars, ctxDone, fault>>

ForgetNothing(c) == sentCmds  \* mutant

\* delete(c.sentCmds, cid): what send does when it stops waiting.
Forget(c) == sentCmds \ {c}

\* A deadline, a closed transport or an oversize payload; the block may have
\* left all the same.
WriteFail(c) ==
    /\ Running
    /\ pc[c] \in {"writing", "written"}
    /\ sentCmds' = Forget(c)
    /\ Fail(c, "errWrite")
    /\ UNCHANGED <<closed, subs, chanVars, wireVars, endVars, ctxDone, fault>>

Expected == [Ping |-> {"PONG"}, Send |-> {"OK"}, Ack |-> {"OK"},
             NewQueue |-> {"IDS"}, Subscribe |-> {"OK", "MSG"}]

\* Mutant: r.err is not looked at.
VerdictOfMsg(c) == IF resp[c].type = "ERR" THEN "ErrMsg" ELSE "ok"

\* The error a received result amounts to, or "ok".
Verdict(c) ==
    LET type == resp[c].type IN
    IF type \in LocalErrors THEN type
    ELSE IF type = "ERR" THEN "ErrMsg"
    ELSE IF type \in Expected[Op[c]] THEN "ok"
    ELSE "errUnexpected"

\* Mutant: the message that came as the answer to SUB goes nowhere.
ReceiveAnyResponse(c) ==
    /\ Running
    /\ pc[c] = "waiting"
    /\ resp[c] # NoResp
    /\ IF Verdict(c) = "ok" THEN Return(c, "ok") ELSE Fail(c, Verdict(c))
    /\ UNCHANGED <<clientVars, chanVars, wireVars, endVars, ctxDone, fault>>

\* The response branch of the select.  Whoever filled the response channel has
\* deleted the entry of sentCmds.
ReceiveResponse(c) ==
    /\ Running
    /\ pc[c] = "waiting"
    /\ resp[c] # NoResp
    /\ \/ Verdict(c) # "ok" /\ Fail(c, Verdict(c))
       \/ Verdict(c) = "ok" /\ resp[c].type = "MSG" /\ Goto(c, "pushing")
       \/ Verdict(c) = "ok" /\ resp[c].type # "MSG" /\ Return(c, "ok")
    /\ UNCHANGED <<clientVars, chanVars, wireVars, endVars, ctxDone, fault>>

\* The ctx.Done branch; Go picks either branch when both are ready.
ContextDone(c) ==
    /\ Running
    /\ pc[c] = "waiting"
    /\ c \in ctxDone
    /\ sentCmds' = Forget(c)
    /\ Fail(c, "errCtx")
    /\ UNCHANGED <<closed, subs, chanVars, wireVars, endVars, ctxDone, fault>>

-----------------------------------------------------------------------------
(* Subscribe after send.                                                    *)

\* A message that came as the answer to SUB is put in the channel: a blocking
\* send, which panics if the channel has been closed.
PushInline(c) ==
    /\ Running
    /\ pc[c] = "pushing"
    /\ \/ /\ c \notin open
          /\ fault' = "subscribe"
          /\ UNCHANGED <<callVars, buf>>
       \/ /\ c \in open
          /\ HasRoom(c)
          /\ buf' = [buf EXCEPT ![c] = Append(@, resp[c].id)]
          /\ Return(c, "ok")
          /\ UNCHANGED fault
    /\ UNCHANGED <<clientVars, resp, open, wireVars, endVars, ctxDone>>

\* delete(c.subs, key), whoever is registered there by now.
Unregister(c) ==
    /\ Running
    /\ pc[c] = "unregister"
    /\ subs' = [subs EXCEPT ![Queue[c]] = None]
    /\ Goto(c, "closing")
    /\ UNCHANGED <<closed, sentCmds, chanVars, wireVars, endVars, ctxDone, fault>>

\* close(ch) outside c.mu; closing a closed channel panics.
CloseOwn(c) ==
    /\ Running
    /\ pc[c] = "closing"
    /\ \/ /\ c \notin open
          /\ fault' = "subscribe"
          /\ UNCHANGED <<callVars, open>>
       \/ /\ c \in open
          /\ open' = open \ {c}
          /\ Goto(c, "returned")
          /\ UNCHANGED fault
    /\ UNCHANGED <<clientVars, resp, buf, wireVars, endVars, ctxDone>>

-----------------------------------------------------------------------------
(* Ending the session: what Close and the reader do under c.mu.             *)

Registered == {subs[q] : q \in Queues} \ {None}

NotPending == {}          \* mutant: the pending commands are dropped unanswered
Pending == sentCmds

LeftOpen == open          \* mutant: the subscriber channels are not closed
OpenAfterDrain == open \ Registered

\* Every pending command is given the error, every registered channel is
\* closed, both maps are emptied.  A second send on a response channel, or a
\* second close of a subscriber channel, would panic.
Drain(err) ==
    /\ closed' = TRUE
    /\ sentCmds' = {}
    /\ subs' = [q \in Queues |-> None]
    /\ resp' = [c \in Calls |-> IF c \in Pending THEN Broker(err, None) ELSE resp[c]]
    /\ open' = OpenAfterDrain
    /\ fault' = IF (\A c \in sentCmds : resp[c] = NoResp) /\ Registered \subseteq open
                THEN fault ELSE "drain"
    /\ UNCHANGED <<callVars, buf, wireVars, ctxDone>>

CloseBegin(k) ==
    /\ Running
    /\ closer[k] = "idle"
    /\ ~closed
    /\ Drain("ErrClientClosed")
    /\ closer' = [closer EXCEPT ![k] = "closing"]
    /\ UNCHANGED <<readerDone, txClosed>>

\* Another Close, or a read error, has been there before.
CloseAgain(k) ==
    /\ Running
    /\ closer[k] = "idle"
    /\ closed
    /\ closer' = [closer EXCEPT ![k] = "noop"]
    /\ UNCHANGED <<clientVars, callVars, chanVars, wireVars, readerDone, txClosed,
                   ctxDone, fault>>

CloseTx(k) ==
    /\ Running
    /\ closer[k] = "closing"
    /\ txClosed' = TRUE
    /\ closer' = [closer EXCEPT ![k] = "joining"]
    /\ UNCHANGED <<clientVars, callVars, chanVars, wireVars, readerDone, ctxDone, fault>>

CloseJoin(k) ==
    /\ Running
    /\ closer[k] = "joining"
    /\ readerDone
    /\ closer' = [closer EXCEPT ![k] = "returned"]
    /\ UNCHANGED <<clientVars, callVars, chanVars, wireVars, readerDone, txClosed,
                   ctxDone, fault>>

-----------------------------------------------------------------------------
(* The reader goroutine.                                                    *)

Take ==
    /\ Running
    /\ ~readerDone
    /\ taken < MaxTaken
    /\ taken' = taken + 1
    /\ UNCHANGED written

KeepPending(c) == sentCmds       \* mutant: the answered entry stays
AfterAnswer(c) == sentCmds \ {c}

\* Mutant: a message is given to the subscriber as well as to the caller.
DispatchReplyTwice(c, msg) ==
    /\ Take
    /\ c \in sentCmds /\ c \in written
    /\ resp' = [resp EXCEPT ![c] = msg]
    /\ sentCmds' = AfterAnswer(c)
    /\ buf' = IF msg.type = "MSG" THEN [buf EXCEPT ![c] = Append(@, msg.id)] ELSE buf
    /\ UNCHANGED <<closed, subs, callVars, open, endVars, ctxDone, fault>>

\* A response to a command that is still pending.
DispatchReply(c, msg) ==
    /\ Take
    /\ c \in sentCmds
    /\ c \in written
    /\ resp' = [resp EXCEPT ![c] = msg]
    /\ sentCmds' = AfterAnswer(c)
    /\ fault' = IF resp[c] = NoResp THEN fault ELSE "dispatch"
    /\ UNCHANGED <<closed, subs, callVars, open, buf, endVars, ctxDone>>

\* A message pushed to a subscribed queue; dropped when the channel is full.
DispatchMsg(q, m) ==
    /\ Take
    /\ subs[q] # None
    /\ LET c == subs[q] IN
       /\ buf' = IF HasRoom(c) THEN [buf EXCEPT ![c] = Append(@, m)] ELSE buf
       /\ fault' = IF c \in open THEN fault ELSE "dispatch"
    /\ UNCHANGED <<clientVars, callVars, resp, open, endVars, ctxDone>>

KeepSub(q) == subs               \* mutant: END leaves the channel registered
AfterEnd(q) == [subs EXCEPT ![q] = None]

\* END: another connection has subscribed to the queue.
DispatchEnd(q) ==
    /\ Take
    /\ subs[q] # None
    /\ open' = open \ {subs[q]}
    /\ subs' = AfterEnd(q)
    /\ fault' = IF subs[q] \in open THEN fault ELSE "dispatch"
    /\ UNCHANGED <<closed, sentCmds, callVars, resp, buf, endVars, ctxDone>>

\* A malformed block, a command that does not parse, an answer nobody waits
\* for, an event for a queue nobody is subscribed to.
DropTransmission ==
    /\ Take
    /\ UNCHANGED <<clientVars, callVars, chanVars, endVars, ctxDone, fault>>

ReaderStays == readerDone        \* mutant: the loop goes on after the error
ReaderDoneAfter == TRUE

\* ReadBlock may fail at any time; it does once the transport is closed.
HandleReadError ==
    /\ Running
    /\ ~readerDone
    /\ readerDone' = ReaderDoneAfter
    /\ \/ ~closed /\ Drain("errRead")
       \/ closed /\ UNCHANGED <<clientVars, callVars, chanVars, wireVars, ctxDone, fault>>
    /\ UNCHANGED <<closer, txClosed>>

-----------------------------------------------------------------------------
(* The callers' contexts, and the goroutine that consumes a subscription.   *)

Cancel(c) ==
    /\ Running
    /\ pc[c] # "returned"
    /\ c \notin ctxDone
    /\ ctxDone' = ctxDone \cup {c}
    /\ UNCHANGED <<clientVars, callVars, chanVars, wireVars, endVars, fault>>

\* The channel is in nobody's hands before Subscribe has returned it.
Receive(c) ==
    /\ Running
    /\ Op[c] = "Subscribe"
    /\ outcome[c] = "ok"
    /\ buf[c] # <<>>
    /\ buf' = [buf EXCEPT ![c] = Tail(@)]
    /\ UNCHANGED <<clientVars, callVars, resp, open, wireVars, endVars, ctxDone, fault>>

-----------------------------------------------------------------------------
Begin(c) == Start(c) \/ SubscribeRefused(c) \/ SubscribeRegister(c)
BeginSend(c) == SendRefused(c) \/ SendRegister(c)
Write(c) == WriteOut(c) \/ WriteDone(c) \/ WriteFail(c)
Select(c) == ReceiveResponse(c) \/ ContextDone(c)
Settle(c) == PushInline(c) \/ Unregister(c) \/ CloseOwn(c)
Call(c) == Begin(c) \/ BeginSend(c) \/ Write(c) \/ Select(c) \/ Settle(c)

Close(k) == CloseBegin(k) \/ CloseAgain(k) \/ CloseTx(k) \/ CloseJoin(k)

Reader ==
    \/ \E c \in Calls, msg \in Replies : DispatchReply(c, msg)
    \/ \E q \in Queues, m \in Msgs : DispatchMsg(q, m)
    \/ \E q \in Queues : DispatchEnd(q)
    \/ DropTransmission
    \/ HandleReadError

Environment == \E c \in Calls : Cancel(c) \/ Receive(c)

\* The process has panicked, or every goroutine has come to its end.
Finished ==
    \/ ~Running
    \/ /\ \A c \in Calls : pc[c] = "returned"
       /\ \A k \in Closers : closer[k] \in {"returned", "noop"}
       /\ readerDone

Halted == Finished /\ UNCHANGED vars

Next ==
    \/ \E c \in Calls : Call(c)
    \/ \E k \in Closers : Close(k)
    \/ Reader
    \/ Environment
    \/ Halted

Spec == Init /\ [][Next]_vars

-----------------------------------------------------------------------------
(* Fairness.                                                                *)

\* Go runs every goroutine that can move.  Whether a call is made, and whether
\* a context ends, is the caller's choice.
FairGoroutines ==
    /\ \A c \in Calls : /\ WF_vars(BeginSend(c))
                       /\ WF_vars(Select(c))
                       /\ WF_vars(Settle(c))
    /\ \A k \in Closers : WF_vars(CloseTx(k)) /\ WF_vars(CloseJoin(k))

\* A closed transport ends the reads and writes in progress, and a write whose
\* block has left is over.  Nothing is said of other writes: WriteBlock waits for
\* the peer to read and does not watch the context.
FairTransport ==
    /\ WF_vars(txClosed /\ HandleReadError)
    /\ \A c \in Calls : /\ WF_vars(txClosed /\ WriteFail(c))
                       /\ WF_vars(WriteDone(c))

FairSpec == Spec /\ FairGoroutines /\ FairTransport

-----------------------------------------------------------------------------
(* Invariants.                                                              *)

\* A command is in sentCmds only while its caller is inside send and nothing
\* has been put in its response channel.  So the sends on response channels
\* under c.mu find room and an open channel, and no entry outlives its call.
PendingUnanswered ==
    \A c \in sentCmds : pc[c] \in InSend /\ resp[c] = NoResp

\* A caller inside send whose entry is gone has been given its result: no call
\* waits for an answer that the reader could no longer match to it.
NoStranded ==
    \A c \in Calls : pc[c] \in InSend /\ c \notin sentCmds => resp[c] # NoResp

\* Once closed is set, by Close or by a read error, nothing is registered ever
\* after: no call that raced the shutdown is left to wait for a dead reader.
ClosedDrained ==
    closed => sentCmds = {} /\ Registered = {}

\* A registered channel is open, and is that of a Subscribe to that queue which
\* has not reached its own close(ch): dispatch and the drains never send on or
\* close a closed channel.
RegisteredOpen ==
    \A q \in Queues : LET c == subs[q] IN
        c # None => /\ c \in open
                    /\ Queue[c] = q /\ Op[c] = "Subscribe"
                    /\ pc[c] \notin {"idle", "closing"}

\* The code under c.mu never panics: neither the reader's dispatch nor the
\* drains of Close and handleReadError.
LockedCodeNeverPanics == fault \notin {"dispatch", "drain"}

\* An open channel is registered, so that whoever ends the session closes it,
\* or its Subscribe is about to close it.  The one way to lose a registration
\* with the channel still open is another Subscribe of the same queue that
\* failed after END had ended its registration, deleted this one for its own,
\* and is about to panic on its second close.
NoOrphanChannel ==
    \A c \in open : pc[c] # "closing" =>
        \/ subs[Queue[c]] = c
        \/ \E d \in Calls : /\ Op[d] = "Subscribe" /\ Queue[d] = Queue[c]
                           /\ pc[d] = "closing" /\ d \notin open

-----------------------------------------------------------------------------
(* Refinement: what the callers see is a RequestReply.                      *)

Status(c) == IF outcome[c] = "ok" THEN "ok"
             ELSE IF outcome[c] # "none" THEN "failed"
             ELSE IF pc[c] \in {"idle", "sending"} THEN "idle"
             ELSE "pending"

Abstract == INSTANCE RequestReply WITH
    up <- ~closed,
    st <- [c \in Calls |-> Status(c)],
    answered <- {c \in Calls : resp[c] \in Replies}

\* A call ends at most once and succeeds only on the peer's answer to that very
\* call, taken before the shutdown.
RequestReplySpec == Abstract!Spec

-----------------------------------------------------------------------------
(* Liveness.                                                                *)

\* A call in WriteBlock, on an open transport.
Writing(c) == pc[c] = "writing" /\ ~txClosed

\* A Subscribe stuck in "ch <- m.Msg": the peer has filled the channel before
\* it answered SUB with one more message, and nobody consumes it yet.
Wedged(c) == pc[c] = "pushing" /\ ~HasRoom(c)

\* A call whose context is done, or that the end of the session catches,
\* returns, or the process panics.  There are two things only that can hold it,
\* and they hold it for ever: a peer that does not read, as long as nobody closes
\* the transport, and a channel that was filled before Subscribe returned it.
CallsEnd ==
    \A c \in Calls :
        \/ (pc[c] # "idle" /\ (closed \/ c \in ctxDone))
                ~> (pc[c] = "returned" \/ fault # "none")
        \/ <>[]Writing(c)
        \/ <>[]Wedged(c)

\* The Close that shuts the client down comes back: closing the transport ends
\* the reader it waits for.
CloseReturns ==
    \A k \in Closers : closer[k] = "closing" ~> (closer[k] = "returned" \/ fault # "none")

-----------------------------------------------------------------------------
(* What the documentation says, and the code does not do.                   *)

\* ErrClientClosed "is returned from blocking methods when Client.Close was
\* called": no method call ends in a panic instead.
NoPanic == fault = "none"

\* "Close terminates the SMP session: closes the underlying transport": the
\* transport is closed once any Close has returned and none is under way.
CloseClosesTransport ==
    (\E k \in Closers : closer[k] = "noop") /\ (\A k \in Closers : closer[k] # "closing")
        => txClosed
=============================================================================
