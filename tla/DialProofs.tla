----------------------------- MODULE DialProofs -----------------------------
(***************************************************************************)
(* Proofs about Dial, for every server, every network and every timeout:   *)
(* what Dial promises, and the version that is negotiated.                 *)
(***************************************************************************)
EXTENDS Dial, TLAPS

-----------------------------------------------------------------------------
(* The version.                                                            *)

RealHello(h) == h \in Hellos /\ h.kind = "hello"

LEMMA HelloFields ==
    ASSUME NEW h, RealHello(h)
    PROVE  /\ h.min \in Nat /\ h.max \in Nat
           /\ h.sess \in Sessions
           /\ h.auth \in {"none", "key32", "blob"}
<1>1. h \in [kind : {"hello"}, min : Versions, max : Versions,
              sess : Sessions, auth : {"none", "key32", "blob"}]
  <2>1. h # [kind |-> "garbage"]
    BY DEF RealHello
  <2> QED BY <2>1 DEF RealHello, Hellos
<1> QED BY <1>1, DialAssumption

Common(h) == (6..7) \cap (h.min..h.max)

\* NegotiateVersion returns the highest version both sides know, and fails
\* exactly when they know none in common.
THEOREM HighestCommonVersion ==
    ASSUME NEW h, RealHello(h)
    PROVE  /\ NegotiateVersion(h) = 0 <=> Common(h) = {}
           /\ NegotiateVersion(h) # 0 =>
                 /\ NegotiateVersion(h) \in Common(h)
                 /\ \A v \in Common(h) : v <= NegotiateVersion(h)
<1> DEFINE lo == Higher(MinClientVersion, h.min)
           hi == Lower(MaxClientVersion, h.max)
<1>1. h.min \in Nat /\ h.max \in Nat
  BY HelloFields
<1>2. lo \in Nat /\ hi \in Nat /\ 6 <= lo /\ h.min <= lo /\ hi <= 7 /\ hi <= h.max
  BY <1>1 DEF Higher, Lower, MinClientVersion, MaxClientVersion
<1>3. \A v \in Common(h) : lo <= v /\ v <= hi
  BY <1>1 DEF Common, Higher, Lower, MinClientVersion, MaxClientVersion
<1>4. NegotiateVersion(h) = IF lo > hi THEN 0 ELSE hi
  BY DEF NegotiateVersion
<1>5. CASE lo > hi
  <2>1. Common(h) = {}
    BY <1>2, <1>3, <1>5 DEF Common
  <2> QED BY <1>4, <1>5, <2>1
<1>6. CASE ~(lo > hi)
  <2>1. hi \in Common(h)
    BY <1>1, <1>2, <1>6 DEF Common
  <2>2. NegotiateVersion(h) = hi /\ hi # 0
    BY <1>2, <1>4, <1>6
  <2> QED BY <1>3, <2>1, <2>2
<1> QED BY <1>5, <1>6

LEMMA HelloSent ==
    ASSUME NEW h, RealHello(h), Acceptable(h)
    PROVE  /\ ClientHello(h) \in ClientHellos
           /\ Params(h) \in HandshakeParams
           /\ ClientHello(h) # NoHello
           /\ ClientHello(h).version = NegotiateVersion(h)
           /\ Params(h).version = NegotiateVersion(h)
           /\ Params(h).sess = sessionID
<1>1. NegotiateVersion(h) \in 6..7
  BY HighestCommonVersion DEF Acceptable, Common
<1>2. ClientHello(h).kind = "hello" /\ NoHello.kind = "none"
  BY DEF ClientHello, NoHello
<1>3. sessionID \in Sessions
  BY HelloFields DEF Acceptable
<1> QED BY <1>1, <1>2, <1>3 DEF ClientHello, Params, V7, ClientHellos, HandshakeParams

-----------------------------------------------------------------------------
(* The inductive invariant.                                                *)

\* Where Dial is and what it has, and that what it has told the server it told
\* after its checks: the properties at the end speak of the end only.
Progress ==
    /\ pc \in {"idle", "tcp"} => sock = "none"
    /\ pc \in {"tls", "hello", "reply", "client", "lost"} => sock = "open"
    /\ pc = "error" => sock # "open"
    /\ pc \in {"hello", "reply", "client"} => VerifyConnection(chain)
    /\ pc \in {"reply", "client"} => RealHello(hello) /\ Acceptable(hello)
    /\ pc \in {"idle", "tcp", "tls", "hello", "reply"} => sent = NoHello
    /\ sent # NoHello =>
          /\ VerifyConnection(chain) /\ RealHello(hello) /\ Acceptable(hello)
          /\ sent = ClientHello(hello)
    /\ pc \in {"client", "lost"} => sent # NoHello /\ params = Params(hello)

Inv == TypeOK /\ Progress

Deadlines == [dial : Nat, read : Nat, write : Nat]

LEMMA ConfigFields ==
    ASSUME TypeOK
    PROVE  /\ cfg.dial \in Nat /\ cfg.io \in Nat /\ cfg.ctx \in Nat
           /\ now \in Nat /\ since \in Nat
           /\ deadline.dial \in Nat /\ deadline.read \in Nat /\ deadline.write \in Nat
BY DialAssumption DEF TypeOK

LEMMA LimitsAreNats ==
    ASSUME TypeOK
    PROVE  /\ Earliest(After(now, cfg.dial), cfg.ctx) \in Nat
           /\ After(now, cfg.io) \in Nat
           /\ BlockDeadline \in Nat
BY ConfigFields DEF Earliest, After, BlockDeadline, Lower

\* What setting and clearing does to each deadline.
LEMMA Set ==
    ASSUME TypeOK, NEW d \in Deadlines, NEW t \in Nat
    PROVE  /\ ReadApplied(d, t) \in Deadlines
           /\ ReadApplied(d, t).read = IF t = 0 THEN d.read ELSE t
           /\ ReadApplied(d, t).write = d.write
           /\ WriteApplied(d, t) \in Deadlines
           /\ WriteApplied(d, t).write = IF t = 0 THEN d.write ELSE t
           /\ WriteApplied(d, t).read = d.read
BY DEF Deadlines, ReadApplied, WriteApplied

LEMMA Cleared ==
    ASSUME TypeOK, NEW d \in Deadlines
    PROVE  /\ ReadCleared(d) \in Deadlines
           /\ ReadCleared(d).read = 0 /\ ReadCleared(d).write = d.write
           /\ WriteCleared(d) \in Deadlines
           /\ WriteCleared(d).write = 0 /\ WriteCleared(d).read = d.read
BY DEF Deadlines, ReadCleared, WriteCleared

LEMMA DialSet ==
    ASSUME TypeOK, NEW d \in Deadlines
    PROVE  /\ DialApplied(d) \in Deadlines
           /\ d.read = 0 /\ d.write = 0 =>
                 /\ DialApplied(d).read = After(now, cfg.dial)
                 /\ DialApplied(d).write = After(now, cfg.dial)
           /\ DialCleared(d) \in Deadlines
           /\ DialCleared(d).read = IF cfg.dial = 0 THEN d.read ELSE 0
           /\ DialCleared(d).write = IF cfg.dial = 0 THEN d.write ELSE 0
<1>1. CASE cfg.dial = 0
  BY <1>1 DEF DialApplied, DialCleared, After
<1>2. CASE cfg.dial # 0
  <2>1. /\ DialApplied(d) = [d EXCEPT !.read = now + cfg.dial, !.write = now + cfg.dial]
        /\ DialCleared(d) = [d EXCEPT !.read = 0, !.write = 0]
        /\ After(now, cfg.dial) = now + cfg.dial /\ now + cfg.dial \in Nat
    BY <1>2, ConfigFields DEF DialApplied, DialCleared, After
  <2>2. d.dial \in Nat /\ d.read \in Nat /\ d.write \in Nat
    BY DEF Deadlines
  <2> DEFINE t == now + cfg.dial
             a == [d EXCEPT !.read = t, !.write = t]
             c == [d EXCEPT !.read = 0, !.write = 0]
  <2>3. t \in Nat
    BY ConfigFields
  <2> HIDE DEF t
  <2>4. a \in Deadlines /\ a.read = t /\ a.write = t
    BY <2>3 DEF Deadlines
  <2>5. c \in Deadlines /\ c.read = 0 /\ c.write = 0
    BY DEF Deadlines
  <2>6. DialApplied(d) = a /\ DialCleared(d) = c /\ After(now, cfg.dial) = t
    BY <2>1 DEF t
  <2> HIDE DEF a, c
  <2> QED BY <1>2, <2>4, <2>5, <2>6
<1> QED BY <1>1, <1>2

LEMMA NoneSet ==
    /\ NoDeadline \in Deadlines
    /\ NoDeadline.dial = 0 /\ NoDeadline.read = 0 /\ NoDeadline.write = 0
BY DEF NoDeadline, Deadlines

LEMMA DeadlineTyped == TypeOK => deadline \in Deadlines
BY DEF TypeOK, Deadlines

\* Whatever a step does with the deadlines, they are moments or none.
LEMMA DeadlineStep == TypeOK /\ [Next]_vars => deadline' \in [dial : Nat, read : Nat, write : Nat]
<1> SUFFICES ASSUME TypeOK, [Next]_vars PROVE deadline' \in Deadlines
  BY DEF Deadlines
<1> USE DeadlineTyped, NoneSet, LimitsAreNats
<1>1. CASE Start
  BY <1>1 DEF Start, Deadlines
<1>2. CASE TcpOpens
  BY <1>2, DialSet DEF TcpOpens
<1>3. CASE TlsDone
  <2>1. DialCleared(deadline) \in Deadlines
    BY DialSet
  <2> QED BY <1>3, <2>1, Set DEF TlsDone
<1>4. CASE HelloAccepted
  <2>1. ReadCleared(deadline) \in Deadlines
    BY Cleared
  <2> QED BY <1>4, <2>1, Set DEF HelloAccepted
<1>5. CASE Connected
  <2>1. WriteCleared(deadline) \in Deadlines
    BY Cleared
  <2> QED BY <1>5, <2>1, Set DEF Connected
<1>6. CASE ReaderTakes
  <2>1. ReadCleared(deadline) \in Deadlines
    BY Cleared
  <2> QED BY <1>6, <2>1, Set DEF ReaderTakes
<1>7. CASE ReaderFails
  BY <1>7, Cleared DEF ReaderFails
<1>8. CASE TcpFails \/ TlsFails \/ TlsRefuses \/ ReadFails \/ HelloRefused \/ WriteFails
  BY <1>8 DEF TcpFails, TlsFails, TlsRefuses, ReadFails, HelloRefused, WriteFails, Fail
<1>9. CASE Tick \/ Cancel \/ UNCHANGED vars
  BY <1>9 DEF Tick, Cancel, vars
<1> QED BY <1>1, <1>2, <1>3, <1>4, <1>5, <1>6, <1>7, <1>8, <1>9 DEF Next

LEMMA InvInit == Init => Inv
<1> SUFFICES ASSUME Init PROVE Inv
  OBVIOUS
<1>1. <<>> \in Seq(Certs)
  OBVIOUS
<1>2. TypeOK
  <2>1. deadline \in [dial : Nat, read : Nat, write : Nat]
    BY NoneSet DEF Init, Deadlines
  <2>2. ctxDone \in BOOLEAN
    BY DEF Init
  <2> QED BY <1>1, <2>1, <2>2 DEF Init, TypeOK
<1>3. Progress
  BY DEF Init, Progress
<1> QED BY <1>2, <1>3 DEF Inv

LEMMA InvStep == Inv /\ [Next]_vars => Inv'
<1> SUFFICES ASSUME Inv, [Next]_vars PROVE Inv'
  OBVIOUS
<1> USE DEF Inv
<1>0. deadline' \in [dial : Nat, read : Nat, write : Nat]
  BY DeadlineStep
<1>1. CASE Start
  BY <1>0, <1>1 DEF Start, TypeOK, Progress, Acceptable, Params, inputs
<1>2. CASE TcpFails
  BY <1>0, <1>2 DEF TcpFails, TypeOK, Progress, Acceptable, Params, inputs
<1>3. CASE TcpOpens
  BY <1>0, <1>3 DEF TcpOpens, TypeOK, Progress, Acceptable, Params, inputs
<1>4. CASE TlsFails
  BY <1>0, <1>4 DEF TlsFails, Fail, TypeOK, Progress, Acceptable, Params, inputs
<1>5. CASE TlsRefuses
  BY <1>0, <1>5, DialAssumption
     DEF TlsRefuses, Fail, TypeOK, Progress, Acceptable, Params, inputs
<1>6. CASE TlsDone
  BY <1>0, <1>6, DialAssumption DEF TlsDone, TypeOK, Progress, Acceptable, Params, inputs
<1>7. CASE ReadFails
  BY <1>0, <1>7 DEF ReadFails, Fail, TypeOK, Progress, Acceptable, Params, inputs
<1>8. CASE HelloRefused
  BY <1>0, <1>8 DEF HelloRefused, Fail, TypeOK, Progress, Acceptable, Params, inputs
<1>9. CASE HelloAccepted
  <2>1. PICK h \in Hellos : Acceptable(h) /\ hello' = h
    BY <1>9 DEF HelloAccepted
  <2>2. RealHello(h)
    BY <2>1 DEF RealHello, Acceptable
  <2>3. Acceptable(hello)'
    BY <1>9, <2>1 DEF HelloAccepted, Acceptable, inputs
  <2>4. TypeOK'
    BY <1>0, <1>9, <2>1 DEF HelloAccepted, TypeOK, inputs
  <2>5. Progress'
    BY <1>9, <2>1, <2>2, <2>3 DEF HelloAccepted, Progress, inputs
  <2> QED BY <2>4, <2>5
<1>10. CASE WriteFails
  BY <1>0, <1>10, HelloSent
     DEF WriteFails, Fail, TypeOK, Progress, Acceptable, Params, inputs
<1>11. CASE Connected
  BY <1>0, <1>11, HelloSent DEF Connected, TypeOK, Progress, Acceptable, Params, inputs
<1>12. CASE ReaderTakes
  BY <1>0, <1>12 DEF ReaderTakes, TypeOK, Progress, Acceptable, Params, inputs
<1>13. CASE ReaderFails
  BY <1>0, <1>13 DEF ReaderFails, TypeOK, Progress, Acceptable, Params, inputs
<1>14. CASE Tick
  BY <1>0, <1>14, ConfigFields DEF Tick, TypeOK, Progress, Acceptable, Params, inputs
<1>15. CASE Cancel
  BY <1>0, <1>15 DEF Cancel, TypeOK, Progress, Acceptable, Params, inputs
<1>16. CASE UNCHANGED vars
  BY <1>0, <1>16 DEF vars, TypeOK, Progress, Acceptable, Params, inputs
<1> QED BY <1>1, <1>2, <1>3, <1>4, <1>5, <1>6, <1>7, <1>8, <1>9, <1>10, <1>11,
           <1>12, <1>13, <1>14, <1>15, <1>16 DEF Next

THEOREM InductiveInvariant == Spec => []Inv
BY InvInit, InvStep, PTL DEF Spec

-----------------------------------------------------------------------------
(* What it gives.                                                          *)

\* Types, whatever the server says.
THEOREM TypeCorrect == Spec => []TypeOK
BY InductiveInvariant, PTL DEF Inv

\* An error leaves no connection behind, and a Client has one.
THEOREM NothingLeftOpenAlways == Spec => []NothingLeftOpen
<1>1. Inv => NothingLeftOpen
  BY DEF Inv, Progress, NothingLeftOpen
<1> QED BY <1>1, InductiveInvariant, PTL

\* The client speaks only to the pinned server, once it has named the caller's
\* session, in the highest common version.
THEOREM OnlyToTheRightServerAlways == Spec => []OnlyToTheRightServer
<1>1. Inv => OnlyToTheRightServer
  <2> SUFFICES ASSUME Inv, sent # NoHello \/ pc = "client" PROVE
          /\ Len(chain) \in 2..4 /\ \E i \in 1..Len(chain) : chain[i] \in Pinned
          /\ hello.kind = "hello" /\ hello.sess = sessionID
          /\ sent # NoHello => sent.version \in (6..7) \cap (hello.min..hello.max)
          /\ sent # NoHello =>
                \A v \in (6..7) \cap (hello.min..hello.max) : v <= sent.version
    BY DEF OnlyToTheRightServer
  <2>1. /\ VerifyConnection(chain) /\ RealHello(hello) /\ Acceptable(hello)
        /\ sent = ClientHello(hello)
    BY DEF Inv, Progress
  <2>2. NegotiateVersion(hello) # 0 /\ sent.version = NegotiateVersion(hello)
    BY <2>1, HelloSent DEF Acceptable
  <2>3. /\ NegotiateVersion(hello) \in Common(hello)
        /\ \A v \in Common(hello) : v <= NegotiateVersion(hello)
    BY <2>1, <2>2, HighestCommonVersion
  <2> QED BY <2>1, <2>2, <2>3 DEF VerifyConnection, RealHello, Acceptable, Common
<1> QED BY <1>1, InductiveInvariant, PTL

\* Server and Client go by the same version, session and keys.
THEOREM BothAgreeAlways == Spec => []BothAgree
<1>1. Inv => BothAgree
  <2> SUFFICES ASSUME Inv, pc = "client"
               PROVE  /\ params.version = sent.version
                      /\ params.sess = hello.sess
                      /\ params.peerKey # "none" =>
                            sent.key /\ params.version >= 7 /\ hello.auth = "key32"
    BY DEF BothAgree
  <2>1. /\ RealHello(hello) /\ Acceptable(hello)
        /\ sent = ClientHello(hello) /\ params = Params(hello)
    BY DEF Inv, Progress
  <2>2. /\ sent.version = NegotiateVersion(hello)
        /\ params.version = NegotiateVersion(hello)
        /\ params.sess = hello.sess
    BY <2>1, HelloSent DEF Acceptable
  <2>3. params.peerKey # "none" => NegotiateVersion(hello) >= 7 /\ hello.auth = "key32"
    BY <2>1 DEF Params, V7
  <2>4. NegotiateVersion(hello) >= 7 => sent.key
    BY <2>1 DEF ClientHello, V7
  <2> QED BY <2>2, <2>3, <2>4
<1> QED BY <1>1, InductiveInvariant, PTL

-----------------------------------------------------------------------------
(* Time.                                                                   *)

\* The deadline that each wait should have, and the one on the connection that
\* no wait is at.
Armed ==
    /\ pc = "idle" => deadline.read = 0 /\ deadline.write = 0
    /\ pc = "tcp" => deadline.dial = Earliest(After(since, cfg.dial), cfg.ctx)
    /\ pc = "tls" => /\ deadline.read = After(since, cfg.dial)
                     /\ deadline.write = After(since, cfg.dial)
    /\ pc = "hello" => /\ deadline.read = Earliest(After(since, cfg.io), cfg.ctx)
                       /\ deadline.write = 0
    /\ pc = "reply" => /\ deadline.read = 0
                       /\ deadline.write = Earliest(After(since, cfg.io), cfg.ctx)
    /\ pc = "client" => /\ deadline.read = After(since, cfg.io)
                        /\ deadline.write = 0

LEMMA ArmedInit == Init => Armed
BY NoneSet DEF Init, Armed

LEMMA ArmedStep == TypeOK /\ Armed /\ [Next]_vars => Armed'
<1> SUFFICES ASSUME TypeOK, Armed, [Next]_vars PROVE Armed'
  OBVIOUS
<1>0. /\ deadline \in Deadlines
      /\ BlockDeadline \in Nat /\ After(now, cfg.io) \in Nat
      /\ BlockDeadline = Earliest(After(now, cfg.io), cfg.ctx)
  BY DeadlineTyped, LimitsAreNats DEF BlockDeadline
<1>1. CASE Start
  <2>1. deadline'.dial = Earliest(After(since', cfg'.dial), cfg'.ctx)
    BY <1>0, <1>1 DEF Start, Deadlines, inputs, After
  <2>2. pc' = "tcp"
    BY <1>1 DEF Start
  <2> QED BY <2>1, <2>2 DEF Armed
<1>2. CASE TcpOpens
  <2>1. /\ deadline'.read = After(now, cfg.dial)
        /\ deadline'.write = After(now, cfg.dial)
    BY <1>2, DialSet, NoneSet DEF TcpOpens
  <2>2. pc' = "tls" /\ since' = now /\ cfg' = cfg
    BY <1>2 DEF TcpOpens, inputs
  <2> QED BY <2>1, <2>2 DEF Armed, After
<1>3. CASE TlsDone
  <2> DEFINE d == DialCleared(deadline)
  <2>1. d \in Deadlines /\ d.read = 0 /\ d.write = 0
    BY <1>0, <1>3, DialSet, ConfigFields DEF TlsDone, Armed, After
  <2>2. deadline' = ReadApplied(d, BlockDeadline)
    BY <1>3 DEF TlsDone
  <2>3. deadline'.read = BlockDeadline /\ deadline'.write = 0
    BY <1>0, <2>1, <2>2, Set
  <2>4. pc' = "hello" /\ since' = now /\ cfg' = cfg
    BY <1>3 DEF TlsDone, inputs
  <2> QED BY <1>0, <2>3, <2>4 DEF Armed, After
<1>4. CASE HelloAccepted
  <2> DEFINE d == ReadCleared(deadline)
  <2>1. d \in Deadlines /\ d.read = 0 /\ d.write = 0
    BY <1>0, <1>4, Cleared DEF HelloAccepted, Armed
  <2>2. deadline' = WriteApplied(d, BlockDeadline)
    BY <1>4 DEF HelloAccepted
  <2>3. deadline'.read = 0 /\ deadline'.write = BlockDeadline
    BY <1>0, <2>1, <2>2, Set
  <2>4. pc' = "reply" /\ since' = now /\ cfg' = cfg
    BY <1>4 DEF HelloAccepted, inputs
  <2> QED BY <1>0, <2>3, <2>4 DEF Armed, After
<1>5. CASE Connected
  <2> DEFINE d == WriteCleared(deadline)
  <2>1. d \in Deadlines /\ d.read = 0 /\ d.write = 0
    BY <1>0, <1>5, Cleared DEF Connected, Armed
  <2>2. deadline' = ReadApplied(d, After(now, cfg.io))
    BY <1>5 DEF Connected
  <2>3. deadline'.read = After(now, cfg.io) /\ deadline'.write = 0
    BY <1>0, <2>1, <2>2, Set
  <2>4. pc' = "client" /\ since' = now /\ cfg' = cfg
    BY <1>5 DEF Connected, inputs
  <2> QED BY <2>3, <2>4 DEF Armed, After
<1>6. CASE ReaderTakes
  <2> DEFINE d == ReadCleared(deadline)
  <2>1. d \in Deadlines /\ d.read = 0 /\ d.write = 0
    BY <1>0, <1>6, Cleared DEF ReaderTakes, Armed
  <2>2. deadline' = ReadApplied(d, After(now, cfg.io))
    BY <1>6 DEF ReaderTakes
  <2>3. deadline'.read = After(now, cfg.io) /\ deadline'.write = 0
    BY <1>0, <2>1, <2>2, Set
  <2>4. pc' = "client" /\ since' = now /\ cfg' = cfg
    BY <1>6 DEF ReaderTakes, inputs
  <2> QED BY <2>3, <2>4 DEF Armed, After
<1>7. CASE \/ TcpFails \/ TlsFails \/ TlsRefuses \/ ReadFails \/ HelloRefused
           \/ WriteFails \/ ReaderFails
  <2>1. pc' \in {"error", "lost"}
    BY <1>7 DEF TcpFails, TlsFails, TlsRefuses, ReadFails, HelloRefused, WriteFails,
                ReaderFails, Fail
  <2> QED BY <2>1 DEF Armed
<1>8. CASE Tick \/ Cancel \/ UNCHANGED vars
  <2>1. UNCHANGED <<pc, since, deadline, cfg>>
    BY <1>8 DEF Tick, Cancel, vars, inputs
  <2> QED BY <2>1 DEF Armed, After
<1> QED BY <1>1, <1>2, <1>3, <1>4, <1>5, <1>6, <1>7, <1>8 DEF Next

\* The wait that is on, and the context, have not been outlasted.  A wait starts
\* with a deadline that is ahead; the TLS handshake has none of the context's,
\* but is interrupted.
Timed ==
    /\ since <= now
    /\ pc = "idle" => now = 1
    /\ Waiting /\ OwnTimeout # 0 => now <= since + OwnTimeout
    /\ cfg.ctx > 0 /\ now >= cfg.ctx => ctxDone
    /\ pc = "idle" \/ Dialling => (cfg.ctx > 0 => now <= cfg.ctx)

\* What Armed makes of the deadline of the wait that is on.
LEMMA LimitOf ==
    ASSUME TypeOK, Armed
    PROVE  /\ Limit \in Nat
           /\ Waiting /\ OwnTimeout # 0 => Limit # 0 /\ Limit <= since + OwnTimeout
           /\ pc \in {"tcp", "hello", "reply"} /\ cfg.ctx > 0 => Limit # 0 /\ Limit <= cfg.ctx
           /\ Waiting /\ Limit # 0 =>
                 \/ OwnTimeout # 0 /\ Limit = since + OwnTimeout
                 \/ Dialling /\ cfg.ctx # 0 /\ Limit = cfg.ctx
<1> USE ConfigFields DEF Waiting, Dialling, OwnTimeout, Earliest, After, Lower
<1>1. CASE pc = "tcp"
  BY <1>1 DEF Limit, Armed
<1>2. CASE pc = "tls"
  BY <1>2 DEF Limit, Armed
<1>3. CASE pc = "hello"
  BY <1>3 DEF Limit, Armed
<1>4. CASE pc = "reply"
  BY <1>4 DEF Limit, Armed
<1>5. CASE pc = "client"
  BY <1>5 DEF Limit, Armed
<1>6. CASE pc \in {"idle", "lost", "error"}
  BY <1>6 DEF Limit
<1> QED BY <1>1, <1>2, <1>3, <1>4, <1>5, <1>6 DEF TypeOK

LEMMA TimedInit == Init => Timed
<1> SUFFICES ASSUME Init PROVE Timed
  OBVIOUS
<1>1. cfg.ctx \in Nat /\ now = 1 /\ since = 1 /\ pc = "idle"
  BY DialAssumption DEF Init
<1>2. cfg.ctx > 0 /\ now >= cfg.ctx => ctxDone
  <2>1. cfg.ctx > 0 /\ now >= cfg.ctx => cfg.ctx = 1
    BY <1>1
  <2> QED BY <2>1 DEF Init
<1> QED BY <1>1, <1>2 DEF Timed, Waiting, Dialling

LEMMA TimedStep == TypeOK /\ Armed /\ Timed /\ [Next]_vars => Timed'
<1> SUFFICES ASSUME TypeOK, Armed, Timed, [Next]_vars PROVE Timed'
  OBVIOUS
<1> USE ConfigFields
<1>1. CASE Start \/ TcpOpens \/ TlsDone \/ HelloAccepted
  <2>1. /\ pc \in {"idle", "tcp", "tls", "hello"} /\ pc' \in {"tcp", "tls", "hello", "reply"}
        /\ since' = now /\ UNCHANGED <<now, cfg, ctxDone>>
    BY <1>1 DEF Start, TcpOpens, TlsDone, HelloAccepted, inputs
  <2> QED BY <2>1 DEF Timed, OwnTimeout, Dialling
<1>2. CASE Connected \/ ReaderTakes
  <2>1. pc' = "client" /\ since' = now /\ UNCHANGED <<now, cfg, ctxDone>>
    BY <1>2 DEF Connected, ReaderTakes, inputs
  <2> QED BY <2>1 DEF Timed, OwnTimeout, Dialling
<1>3. CASE Tick
  <2>1. /\ now' = now + 1 /\ UNCHANGED <<pc, since, cfg>> /\ Waiting
        /\ ctxDone' = (ctxDone \/ now + 1 = cfg.ctx)
        /\ Limit # 0 => now < Limit
        /\ pc \in {"tcp", "tls"} => ~ctxDone
    <3>1. Limit \in Nat
      BY LimitOf
    <3> QED BY <1>3, <3>1 DEF Tick, Overdue, Interrupted, inputs
  <2>2. OwnTimeout # 0 => now + 1 <= since + OwnTimeout
    <3>1. OwnTimeout # 0 => now < Limit /\ Limit <= since + OwnTimeout /\ Limit \in Nat
      BY <2>1, LimitOf
    <3> QED BY <3>1 DEF OwnTimeout
  <2>3. Dialling /\ cfg.ctx > 0 => now + 1 <= cfg.ctx
    <3>1. CASE pc \in {"tcp", "tls"}
      BY <2>1, <3>1 DEF Timed
    <3>2. CASE pc \in {"hello", "reply"}
      <4>1. cfg.ctx > 0 => now < Limit /\ Limit <= cfg.ctx /\ Limit \in Nat
        BY <2>1, <3>2, LimitOf
      <4> QED BY <4>1
    <3> QED BY <3>1, <3>2 DEF Dialling
  <2>4. cfg.ctx > 0 /\ now + 1 >= cfg.ctx => ctxDone'
    <3>1. CASE now >= cfg.ctx
      BY <2>1, <3>1 DEF Timed
    <3>2. CASE now < cfg.ctx
      <4>1. now + 1 >= cfg.ctx => now + 1 = cfg.ctx
        BY <3>2
      <4> QED BY <2>1, <4>1
    <3> QED BY <3>1, <3>2
  <2> QED BY <2>1, <2>2, <2>3, <2>4 DEF Timed, Waiting, Dialling, OwnTimeout
<1>4. CASE Cancel \/ UNCHANGED vars
  <2>1. UNCHANGED <<pc, now, since, cfg>> /\ (ctxDone => ctxDone')
    BY <1>4 DEF Cancel, vars, inputs
  <2> QED BY <2>1 DEF Timed, Waiting, Dialling, OwnTimeout
<1>5. CASE \/ TcpFails \/ TlsFails \/ TlsRefuses \/ ReadFails \/ HelloRefused
           \/ WriteFails \/ ReaderFails
  <2>1. pc' \in {"error", "lost"} /\ UNCHANGED <<now, since, cfg, ctxDone>>
    BY <1>5 DEF TcpFails, TlsFails, TlsRefuses, ReadFails, HelloRefused, WriteFails,
                ReaderFails, Fail, inputs
  <2> QED BY <2>1 DEF Timed, Waiting, Dialling, OwnTimeout
<1> QED BY <1>1, <1>2, <1>3, <1>4, <1>5 DEF Next

\* Whatever the timeouts: no wait, not the reader's either, runs into a deadline
\* that was set for another, or outlasts its own.
THEOREM EachItsOwnDeadlineAlways == Spec => []EachItsOwnDeadline
<1>1. TypeOK /\ Armed /\ Timed => EachItsOwnDeadline
  <2> SUFFICES ASSUME TypeOK, Armed, Timed PROVE EachItsOwnDeadline
    OBVIOUS
  <2>1. ASSUME Overdue
        PROVE  \/ OwnTimeout # 0 /\ now >= since + OwnTimeout
               \/ Dialling /\ cfg.ctx # 0 /\ now >= cfg.ctx
    <3>1. Waiting
      BY <2>1 DEF Overdue, Limit, Waiting, Dialling
    <3>2. /\ Limit \in Nat
          /\ Waiting /\ Limit # 0 =>
                \/ OwnTimeout # 0 /\ Limit = since + OwnTimeout
                \/ Dialling /\ cfg.ctx # 0 /\ Limit = cfg.ctx
      BY LimitOf
    <3>3. now >= Limit /\ Limit # 0
      BY <2>1 DEF Overdue
    <3> QED BY <3>1, <3>2, <3>3
  <2> QED BY <2>1 DEF EachItsOwnDeadline, Timed, Armed
<1> QED BY <1>1, ArmedInit, ArmedStep, TimedInit, TimedStep, TypeCorrect, PTL DEF Spec

\* When each wait has begun at the latest.
Begun ==
    cfg.dial > 0 /\ cfg.io > 0 =>
        /\ pc = "tcp" => since <= 1
        /\ pc = "tls" => since <= 1 + cfg.dial
        /\ pc = "hello" => since <= 1 + 2 * cfg.dial
        /\ pc = "reply" => since <= 1 + 2 * cfg.dial + cfg.io

LEMMA BegunStep == TypeOK /\ Timed /\ Begun /\ [Next]_vars => Begun'
<1> SUFFICES ASSUME TypeOK, Timed, Begun, [Next]_vars, cfg'.dial > 0, cfg'.io > 0
             PROVE  /\ pc' = "tcp" => since' <= 1
                    /\ pc' = "tls" => since' <= 1 + cfg'.dial
                    /\ pc' = "hello" => since' <= 1 + 2 * cfg'.dial
                    /\ pc' = "reply" => since' <= 1 + 2 * cfg'.dial + cfg'.io
  BY DEF Begun
<1>0. cfg' = cfg
  BY DEF Next, Start, TcpOpens, TlsDone, HelloAccepted, Connected, ReaderTakes, Tick, Cancel,
         TcpFails, TlsFails, TlsRefuses, ReadFails, HelloRefused, WriteFails, ReaderFails,
         Fail, vars, inputs
<1> USE ConfigFields
<1>1. CASE Start
  BY <1>1 DEF Start, Timed
<1>2. CASE TcpOpens
  BY <1>0, <1>2 DEF TcpOpens, Timed, Begun, Waiting, Dialling, OwnTimeout
<1>3. CASE TlsDone
  BY <1>0, <1>3 DEF TlsDone, Timed, Begun, Waiting, Dialling, OwnTimeout
<1>4. CASE HelloAccepted
  BY <1>0, <1>4 DEF HelloAccepted, Timed, Begun, Waiting, Dialling, OwnTimeout
<1>5. CASE Tick \/ Cancel \/ UNCHANGED vars
  BY <1>0, <1>5 DEF Tick, Cancel, vars, Begun
<1>6. CASE \/ TcpFails \/ TlsFails \/ TlsRefuses \/ ReadFails \/ HelloRefused
           \/ WriteFails \/ ReaderFails \/ Connected \/ ReaderTakes
  BY <1>6 DEF TcpFails, TlsFails, TlsRefuses, ReadFails, HelloRefused, WriteFails,
              ReaderFails, Connected, ReaderTakes, Fail
<1> QED BY <1>1, <1>2, <1>3, <1>4, <1>5, <1>6 DEF Next

\* However slow the server: no wait of Dial goes on past two of each timeout, or
\* past the context's deadline.
THEOREM InTimeAlways == Spec => []InTime
<1>1. Init => Begun
  BY DEF Init, Begun
<1>2. TypeOK /\ Timed /\ Begun => InTime
  <2> SUFFICES ASSUME TypeOK, Timed, Begun, Dialling
               PROVE  /\ cfg.dial > 0 /\ cfg.io > 0 => now <= 1 + 2 * cfg.dial + 2 * cfg.io
                      /\ cfg.ctx > 0 => now <= cfg.ctx
    BY DEF InTime
  <2>1. ASSUME cfg.dial > 0, cfg.io > 0 PROVE now <= 1 + 2 * cfg.dial + 2 * cfg.io
    BY <2>1, ConfigFields DEF Timed, Begun, Waiting, Dialling, OwnTimeout
  <2>2. cfg.ctx > 0 => now <= cfg.ctx
    BY ConfigFields DEF Timed
  <2> QED BY <2>1, <2>2
<1> QED BY <1>1, <1>2, ArmedInit, ArmedStep, TimedInit, TimedStep, BegunStep, TypeCorrect,
           PTL DEF Spec
=============================================================================
