-------------------------------- MODULE Dial --------------------------------
(***************************************************************************)
(* Client.Dial: TCP, TLS with the pinned certificate, the SMP handshake,   *)
(* and a Client, whose reader waits for blocks, or an error.  The server,  *)
(* and the network, may answer anything at any time or never.  Time is     *)
(* counted, for every wait is governed by a deadline, by the context, or   *)
(* by nothing.  The deadlines stay on the connection until they are        *)
(* replaced or cleared; timers are prompt: time does not pass over the     *)
(* deadline of the wait that is on.                                        *)
(***************************************************************************)
EXTENDS Integers, Sequences

CONSTANTS
    Configs,                  \* what a caller of Dial may ask for
    Certs, Pinned,            \* certificates, and those of the expected fingerprint
    Chains,                   \* the chains a server may present
    Versions,                 \* the versions a server may name
    Sessions,                 \* session identifiers
    OwnKeys,                  \* the caller's key: "nil", "good" or "short"
    MaxTime                   \* bound

ASSUME DialAssumption ==
    /\ Configs \subseteq [dial : Nat, io : Nat, ctx : Nat]
    /\ MaxTime \in Nat
    /\ Pinned \subseteq Certs /\ Chains \subseteq Seq(Certs)
    /\ Versions \subseteq Nat
    /\ OwnKeys \subseteq {"nil", "good", "short"}

MinClientVersion == 6
MaxClientVersion == 7
V7 == 7

VARIABLES
    cfg,       \* DialTimeout, IOTimeout and the context's deadline; 0 is none
    own,       \* ownAuthPriv
    sessionID, \* the session identifier that the caller passes
    pc, now,
    since,     \* when the wait that is on began
    sock,      \* the TCP connection: "none", "open" or "closed"
    ctxDone,   \* the context was cancelled, or its deadline passed
    deadline,  \* of net.Dialer, and those on the connection; 0 is none
    chain,     \* the certificates of the server
    hello,     \* the server's SMP hello
    sent,      \* the client's hello, once in the server's hands
    params     \* the HandshakeParams of the Client

inputs == <<cfg, own, sessionID>>
vars == <<inputs, pc, now, since, sock, ctxDone, deadline, chain, hello, sent, params>>

NoHello == [kind |-> "none"]
NoParams == [kind |-> "none"]

-----------------------------------------------------------------------------
(* The pure parts.                                                         *)

VerifyConnection(c) == Len(c) \in 2..4 /\ \E i \in 1..Len(c) : c[i] \in Pinned

\* auth is what follows the session id, looked at if the server knows v7.
Hellos == [kind : {"hello"}, min : Versions, max : Versions,
           sess : Sessions, auth : {"none", "key32", "blob"}]
          \cup {[kind |-> "garbage"]}

\* The client's hello, and what the Client is told of the session.
ClientHellos == [kind : {"hello"}, version : 6..7, key : BOOLEAN]
HandshakeParams == [kind : {"params"}, version : 6..7, sess : Sessions,
                    peerKey : {"key32", "none"}]

Higher(a, b) == IF a > b THEN a ELSE b
Lower(a, b) == IF a < b THEN a ELSE b

\* Mutant: the server's highest version is not capped.
NegotiateUncapped(h) ==
    LET lo == Higher(MinClientVersion, h.min) IN IF lo > h.max THEN 0 ELSE h.max

\* 0 is ErrIncompatibleVersion.
NegotiateVersion(h) ==
    LET lo == Higher(MinClientVersion, h.min)  hi == Lower(MaxClientVersion, h.max) IN
    IF lo > hi THEN 0 ELSE hi

\* Mutant: the session id is not compared.
AcceptableAnySession(h) ==
    /\ h.kind = "hello"
    /\ NegotiateVersion(h) # 0
    /\ NegotiateVersion(h) >= V7 => own # "short"
\* The session is compared with what the caller has passed.
Acceptable(h) ==
    /\ h.kind = "hello"
    /\ h.sess = sessionID
    /\ NegotiateVersion(h) # 0
    /\ NegotiateVersion(h) >= V7 => own # "short"

ClientHello(h) ==
    LET v == NegotiateVersion(h) IN [kind |-> "hello", version |-> v, key |-> v >= V7]
ParamsOfAnyVersion(h) ==  \* mutant
    [kind |-> "params", version |-> NegotiateVersion(h), sess |-> sessionID,
     peerKey |-> IF h.auth = "key32" THEN "key32" ELSE "none"]
Params(h) ==
    LET v == NegotiateVersion(h) IN
    [kind |-> "params", version |-> v, sess |-> sessionID,
     peerKey |-> IF v >= V7 /\ h.auth = "key32" THEN "key32" ELSE "none"]

-----------------------------------------------------------------------------
(* Deadlines.                                                              *)

NoDeadline == [dial |-> 0, read |-> 0, write |-> 0]

Earliest(a, b) == IF a = 0 THEN b ELSE IF b = 0 THEN a ELSE Lower(a, b)
After(moment, timeout) == IF timeout = 0 THEN 0 ELSE moment + timeout

\* The deadline of a block of the handshake, which is given the context of Dial.
BlockDeadline == Earliest(After(now, cfg.io), cfg.ctx)

\* rawConn.SetDeadline, and the deferred SetDeadline(time.Time{}).
DialApplied(d) ==
    IF cfg.dial = 0 THEN d
    ELSE [d EXCEPT !.read = now + cfg.dial, !.write = now + cfg.dial]
DialLeft(d) == d  \* mutant: the deadline of TLS stays
DialCleared(d) == IF cfg.dial = 0 THEN d ELSE [d EXCEPT !.read = 0, !.write = 0]

\* Without a deadline what is on the connection is not touched.
ReadNotApplied(d, t) == d  \* mutant
ReadApplied(d, t) == IF t = 0 THEN d ELSE [d EXCEPT !.read = t]
ReadCleared(d) == [d EXCEPT !.read = 0]
WriteApplied(d, t) == IF t = 0 THEN d ELSE [d EXCEPT !.write = t]
WriteCleared(d) == [d EXCEPT !.write = 0]

-----------------------------------------------------------------------------
Init ==
    /\ cfg \in Configs /\ own \in OwnKeys /\ sessionID \in Sessions
    /\ pc = "idle" /\ now = 1 /\ since = 1
    /\ sock = "none"
    /\ ctxDone = (cfg.ctx = 1)
    /\ deadline = NoDeadline
    /\ chain = <<>>
    /\ hello = NoHello /\ sent = NoHello
    /\ params = NoParams

\* net.Dialer takes the earlier of its Timeout and the context's deadline.
Start ==
    /\ pc = "idle"
    /\ pc' = "tcp" /\ since' = now
    /\ deadline' = [deadline EXCEPT !.dial = Earliest(After(now, cfg.dial), cfg.ctx)]
    /\ UNCHANGED <<now, sock, ctxDone, chain, hello, inputs, sent, params>>

TcpFails ==
    /\ pc = "tcp"
    /\ pc' = "error"
    /\ deadline' = NoDeadline
    /\ UNCHANGED <<now, since, sock, ctxDone, chain, hello, inputs, sent, params>>

\* The deadline of the TLS handshake counts from here.
TcpOpens ==
    /\ pc = "tcp"
    /\ pc' = "tls" /\ since' = now
    /\ sock' = "open"
    /\ deadline' = DialApplied(NoDeadline)
    /\ UNCHANGED <<now, ctxDone, chain, hello, inputs, sent, params>>

\* Mutant: the connection is left behind.
FailLeavingOpen ==
    /\ pc' = "error"
    /\ deadline' = NoDeadline
    /\ UNCHANGED <<now, since, sock, ctxDone, inputs, params>>
\* The connection is closed, and the deadlines go with it.
Fail ==
    /\ pc' = "error"
    /\ sock' = "closed"
    /\ deadline' = NoDeadline
    /\ UNCHANGED <<now, since, ctxDone, inputs, params>>

\* The peer gives up, the deadline passes, the context is done.
TlsFails == pc = "tls" /\ Fail /\ UNCHANGED <<chain, hello, sent>>

TlsRefuses ==
    /\ pc = "tls"
    /\ \E c \in Chains : ~VerifyConnection(c) /\ chain' = c
    /\ Fail
    /\ UNCHANGED <<hello, sent>>

\* DialTimeout's deadline is cleared on the way out of DialTLS, then ReadBlock
\* sets its own.
TlsDone ==
    /\ pc = "tls"
    /\ \E c \in Chains : VerifyConnection(c) /\ chain' = c
    /\ pc' = "hello" /\ since' = now
    /\ deadline' = ReadApplied(DialCleared(deadline), BlockDeadline)
    /\ UNCHANGED <<now, sock, ctxDone, hello, inputs, sent, params>>

ReadFails == pc = "hello" /\ Fail /\ UNCHANGED <<chain, hello, sent>>

HelloRefused ==
    /\ pc = "hello"
    /\ \E h \in Hellos : ~Acceptable(h) /\ hello' = h
    /\ Fail
    /\ UNCHANGED <<chain, sent>>

HelloAccepted ==
    /\ pc = "hello"
    /\ \E h \in Hellos : Acceptable(h) /\ hello' = h
    /\ pc' = "reply" /\ since' = now
    /\ deadline' = WriteApplied(ReadCleared(deadline), BlockDeadline)
    /\ UNCHANGED <<now, sock, ctxDone, chain, inputs, sent, params>>

\* A write that fails may still have reached the server.
WriteFails ==
    /\ pc = "reply"
    /\ sent' \in {NoHello, ClientHello(hello)}
    /\ Fail
    /\ UNCHANGED <<chain, hello>>

\* NewClient starts the reader at once; its context has no deadline.
Connected ==
    /\ pc = "reply"
    /\ sent' = ClientHello(hello)
    /\ params' = Params(hello)
    /\ pc' = "client" /\ since' = now
    /\ deadline' = ReadApplied(WriteCleared(deadline), After(now, cfg.io))
    /\ UNCHANGED <<now, sock, ctxDone, chain, hello, inputs>>

\* The Client's reader takes a block, and waits for the next.
ReaderTakes ==
    /\ pc = "client"
    /\ since' = now
    /\ deadline' = ReadApplied(ReadCleared(deadline), After(now, cfg.io))
    /\ UNCHANGED <<pc, now, sock, ctxDone, chain, hello, inputs, sent, params>>

\* handleReadError ends the session and leaves the connection to Close.
ReaderFails ==
    /\ pc = "client"
    /\ pc' = "lost"
    /\ deadline' = ReadCleared(deadline)
    /\ UNCHANGED <<now, since, sock, ctxDone, chain, hello, inputs, sent, params>>

-----------------------------------------------------------------------------
Dialling == pc \in {"tcp", "tls", "hello", "reply"}
Waiting == Dialling \/ pc = "client"

\* The deadline that ends the wait that is on, whoever has set it.
Limit ==
    CASE pc = "tcp" -> deadline.dial
      [] pc = "tls" -> Earliest(deadline.read, deadline.write)
      [] pc = "reply" -> deadline.write
      [] pc \in {"hello", "client"} -> deadline.read
      [] OTHER -> 0

Overdue == Limit # 0 /\ now >= Limit

\* The dialer and HandshakeContext watch the context; the blocks do not.
Interrupted == pc \in {"tcp", "tls"} /\ ctxDone

\* Time before Dial, and after its error, is of no interest.
Tick ==
    /\ now < MaxTime
    /\ Waiting
    /\ ~Overdue
    /\ ~Interrupted
    /\ now' = now + 1
    /\ ctxDone' = (ctxDone \/ now + 1 = cfg.ctx)
    /\ UNCHANGED <<pc, since, sock, deadline, chain, hello, inputs, sent, params>>

Cancel ==
    /\ ~ctxDone
    /\ ctxDone' = TRUE
    /\ UNCHANGED <<pc, now, since, sock, deadline, chain, hello, inputs, sent, params>>

Next ==
    \/ Start
    \/ TcpFails \/ TcpOpens
    \/ TlsFails \/ TlsRefuses \/ TlsDone
    \/ ReadFails \/ HelloRefused \/ HelloAccepted
    \/ WriteFails \/ Connected
    \/ ReaderTakes \/ ReaderFails
    \/ Tick \/ Cancel

Spec == Init /\ [][Next]_vars

\* A wait that is overdue or interrupted returns its error, and time passes.
GiveUp ==
    /\ Overdue \/ Interrupted
    /\ TcpFails \/ TlsFails \/ ReadFails \/ WriteFails \/ ReaderFails

FairSpec == Spec /\ WF_vars(GiveUp) /\ WF_vars(Tick)

-----------------------------------------------------------------------------
(* Properties.                                                             *)

\* Types; in particular the client speaks only versions it knows.
TypeOK ==
    /\ cfg \in Configs /\ own \in OwnKeys /\ sessionID \in Sessions
    /\ pc \in {"idle", "tcp", "tls", "hello", "reply", "client", "lost", "error"}
    /\ now \in Nat /\ since \in Nat
    /\ sock \in {"none", "open", "closed"}
    /\ ctxDone \in BOOLEAN
    /\ deadline \in [dial : Nat, read : Nat, write : Nat]
    /\ chain \in Seq(Certs)
    /\ hello \in Hellos \cup {NoHello}
    /\ sent \in ClientHellos \cup {NoHello}
    /\ params \in HandshakeParams \cup {NoParams}

\* Dial returns a Client with its connection, or an error and no connection.
NothingLeftOpen ==
    /\ pc = "error" => sock # "open"
    /\ pc = "client" => sock = "open"

\* No word of SMP leaves the client, and no Client is made, but for a server
\* that has shown the pinned certificate in a chain of the right length and has
\* named the session that the caller named, in a version that is the highest
\* both know.  Whether that is the TLS session it speaks on is not asked: the
\* code compares the identifier with nothing of its connection.
OnlyToTheRightServer ==
    sent # NoHello \/ pc = "client" =>
        /\ Len(chain) \in 2..4 /\ \E i \in 1..Len(chain) : chain[i] \in Pinned
        /\ hello.kind = "hello" /\ hello.sess = sessionID
        /\ sent # NoHello => sent.version \in (6..7) \cap (hello.min..hello.max)
        /\ sent # NoHello =>
              \A v \in (6..7) \cap (hello.min..hello.max) : v <= sent.version

\* What the server was told of the version and of the key is what the Client
\* goes by: no server key is used in a version that has none, or without one
\* of the client's having been offered.  The session it puts into every
\* command is the one the server goes by.
BothAgree ==
    pc = "client" =>
        /\ params.version = sent.version
        /\ params.sess = hello.sess
        /\ params.peerKey # "none" => sent.key /\ params.version >= 7 /\ hello.auth = "key32"

\* The timeout that is meant for the wait that is on.
OwnTimeout == IF pc \in {"tcp", "tls"} THEN cfg.dial ELSE cfg.io

\* All waits share the deadlines of one connection, and each has its own all the
\* same: a wait that runs into a deadline has lasted its own timeout or met the
\* end of Dial's context, not what an earlier wait has left behind; none lasts
\* longer than its own timeout; the reader of the Client, which has another
\* context, is not struck by Dial's; and its first writer finds nothing.
EachItsOwnDeadline ==
    /\ Overdue => \/ OwnTimeout # 0 /\ now >= since + OwnTimeout
                  \/ Dialling /\ cfg.ctx # 0 /\ now >= cfg.ctx
    /\ Waiting /\ OwnTimeout # 0 => now <= since + OwnTimeout
    /\ pc = "client" => deadline.write = 0

\* With both timeouts set, Dial comes back within two of each: TCP and TLS have
\* a DialTimeout each, the two blocks an IOTimeout each.  And it never outlives
\* the context's deadline.
InTime ==
    Dialling =>
        /\ cfg.dial > 0 /\ cfg.io > 0 => now <= 1 + 2 * cfg.dial + 2 * cfg.io
        /\ cfg.ctx > 0 => now <= cfg.ctx

\* The wait that is on has no deadline, and the context cannot end it: it is not
\* done, or the wait is for a block, and does not watch it.
Unbounded ==
    /\ cfg.ctx = 0
    /\ \/ pc \in {"tcp", "tls"} /\ cfg.dial = 0 /\ ~ctxDone
       \/ pc \in {"hello", "reply"} /\ cfg.io = 0

\* Dial comes back, unless a wait that nothing bounds goes on for ever.
DialReturns == (Dialling ~> ~Dialling) \/ <>[]Unbounded
=============================================================================
