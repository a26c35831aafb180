------------------------------ MODULE Commands ------------------------------
(***************************************************************************)
(* The bodies of transmissions: EncodeCommand on what the client sends,    *)
(* DecodeBrokerMsg on what the relay answers.  A keyword with the space    *)
(* that follows it is one symbol.                                          *)
(***************************************************************************)
EXTENDS Encoding

V9 == 9
Space == 32

Keyword == [NEW |-> <<78>>, SUB |-> <<85>>, SEND |-> <<83>>, ACK |-> <<65>>, PING |-> <<80>>,
            IDS |-> <<73>>, MSG |-> <<77>>, OK |-> <<79>>, PONG |-> <<71>>, END |-> <<69>>,
            ERR |-> <<82>>]

-----------------------------------------------------------------------------
(* Commands.                                                               *)

Command == [type : {"NEW"}, key : Bytes, dh : Bytes, auth : Bytes, mode : 0..255,
            secure : BOOLEAN]
           \cup [type : {"SEND"}, notification : BOOLEAN, body : Bytes]
           \cup [type : {"ACK"}, id : Bytes]
           \cup [type : {"SUB", "PING"}]

SubscribeOnCreate == 83

\* EncodeCommand sends 'S' for a mode that is not set; Client.NewQueue has put
\* 'C' in its place before.
Mode(c) == IF c.mode = 0 THEN SubscribeOnCreate ELSE c.mode

\* The flag of v9 that NEW and IDS end in.
Secure(v, on) == IF v >= V9 THEN Bool(on) ELSE <<>>

EncodableCommand(c) ==
    /\ c.type = "NEW" => FitsShort(c.key) /\ FitsShort(c.dh) /\ FitsShort(c.auth)
    /\ c.type = "ACK" => FitsShort(c.id)

NewBody(v, c) ==
    Short(c.key) \o Short(c.dh) \o MaybeShort(c.auth) \o <<Mode(c)>> \o Secure(v, c.secure)

EncodeCommand(v, c) ==
    Keyword[c.type] \o
    CASE c.type = "NEW" -> NewBody(v, c)
      [] c.type = "SEND" -> Bool(c.notification) \o <<Space>> \o c.body
      [] c.type = "ACK" -> Short(c.id)
      [] OTHER -> <<>>

-----------------------------------------------------------------------------
(* Answers.  The relay's encoder is the grammar of the protocol.           *)

\* An error is a keyword and what follows the first space.
ErrorKinds == {k \in Bytes : \A i \in 1..Len(k) : k[i] # Space}

BrokerMsg == [type : {"IDS"}, rcv : ShortBytes, snd : ShortBytes, dh : ShortBytes, secure : BOOLEAN]
             \cup [type : {"MSG"}, id : ShortBytes, body : Bytes]
             \cup [type : {"ERR"}, kind : ErrorKinds, detail : Bytes]
             \cup [type : {"OK", "PONG", "END"}]

\* What is none of them, nor begins with one that may be longer, whatever the
\* version: it says neither ERR, nor MSG with an id, nor IDS with three.
Parts(b) == {SubSeq(b, i, j) : i \in 1..(Len(b) + 1), j \in 0..Len(b)}
Malformed == [type : {"broken"}, bytes : {b \in Bytes :
    /\ b \notin {Keyword.OK, Keyword.PONG, Keyword.END}
    /\ Need(b, 0, 1).v # Keyword.ERR
    /\ \A id, rest \in Parts(b) : b # Keyword.MSG \o Short(id) \o rest
    /\ \A rcv, snd, dh, rest \in Parts(b) :
           b # Keyword.IDS \o Short(rcv) \o Short(snd) \o Short(dh) \o rest}]

EncodeBrokerMsg(v, r) ==
    CASE r.type = "IDS" -> Keyword.IDS \o Short(r.rcv) \o Short(r.snd) \o Short(r.dh) \o Secure(v, r.secure)
      [] r.type = "MSG" -> Keyword.MSG \o Short(r.id) \o r.body
      [] r.type = "ERR" -> Keyword.ERR \o r.kind
                               \o (IF r.detail = <<>> THEN <<>> ELSE <<Space>> \o r.detail)
      [] r.type = "broken" -> r.bytes
      [] OTHER -> Keyword[r.type]

Unparsed == [type |-> "broken"]

-----------------------------------------------------------------------------
(* What of a command or an answer its encoding says.                       *)

Meaning(v, m) ==
    CASE m.type = "NEW" -> [m EXCEPT !.mode = Mode(m), !.secure = v >= V9 /\ m.secure]
      [] m.type = "IDS" -> [m EXCEPT !.secure = v >= V9 /\ m.secure]
      [] m.type = "broken" -> Unparsed
      [] OTHER -> m

-----------------------------------------------------------------------------
(* The reader's side.                                                      *)

decodeIDS(v, raw) ==
    LET rcv == GetShort(raw, 1)
        snd == GetShort(raw, rcv.pos)
        dh  == GetShort(raw, snd.pos)
        sec == IF v >= V9 THEN GetBool(raw, dh.pos) ELSE [ok |-> TRUE, v |-> FALSE, pos |-> dh.pos]
    IN IF rcv.ok /\ snd.ok /\ dh.ok /\ sec.ok
       THEN [type |-> "IDS", rcv |-> rcv.v, snd |-> snd.v, dh |-> dh.v, secure |-> sec.v]
       ELSE Unparsed

\* Mutant: the body is taken from the whole transmission.
decodeMSGWhole(raw) ==
    LET id == GetShort(raw, 1) IN
    IF id.ok THEN [type |-> "MSG", id |-> id.v, body |-> GetTail(raw, 1)] ELSE Unparsed
decodeMSG(raw) ==
    LET id == GetShort(raw, 1) IN
    IF id.ok THEN [type |-> "MSG", id |-> id.v, body |-> GetTail(raw, id.pos)] ELSE Unparsed

\* Up to the first space, and after it.
decodeERR(raw) ==
    LET spaces == {i \in 2..Len(raw) : raw[i] = Space}
        sp == CHOOSE i \in spaces : \A j \in spaces : i <= j
    IN IF spaces = {} THEN [type |-> "ERR", kind |-> GetTail(raw, 1), detail |-> <<>>]
       ELSE [type |-> "ERR", kind |-> SubSeq(raw, 2, sp - 1), detail |-> GetTail(raw, sp)]

DecodeBrokerMsg(v, raw) ==
    LET key == Need(raw, 0, 1).v IN
    CASE key = Keyword.IDS -> decodeIDS(v, raw)
      [] key = Keyword.MSG -> decodeMSG(raw)
      [] key = Keyword.ERR -> decodeERR(raw)
      [] raw \in {Keyword.OK, Keyword.PONG, Keyword.END} ->
             [type |-> CHOOSE k \in {"OK", "PONG", "END"} : Keyword[k] = raw]
      [] OTHER -> Unparsed
=============================================================================
