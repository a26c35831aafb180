------------------------------- MODULE MCWire -------------------------------
(* Constant values for the model-checking runs of Wire.                      *)
EXTENDS Wire

SessionDef == <<1, 2>>
OtherSessionDef == <<1>>

Corr == [i \in 1..CorrLen |-> 1]
TooLong == [i \in 1..256 |-> 1]

New(auth, mode, secure) ==
    [type |-> "NEW", key |-> <<1>>, dh |-> <<2, 1>>, auth |-> auth, mode |-> mode,
     secure |-> secure]
Send(notification, body) == [type |-> "SEND", notification |-> notification, body |-> body]
Ack(id) == [type |-> "ACK", id |-> id]

Request(entity, key, body) == [corr |-> Corr, entity |-> entity, key |-> key, body |-> body]

\* Modes set and left open, a password, none, and one that is too long; a message
\* body longer than any field with a length byte, which has none; a queue
\* and a body that together look like another queue with another command, bodies
\* that look like fields with their lengths.
RequestsDef ==
    {Request(<<>>, "x25519", New(auth, 67, FALSE)) : auth \in {<<>>, <<67>>, TooLong}}
    \cup {Request(<<>>, "ed25519", New(<<>>, mode, secure)) : mode \in {0, 83}, secure \in BOOLEAN}
    \cup {Request(<<1>>, key, Send(TRUE, <<>>)) : key \in {"none", "ed25519", "x25519"}}
    \cup {Request(e, "ed25519", Send(FALSE, Keyword.SUB)) : e \in {<<1>>, TooLong}}
    \cup {Request(<<1>>, key, Send(FALSE, TooLong)) : key \in {"ed25519", "x25519"}}
    \cup {Request(e, "ed25519", [type |-> "SUB"]) : e \in {<<1>>, <<1>> \o Keyword.SEND \o <<False, Space>>}}
    \cup {Request(<<1>>, "x25519", Ack(id)) : id \in {<<>>, <<1>>, <<0>>, TooLong}}
    \cup {Request(<<>>, "none", [type |-> "PING"])}

Answer(corr, entity, body) == [corr |-> corr, entity |-> entity, body |-> body]
Msg(id, body) == [type |-> "MSG", id |-> id, body |-> body]
Err(kind, detail) == [type |-> "ERR", kind |-> kind, detail |-> detail]
Broken(bytes) == [type |-> "broken", bytes |-> bytes]

\* The last five: nothing, a word too many, ids that end too soon, no id.
AnswersDef ==
    {Answer(Corr, <<>>, [type |-> "IDS", rcv |-> <<1>>, snd |-> <<>>, dh |-> <<2>>,
                         secure |-> secure]) : secure \in BOOLEAN}
    \cup {Answer(corr, <<1>>, Msg(id, body)) :
              corr \in {NoCorrID, Corr}, id \in {<<>>, <<1>>}, body \in {<<>>, <<1, 1>>}}
    \cup {Answer(Corr, <<1>>, [type |-> t]) : t \in {"OK", "PONG"}}
    \cup {Answer(NoCorrID, <<1>>, [type |-> "END"])}
    \cup {Answer(Corr, <<>>, Err(<<67>>, detail)) : detail \in {<<>>, <<65, Space, 66>>}}
    \cup {Answer(Corr, <<1>>, Broken(bytes)) :
              bytes \in {<<>>, Keyword.OK \o <<Space>>, Keyword.IDS \o <<1, 1, 2>>,
                         Keyword.MSG, Keyword.MSG \o <<2, 1>>}}
=============================================================================
