-------------------------------- MODULE Wire --------------------------------
(***************************************************************************)
(* The bytes between client and relay: transmissions and their             *)
(* authorization, blocks of several transmissions, and the padded          *)
(* transport block.  A batch of the client's commands or of the relay's    *)
(* answers is encoded and framed at one end, and read at the other; the    *)
(* software over there may have cut it short, put bytes after it, or       *)
(* belong to another session.                                              *)
(***************************************************************************)
EXTENDS Commands

CONSTANTS
    Versions,       \* what was negotiated, or given to NewClient
    Session, OtherSession,
    Requests,       \* what the client may send: corr, entity, key, body
    Answers,        \* what the relay may send: corr, entity, body
    ClientKey, ServerKey,   \* key pairs
    MaxBatch,       \* bound: transmissions to a batch
    MaxCount,       \* 255 in the code: what the count byte of a block can say
    BlockSize       \* SMPBlockSize, 16384 in the code

V7 == 7
CorrLen == 24
NoCorrID == [i \in 1..CorrLen |-> 0]

CorrID == [1..CorrLen -> 0..255]
Keys == {"none", "ed25519", "x25519"}

ASSUME WireAssumption ==
    /\ Versions \subseteq Nat /\ MaxBatch \in Nat /\ MaxCount \in 0..255
    /\ BlockSize \in Nat /\ 2 <= BlockSize /\ BlockSize <= 65537

ASSUME SessionAssumption ==
    /\ Session \in Bytes /\ OtherSession \in Bytes
    /\ Len(Session) <= MaxShort /\ Session # OtherSession

ASSUME KeyAssumption == ClientKey \in Nat \ {0, 1} /\ ServerKey \in Nat \ {0, 1}

ASSUME RequestAssumption ==
    Requests \subseteq [corr : CorrID, entity : Bytes, key : Keys, body : Command]

ASSUME AnswerAssumption ==
    Answers \subseteq [corr : CorrID, entity : ShortBytes, body : BrokerMsg \cup Malformed]

VARIABLES
    version,   \* negotiated
    side,      \* who sends: "client" or "relay"
    batch,     \* the transmissions
    sent,      \* history: what they are to say
    phase,     \* "building", "framed", "refused", "read"
    block,     \* the transport block
    damage,    \* history: "none", "cut", "junk" or "session"
    got        \* DecodeBlock's result

vars == <<version, side, batch, sent, phase, block, damage, got>>

-----------------------------------------------------------------------------
(* Transmissions.                                                          *)

encodeCorrID(c) == IF c = NoCorrID THEN <<0>> ELSE <<CorrLen>> \o c
decodeCorrID(buf, pos) ==
    LET tag == Need(buf, pos, 1) IN
    IF ~tag.ok THEN Bad
    ELSE IF tag.v = <<0>> THEN [ok |-> TRUE, v |-> NoCorrID, pos |-> tag.pos]
    ELSE IF tag.v = <<CorrLen>> THEN Need(buf, tag.pos, CorrLen)
    ELSE Bad

\* Mutant: the entity id goes without its length.
AuthBytesBare(sess, t) == Short(sess) \o encodeCorrID(t.corr) \o t.entity \o t.command
AuthBytesAnySession(sess, t) ==  \* mutant: only v6 names the session
    SubSeq(Short(sess), 1, IF version < V7 THEN Len(sess) + 1 ELSE 0)
        \o encodeCorrID(t.corr) \o Short(t.entity) \o t.command
AuthBytes(sess, t) ==
    Short(sess) \o encodeCorrID(t.corr) \o Short(t.entity) \o t.command

SessionPart(v, sess) == IF v < V7 THEN Short(sess) ELSE <<>>

WireBytes(v, sess, t) ==
    Short(t.auth) \o SessionPart(v, sess) \o encodeCorrID(t.corr) \o Short(t.entity) \o t.command

Encodable(t) == FitsShort(t.entity) /\ FitsShort(t.auth)

decodeTransmission(v, sess, body) ==
    LET auth == GetShort(body, 0)
        sid  == IF v < V7 THEN GetShort(body, auth.pos)
                ELSE [ok |-> auth.ok, v |-> sess, pos |-> auth.pos]
        corr == decodeCorrID(body, sid.pos)
        ent  == GetShort(body, corr.pos)
    IN [ok |-> auth.ok /\ sid.ok /\ sid.v = sess /\ corr.ok /\ ent.ok,
        t  |-> [corr |-> corr.v, entity |-> ent.v, auth |-> auth.v,
                command |-> SubSeq(body, ent.pos + 1, Len(body))]]

-----------------------------------------------------------------------------
(* Blocks.                                                                 *)

\* The count is one byte: a longer batch would be given the count of a shorter one.
CountByte(n) == n % (MaxCount + 1)

EncodeBlock(bodies) ==
    LET enc[i \in 0..Len(bodies)] ==
            IF i = 0 THEN <<CountByte(Len(bodies))>>
            ELSE enc[i - 1] \o Word16(Len(bodies[i])) \o bodies[i]
    IN enc[Len(bodies)]

Body(buf, len) == IF len.ok THEN Need(buf, len.pos, len.v) ELSE Bad

\* The first malformed transmission fails the block.
DecodeBlock(v, sess, buf) ==
    LET cnt == Need(buf, 0, 1)
        dec[i \in 0..(IF cnt.ok THEN buf[1] ELSE 0)] ==
            IF i = 0 THEN [ok |-> cnt.ok, txs |-> <<>>, pos |-> 1]
            ELSE LET prev == dec[i - 1]
                     body == Body(buf, GetWord16(buf, prev.pos))
                     tx   == decodeTransmission(v, sess, body.v)
                 IN IF prev.ok /\ body.ok /\ tx.ok
                    THEN [ok |-> TRUE, txs |-> Append(prev.txs, tx.t), pos |-> body.pos]
                    ELSE [ok |-> FALSE, txs |-> <<>>, pos |-> prev.pos]
    IN dec[IF cnt.ok THEN buf[1] ELSE 0]

\* WriteBlock and ReadBlock; '#' is 35.
Fits(payload) == Len(payload) <= BlockSize - 2
Pad(payload) ==
    Word16(Len(payload)) \o payload \o [i \in 1..(BlockSize - 2 - Len(payload)) |-> 35]
\* Mutant: the padding is left on.
UnpadAll(buf) == [ok |-> TRUE, v |-> SubSeq(buf, 3, Len(buf)), pos |-> 0]
Unpad(buf) ==
    LET n == 256 * buf[1] + buf[2] IN
    IF n > BlockSize - 2 THEN Bad ELSE [ok |-> TRUE, v |-> SubSeq(buf, 3, 2 + n), pos |-> 0]

-----------------------------------------------------------------------------
(* Authenticators.  A number stands for a private key and for its public   *)
(* key, the product of two for the secret they share.  A signature or a    *)
(* box has its length in bytes, whatever it fixes; the first of them is a  *)
(* symbol for the whole.                                                   *)

X25519DeriveShared(priv, peerPub) == priv * peerPub

Authenticator(len, key, nonce, bytes) ==
    [i \in 1..len |-> IF i = 1 THEN [key |-> key, nonce |-> nonce, bytes |-> bytes] ELSE 0]

\* Ed25519Signer.
Sign(bytes) == Authenticator(64, ClientKey, <<>>, bytes)

\* X25519AuthSigner: a secretbox over the digest, with the CorrID for its nonce.
Seal(shared, nonce, bytes) == Authenticator(16 + 64, shared, nonce, bytes)

Authorize(key, bytes, nonce) ==
    CASE key = "ed25519" -> Sign(bytes)
      [] key = "x25519" -> Seal(X25519DeriveShared(ClientKey, ServerKey), nonce, bytes)
      [] OTHER -> <<>>

VerifyCbAuth(peerPub, ownPriv, nonce, tag, authorized) ==
    tag = Seal(X25519DeriveShared(ownPriv, peerPub), nonce, authorized)

\* The relay holds ServerKey and knows the queue's public key.
Verified(sess, t) ==
    \/ t.auth = Sign(AuthBytes(sess, t))
    \/ VerifyCbAuth(ClientKey, ServerKey, t.corr, t.auth, AuthBytes(sess, t))

-----------------------------------------------------------------------------
(* A batch on its way.                                                     *)

Init ==
    /\ version \in Versions /\ side \in {"client", "relay"}
    /\ batch = <<>> /\ sent = <<>>
    /\ phase = "building"
    /\ block = <<>>
    /\ damage = "none"
    /\ got = [ok |-> FALSE, txs |-> <<>>, pos |-> 0]

Add(r, tx) ==
    /\ phase = "building"
    /\ Len(batch) < MaxBatch
    /\ batch' = Append(batch, tx)
    /\ sent' = Append(sent, [r EXCEPT !.body = Meaning(version, @)])
    /\ UNCHANGED <<version, side, phase, block, damage, got>>

\* send: encode for the bytes to sign, sign if there is a key, encode again.
AddCommand(r) ==
    LET bare == [corr |-> r.corr, entity |-> r.entity, auth |-> <<>>,
                 command |-> EncodeCommand(version, r.body)]
        tx   == [bare EXCEPT !.auth = Authorize(r.key, AuthBytes(Session, bare), r.corr)]
    IN side = "client" /\ EncodableCommand(r.body) /\ Encodable(tx) /\ Add(r, tx)

AddAnswer(r) ==
    /\ side = "relay"
    /\ Add(r, [corr |-> r.corr, entity |-> r.entity, auth |-> <<>>,
               command |-> EncodeBrokerMsg(version, r.body)])

Encoded == EncodeBlock([i \in 1..Len(batch) |-> WireBytes(version, Session, batch[i])])

Refuse ==
    /\ phase = "building"
    /\ Len(batch) > MaxCount \/ ~Fits(Encoded)
    /\ phase' = "refused"
    /\ UNCHANGED <<version, side, batch, sent, block, damage, got>>

FrameAny ==   \* mutant: the number of transmissions is not checked
    /\ phase = "building"
    /\ Fits(Encoded)
    /\ block' = Pad(Encoded)
    /\ phase' = "framed"
    /\ UNCHANGED <<version, side, batch, sent, damage, got>>

Frame ==
    /\ phase = "building"
    /\ Len(batch) <= MaxCount
    /\ Fits(Encoded)
    /\ block' = Pad(Encoded)
    /\ phase' = "framed"
    /\ UNCHANGED <<version, side, batch, sent, damage, got>>

\* The other end's software is not ours.
Damage ==
    /\ phase = "framed"
    /\ damage = "none"
    /\ \/ damage' = "cut"
          /\ \E n \in 0..(Len(Encoded) - 1) : block' = Pad(SubSeq(Encoded, 1, n))
       \/ damage' = "junk"
          /\ Fits(Append(Encoded, 0))
          /\ block' = Pad(Append(Encoded, 0))
       \/ damage' = "session" /\ UNCHANGED block
    /\ UNCHANGED <<version, side, batch, sent, phase, got>>

Read ==
    /\ phase = "framed"
    /\ phase' = "read"
    /\ LET sess == IF damage = "session" THEN OtherSession ELSE Session
           body == Unpad(block)
       IN got' = IF body.ok THEN DecodeBlock(version, sess, body.v)
                 ELSE [ok |-> FALSE, txs |-> <<>>, pos |-> 0]
    /\ UNCHANGED <<version, side, batch, sent, block, damage>>

Next ==
    \/ \E r \in Requests : AddCommand(r)
    \/ \E r \in Answers : AddAnswer(r)
    \/ Refuse \/ Frame \/ Damage \/ Read

Spec == Init /\ [][Next]_vars

-----------------------------------------------------------------------------
(* Properties.                                                             *)

\* What was sent is what is read, transmission for transmission; bytes after
\* the last one make no difference, nor does the padding.
RoundTrip ==
    phase = "read" /\ damage \in {"none", "junk"} => got.ok /\ got.txs = batch

\* A block cut anywhere is refused as a whole: none of it is taken for less. So
\* is, below v7, where a transmission names its session, one of another session.
DamageIsRefused ==
    phase = "read" =>
        /\ damage = "cut" => ~got.ok
        /\ damage = "session" /\ version < V7 /\ batch # <<>> => ~got.ok

\* What the relay verifies, from the fields it decoded and on its own session, is
\* what the client signed or sealed; on another session it is not.
AuthorizationCovers ==
    phase = "read" /\ got.ok =>
        \A i \in {j \in 1..Len(got.txs) : got.txs[j].auth # <<>>} :
            Verified(Session, got.txs[i]) /\ ~Verified(OtherSession, got.txs[i])

\* Commands authorized by the same bytes are the same, field for field: neither
\* the boundaries between the fields, nor what is absent, nor a message body that
\* looks like another command can be read two ways.
AuthorizedOnce ==
    \A i, j \in 1..Len(batch) :
        batch[i].auth = batch[j].auth /\ batch[i].auth # <<>> => sent[i] = sent[j]

\* The client reads each answer of a block as what the relay meant by it, in the
\* version they agreed on, and takes one that breaks the grammar for none.
AnswersAreRead ==
    phase = "read" /\ side = "relay" /\ got.ok =>
        \A i \in 1..Len(got.txs) :
            DecodeBrokerMsg(version, got.txs[i].command) = sent[i].body
=============================================================================
