------------------------------ MODULE QueueURI ------------------------------
(***************************************************************************)
(* smp.SMPQueueURI: ParseSMPQueueURI and String.  A text is the record of  *)
(* the parts that "smp://", "@", "/", "#" and the query parameters set off *)
(* (fp@host/sid#/?v&dh).  Host and version range, whose own separators     *)
(* matter, are sequences of tokens; the base64 parts are the bytes they    *)
(* stand for, none if the part is missing or is no base64, which the       *)
(* parser refuses all the same.                                            *)
(***************************************************************************)
EXTENDS Integers, Sequences

CONSTANTS
    Byte,
    KeyLen, SidMin, SidMax,   \* 32, 16 and 24 bytes
    Tokens,                   \* names, separators and digit strings
    Numerals, Value           \* the digit strings and what they stand for

MaxUint16 == 65535
Uint16 == 0..MaxUint16
DefaultPort == 5223

ASSUME QueueURIAssumption ==
    /\ KeyLen \in Nat \ {0} /\ SidMin \in Nat \ {0} /\ SidMax \in Nat
    /\ Numerals \cup {"[", "]", ":", "-"} \subseteq Tokens
    /\ Value \in [Numerals -> Nat]
    /\ \E t \in Numerals : Value[t] = DefaultPort
    /\ {"[", "]", ":", "-"} \cap Numerals = {}

Texts == [scheme : BOOLEAN, fp : Seq(Byte), sid : Seq(Byte), dh : Seq(Byte),
          host : Seq(Tokens), v : Seq(Tokens)]

-----------------------------------------------------------------------------
(* strings.Index and strings.LastIndex of one token; 0 is none.            *)

At(s, t) == {i \in 1..Len(s) : s[i] = t}
First(s, t) == IF At(s, t) = {} THEN 0
               ELSE CHOOSE i \in At(s, t) : \A j \in At(s, t) : i <= j
Last(s, t) == IF At(s, t) = {} THEN 0
              ELSE CHOOSE i \in At(s, t) : \A j \in At(s, t) : j <= i

UpTo(s, i) == SubSeq(s, 1, i - 1)
After(s, i) == SubSeq(s, i + 1, Len(s))

Error == -1

\* strconv.ParseUint(s, 10, 16)
ParseUint(s) ==
    IF Len(s) = 1 /\ s[1] \in Numerals /\ Value[s[1]] \in Uint16 THEN Value[s[1]] ELSE Error

\* %d
Decimal(n) == CHOOSE t \in Numerals : Value[t] = n

-----------------------------------------------------------------------------
(* The parser.                                                             *)

parsePortSuffix(s) ==
    IF s = <<>> THEN DefaultPort
    ELSE IF s[1] = ":" THEN ParseUint(Tail(s)) ELSE Error

Bracketed(s) == s # <<>> /\ s[1] = "["

HostAt(host, port) == [host |-> host, port |-> port]

\* Mutant: the first colon ends the host.
parseHostFirst(s) ==
    IF Bracketed(s) THEN HostAt(SubSeq(s, 2, First(s, "]") - 1),
                                IF First(s, "]") = 0 THEN Error
                                ELSE parsePortSuffix(After(s, First(s, "]"))))
    ELSE IF First(s, ":") = 0 THEN HostAt(s, DefaultPort)
    ELSE HostAt(UpTo(s, First(s, ":")), ParseUint(After(s, First(s, ":"))))

parseHostPort(s) ==
    IF Bracketed(s) THEN HostAt(SubSeq(s, 2, First(s, "]") - 1),
                                IF First(s, "]") = 0 THEN Error
                                ELSE parsePortSuffix(After(s, First(s, "]"))))
    ELSE IF Last(s, ":") = 0 THEN HostAt(s, DefaultPort)
    ELSE HostAt(UpTo(s, Last(s, ":")), ParseUint(After(s, Last(s, ":"))))

parseVersionRange(s) ==
    IF First(s, "-") = 0 THEN [Min |-> ParseUint(s), Max |-> ParseUint(s)]
    ELSE [Min |-> ParseUint(UpTo(s, First(s, "-"))), Max |-> ParseUint(After(s, First(s, "-")))]

\* Mutant: the length of the DH key is not looked at.
LengthsLax(t) == Len(t.fp) = KeyLen /\ Len(t.sid) \in SidMin..SidMax
LengthsOK(t) == Len(t.fp) = KeyLen /\ Len(t.sid) \in SidMin..SidMax /\ Len(t.dh) = KeyLen

\* ParseSMPQueueURI returns no error.
Accepted(t) ==
    /\ t.scheme
    /\ LengthsOK(t)
    /\ parseHostPort(t.host).port # Error
    /\ LET vr == parseVersionRange(t.v) IN vr.Min # Error /\ vr.Max # Error /\ vr.Min <= vr.Max

Parse(t) ==
    [ServerFingerprint |-> t.fp, SenderID |-> t.sid, DHPubKey |-> t.dh,
     Host |-> parseHostPort(t.host).host, Port |-> parseHostPort(t.host).port,
     ClientVRange |-> parseVersionRange(t.v)]

-----------------------------------------------------------------------------
(* The printer.  The host is printed without brackets.                     *)

String(u) ==
    [scheme |-> TRUE, fp |-> u.ServerFingerprint, sid |-> u.SenderID, dh |-> u.DHPubKey,
     host |-> u.Host \o <<":", Decimal(IF u.Port = 0 THEN DefaultPort ELSE u.Port)>>,
     v |-> <<Decimal(u.ClientVRange.Min), "-", Decimal(u.ClientVRange.Max)>>]

-----------------------------------------------------------------------------
(* kozi-cli's use of it.  SHA-256 is the sequence that is hashed.          *)

deriveProximitySecret(u) == u.SenderID \o u.DHPubKey \o u.ServerFingerprint

SameQueue(u, v) ==
    /\ u.SenderID = v.SenderID
    /\ u.DHPubKey = v.DHPubKey
    /\ u.ServerFingerprint = v.ServerFingerprint
=============================================================================
