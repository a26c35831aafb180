------------------------------ MODULE Encoding ------------------------------
(***************************************************************************)
(* encoding.go: what Encoder appends and Decoder takes.  A byte string is  *)
(* a sequence of numbers below 256; a decoded value comes with the         *)
(* position after it.                                                      *)
(***************************************************************************)
EXTENDS Integers, Sequences

Bytes == Seq(0..255)

MaxShort == 255
True == 84    \* 'T'
False == 70   \* 'F'
Absent == 48  \* '0'
Present == 49 \* '1'

Word16(n) == <<(n \div 256) % 256, n % 256>>

\* ShortString refuses a string for which FitsShort is false.
FitsShort(v) == Len(v) <= MaxShort
ShortBytes == {b \in Bytes : FitsShort(b)}
Short(v) == <<Len(v)>> \o v

Bool(b) == <<IF b THEN True ELSE False>>
MaybeShort(v) == IF v = <<>> THEN <<Absent>> ELSE <<Present>> \o Short(v)

Bad == [ok |-> FALSE, v |-> <<>>, pos |-> 0]

Need(buf, pos, n) ==
    IF pos + n > Len(buf) THEN Bad
    ELSE [ok |-> TRUE, v |-> SubSeq(buf, pos + 1, pos + n), pos |-> pos + n]

GetShort(buf, pos) ==
    IF Need(buf, pos, 1).ok THEN Need(buf, pos + 1, buf[pos + 1]) ELSE Bad

GetWord16(buf, pos) ==
    IF Need(buf, pos, 2).ok
    THEN [ok |-> TRUE, v |-> 256 * buf[pos + 1] + buf[pos + 2], pos |-> pos + 2]
    ELSE Bad

GetBool(buf, pos) ==
    IF Need(buf, pos, 1).ok /\ buf[pos + 1] \in {True, False}
    THEN [ok |-> TRUE, v |-> buf[pos + 1] = True, pos |-> pos + 1]
    ELSE Bad

GetTail(buf, pos) == SubSeq(buf, pos + 1, Len(buf))
=============================================================================
