---------------------------- MODULE PairingProofs ----------------------------
(***************************************************************************)
(* Proofs about Pairing: the clocks, the secret and the round trip of the  *)
(* address, for any devices, zones, skew, lengths and texts.               *)
(***************************************************************************)
EXTENDS Pairing, SequenceTheorems, WellFoundedInduction, TLAPS

-----------------------------------------------------------------------------
(* The clocks.                                                             *)

ClocksOK ==
    /\ now \in Int
    /\ skew \in [Devices -> -Skew..Skew]
    /\ zone \in [Devices -> Zones]

\* The bucket is that of UTC: the zone of the device cancels out.
LEMMA ZoneCancels ==
    ASSUME ClocksOK, NEW d \in Devices
    PROVE  /\ hourBucket(Time(d)) = (now + skew[d]) \div Hour
           /\ skew[d] \in -Skew..Skew
<1>1. zone[d] \in Int /\ skew[d] \in -Skew..Skew
  BY SlotsAssumption DEF ClocksOK
<1>2. Time(d).wall - Time(d).zone = now + skew[d]
  BY <1>1, SlotsAssumption DEF ClocksOK, Time
<1> QED BY <1>1, <1>2 DEF hourBucket, Hour

\* A clock that is less wrong than the distance to the hour shows its hour.
LEMMA SameHour ==
    ASSUME NEW n \in Int, NEW k \in Int,
           0 <= (n % 60) + k, (n % 60) + k < 60
    PROVE  (n + k) \div 60 = n \div 60
BY SMT

LEMMA OneHour ==
    ASSUME NEW n \in Int, NEW m \in Int, n - m \in -60..60
    PROVE  (n \div 60) - (m \div 60) \in -1..1
BY SMT

\* Clocks that are half an hour wrong at most are at most an hour apart.
LEMMA WithinTheHour ==
    ASSUME NEW n \in Int, NEW j \in Int, NEW k \in Int,
           -30 <= j, j <= 30, -30 <= k, k <= 30
    PROVE  (n + j) - (n + k) \in -60..60
<1>1. (n + j) - (n + k) = j - k
  OBVIOUS
<1>2. j - k \in Int /\ -60 <= j - k /\ j - k <= 60
  OBVIOUS
<1> QED BY <1>1, <1>2

-----------------------------------------------------------------------------
(* Texts and numbers.                                                      *)

\* Numbers that print: those some numeral stands for.
Known == {n \in Uint16 : \E t \in Numerals : Value[t] = n}

LEMMA Numbers ==
    ASSUME NEW s \in Seq(Tokens)
    PROVE  ParseUint(s) \in Known \cup {Error}
BY QueueURIAssumption DEF ParseUint, Known

\* What %d prints of a known number reads as that number.
LEMMA Decimals ==
    ASSUME NEW n \in Known
    PROVE  /\ Decimal(n) \in Numerals
           /\ Decimal(n) \in Tokens
           /\ Decimal(n) \notin {"[", "]", ":", "-"}
           /\ ParseUint(<<Decimal(n)>>) = n
<1>1. Decimal(n) \in Numerals /\ Value[Decimal(n)] = n
  BY DEF Known, Decimal
<1>2. Decimal(n) \in Tokens /\ Decimal(n) \notin {"[", "]", ":", "-"}
  BY <1>1, QueueURIAssumption
<1>3. Len(<<Decimal(n)>>) = 1 /\ <<Decimal(n)>>[1] = Decimal(n)
  OBVIOUS
<1> QED BY <1>1, <1>2, <1>3 DEF ParseUint, Known

LEMMA KnownIsNoError ==
    ASSUME NEW n \in Known
    PROVE  n # Error
<1>1. n \in 0..MaxUint16
  BY DEF Known, Uint16
<1>2. n >= 0
  BY <1>1
<1> QED BY <1>1, <1>2 DEF Error

LEMMA DefaultKnown == DefaultPort \in Known
<1>1. DefaultPort \in Uint16
  BY DEF Uint16, MaxUint16, DefaultPort
<1> QED BY <1>1, QueueURIAssumption DEF Known

-----------------------------------------------------------------------------
(* Splitting a text at a token.                                            *)

LEMMA Smallest ==
    ASSUME NEW T, T \subseteq Nat, T # {}
    PROVE  \E x \in T : \A y \in T : x <= y
<1>1. PICK x \in T : \A y \in T : ~(<<y, x>> \in OpToRel(<, Nat))
  BY WFMin, NatLessThanWellFounded
<1>2. \A y \in T : ~(y < x)
  BY <1>1 DEF OpToRel
<1> QED BY <1>2

LEMMA Largest ==
    ASSUME NEW n \in Nat, NEW T, T \subseteq 1..n, T # {}
    PROVE  \E x \in T : \A y \in T : y <= x
<1> DEFINE U == {k \in Nat : n - k \in T}
<1>1. U # {}
  <2>1. PICK y \in T : TRUE
    OBVIOUS
  <2>2. n - y \in Nat /\ n - (n - y) = y
    BY <2>1
  <2> QED BY <2>1, <2>2
<1>2. PICK k \in U : \A j \in U : k <= j
  BY <1>1, Smallest
<1>3. \A y \in T : n - y \in U
  OBVIOUS
<1>4. \A y \in T : y <= n - k
  <2> TAKE y \in T
  <2>1. k <= n - y
    BY <1>2, <1>3
  <2> QED BY <2>1
<1> QED BY <1>4

LEMMA FirstIn ==
    ASSUME NEW s \in Seq(Tokens), NEW t
    PROVE  First(s, t) \in 0..Len(s)
<1>1. CASE At(s, t) = {}
  BY <1>1 DEF First
<1>2. CASE At(s, t) # {}
  <2>1. At(s, t) \subseteq 1..Len(s)
    BY DEF At
  <2>2. \E i \in At(s, t) : \A j \in At(s, t) : i <= j
    BY <1>2, <2>1, Smallest
  <2>3. First(s, t) \in At(s, t)
    BY <1>2, <2>2 DEF First
  <2> QED BY <2>1, <2>3
<1> QED BY <1>1, <1>2

LEMMA LastIn ==
    ASSUME NEW s \in Seq(Tokens), NEW t
    PROVE  Last(s, t) \in 0..Len(s)
<1>1. CASE At(s, t) = {}
  BY <1>1 DEF Last
<1>2. CASE At(s, t) # {}
  <2>1. At(s, t) \subseteq 1..Len(s)
    BY DEF At
  <2>4. Len(s) \in Nat
    OBVIOUS
  <2>2. \E i \in At(s, t) : \A j \in At(s, t) : j <= i
    BY <1>2, <2>1, <2>4, Largest
  <2>3. Last(s, t) \in At(s, t)
    BY <1>2, <2>2 DEF Last
  <2> QED BY <2>1, <2>3
<1> QED BY <1>1, <1>2

LEMMA Pieces ==
    ASSUME NEW s \in Seq(Tokens), NEW i \in 0..Len(s)
    PROVE  /\ UpTo(s, i) \in Seq(Tokens)
           /\ After(s, i) \in Seq(Tokens)
           /\ \A k \in 1..Len(s) + 1 : SubSeq(s, k, i - 1) \in Seq(Tokens)
<1>1. \A k \in 1..Len(s) + 1 : SubSeq(s, k, i - 1) \in Seq(Tokens)
  <2> TAKE k \in 1..Len(s) + 1
  <2>1. \A j \in k..(i - 1) : s[j] \in Tokens
    OBVIOUS
  <2> QED BY <2>1, SubSeqProperties
<1>2. \A j \in (i + 1)..Len(s) : s[j] \in Tokens
  OBVIOUS
<1>3. After(s, i) \in Seq(Tokens)
  BY <1>2, SubSeqProperties DEF After
<1> QED BY <1>1, <1>3 DEF UpTo

LEMMA OneOf ==
    ASSUME NEW s, NEW n \in Int, s[n] \in Tokens
    PROVE  SubSeq(s, n, n) = <<s[n]>>
<1> DEFINE e == SubSeq(s, n, n)
<1>1. \A i \in n..n : s[i] \in Tokens
  OBVIOUS
<1>2. n - n + 1 = 1
  OBVIOUS
<1>3. e \in Seq(Tokens) /\ Len(e) = 1 /\ \A i \in 1..1 : e[i] = s[n + i - 1]
  BY <1>1, <1>2, SubSeqProperties
<1>4. e[1] = s[n]
  BY <1>3
<1> HIDE DEF e
<1>5. e = <<s[n]>>
  BY <1>3, <1>4
<1> QED BY <1>5 DEF e

\* A host and a port: the last colon is the one between them.
LEMMA LastColon ==
    ASSUME NEW h \in Seq(Tokens), NEW p \in Tokens, p # ":"
    PROVE  LET s == h \o <<":", p>> IN
           /\ s \in Seq(Tokens)
           /\ Last(s, ":") = Len(h) + 1
           /\ UpTo(s, Last(s, ":")) = h
           /\ After(s, Last(s, ":")) = <<p>>
<1> DEFINE s == h \o <<":", p>>
<1>1. /\ s \in Seq(Tokens) /\ Len(s) = Len(h) + 2
      /\ \A i \in 1..Len(h) : s[i] = h[i]
      /\ s[Len(h) + 1] = ":" /\ s[Len(h) + 2] = p
  <2> DEFINE e == <<":", p>>
  <2>1. e \in Seq(Tokens) /\ Len(e) = 2 /\ e[1] = ":" /\ e[2] = p
    BY QueueURIAssumption
  <2> HIDE DEF e
  <2>2. /\ h \o e \in Seq(Tokens) /\ Len(h \o e) = Len(h) + Len(e)
        /\ \A i \in 1..Len(h) + Len(e) :
               (h \o e)[i] = IF i <= Len(h) THEN h[i] ELSE e[i - Len(h)]
    BY <2>1, ConcatProperties
  <2>3. Len(h) \in Nat
    OBVIOUS
  <2>4. (h \o e)[Len(h) + 1] = e[1] /\ (h \o e)[Len(h) + 2] = e[2]
    BY <2>1, <2>2, <2>3
  <2>5. \A i \in 1..Len(h) : (h \o e)[i] = h[i]
    BY <2>1, <2>2, <2>3
  <2> QED BY <2>1, <2>2, <2>4, <2>5 DEF e
<1> HIDE DEF s
<1>2. Len(h) + 1 \in At(s, ":")
  BY <1>1 DEF At
<1>3. \A i \in At(s, ":") : i <= Len(h) + 1
  BY <1>1 DEF At
<1>4. At(s, ":") \subseteq Int
  BY DEF At
<1>5. Last(s, ":") = Len(h) + 1
  BY <1>2, <1>3, <1>4 DEF Last
<1>6. UpTo(s, Len(h) + 1) = h
  <2>1. Len(h) + 1 - 1 = Len(h)
    OBVIOUS
  <2>2. \A i \in 1..Len(h) : s[i] \in Tokens
    BY <1>1
  <2>3. /\ SubSeq(s, 1, Len(h)) \in Seq(Tokens)
        /\ Len(SubSeq(s, 1, Len(h))) = Len(h)
        /\ \A i \in 1..Len(h) : SubSeq(s, 1, Len(h))[i] = s[i]
    BY <2>2, SubSeqProperties
  <2>4. SubSeq(s, 1, Len(h)) = h
    BY <1>1, <2>3, SeqEqual
  <2> QED BY <2>1, <2>4 DEF UpTo
<1>7. After(s, Len(h) + 1) = <<p>>
  <2>1. Len(h) + 2 \in Int /\ Len(h) + 1 + 1 = Len(h) + 2
    OBVIOUS
  <2>2. SubSeq(s, Len(h) + 2, Len(h) + 2) = <<s[Len(h) + 2]>>
    BY <1>1, <2>1, OneOf
  <2> QED BY <1>1, <2>1, <2>2 DEF After
<1> QED BY <1>1, <1>5, <1>6, <1>7 DEF s

\* Two numerals with a dash between them.
LEMMA FirstDash ==
    ASSUME NEW a \in Tokens, NEW b \in Tokens, a # "-"
    PROVE  LET s == <<a, "-", b>> IN
           First(s, "-") = 2 /\ UpTo(s, 2) = <<a>> /\ After(s, 2) = <<b>>
<1> DEFINE s == <<a, "-", b>>
<1>1. s \in Seq(Tokens) /\ Len(s) = 3 /\ s[1] = a /\ s[2] = "-" /\ s[3] = b
  BY QueueURIAssumption
<1> HIDE DEF s
<1>2. 2 \in At(s, "-") /\ 1 \notin At(s, "-") /\ At(s, "-") \subseteq 1..3
  BY <1>1 DEF At
<1>3. \A i \in At(s, "-") : 2 <= i
  BY <1>2
<1>4. First(s, "-") = 2
  BY <1>2, <1>3 DEF First
<1>5. UpTo(s, 2) = <<a>>
  BY <1>1, OneOf DEF UpTo
<1>6. After(s, 2) = <<b>>
  BY <1>1, OneOf DEF After
<1> QED BY <1>4, <1>5, <1>6 DEF s

-----------------------------------------------------------------------------
(* The address.                                                            *)

LEMMA PortParsed ==
    ASSUME NEW s \in Seq(Tokens)
    PROVE  /\ parseHostPort(s).host \in Seq(Tokens)
           /\ parseHostPort(s).port \in Known \cup {Error}
<1> DEFINE c == First(s, "]")
           l == Last(s, ":")
<1>1. c \in 0..Len(s) /\ l \in 0..Len(s)
  BY FirstIn, LastIn
<1> HIDE DEF c, l
<1>2. /\ SubSeq(s, 2, c - 1) \in Seq(Tokens) /\ After(s, c) \in Seq(Tokens)
      /\ UpTo(s, l) \in Seq(Tokens) /\ After(s, l) \in Seq(Tokens)
  <2>1. UpTo(s, l) \in Seq(Tokens) /\ After(s, l) \in Seq(Tokens) /\ After(s, c) \in Seq(Tokens)
    BY <1>1, Pieces
  <2>2. ASSUME s = <<>> PROVE SubSeq(s, 2, c - 1) \in Seq(Tokens)
    <3>1. c - 1 \in Int /\ c - 1 < 2
      BY <1>1, <2>2
    <3>2. SubSeq(s, 2, c - 1) = <<>>
      BY <3>1, SubSeqEmpty
    <3>3. <<>> \in Seq(Tokens)
      OBVIOUS
    <3> QED BY <3>2, <3>3, Zenon
  <2>3. ASSUME s # <<>> PROVE SubSeq(s, 2, c - 1) \in Seq(Tokens)
    <3>1. 2 \in 1..Len(s) + 1
      BY <2>3
    <3>2. SubSeq(s, 2, c - 1) \in Seq(Tokens)
      BY <1>1, <3>1, Pieces
    <3> QED BY <3>2
  <2>4. SubSeq(s, 2, c - 1) \in Seq(Tokens)
    BY <2>2, <2>3
  <2> QED BY <2>1, <2>4
<1>3. ASSUME NEW r \in Seq(Tokens) PROVE parsePortSuffix(r) \in Known \cup {Error}
  <2>1. CASE r = <<>>
    BY <2>1, DefaultKnown DEF parsePortSuffix
  <2>2. CASE r # <<>>
    <3>1. Tail(r) \in Seq(Tokens)
      BY <2>2
    <3>2. ParseUint(Tail(r)) \in Known \cup {Error}
      BY <3>1, Numbers
    <3> QED BY <2>2, <3>2 DEF parsePortSuffix
  <2> QED BY <2>1, <2>2
<1>4. CASE Bracketed(s)
  <2>1. parsePortSuffix(After(s, c)) \in Known \cup {Error}
    BY <1>2, <1>3
  <2>2. parseHostPort(s) = HostAt(SubSeq(s, 2, c - 1),
                                  IF c = 0 THEN Error ELSE parsePortSuffix(After(s, c)))
    BY <1>4 DEF parseHostPort, c
  <2> QED BY <1>2, <2>1, <2>2 DEF HostAt
<1>5. CASE ~Bracketed(s) /\ l = 0
  <2>1. parseHostPort(s) = HostAt(s, DefaultPort)
    BY <1>5 DEF parseHostPort, l
  <2> QED BY <2>1, DefaultKnown DEF HostAt
<1>6. CASE ~Bracketed(s) /\ l # 0
  <2>1. parseHostPort(s) = HostAt(UpTo(s, l), ParseUint(After(s, l)))
    BY <1>6 DEF parseHostPort, l
  <2>2. ParseUint(After(s, l)) \in Known \cup {Error}
    BY <1>2, Numbers
  <2> QED BY <1>2, <2>1, <2>2 DEF HostAt
<1> QED BY <1>4, <1>5, <1>6

LEMMA VersionsParsed ==
    ASSUME NEW s \in Seq(Tokens)
    PROVE  /\ parseVersionRange(s).Min \in Known \cup {Error}
           /\ parseVersionRange(s).Max \in Known \cup {Error}
<1>1. First(s, "-") \in 0..Len(s)
  BY FirstIn
<1>2. UpTo(s, First(s, "-")) \in Seq(Tokens) /\ After(s, First(s, "-")) \in Seq(Tokens)
  BY <1>1, Pieces
<1>3. /\ ParseUint(s) \in Known \cup {Error}
      /\ ParseUint(UpTo(s, First(s, "-"))) \in Known \cup {Error}
      /\ ParseUint(After(s, First(s, "-"))) \in Known \cup {Error}
  BY <1>2, Numbers
<1> QED BY <1>3 DEF parseVersionRange

\* What the parser returns can be printed.
LEMMA Parsed ==
    ASSUME NEW t \in Texts, Accepted(t)
    PROVE  /\ Parse(t).Host \in Seq(Tokens)
           /\ Parse(t).Port \in Known
           /\ Parse(t).ClientVRange.Min \in Known
           /\ Parse(t).ClientVRange.Max \in Known
           /\ Parse(t).ClientVRange.Min <= Parse(t).ClientVRange.Max
<1>1. t.host \in Seq(Tokens) /\ t.v \in Seq(Tokens)
  BY DEF Texts
<1>2. /\ parseHostPort(t.host).host \in Seq(Tokens)
      /\ parseHostPort(t.host).port \in Known
  BY <1>1, PortParsed DEF Accepted
<1>3. LET vr == parseVersionRange(t.v) IN
      vr.Min \in Known /\ vr.Max \in Known /\ vr.Min <= vr.Max
  BY <1>1, VersionsParsed DEF Accepted
<1> QED BY <1>2, <1>3 DEF Parse

LEMMA HostReread ==
    ASSUME NEW h \in Seq(Tokens), NEW n \in Known, ~Bracketed(h)
    PROVE  parseHostPort(h \o <<":", Decimal(n)>>) = HostAt(h, n)
<1> DEFINE s == h \o <<":", Decimal(n)>>
<1>1. Decimal(n) \in Tokens /\ Decimal(n) # ":" /\ ParseUint(<<Decimal(n)>>) = n
  BY Decimals
<1>2. /\ Last(s, ":") = Len(h) + 1
      /\ UpTo(s, Last(s, ":")) = h
      /\ After(s, Last(s, ":")) = <<Decimal(n)>>
  BY <1>1, LastColon
<1>3. ~Bracketed(s)
  <2> DEFINE e == <<":", Decimal(n)>>
  <2>1. e \in Seq(Tokens) /\ Len(e) = 2 /\ e[1] = ":"
    BY <1>1, QueueURIAssumption
  <2> HIDE DEF e
  <2>2. \A i \in 1..Len(h) + Len(e) :
            (h \o e)[i] = IF i <= Len(h) THEN h[i] ELSE e[i - Len(h)]
    BY <2>1, ConcatProperties
  <2>3. CASE h = <<>>
    <3>1. (h \o e)[1] = ":"
      BY <2>1, <2>2, <2>3
    <3> QED BY <3>1 DEF Bracketed, e
  <2>4. CASE h # <<>>
    <3>1. Len(h) \in Nat /\ Len(h) >= 1
      BY <2>4
    <3>2. (h \o e)[1] = h[1]
      BY <2>2, <3>1
    <3> QED BY <2>4, <3>2 DEF Bracketed, e
  <2> QED BY <2>3, <2>4
<1>4. Last(s, ":") # 0
  BY <1>2
<1> HIDE DEF s
<1>5. parseHostPort(s) = HostAt(UpTo(s, Last(s, ":")), ParseUint(After(s, Last(s, ":"))))
  BY <1>3, <1>4 DEF parseHostPort
<1> QED BY <1>1, <1>2, <1>5 DEF s

LEMMA VersionsReread ==
    ASSUME NEW m \in Known, NEW n \in Known
    PROVE  parseVersionRange(<<Decimal(m), "-", Decimal(n)>>) = [Min |-> m, Max |-> n]
<1> DEFINE s == <<Decimal(m), "-", Decimal(n)>>
<1>1. /\ Decimal(m) \in Tokens /\ Decimal(m) # "-" /\ ParseUint(<<Decimal(m)>>) = m
      /\ Decimal(n) \in Tokens /\ ParseUint(<<Decimal(n)>>) = n
  BY Decimals
<1>2. First(s, "-") = 2 /\ UpTo(s, 2) = <<Decimal(m)>> /\ After(s, 2) = <<Decimal(n)>>
  BY <1>1, FirstDash
<1> HIDE DEF s
<1>3. parseVersionRange(s) = [Min |-> m, Max |-> n]
  BY <1>1, <1>2 DEF parseVersionRange
<1> QED BY <1>3 DEF s

LEMMA Printed ==
    ASSUME NEW t \in Texts, Accepted(t)
    PROVE  String(Parse(t)) \in Texts
<1> DEFINE u == Parse(t)
           n == IF u.Port = 0 THEN DefaultPort ELSE u.Port
<1>1. n \in Known /\ u.Host \in Seq(Tokens)
  BY Parsed, DefaultKnown
<1>2. u.ClientVRange.Min \in Known /\ u.ClientVRange.Max \in Known
  BY Parsed
<1>3. u.Host \o <<":", Decimal(n)>> \in Seq(Tokens)
  <2>1. Decimal(n) \in Tokens /\ ":" \in Tokens
    BY <1>1, Decimals, QueueURIAssumption
  <2>2. <<":", Decimal(n)>> \in Seq(Tokens)
    BY <2>1
  <2> QED BY <1>1, <2>2, ConcatProperties
<1>4. <<Decimal(u.ClientVRange.Min), "-", Decimal(u.ClientVRange.Max)>> \in Seq(Tokens)
  <2> DEFINE a == Decimal(u.ClientVRange.Min)
             b == Decimal(u.ClientVRange.Max)
  <2>1. a \in Tokens /\ b \in Tokens /\ "-" \in Tokens
    BY <1>2, Decimals, QueueURIAssumption
  <2> HIDE DEF a, b
  <2>2. <<a, "-", b>> \in Seq(Tokens)
    BY <2>1
  <2> QED BY <2>2 DEF a, b
<1>5. /\ u.ServerFingerprint \in Seq(Byte) /\ u.SenderID \in Seq(Byte)
      /\ u.DHPubKey \in Seq(Byte)
  BY DEF Parse, Texts
<1> HIDE DEF u
<1> QED BY <1>3, <1>4, <1>5 DEF String, Texts, u

LEMMA Reread ==
    ASSUME NEW t \in Texts, Accepted(t),
           Parse(t).Port # 0, ~Bracketed(Parse(t).Host)
    PROVE  Accepted(String(Parse(t))) /\ Parse(String(Parse(t))) = Parse(t)
<1> DEFINE u == Parse(t)
           w == String(u)
<1>1. /\ u.Host \in Seq(Tokens) /\ u.Port \in Known
      /\ u.ClientVRange.Min \in Known /\ u.ClientVRange.Max \in Known
      /\ u.ClientVRange.Min <= u.ClientVRange.Max
  BY Parsed
<1>2. w.host = u.Host \o <<":", Decimal(u.Port)>>
  BY DEF String
<1>3. parseHostPort(w.host) = HostAt(u.Host, u.Port)
  BY <1>1, <1>2, HostReread
<1>4. w.v = <<Decimal(u.ClientVRange.Min), "-", Decimal(u.ClientVRange.Max)>>
  BY DEF String
<1>5. parseVersionRange(w.v) = [Min |-> u.ClientVRange.Min, Max |-> u.ClientVRange.Max]
  BY <1>1, <1>4, VersionsReread
<1>6. u.ClientVRange = [Min |-> u.ClientVRange.Min, Max |-> u.ClientVRange.Max]
  <2>1. u.ClientVRange = parseVersionRange(t.v)
    BY DEF Parse
  <2> QED BY <2>1 DEF parseVersionRange
<1>7. /\ w.scheme = TRUE /\ w.fp = u.ServerFingerprint /\ w.sid = u.SenderID /\ w.dh = u.DHPubKey
  BY DEF String
<1>8. /\ u.ServerFingerprint = t.fp /\ u.SenderID = t.sid /\ u.DHPubKey = t.dh
      /\ u = [ServerFingerprint |-> u.ServerFingerprint, SenderID |-> u.SenderID,
              DHPubKey |-> u.DHPubKey, Host |-> u.Host, Port |-> u.Port,
              ClientVRange |-> u.ClientVRange]
  BY DEF Parse
<1>13. LengthsOK(t)
  BY DEF Accepted
<1> HIDE DEF w, u
<1>9. LengthsOK(w)
  BY <1>7, <1>8, <1>13 DEF LengthsOK
<1>11. Accepted(w)
  <2>1. parseHostPort(w.host).port # Error
    BY <1>1, <1>3, KnownIsNoError DEF HostAt
  <2>2. LET vr == parseVersionRange(w.v) IN vr.Min # Error /\ vr.Max # Error /\ vr.Min <= vr.Max
    BY <1>1, <1>5, KnownIsNoError
  <2> QED BY <1>7, <1>9, <2>1, <2>2 DEF Accepted
<1>12. Parse(w) = u
  <2>1. Parse(w) = [ServerFingerprint |-> u.ServerFingerprint, SenderID |-> u.SenderID,
                    DHPubKey |-> u.DHPubKey, Host |-> u.Host, Port |-> u.Port,
                    ClientVRange |-> u.ClientVRange]
    BY <1>3, <1>5, <1>6, <1>7 DEF Parse, HostAt
  <2> QED BY <1>8, <2>1
<1> QED BY <1>11, <1>12 DEF w, u
-----------------------------------------------------------------------------
(* The secret.                                                             *)

\* Concatenation, as the lemmas are instantiated with it.
Cat(a, b) == a \o b

LEMMA TailsApart ==
    ASSUME NEW a \in Seq(Byte), NEW x \in Seq(Byte), NEW b \in Seq(Byte), NEW y \in Seq(Byte),
           Len(b) = Len(y), Cat(a, b) = Cat(x, y)
    PROVE  a = x /\ b = y
<1>0. a \o b = x \o y
  BY DEF Cat
<1>1. /\ Len(a \o b) = Len(a) + Len(b) /\ Len(x \o y) = Len(x) + Len(y)
      /\ \A i \in 1..Len(a) + Len(b) :
             (a \o b)[i] = IF i <= Len(a) THEN a[i] ELSE b[i - Len(a)]
      /\ \A i \in 1..Len(x) + Len(y) :
             (x \o y)[i] = IF i <= Len(x) THEN x[i] ELSE y[i - Len(x)]
  BY ConcatProperties
<1>2. Len(a) \in Nat /\ Len(b) \in Nat /\ Len(x) \in Nat
  OBVIOUS
<1>3. Len(a) = Len(x)
  BY <1>0, <1>1, <1>2
<1>4. \A i \in 1..Len(a) : a[i] = x[i]
  <2> TAKE i \in 1..Len(a)
  <2>1. i \in 1..Len(a) + Len(b) /\ i <= Len(a)
    BY <1>2
  <2>2. (a \o b)[i] = a[i] /\ (x \o y)[i] = x[i]
    BY <1>1, <1>3, <2>1
  <2> QED BY <1>0, <2>2
<1>5. \A i \in 1..Len(b) : b[i] = y[i]
  <2> TAKE i \in 1..Len(b)
  <2> DEFINE j == Len(a) + i
  <2>1. j \in 1..Len(a) + Len(b) /\ ~(j <= Len(a)) /\ j - Len(a) = i
    BY <1>2
  <2> HIDE DEF j
  <2>2. (a \o b)[j] = b[i] /\ (x \o y)[j] = y[i]
    BY <1>1, <1>3, <2>1
  <2> QED BY <1>0, <2>2
<1> QED BY <1>3, <1>4, <1>5, SeqEqual

LEMMA ThreeApart ==
    ASSUME NEW a \in Seq(Byte), NEW b \in Seq(Byte), NEW c \in Seq(Byte),
           NEW x \in Seq(Byte), NEW y \in Seq(Byte), NEW z \in Seq(Byte),
           Len(b) = Len(y), Len(c) = Len(z), Cat(Cat(a, b), c) = Cat(Cat(x, y), z)
    PROVE  a = x /\ b = y /\ c = z
<1>1. Cat(a, b) \in Seq(Byte) /\ Cat(x, y) \in Seq(Byte)
  BY ConcatProperties DEF Cat
<1>2. Cat(a, b) = Cat(x, y) /\ c = z
  BY <1>1, TailsApart
<1>3. a = x /\ b = y
  BY <1>2, TailsApart
<1> QED BY <1>2, <1>3

\* Two accepted addresses with one secret are of one queue.
LEMMA SecretsApart ==
    ASSUME NEW s \in Texts, NEW t \in Texts, Accepted(s), Accepted(t),
           deriveProximitySecret(Parse(s)) = deriveProximitySecret(Parse(t))
    PROVE  SameQueue(Parse(s), Parse(t))
<1> DEFINE a == s.sid  b == s.dh  c == s.fp
           x == t.sid  y == t.dh  z == t.fp
<1>1. /\ a \in Seq(Byte) /\ b \in Seq(Byte) /\ c \in Seq(Byte)
      /\ x \in Seq(Byte) /\ y \in Seq(Byte) /\ z \in Seq(Byte)
  BY DEF Texts
<1>2. Len(b) = Len(y) /\ Len(c) = Len(z)
  BY DEF Accepted, LengthsOK
<1>3. Cat(Cat(a, b), c) = Cat(Cat(x, y), z)
  BY DEF deriveProximitySecret, Parse, Cat
<1>4. a = x /\ b = y /\ c = z
  <2> HIDE DEF a, b, c, x, y, z
  <2> QED BY <1>1, <1>2, <1>3, ThreeApart
<1> QED BY <1>4 DEF SameQueue, Parse

-----------------------------------------------------------------------------
(* The invariant.                                                          *)

\* What a device has paired with, and the invitation behind it, are addresses of
\* the same queue that the parser accepts.
LinkOK(d) ==
    /\ link[d] \in Texts /\ Accepted(link[d])
    /\ origin[d] \in Texts /\ Accepted(origin[d])
    /\ SameQueue(Parse(link[d]), Parse(origin[d]))
    /\ secret[d] = deriveProximitySecret(Parse(link[d]))

LinksOK ==
    /\ DOMAIN link = Devices /\ DOMAIN secret = Devices /\ DOMAIN origin = Devices
    /\ \A d \in Paired : LinkOK(d)

LEMMA PairStep ==
    ASSUME LinksOK, NEW d \in Devices, NEW t \in Texts, NEW i \in Texts,
           Accepted(i), SameQueue(Parse(t), Parse(i)), PairWith(d, t, i)
    PROVE  LinksOK'
<1>1. /\ link' = [link EXCEPT ![d] = t]
      /\ secret' = [secret EXCEPT ![d] = deriveProximitySecret(Parse(t))]
      /\ origin' = [origin EXCEPT ![d] = i]
      /\ Accepted(t)
  BY DEF PairWith
<1>2. /\ DOMAIN link' = Devices /\ DOMAIN secret' = Devices /\ DOMAIN origin' = Devices
      /\ link'[d] = t /\ origin'[d] = i /\ secret'[d] = deriveProximitySecret(Parse(t))
      /\ \A e \in Devices \ {d} :
             link'[e] = link[e] /\ origin'[e] = origin[e] /\ secret'[e] = secret[e]
  BY <1>1 DEF LinksOK
<1>3. LinkOK(d)'
  BY <1>1, <1>2 DEF LinkOK
<1>4. \A e \in Devices \ {d} : e \in Paired' => LinkOK(e)'
  BY <1>2 DEF LinksOK, LinkOK, Paired
<1>5. \A e \in Paired' : LinkOK(e)'
  BY <1>3, <1>4 DEF Paired
<1> QED BY <1>2, <1>5 DEF LinksOK

LEMMA Linked == PairingSpec => []LinksOK
<1>1. PairingInit => LinksOK
  BY DEF PairingInit, LinksOK, Paired
<1>2. LinksOK /\ [PairingNext]_pairingVars => LinksOK'
  <2> SUFFICES ASSUME LinksOK, [PairingNext]_pairingVars
               PROVE  LinksOK'
    OBVIOUS
  <2>1. CASE UNCHANGED pairVars
    BY <2>1 DEF pairVars, LinksOK, LinkOK, Paired
  <2>2. ASSUME NEW d \in Devices, NEW t \in Invitations, Pair(d, t) PROVE LinksOK'
    <3>1. t \in Texts /\ Accepted(t) /\ PairWith(d, t, t)
      BY <2>2, PairingAssumption DEF Pair, PairWith
    <3>2. SameQueue(Parse(t), Parse(t))
      BY DEF SameQueue
    <3> QED BY <3>1, <3>2, PairStep
  <2>3. ASSUME NEW d \in Devices, NEW e \in Devices, PassOn(d, e) PROVE LinksOK'
    <3> DEFINE t == String(Parse(link[d]))
    <3>1. LinkOK(d) /\ PairWith(e, t, origin[d])
      BY <2>3 DEF PassOn, LinksOK, Paired
    <3>2. t \in Texts /\ origin[d] \in Texts /\ Accepted(origin[d])
      BY <3>1, Printed DEF LinkOK
    <3>3. SameQueue(Parse(t), Parse(origin[d]))
      BY <3>1 DEF LinkOK, SameQueue, Parse, String
    <3> HIDE DEF t
    <3> QED BY <3>1, <3>2, <3>3, PairStep
  <2> QED BY <2>1, <2>2, <2>3 DEF PairingNext, pairingVars
<1> QED BY <1>1, <1>2, PTL DEF PairingSpec

LEMMA Clocks == PairingSpec => []ClocksOK
<1>1. PairingInit => ClocksOK
  BY SlotsAssumption DEF PairingInit, Init, ClocksOK, Hour
<1>2. ClocksOK /\ [PairingNext]_pairingVars => ClocksOK'
  <2> SUFFICES ASSUME ClocksOK, [PairingNext]_pairingVars
               PROVE  ClocksOK'
    OBVIOUS
  <2>1. CASE Next
    BY <2>1, SlotsAssumption DEF ClocksOK, Next, Minute, SetClock, Travel
  <2>2. CASE UNCHANGED vars
    BY <2>2 DEF ClocksOK, vars
  <2> QED BY <2>1, <2>2 DEF PairingNext, pairingVars, Pair, PassOn, PairWith
<1> QED BY <1>1, <1>2, PTL DEF PairingSpec

-----------------------------------------------------------------------------
(* The theorems.                                                           *)

\* Clocks of any skew and zone: mid-hour, and however the address was passed on,
\* the devices one invitation brought together derive the same slot.
THEOREM MidHour == PairingSpec => []AgreeMidHour
<1>1. ClocksOK /\ LinksOK => AgreeMidHour
  <2> SUFFICES ASSUME ClocksOK, LinksOK, now % Hour >= Skew, (now % Hour) + Skew < Hour,
                      NEW d \in Paired, NEW e \in Paired, origin[d] = origin[e]
               PROVE  Slot(d) = Slot(e)
    BY DEF AgreeMidHour
  <2>1. ASSUME NEW f \in Devices PROVE hourBucket(Time(f)) = now \div Hour
    <3>1. skew[f] \in Int /\ -Skew <= skew[f] /\ skew[f] <= Skew
      BY ZoneCancels, SlotsAssumption
    <3>2. now % 60 \in Int
      BY DEF ClocksOK
    <3>5. -Skew <= skew[f] /\ (now % 60) >= Skew /\ (now % 60) + Skew < 60
      BY <3>1 DEF Hour
    <3>3. 0 <= (now % 60) + skew[f] /\ (now % 60) + skew[f] < 60
      <4> DEFINE r == now % 60  k == skew[f]
      <4>1. r \in Int /\ k \in Int /\ Skew \in Int /\ -Skew <= k /\ k <= Skew
        BY <3>1, <3>2, SlotsAssumption
      <4>2. r >= Skew /\ r + Skew < 60
        BY <3>5
      <4> HIDE DEF r, k
      <4>3. 0 <= r + k /\ r + k < 60
        BY <4>1, <4>2
      <4> QED BY <4>3 DEF r, k
    <3>4. (now + skew[f]) \div 60 = now \div 60
      BY <3>1, <3>3, SameHour DEF ClocksOK
    <3> QED BY <3>4, ZoneCancels DEF Hour
  <2>2. secret[d] = secret[e]
    BY DEF LinksOK, LinkOK, SameQueue, deriveProximitySecret
  <2> QED BY <2>1, <2>2 DEF Slot, deriveSlotID, Paired
<1> QED BY <1>1, Clocks, Linked, PTL

\* Clocks at most half an hour wrong, of any zones: the slots that two devices
\* derive at the same moment are the same or neighbours.
THEOREM Neighbours == PairingSpec => []AtMostOneApart
<1>1. ClocksOK => AtMostOneApart
  <2> SUFFICES ASSUME ClocksOK, Skew <= 30, NEW d \in Devices, NEW e \in Devices
               PROVE  hourBucket(Time(d)) - hourBucket(Time(e)) \in -1..1
    BY DEF AtMostOneApart, Hour
  <2>1. /\ skew[d] \in Int /\ -30 <= skew[d] /\ skew[d] <= 30
        /\ skew[e] \in Int /\ -30 <= skew[e] /\ skew[e] <= 30
    BY ZoneCancels, SlotsAssumption
  <2>2. now \in Int
    BY DEF ClocksOK
  <2>3. (now + skew[d]) - (now + skew[e]) \in -60..60
    BY <2>1, <2>2, WithinTheHour
  <2>4. now + skew[d] \in Int /\ now + skew[e] \in Int
    BY <2>1, <2>2
  <2> QED BY <2>3, <2>4, ZoneCancels, OneHour DEF Hour
<1> QED BY <1>1, Clocks, PTL

\* Addresses of different queues never lead to one slot, at any hour.
THEOREM Strangers == PairingSpec => []StrangersApart
<1>1. LinksOK => StrangersApart
  <2> SUFFICES ASSUME LinksOK, NEW d \in Paired, NEW e \in Paired, Slot(d) = Slot(e)
               PROVE  SameQueue(Parse(origin[d]), Parse(origin[e]))
    BY DEF StrangersApart
  <2>1. LinkOK(d) /\ LinkOK(e)
    BY DEF LinksOK
  <2>2. secret[d] = secret[e]
    BY DEF Slot, deriveSlotID
  <2>3. SameQueue(Parse(link[d]), Parse(link[e]))
    BY <2>1, <2>2, SecretsApart DEF LinkOK
  <2> QED BY <2>1, <2>3 DEF LinkOK, SameQueue
<1> QED BY <1>1, Linked, PTL

\* Every address that was paired with reads back as itself once printed, its port
\* not 0 and its host without a bracket to begin it.
THEOREM RoundTrips == PairingSpec => []RoundTrip
<1>1. LinksOK => RoundTrip
  BY Reread DEF LinksOK, LinkOK, RoundTrip
<1> QED BY <1>1, Linked, PTL
=============================================================================
