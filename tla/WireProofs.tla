----------------------------- MODULE WireProofs -----------------------------
(***************************************************************************)
(* Proofs about Wire: what is authorized can be read in one way only; a    *)
(* transmission, a command's authorization, an answer and a whole block    *)
(* are read back as they were written, for any commands, answers, queues,  *)
(* keys, sessions, versions and lengths; a block that was cut is refused.  *)
(* A block is a recursion over its transmissions: its two functions are    *)
(* unfolded, and what they compute is shown by induction, which follows    *)
(* from the well-foundedness of less-than.                                 *)
(***************************************************************************)
EXTENDS Wire, SequenceTheorems, WellFoundedInduction, TLAPS

-----------------------------------------------------------------------------
(* What is assumed of the constants.                                       *)

ARequest == [corr : CorrID, entity : Bytes, key : Keys, body : Command]

LEMMA RequestFields ==
    ASSUME NEW r \in Requests
    PROVE  /\ r \in ARequest
           /\ r.corr \in CorrID /\ r.entity \in Bytes /\ r.key \in Keys /\ r.body \in Command
<1>1. r \in ARequest
  BY RequestAssumption DEF ARequest
<1> QED BY <1>1 DEF ARequest

-----------------------------------------------------------------------------
(* Concatenation.                                                          *)

Bare(v, r) == [corr |-> r.corr, entity |-> r.entity, auth |-> <<>>,
               command |-> EncodeCommand(v, r.body)]
Signed(v, r) == Authorize(r.key, AuthBytes(Session, Bare(v, r)), r.corr)

\* What a text is made of: numbers, and the symbols that stand for authenticators.
Symbols == Nat \cup {Signed(v, r)[1] : v \in Versions, r \in Requests}
Nums == Seq(Symbols)

LEMMA NatsAreSymbols == Nat \subseteq Symbols
BY DEF Symbols

Cat(a, b) == a \o b
One(n) == <<n>>

LEMMA BytesAreNums ==
    ASSUME NEW b \in Bytes
    PROVE  b \in Nums
<1>1. b \in Seq(0..255)
  BY DEF Bytes
<1>2. 0..255 \subseteq Symbols
  BY NatsAreSymbols
<1> QED BY <1>1, <1>2, SeqMonotonic DEF Nums

LEMMA CatIsNums ==
    ASSUME NEW a \in Nums, NEW b \in Nums
    PROVE  Cat(a, b) \in Nums /\ Len(Cat(a, b)) = Len(a) + Len(b)
BY ConcatProperties DEF Cat, Nums

LEMMA CatAssociates ==
    ASSUME NEW a \in Nums, NEW b \in Nums, NEW c \in Nums
    PROVE  Cat(Cat(a, b), c) = Cat(a, Cat(b, c))
BY ConcatAssociative DEF Cat, Nums

\* Two texts that begin with parts of one length split in one way.
LEMMA SameLength ==
    ASSUME NEW a \in Nums, NEW b \in Nums, NEW x \in Nums, NEW y \in Nums,
           Len(a) = Len(b), Cat(a, x) = Cat(b, y)
    PROVE  a = b /\ x = y
<1>1. Len(x) = Len(y)
  <2>1. Len(Cat(a, x)) = Len(a) + Len(x) /\ Len(Cat(b, y)) = Len(b) + Len(y)
    BY CatIsNums
  <2>2. Len(a) \in Nat /\ Len(x) \in Nat /\ Len(y) \in Nat
    BY DEF Nums
  <2> QED BY <2>1, <2>2
<1>2. \A i \in 1..Len(a) : a[i] = Cat(a, x)[i] /\ b[i] = Cat(b, y)[i]
  BY ConcatProperties DEF Cat, Nums
<1>3. \A i \in 1..Len(x) : x[i] = y[i]
  <2> TAKE i \in 1..Len(x)
  <2> DEFINE j == Len(a) + i
  <2>1. j \in 1..Len(a) + Len(x) /\ ~(j <= Len(a)) /\ j - Len(a) = i
    BY DEF Nums
  <2> HIDE DEF j
  <2>2. ASSUME NEW c \in Nums, NEW z \in Nums, Len(c) = Len(a), Len(z) = Len(x)
        PROVE  Cat(c, z)[j] = z[i]
    <3>1. \A k \in 1..Len(c) + Len(z) :
              (c \o z)[k] = IF k <= Len(c) THEN c[k] ELSE z[k - Len(c)]
      BY ConcatProperties DEF Nums
    <3>2. j \in 1..Len(c) + Len(z) /\ ~(j <= Len(c)) /\ j - Len(c) = i
      BY <2>1, <2>2
    <3> QED BY <3>1, <3>2 DEF Cat
  <2>3. Cat(a, x)[j] = x[i] /\ Cat(b, y)[j] = y[i]
    BY <1>1, <2>2
  <2> QED BY <2>3
<1>4. a = b
  BY <1>2, SeqEqual DEF Nums
<1>5. x = y
  BY <1>1, <1>3, SeqEqual DEF Nums
<1> QED BY <1>4, <1>5

LEMMA OneIsNums ==
    ASSUME NEW n \in Nat
    PROVE  One(n) \in Nums /\ Len(One(n)) = 1
BY NatsAreSymbols DEF One, Nums

LEMMA FirstByte ==
    ASSUME NEW m \in Nat, NEW n \in Nat, NEW x \in Nums, NEW y \in Nums,
           Cat(One(m), x) = Cat(One(n), y)
    PROVE  m = n /\ x = y
<1>1. One(m) = One(n) /\ x = y
  BY OneIsNums, SameLength
<1> QED BY <1>1 DEF One

\* Without a length of its own, what is at the end is all that is left.
LEMMA Empty == <<>> \in Nums /\ \A a \in Nums : Cat(a, <<>>) = a
BY ConcatEmptySeq, EmptySeq DEF Cat, Nums

-----------------------------------------------------------------------------
(* Every field of a command but the last tells where it ends.              *)

LEMMA ShortEnds ==
    ASSUME NEW a \in Nums, NEW b \in Nums, NEW x \in Nums, NEW y \in Nums,
           Cat(Short(a), x) = Cat(Short(b), y)
    PROVE  a = b /\ x = y
<1>1. Len(a) \in Nat /\ Len(b) \in Nat
  BY DEF Nums
<1>2. Short(a) = Cat(One(Len(a)), a) /\ Short(b) = Cat(One(Len(b)), b)
  BY DEF Short, Cat, One
<1>3. /\ Cat(Short(a), x) = Cat(One(Len(a)), Cat(a, x))
      /\ Cat(Short(b), y) = Cat(One(Len(b)), Cat(b, y))
  BY <1>1, <1>2, OneIsNums, CatAssociates
<1>4. Cat(a, x) \in Nums /\ Cat(b, y) \in Nums
  BY CatIsNums
<1>5. Cat(One(Len(a)), Cat(a, x)) = Cat(One(Len(b)), Cat(b, y))
  BY <1>3
<1>6. Len(a) = Len(b) /\ Cat(a, x) = Cat(b, y)
  <2> DEFINE m == Len(a)  n == Len(b)  u == Cat(a, x)  w == Cat(b, y)
  <2>1. m \in Nat /\ n \in Nat /\ u \in Nums /\ w \in Nums /\ Cat(One(m), u) = Cat(One(n), w)
    BY <1>1, <1>4, <1>5
  <2>2. m = n /\ u = w
    <3> HIDE DEF m, n, u, w
    <3> QED BY <2>1, FirstByte
  <2> QED BY <2>2
<1> QED BY <1>6, SameLength

LEMMA ShortIsNums ==
    ASSUME NEW a \in Nums
    PROVE  Short(a) \in Nums
<1>1. Len(a) \in Nat /\ Short(a) = Cat(One(Len(a)), a)
  BY DEF Nums, Short, Cat, One
<1> QED BY <1>1, OneIsNums, CatIsNums

LEMMA CorrIsNums ==
    ASSUME NEW c \in CorrID
    PROVE  c \in Nums /\ Len(c) = CorrLen
<1>1. CorrLen \in Nat
  BY DEF CorrLen
<1>2. c \in Seq(0..255) /\ Len(c) = CorrLen
  BY <1>1 DEF CorrID
<1>3. c \in Bytes
  BY <1>2 DEF Bytes
<1> QED BY <1>2, <1>3, BytesAreNums

LEMMA CorrEnds ==
    ASSUME NEW c \in CorrID, NEW d \in CorrID, NEW x \in Nums, NEW y \in Nums,
           Cat(encodeCorrID(c), x) = Cat(encodeCorrID(d), y)
    PROVE  c = d /\ x = y
<1> DEFINE Rest(e, z) == IF e = NoCorrID THEN z ELSE Cat(e, z)
           Tag(e) == IF e = NoCorrID THEN 0 ELSE CorrLen
<1>1. ASSUME NEW e \in CorrID, NEW z \in Nums
      PROVE  Cat(encodeCorrID(e), z) = Cat(One(Tag(e)), Rest(e, z)) /\ Rest(e, z) \in Nums
  <2>1. One(CorrLen) \in Nums /\ e \in Nums
    BY CorrIsNums, OneIsNums DEF CorrLen
  <2>2. encodeCorrID(e) = IF e = NoCorrID THEN One(0) ELSE Cat(One(CorrLen), e)
    BY DEF encodeCorrID, Cat, One
  <2>3. CASE e = NoCorrID
    BY <2>2, <2>3
  <2>4. CASE e # NoCorrID
    BY <2>1, <2>2, <2>4, CatAssociates, CatIsNums
  <2> QED BY <2>3, <2>4
<1>2. Tag(c) \in Nat /\ Tag(d) \in Nat /\ CorrLen # 0
  BY DEF CorrLen
<1>3. Tag(c) = Tag(d) /\ Rest(c, x) = Rest(d, y)
  <2> HIDE DEF Tag, Rest
  <2> QED BY <1>1, <1>2, FirstByte
<1>4. CASE c = NoCorrID
  BY <1>2, <1>3, <1>4
<1>5. CASE c # NoCorrID
  <2>1. d # NoCorrID /\ Cat(c, x) = Cat(d, y)
    BY <1>2, <1>3, <1>5
  <2> QED BY <2>1, CorrIsNums, SameLength
<1> QED BY <1>4, <1>5

LEMMA MaybeEnds ==
    ASSUME NEW a \in Nums, NEW b \in Nums, NEW x \in Nums, NEW y \in Nums,
           Cat(MaybeShort(a), x) = Cat(MaybeShort(b), y)
    PROVE  a = b /\ x = y
<1> DEFINE Rest(e, z) == IF e = <<>> THEN z ELSE Cat(Short(e), z)
           Tag(e) == IF e = <<>> THEN Absent ELSE Present
<1>1. ASSUME NEW e \in Nums, NEW z \in Nums
      PROVE  Cat(MaybeShort(e), z) = Cat(One(Tag(e)), Rest(e, z)) /\ Rest(e, z) \in Nums
  <2>1. One(Present) \in Nums /\ Short(e) \in Nums
    BY ShortIsNums, OneIsNums DEF Present
  <2>2. MaybeShort(e) = IF e = <<>> THEN One(Absent) ELSE Cat(One(Present), Short(e))
    BY DEF MaybeShort, Cat, One
  <2>3. CASE e = <<>>
    BY <2>2, <2>3
  <2>4. CASE e # <<>>
    BY <2>1, <2>2, <2>4, CatAssociates, CatIsNums
  <2> QED BY <2>3, <2>4
<1>2. Tag(a) \in Nat /\ Tag(b) \in Nat /\ Absent # Present
  BY DEF Absent, Present
<1>3. Tag(a) = Tag(b) /\ Rest(a, x) = Rest(b, y)
  <2> HIDE DEF Tag, Rest
  <2> QED BY <1>1, <1>2, FirstByte
<1>4. CASE a = <<>>
  BY <1>2, <1>3, <1>4
<1>5. CASE a # <<>>
  <2>1. b # <<>> /\ Cat(Short(a), x) = Cat(Short(b), y)
    BY <1>2, <1>3, <1>5
  <2> QED BY <2>1, ShortEnds
<1> QED BY <1>4, <1>5

-----------------------------------------------------------------------------
(* The same of what is put together from such fields.                      *)

LEMMA FieldsAreNums ==
    /\ \A c \in CorrID : encodeCorrID(c) \in Nums
    /\ \A a \in Nums : MaybeShort(a) \in Nums
    /\ \A v, b : Secure(v, b) \in Nums
<1>1. ASSUME NEW c \in CorrID PROVE encodeCorrID(c) \in Nums
  <2>1. encodeCorrID(c) = IF c = NoCorrID THEN One(0) ELSE Cat(One(CorrLen), c)
    BY DEF encodeCorrID, Cat, One
  <2> QED BY <2>1, CorrIsNums, OneIsNums, CatIsNums DEF CorrLen
<1>2. ASSUME NEW a \in Nums PROVE MaybeShort(a) \in Nums
  <2>1. MaybeShort(a) = IF a = <<>> THEN One(Absent) ELSE Cat(One(Present), Short(a))
    BY DEF MaybeShort, Cat, One
  <2> QED BY <2>1, ShortIsNums, OneIsNums, CatIsNums DEF Absent, Present
<1>3. ASSUME NEW v, NEW b PROVE Secure(v, b) \in Nums
  <2>1. Secure(v, b) \in {One(True), One(False), <<>>}
    BY DEF Secure, Bool, One
  <2> QED BY <2>1, OneIsNums, Empty DEF True, False
<1> QED BY <1>1, <1>2, <1>3

LEMMA Regroup ==
    ASSUME NEW a \in Nums, NEW b \in Nums, NEW c \in Nums, NEW d \in Nums
    PROVE  /\ Cat(Cat(Cat(a, b), c), d) = Cat(a, Cat(b, Cat(c, d)))
           /\ Cat(b, Cat(c, d)) \in Nums /\ Cat(c, d) \in Nums
<1>1. Cat(a, b) \in Nums /\ Cat(c, d) \in Nums
  BY CatIsNums
<1>2. Cat(b, Cat(c, d)) \in Nums
  BY <1>1, CatIsNums
<1>3. Cat(Cat(Cat(a, b), c), d) = Cat(Cat(a, b), Cat(c, d))
  BY <1>1, CatAssociates
<1>4. Cat(Cat(a, b), Cat(c, d)) = Cat(a, Cat(b, Cat(c, d)))
  BY <1>1, CatAssociates
<1> QED BY <1>1, <1>2, <1>3, <1>4

\* The fields of a transmission, from the bytes that are authorized.
LEMMA AuthorizedFields ==
    ASSUME NEW s \in Nums, NEW t, NEW u,
           t.corr \in CorrID, t.entity \in Nums, t.command \in Nums,
           u.corr \in CorrID, u.entity \in Nums, u.command \in Nums,
           AuthBytes(s, t) = AuthBytes(s, u)
    PROVE  t.corr = u.corr /\ t.entity = u.entity /\ t.command = u.command
<1> DEFINE Last(w) == Cat(Short(w.entity), w.command)
           Mid(w) == Cat(encodeCorrID(w.corr), Last(w))
<1>1. ASSUME NEW w, w.corr \in CorrID, w.entity \in Nums, w.command \in Nums
      PROVE  AuthBytes(s, w) = Cat(Short(s), Mid(w)) /\ Mid(w) \in Nums /\ Last(w) \in Nums
  <2>1. AuthBytes(s, w) = Cat(Cat(Cat(Short(s), encodeCorrID(w.corr)), Short(w.entity)), w.command)
    BY DEF AuthBytes, Cat
  <2>2. Short(s) \in Nums /\ encodeCorrID(w.corr) \in Nums /\ Short(w.entity) \in Nums
    BY <1>1, ShortIsNums, FieldsAreNums
  <2> DEFINE a == Short(s)  b == encodeCorrID(w.corr)  c == Short(w.entity)  d == w.command
  <2>3. a \in Nums /\ b \in Nums /\ c \in Nums /\ d \in Nums
    BY <1>1, <2>2
  <2>4. AuthBytes(s, w) = Cat(a, Cat(b, Cat(c, d))) /\ Cat(b, Cat(c, d)) \in Nums /\ Cat(c, d) \in Nums
    <3>1. AuthBytes(s, w) = Cat(Cat(Cat(a, b), c), d)
      BY <2>1
    <3> HIDE DEF a, b, c, d
    <3> QED BY <2>3, <3>1, Regroup
  <2> QED BY <2>4
<1>2. Mid(t) = Mid(u)
  <2> HIDE DEF Mid
  <2> QED BY <1>1, ShortEnds
<1>3. t.corr = u.corr /\ Last(t) = Last(u)
  <2> HIDE DEF Last
  <2> QED BY <1>1, <1>2, CorrEnds
<1> QED BY <1>3, ShortEnds

LEMMA FlagEnds ==
    ASSUME NEW v, NEW a \in BOOLEAN, NEW b \in BOOLEAN, Secure(v, a) = Secure(v, b)
    PROVE  (v >= V9 /\ a) = (v >= V9 /\ b)
<1>1. CASE v >= V9
  <2>1. Bool(a) = Bool(b)
    BY <1>1 DEF Secure
  <2>2. One(True) # One(False)
    BY DEF One, True, False
  <2>3. Bool(a) = One(IF a THEN True ELSE False) /\ Bool(b) = One(IF b THEN True ELSE False)
    BY DEF Bool, One
  <2>4. CASE a
    <3>1. CASE ~b
      BY <2>1, <2>2, <2>3, <2>4, <3>1
    <3> QED BY <2>4, <3>1
  <2>5. CASE ~a
    <3>1. CASE b
      BY <2>1, <2>2, <2>3, <2>5, <3>1
    <3> QED BY <2>5, <3>1
  <2> QED BY <2>4, <2>5
<1>2. CASE ~(v >= V9)
  BY <1>2
<1> QED BY <1>1, <1>2

NewCommand == [type : {"NEW"}, key : Bytes, dh : Bytes, auth : Bytes, mode : 0..255,
               secure : BOOLEAN]

\* What is left of a NEW from the mode on, from the create-auth on, from the DH
\* key on.
FromMode(v, w) == Cat(One(Mode(w)), Secure(v, w.secure))
FromAuth(v, w) == Cat(MaybeShort(w.auth), FromMode(v, w))
FromDh(v, w) == Cat(Short(w.dh), FromAuth(v, w))

LEMMA NewParts ==
    ASSUME NEW v, NEW w \in NewCommand
    PROVE  /\ w.key \in Nums /\ w.dh \in Nums /\ w.auth \in Nums
           /\ Mode(w) \in Nat
           /\ FromMode(v, w) \in Nums /\ FromAuth(v, w) \in Nums /\ FromDh(v, w) \in Nums
           /\ NewBody(v, w) = Cat(Short(w.key), FromDh(v, w))
<1>1. w.key \in Nums /\ w.dh \in Nums /\ w.auth \in Nums
  BY BytesAreNums DEF NewCommand
<1>2. Mode(w) \in Nat
  BY DEF NewCommand, Mode, SubscribeOnCreate
<1>3. /\ Short(w.key) \in Nums /\ Short(w.dh) \in Nums /\ MaybeShort(w.auth) \in Nums
      /\ One(Mode(w)) \in Nums /\ Secure(v, w.secure) \in Nums
  BY <1>1, <1>2, ShortIsNums, FieldsAreNums, OneIsNums
<1>4. NewBody(v, w) = Cat(Cat(Cat(Cat(Short(w.key), Short(w.dh)), MaybeShort(w.auth)),
                             One(Mode(w))), Secure(v, w.secure))
  BY DEF NewBody, Cat, One
<1> DEFINE k == Short(w.key)  h == Short(w.dh)  a == MaybeShort(w.auth)
           m == One(Mode(w))  f == Secure(v, w.secure)
<1>5. NewBody(v, w) = Cat(k, Cat(h, Cat(a, Cat(m, f))))
      /\ Cat(h, Cat(a, Cat(m, f))) \in Nums /\ Cat(a, Cat(m, f)) \in Nums /\ Cat(m, f) \in Nums
  <2>1. /\ k \in Nums /\ h \in Nums /\ a \in Nums /\ m \in Nums /\ f \in Nums
        /\ NewBody(v, w) = Cat(Cat(Cat(Cat(k, h), a), m), f)
    BY <1>3, <1>4
  <2> HIDE DEF k, h, a, m, f
  <2>2. Cat(k, h) \in Nums /\ Cat(m, f) \in Nums
    BY <2>1, CatIsNums
  <2>3. /\ NewBody(v, w) = Cat(Cat(k, h), Cat(a, Cat(m, f)))
        /\ Cat(a, Cat(m, f)) \in Nums
    BY <2>1, <2>2, Regroup
  <2>4. /\ Cat(Cat(k, h), Cat(a, Cat(m, f))) = Cat(k, Cat(h, Cat(a, Cat(m, f))))
        /\ Cat(h, Cat(a, Cat(m, f))) \in Nums
    <3> DEFINE r == Cat(a, Cat(m, f))
    <3>1. r \in Nums
      BY <2>3
    <3> HIDE DEF r
    <3>2. Cat(Cat(k, h), r) = Cat(k, Cat(h, r)) /\ Cat(h, r) \in Nums
      BY <2>1, <3>1, CatAssociates, CatIsNums
    <3> QED BY <3>2 DEF r
  <2> QED BY <2>2, <2>3, <2>4
<1> QED BY <1>1, <1>2, <1>5 DEF FromMode, FromAuth, FromDh

LEMMA NewIsNums ==
    ASSUME NEW v, NEW w \in NewCommand
    PROVE  NewBody(v, w) \in Nums
<1>1. Short(w.key) \in Nums /\ FromDh(v, w) \in Nums
  BY NewParts, ShortIsNums
<1> QED BY <1>1, NewParts, CatIsNums

LEMMA NewFields ==
    ASSUME NEW v, NEW c \in NewCommand, NEW d \in NewCommand, NewBody(v, c) = NewBody(v, d)
    PROVE  Meaning(v, c) = Meaning(v, d)
<1>1. c.key = d.key /\ FromDh(v, c) = FromDh(v, d)
  BY NewParts, ShortEnds
<1>2. c.dh = d.dh /\ FromAuth(v, c) = FromAuth(v, d)
  BY <1>1, NewParts, ShortEnds DEF FromDh
<1>3. c.auth = d.auth /\ FromMode(v, c) = FromMode(v, d)
  BY <1>2, NewParts, MaybeEnds DEF FromAuth
<1>4. Mode(c) = Mode(d) /\ Secure(v, c.secure) = Secure(v, d.secure)
  BY <1>3, NewParts, FirstByte, FieldsAreNums DEF FromMode
<1>5. (v >= V9 /\ c.secure) = (v >= V9 /\ d.secure)
  BY <1>4, FlagEnds DEF NewCommand
<1>6. ASSUME NEW w \in NewCommand
      PROVE  Meaning(v, w) = [type |-> "NEW", key |-> w.key, dh |-> w.dh, auth |-> w.auth,
                              mode |-> Mode(w), secure |-> (v >= V9 /\ w.secure)]
  BY DEF NewCommand, Meaning
<1> QED BY <1>1, <1>2, <1>3, <1>4, <1>5, <1>6

-----------------------------------------------------------------------------
(* A command, from its bytes.                                              *)

Code(t) == CASE t = "NEW" -> 78 [] t = "SUB" -> 85 [] t = "SEND" -> 83
             [] t = "ACK" -> 65 [] OTHER -> 80

Arguments(v, c) ==
    CASE c.type = "NEW" -> NewBody(v, c)
      [] c.type = "SEND" -> Bool(c.notification) \o <<Space>> \o c.body
      [] c.type = "ACK" -> Short(c.id)
      [] OTHER -> <<>>

LEMMA Types ==
    ASSUME NEW c \in Command
    PROVE  /\ c.type \in {"NEW", "SEND", "ACK", "SUB", "PING"}
           /\ c.type = "NEW" => c \in NewCommand
           /\ c.type = "SEND" => c \in [type : {"SEND"}, notification : BOOLEAN, body : Bytes]
           /\ c.type = "ACK" => c \in [type : {"ACK"}, id : Bytes]
           /\ c.type \in {"SUB", "PING"} => c \in [type : {"SUB", "PING"}]
BY DEF Command, NewCommand

LEMMA Keywords ==
    ASSUME NEW v, NEW c \in Command
    PROVE  /\ EncodeCommand(v, c) = Cat(One(Code(c.type)), Arguments(v, c))
           /\ Code(c.type) \in Nat
<1>1. Keyword[c.type] = One(Code(c.type))
  BY Types DEF Keyword, Code, One
<1>2. Code(c.type) \in Nat
  BY DEF Code
<1>3. EncodeCommand(v, c) = Cat(Keyword[c.type], Arguments(v, c))
  BY DEF EncodeCommand, Arguments, Cat
<1> QED BY <1>1, <1>2, <1>3

LEMMA CodesDiffer ==
    ASSUME NEW c \in Command, NEW d \in Command, Code(c.type) = Code(d.type)
    PROVE  c.type = d.type
BY Types DEF Code

\* The body of a message is the rest of the transmission, whatever is in it.
SendCommand == [type : {"SEND"}, notification : BOOLEAN, body : Bytes]

LEMMA SendFields ==
    ASSUME NEW c \in SendCommand
    PROVE  /\ Bool(c.notification) \o <<Space>> \o c.body
                  = Cat(One(IF c.notification THEN True ELSE False), Cat(One(Space), c.body))
           /\ c.body \in Nums /\ Cat(One(Space), c.body) \in Nums
<1> DEFINE n == IF c.notification THEN True ELSE False
<1>1. c.body \in Nums /\ n \in Nat
  BY BytesAreNums DEF SendCommand, True, False
<1>2. Bool(c.notification) \o <<Space>> \o c.body = Cat(Cat(One(n), One(Space)), c.body)
  BY DEF Bool, One, Cat
<1>3. One(n) \in Nums /\ One(Space) \in Nums
  BY <1>1, OneIsNums DEF Space
<1> HIDE DEF n
<1>4. Cat(Cat(One(n), One(Space)), c.body) = Cat(One(n), Cat(One(Space), c.body))
  BY <1>1, <1>3, CatAssociates
<1>5. Cat(One(Space), c.body) \in Nums
  BY <1>1, <1>3, CatIsNums
<1> QED BY <1>1, <1>2, <1>4, <1>5 DEF n

LEMMA ArgumentsAreNums ==
    ASSUME NEW v, NEW c \in Command
    PROVE  Arguments(v, c) \in Nums
<1>1. CASE c.type = "NEW"
  <2>1. NewBody(v, c) \in Nums
    BY <1>1, Types, NewIsNums
  <2> QED BY <1>1, <2>1 DEF Arguments
<1>2. CASE c.type = "SEND"
  <2>1. c \in SendCommand
    BY <1>2, Types DEF SendCommand
  <2>2. Bool(c.notification) \o <<Space>> \o c.body \in Nums
    <3> DEFINE n == IF c.notification THEN True ELSE False
    <3>1. One(n) \in Nums
      BY OneIsNums DEF True, False
    <3> HIDE DEF n
    <3>2. Cat(One(n), Cat(One(Space), c.body)) \in Nums
      BY <2>1, <3>1, SendFields, CatIsNums
    <3> QED BY <2>1, <3>2, SendFields DEF n
  <2> QED BY <1>2, <2>2 DEF Arguments
<1>3. CASE c.type = "ACK"
  <2>1. c.id \in Nums
    BY <1>3, Types, BytesAreNums
  <2> QED BY <1>3, <2>1, ShortIsNums DEF Arguments
<1>4. CASE c.type \in {"SUB", "PING"}
  BY <1>4, Empty DEF Arguments
<1> QED BY <1>1, <1>2, <1>3, <1>4, Types

LEMMA CommandIsNums ==
    ASSUME NEW v, NEW c \in Command
    PROVE  EncodeCommand(v, c) \in Nums
<1>1. One(Code(c.type)) \in Nums /\ Arguments(v, c) \in Nums
  BY Keywords, OneIsNums, ArgumentsAreNums
<1> QED BY <1>1, Keywords, CatIsNums

\* Two commands with one encoding say the same, in any version.
THEOREM OneMeaning ==
    ASSUME NEW v, NEW c \in Command, NEW d \in Command,
           EncodeCommand(v, c) = EncodeCommand(v, d)
    PROVE  Meaning(v, c) = Meaning(v, d)
<1>1. Code(c.type) = Code(d.type) /\ Arguments(v, c) = Arguments(v, d)
  BY Keywords, ArgumentsAreNums, FirstByte
<1>2. c.type = d.type
  BY <1>1, CodesDiffer
<1>3. CASE c.type = "NEW"
  <2>1. NewBody(v, c) = NewBody(v, d)
    BY <1>1, <1>2, <1>3 DEF Arguments
  <2> QED BY <1>2, <1>3, <2>1, Types, NewFields
<1>4. CASE c.type = "SEND"
  <2> DEFINE N(w) == IF w.notification THEN True ELSE False
             R(w) == Cat(One(Space), w.body)
  <2>1. c \in SendCommand /\ d \in SendCommand
    BY <1>2, <1>4, Types DEF SendCommand
  <2>2. Cat(One(N(c)), R(c)) = Cat(One(N(d)), R(d)) /\ R(c) \in Nums /\ R(d) \in Nums
    BY <1>1, <1>2, <1>4, <2>1, SendFields DEF Arguments
  <2>3. N(c) \in Nat /\ N(d) \in Nat
    BY DEF True, False
  <2>4. N(c) = N(d) /\ R(c) = R(d)
    <3> HIDE DEF N, R
    <3> QED BY <2>2, <2>3, FirstByte
  <2>5. c.body = d.body
    <3>1. Space \in Nat /\ c.body \in Nums /\ d.body \in Nums
      BY <2>1, SendFields DEF Space
    <3>2. Cat(One(Space), c.body) = Cat(One(Space), d.body)
      BY <2>4
    <3> QED BY <3>1, <3>2, FirstByte
  <2>6. c.notification = d.notification
    <3>1. c.notification \in BOOLEAN /\ d.notification \in BOOLEAN
      BY <2>1 DEF SendCommand
    <3>2. CASE c.notification
      <4>1. CASE ~d.notification
        BY <2>4, <3>2, <4>1 DEF True, False
      <4> QED BY <3>1, <3>2, <4>1
    <3>3. CASE ~c.notification
      <4>1. CASE d.notification
        BY <2>4, <3>3, <4>1 DEF True, False
      <4> QED BY <3>1, <3>3, <4>1
    <3> QED BY <3>1, <3>2, <3>3
  <2>7. c = d
    BY <2>1, <2>5, <2>6 DEF SendCommand
  <2> QED BY <2>7
<1>5. CASE c.type = "ACK"
  <2>1. c.id \in Nums /\ d.id \in Nums /\ Short(c.id) = Short(d.id)
    BY <1>1, <1>2, <1>5, Types, BytesAreNums DEF Arguments
  <2>2. Short(c.id) \in Nums /\ Short(d.id) \in Nums
    BY <2>1, ShortIsNums
  <2>3. Cat(Short(c.id), <<>>) = Cat(Short(d.id), <<>>)
    BY <2>1
  <2>4. c.id = d.id
    BY <2>1, <2>3, Empty, ShortEnds
  <2>5. c \in [type : {"ACK"}, id : Bytes] /\ d \in [type : {"ACK"}, id : Bytes]
    BY <1>2, <1>5, Types
  <2>6. c = d
    BY <2>4, <2>5
  <2> QED BY <2>6
<1>6. CASE c.type \in {"SUB", "PING"}
  <2>1. c = d
    BY <1>2, <1>6, Types
  <2> QED BY <2>1
<1> QED BY <1>3, <1>4, <1>5, <1>6, Types

-----------------------------------------------------------------------------
(* The parts of an answer.                                                 *)

IDSMsg == [type : {"IDS"}, rcv : ShortBytes, snd : ShortBytes, dh : ShortBytes, secure : BOOLEAN]
MSGMsg == [type : {"MSG"}, id : ShortBytes, body : Bytes]
ERRMsg == [type : {"ERR"}, kind : ErrorKinds, detail : Bytes]
BareMsg == [type : {"OK", "PONG", "END"}]

LEMMA AnswerTypes ==
    ASSUME NEW m \in BrokerMsg \cup Malformed
    PROVE  \/ m \in IDSMsg /\ m.type = "IDS"
           \/ m \in MSGMsg /\ m.type = "MSG"
           \/ m \in ERRMsg /\ m.type = "ERR"
           \/ m \in BareMsg /\ m.type \in {"OK", "PONG", "END"}
           \/ m \in Malformed /\ m.type = "broken"
<1>1. CASE m \in BrokerMsg
  BY <1>1 DEF BrokerMsg, IDSMsg, MSGMsg, ERRMsg, BareMsg
<1>2. CASE m \in Malformed
  BY <1>2 DEF Malformed
<1> QED BY <1>1, <1>2

LEMMA ShortBytesAreNums ==
    ASSUME NEW b \in ShortBytes
    PROVE  b \in Nums
BY BytesAreNums DEF ShortBytes

FromSecond(v, m) == Cat(Short(m.snd), Cat(Short(m.dh), Secure(v, m.secure)))

LEMMA IDSParts ==
    ASSUME NEW v, NEW m \in IDSMsg
    PROVE  /\ m.rcv \in Nums /\ m.snd \in Nums /\ m.dh \in Nums /\ m.secure \in BOOLEAN
           /\ Secure(v, m.secure) \in Nums /\ Short(m.rcv) \in Nums /\ Short(m.snd) \in Nums
           /\ Short(m.dh) \in Nums
           /\ Cat(Short(m.dh), Secure(v, m.secure)) \in Nums
           /\ FromSecond(v, m) \in Nums
           /\ Cat(Short(m.rcv), FromSecond(v, m)) \in Nums
           /\ EncodeBrokerMsg(v, m) = Cat(One(73), Cat(Short(m.rcv), FromSecond(v, m)))
<1>1. m.rcv \in Nums /\ m.snd \in Nums /\ m.dh \in Nums /\ m.secure \in BOOLEAN /\ m.type = "IDS"
  BY ShortBytesAreNums DEF IDSMsg
<1> DEFINE k == One(73)  a == Short(m.rcv)  b == Short(m.snd)  c == Short(m.dh)
           f == Secure(v, m.secure)
<1>2. k \in Nums /\ a \in Nums /\ b \in Nums /\ c \in Nums /\ f \in Nums
  BY <1>1, ShortIsNums, FieldsAreNums, OneIsNums
<1>3. EncodeBrokerMsg(v, m) = Cat(Cat(Cat(Cat(k, a), b), c), f)
  BY <1>1 DEF EncodeBrokerMsg, Keyword, Cat, One
<1>4. /\ Cat(c, f) \in Nums /\ Cat(b, Cat(c, f)) \in Nums /\ Cat(a, Cat(b, Cat(c, f))) \in Nums
      /\ Cat(Cat(Cat(Cat(k, a), b), c), f) = Cat(k, Cat(a, Cat(b, Cat(c, f))))
  <2> HIDE DEF k, a, b, c, f
  <2>1. Cat(k, a) \in Nums
    BY <1>2, CatIsNums
  <2>2. /\ Cat(Cat(Cat(Cat(k, a), b), c), f) = Cat(Cat(k, a), Cat(b, Cat(c, f)))
        /\ Cat(b, Cat(c, f)) \in Nums /\ Cat(c, f) \in Nums
    BY <1>2, <2>1, Regroup
  <2> DEFINE r == Cat(b, Cat(c, f))
  <2>3. r \in Nums
    BY <2>2
  <2> HIDE DEF r
  <2>4. Cat(Cat(k, a), r) = Cat(k, Cat(a, r)) /\ Cat(a, r) \in Nums
    BY <1>2, <2>3, CatAssociates, CatIsNums
  <2> QED BY <2>2, <2>4 DEF r
<1> QED BY <1>1, <1>2, <1>3, <1>4 DEF FromSecond

LEMMA MSGParts ==
    ASSUME NEW v, NEW m \in MSGMsg
    PROVE  /\ m.id \in Nums /\ m.body \in Nums /\ Short(m.id) \in Nums
           /\ Cat(Short(m.id), m.body) \in Nums
           /\ EncodeBrokerMsg(v, m) = Cat(One(77), Cat(Short(m.id), m.body))
<1>1. m.id \in Nums /\ m.body \in Nums /\ m.type = "MSG"
  BY ShortBytesAreNums, BytesAreNums DEF MSGMsg
<1>2. Short(m.id) \in Nums /\ One(77) \in Nums
  BY <1>1, ShortIsNums, OneIsNums
<1>3. EncodeBrokerMsg(v, m) = Cat(Cat(One(77), Short(m.id)), m.body)
  BY <1>1 DEF EncodeBrokerMsg, Keyword, Cat, One
<1>4. Cat(Cat(One(77), Short(m.id)), m.body) = Cat(One(77), Cat(Short(m.id), m.body))
  BY <1>1, <1>2, CatAssociates
<1>5. Cat(Short(m.id), m.body) \in Nums
  BY <1>1, <1>2, CatIsNums
<1> QED BY <1>1, <1>2, <1>3, <1>4, <1>5

Detail(m) == IF m.detail = <<>> THEN <<>> ELSE Cat(One(Space), m.detail)

LEMMA ERRParts ==
    ASSUME NEW v, NEW m \in ERRMsg
    PROVE  /\ m.kind \in Nums /\ m.detail \in Nums /\ Detail(m) \in Nums
           /\ \A i \in 1..Len(m.kind) : m.kind[i] # Space
           /\ Cat(m.kind, Detail(m)) \in Nums
           /\ EncodeBrokerMsg(v, m) = Cat(One(82), Cat(m.kind, Detail(m)))
<1>1. m.kind \in Nums /\ m.detail \in Nums /\ m.type = "ERR"
      /\ \A i \in 1..Len(m.kind) : m.kind[i] # Space
  BY BytesAreNums DEF ERRMsg, ErrorKinds
<1>2. One(82) \in Nums /\ One(Space) \in Nums
  BY OneIsNums DEF Space
<1>3. Detail(m) \in Nums
  BY <1>1, <1>2, CatIsNums, Empty DEF Detail
<1>4. EncodeBrokerMsg(v, m) = Cat(Cat(One(82), m.kind), Detail(m))
  BY <1>1 DEF EncodeBrokerMsg, Keyword, Cat, One, Detail
<1> DEFINE d == Detail(m)
<1> HIDE DEF d
<1>5. Cat(Cat(One(82), m.kind), d) = Cat(One(82), Cat(m.kind, d))
  BY <1>1, <1>2, <1>3, CatAssociates DEF d
<1>6. Cat(m.kind, d) \in Nums
  BY <1>1, <1>3, CatIsNums DEF d
<1> QED BY <1>1, <1>3, <1>4, <1>5, <1>6 DEF d

LEMMA AnswerIsNums ==
    ASSUME NEW v, NEW m \in BrokerMsg \cup Malformed
    PROVE  EncodeBrokerMsg(v, m) \in Nums
<1>0. One(73) \in Nums /\ One(77) \in Nums /\ One(82) \in Nums
  BY OneIsNums
<1>1. CASE m \in IDSMsg
  <2>1. Cat(Short(m.rcv), FromSecond(v, m)) \in Nums
    BY <1>1, IDSParts
  <2>2. EncodeBrokerMsg(v, m) = Cat(One(73), Cat(Short(m.rcv), FromSecond(v, m)))
    BY <1>1, IDSParts
  <2> QED BY <1>0, <2>1, <2>2, CatIsNums
<1>2. CASE m \in MSGMsg
  <2>1. Cat(Short(m.id), m.body) \in Nums
    BY <1>2, MSGParts
  <2>2. EncodeBrokerMsg(v, m) = Cat(One(77), Cat(Short(m.id), m.body))
    BY <1>2, MSGParts
  <2> QED BY <1>0, <2>1, <2>2, CatIsNums
<1>3. CASE m \in ERRMsg
  <2>1. Cat(m.kind, Detail(m)) \in Nums
    BY <1>3, ERRParts
  <2>2. EncodeBrokerMsg(v, m) = Cat(One(82), Cat(m.kind, Detail(m)))
    BY <1>3, ERRParts
  <2> QED BY <1>0, <2>1, <2>2, CatIsNums
<1>4. CASE m \in BareMsg
  <2>1. EncodeBrokerMsg(v, m) = Keyword[m.type] /\ m.type \in {"OK", "PONG", "END"}
    BY <1>4 DEF EncodeBrokerMsg, BareMsg
  <2>2. Keyword[m.type] \in {One(79), One(71), One(69)}
    BY <2>1 DEF Keyword, One
  <2> QED BY <2>1, <2>2, OneIsNums
<1>5. CASE m \in Malformed
  <2>1. EncodeBrokerMsg(v, m) = m.bytes /\ m.bytes \in Bytes
    BY <1>5 DEF EncodeBrokerMsg, Malformed
  <2> QED BY <2>1, BytesAreNums
<1> QED BY <1>1, <1>2, <1>3, <1>4, <1>5, AnswerTypes

-----------------------------------------------------------------------------
(* Authenticators.                                                         *)

\* The server key is the reason that no signature is a box.
LEMMA KeysDiffer ==
    /\ ClientKey \in Nat
    /\ X25519DeriveShared(ClientKey, ServerKey) \in Nat
    /\ X25519DeriveShared(ClientKey, ServerKey) # ClientKey
<1> DEFINE c == ClientKey  s == ServerKey
<1>1. c \in Nat /\ s \in Nat /\ c >= 2 /\ s >= 2
  BY KeyAssumption
<1> HIDE DEF c, s
<1>2. c * s \in Nat /\ c * s # c
  BY <1>1
<1> QED BY <1>1, <1>2 DEF c, s, X25519DeriveShared

LEMMA AuthorizedOnceOnly ==
    ASSUME NEW k \in Keys, NEW l \in Keys, NEW a \in Nums, NEW b \in Nums,
           NEW m \in CorrID, NEW n \in CorrID,
           Authorize(k, a, m) = Authorize(l, b, n), Authorize(k, a, m) # <<>>
    PROVE  k = l /\ a = b
<1> DEFINE P == X25519DeriveShared(ClientKey, ServerKey)
           Key(e) == IF e = "ed25519" THEN ClientKey ELSE P
           Nonce(e, c) == IF e = "ed25519" THEN <<>> ELSE c
           Mark(e, x, c) == [key |-> Key(e), nonce |-> Nonce(e, c), bytes |-> x]
<1>1. ASSUME NEW e \in Keys, NEW x, NEW c, Authorize(e, x, c) # <<>>
      PROVE  e \in {"ed25519", "x25519"} /\ Authorize(e, x, c)[1] = Mark(e, x, c)
  <2>1. e \in {"ed25519", "x25519"}
    BY <1>1 DEF Authorize, Keys
  <2>2. e = "ed25519" => Authorize(e, x, c) = Sign(x)
    BY DEF Authorize
  <2>3. e = "x25519" => Authorize(e, x, c) = Seal(P, c, x)
    BY DEF Authorize
  <2>4. Sign(x)[1] = [key |-> ClientKey, nonce |-> <<>>, bytes |-> x]
    BY DEF Sign, Authenticator
  <2>5. Seal(P, c, x)[1] = [key |-> P, nonce |-> c, bytes |-> x]
    BY DEF Seal, Authenticator
  <2> QED BY <2>1, <2>2, <2>3, <2>4, <2>5
<1>2. /\ k \in {"ed25519", "x25519"} /\ l \in {"ed25519", "x25519"}
      /\ Mark(k, a, m) = Mark(l, b, n)
  <2> HIDE DEF Mark
  <2> QED BY <1>1
<1>3. Key(k) = Key(l) /\ a = b
  <2> HIDE DEF Key, Nonce
  <2>1. /\ Mark(k, a, m).key = Key(k) /\ Mark(k, a, m).bytes = a
        /\ Mark(l, b, n).key = Key(l) /\ Mark(l, b, n).bytes = b
    OBVIOUS
  <2> HIDE DEF Mark
  <2> QED BY <1>2, <2>1
<1>4. k = l
  BY <1>2, <1>3, KeysDiffer
<1> QED BY <1>3, <1>4

-----------------------------------------------------------------------------
(* A batch.                                                                *)

Said(v, r) == [r EXCEPT !.body = Meaning(v, @)]
Request(v, r) == [Bare(v, r) EXCEPT !.auth = Signed(v, r)]
Answer(v, r) == [corr |-> r.corr, entity |-> r.entity, auth |-> <<>>,
                 command |-> EncodeBrokerMsg(v, r.body)]

Transmission == [corr : CorrID, entity : Nums, auth : Nums, command : Nums]
Sayings == {Said(v, r) : v \in Versions, r \in Requests \cup Answers}

\* A transmission and its entry in the history come from one request of the
\* client's, or from one answer of the relay's.
Wrote(s, v, t, u) ==
    \/ s = "client" /\ \E r \in Requests : t = Request(v, r) /\ u = Said(v, r)
    \/ s = "relay" /\ \E r \in Answers : t = Answer(v, r) /\ u = Said(v, r)

BatchInv ==
    /\ version \in Versions
    /\ batch \in Seq(Transmission) /\ sent \in Seq(Sayings)
    /\ Len(sent) = Len(batch)
    /\ \A i \in 1..Len(batch) : Wrote(side, version, batch[i], sent[i])

LEMMA SessionsAreNums == Session \in Nums /\ OtherSession \in Nums /\ Session # OtherSession
BY SessionAssumption, BytesAreNums

LEMMA AuthBytesAreNums ==
    ASSUME NEW v, NEW r \in Requests
    PROVE  /\ r.corr \in CorrID /\ r.entity \in Nums /\ r.key \in Keys /\ r.body \in Command
           /\ Bare(v, r).corr = r.corr /\ Bare(v, r).entity = r.entity
           /\ Bare(v, r).command = EncodeCommand(v, r.body)
           /\ EncodeCommand(v, r.body) \in Nums
           /\ AuthBytes(Session, Bare(v, r)) \in Nums
<1>1. r.corr \in CorrID /\ r.entity \in Nums /\ r.key \in Keys /\ r.body \in Command
  BY RequestFields, BytesAreNums
<1>2. /\ Bare(v, r).corr = r.corr /\ Bare(v, r).entity = r.entity
      /\ Bare(v, r).command = EncodeCommand(v, r.body)
  BY DEF Bare
<1>3. EncodeCommand(v, r.body) \in Nums
  BY <1>1, CommandIsNums
<1> DEFINE a == Short(Session)  b == encodeCorrID(r.corr)  c == Short(r.entity)
           d == EncodeCommand(v, r.body)
<1>4. a \in Nums /\ b \in Nums /\ c \in Nums /\ d \in Nums
  <2>1. Session \in Nums
    BY SessionAssumption, BytesAreNums
  <2>2. a \in Nums /\ c \in Nums
    BY <1>1, <2>1, ShortIsNums
  <2>3. b \in Nums
    BY <1>1, FieldsAreNums
  <2> QED BY <1>3, <2>2, <2>3
<1>5. AuthBytes(Session, Bare(v, r)) = Cat(Cat(Cat(a, b), c), d)
  BY <1>2 DEF AuthBytes, Cat
<1>6. AuthBytes(Session, Bare(v, r)) \in Nums
  <2> HIDE DEF a, b, c, d
  <2>1. Cat(a, b) \in Nums
    BY <1>4, CatIsNums
  <2>2. Cat(Cat(a, b), c) \in Nums
    BY <1>4, <2>1, CatIsNums
  <2> QED BY <1>4, <1>5, <2>2, CatIsNums
<1> QED BY <1>1, <1>2, <1>3, <1>6

\* Two requests with one authenticator say the same.
LEMMA SignedOnce ==
    ASSUME NEW v, NEW r \in Requests, NEW q \in Requests,
           Signed(v, r) = Signed(v, q), Signed(v, r) # <<>>
    PROVE  Said(v, r) = Said(v, q)
<1>1. r.key = q.key /\ AuthBytes(Session, Bare(v, r)) = AuthBytes(Session, Bare(v, q))
  <2> DEFINE a == AuthBytes(Session, Bare(v, r))  b == AuthBytes(Session, Bare(v, q))
  <2>1. a \in Nums /\ b \in Nums /\ r.key \in Keys /\ q.key \in Keys
        /\ r.corr \in CorrID /\ q.corr \in CorrID
    BY AuthBytesAreNums
  <2>2. Authorize(r.key, a, r.corr) = Authorize(q.key, b, q.corr)
        /\ Authorize(r.key, a, r.corr) # <<>>
    BY DEF Signed
  <2> HIDE DEF a, b
  <2>3. r.key = q.key /\ a = b
    BY <2>1, <2>2, AuthorizedOnceOnly
  <2> QED BY <2>3 DEF a, b
<1>2. /\ r.corr = q.corr /\ r.entity = q.entity
      /\ EncodeCommand(v, r.body) = EncodeCommand(v, q.body)
  <2> DEFINE t == Bare(v, r)  u == Bare(v, q)
  <2>1. /\ Session \in Nums
        /\ t.corr \in CorrID /\ t.entity \in Nums /\ t.command \in Nums
        /\ u.corr \in CorrID /\ u.entity \in Nums /\ u.command \in Nums
        /\ AuthBytes(Session, t) = AuthBytes(Session, u)
    <3>1. Session \in Nums
      BY SessionAssumption, BytesAreNums
    <3>2. AuthBytes(Session, t) = AuthBytes(Session, u)
      BY <1>1
    <3>3. t.corr \in CorrID /\ t.entity \in Nums /\ t.command \in Nums
      BY AuthBytesAreNums
    <3>4. u.corr \in CorrID /\ u.entity \in Nums /\ u.command \in Nums
      BY AuthBytesAreNums
    <3> HIDE DEF t, u
    <3> QED BY <3>1, <3>2, <3>3, <3>4
  <2>2. t.corr = u.corr /\ t.entity = u.entity /\ t.command = u.command
    <3> HIDE DEF t, u
    <3> QED BY <2>1, AuthorizedFields
  <2> QED BY <2>2, AuthBytesAreNums
<1>3. Meaning(v, r.body) = Meaning(v, q.body)
  BY <1>2, AuthBytesAreNums, OneMeaning
<1>4. r \in ARequest /\ q \in ARequest
  BY RequestFields
<1> QED BY <1>1, <1>2, <1>3, <1>4 DEF ARequest, Said

LEMMA SignedIsNums ==
    ASSUME NEW v \in Versions, NEW r \in Requests
    PROVE  Signed(v, r) \in Nums
<1>1. r.key \in Keys
  BY AuthBytesAreNums
<1>2. CASE Signed(v, r) = <<>>
  BY <1>2, Empty
<1>3. ASSUME NEW len \in Nat, NEW key, NEW nonce, NEW bytes,
             Signed(v, r) = Authenticator(len, key, nonce, bytes)
      PROVE  Signed(v, r) \in Nums
  <2>1. ASSUME NEW i \in 1..len PROVE Signed(v, r)[i] \in Symbols
    <3>1. CASE i = 1
      BY <3>1 DEF Symbols
    <3>2. CASE i # 1
      BY <1>3, <3>2, NatsAreSymbols DEF Authenticator
    <3> QED BY <3>1, <3>2
  <2>2. Signed(v, r) = [i \in 1..len |-> Signed(v, r)[i]]
    BY <1>3 DEF Authenticator
  <2> QED BY <2>1, <2>2 DEF Nums
<1> DEFINE a == AuthBytes(Session, Bare(v, r))
           P == X25519DeriveShared(ClientKey, ServerKey)
<1>4. r.key = "ed25519" => Signed(v, r) = Authenticator(64, ClientKey, <<>>, a)
  BY DEF Signed, Authorize, Sign
<1>5. r.key = "x25519" => Signed(v, r) = Authenticator(16 + 64, P, r.corr, a)
  BY DEF Signed, Authorize, Seal
<1>6. r.key = "none" => Signed(v, r) = <<>>
  BY DEF Signed, Authorize
<1>7. 64 \in Nat /\ 16 + 64 \in Nat
  OBVIOUS
<1> HIDE DEF a, P
<1> QED BY <1>1, <1>2, <1>3, <1>4, <1>5, <1>6, <1>7 DEF Keys

LEMMA RequestIs ==
    ASSUME NEW v \in Versions, NEW r \in Requests
    PROVE  /\ Request(v, r) \in Transmission
           /\ Request(v, r).auth = Signed(v, r)
           /\ Request(v, r) = [corr |-> r.corr, entity |-> r.entity, auth |-> Signed(v, r),
                               command |-> EncodeCommand(v, r.body)]
<1>1. /\ r.corr \in CorrID /\ r.entity \in Nums /\ EncodeCommand(v, r.body) \in Nums
      /\ Signed(v, r) \in Nums
  BY AuthBytesAreNums, SignedIsNums
<1>2. Request(v, r) = [corr |-> r.corr, entity |-> r.entity, auth |-> Signed(v, r),
                       command |-> EncodeCommand(v, r.body)]
  BY DEF Request, Bare
<1> QED BY <1>1, <1>2 DEF Transmission

LEMMA AnswerIs ==
    ASSUME NEW v, NEW r \in Answers
    PROVE  /\ r.body \in BrokerMsg \cup Malformed
           /\ Answer(v, r) \in Transmission /\ Answer(v, r).auth = <<>>
           /\ Said(v, r).body = Meaning(v, r.body)
<1>1. r \in [corr : CorrID, entity : ShortBytes, body : BrokerMsg \cup Malformed]
  BY AnswerAssumption
<1>2. r.corr \in CorrID /\ r.entity \in Nums /\ r.body \in BrokerMsg \cup Malformed
  BY <1>1, ShortBytesAreNums
<1>3. EncodeBrokerMsg(v, r.body) \in Nums
  BY <1>2, AnswerIsNums
<1>4. Answer(v, r) \in Transmission /\ Answer(v, r).auth = <<>>
  BY <1>2, <1>3, Empty DEF Answer, Transmission
<1>5. Said(v, r).body = Meaning(v, r.body)
  BY <1>1 DEF Said
<1> QED BY <1>2, <1>4, <1>5

LEMMA BatchStart == Init => BatchInv
BY DEF Init, BatchInv, Transmission, Sayings

LEMMA Adding ==
    ASSUME BatchInv, NEW t \in Transmission, NEW u \in Sayings,
           batch' = Append(batch, t), sent' = Append(sent, u),
           version' = version, side' = side, Wrote(side, version, t, u)
    PROVE  BatchInv'
<1>1. batch' \in Seq(Transmission) /\ sent' \in Seq(Sayings) /\ Len(sent') = Len(batch')
      /\ Len(batch') = Len(batch) + 1 /\ Len(batch) \in Nat
  BY DEF BatchInv
<1>2. ASSUME NEW i \in 1..Len(batch')
      PROVE  Wrote(side, version, batch'[i], sent'[i])
  <2>1. CASE i \in 1..Len(batch)
    <3>1. batch'[i] = batch[i] /\ sent'[i] = sent[i]
      BY <2>1 DEF BatchInv
    <3> QED BY <2>1, <3>1 DEF BatchInv
  <2>2. CASE i = Len(batch) + 1
    <3>1. batch'[i] = t /\ sent'[i] = u
      BY <2>2 DEF BatchInv
    <3> QED BY <3>1
  <2> QED BY <1>1, <2>1, <2>2
<1>3. version' \in Versions
  BY DEF BatchInv
<1>4. \A i \in 1..Len(batch') : Wrote(side', version', batch'[i], sent'[i])
  BY <1>2
<1> QED BY <1>1, <1>3, <1>4 DEF BatchInv

LEMMA BatchKept == BatchInv /\ [Next]_vars => BatchInv'
<1> SUFFICES ASSUME BatchInv, [Next]_vars PROVE BatchInv'
  OBVIOUS
<1>1. ASSUME NEW r \in Requests, AddCommand(r) PROVE BatchInv'
  <2>1. /\ batch' = Append(batch, Request(version, r))
        /\ sent' = Append(sent, Said(version, r)) /\ version' = version /\ side' = side
        /\ side = "client"
    BY <1>1 DEF AddCommand, Add, Request, Bare, Said, Signed
  <2>2. Request(version, r) \in Transmission
    BY RequestIs DEF BatchInv
  <2>3. Said(version, r) \in Sayings
    BY DEF BatchInv, Sayings
  <2>4. Wrote(side, version, Request(version, r), Said(version, r))
    BY <2>1 DEF Wrote
  <2> QED BY <2>1, <2>2, <2>3, <2>4, Adding
<1>2. ASSUME NEW r \in Answers, AddAnswer(r) PROVE BatchInv'
  <2>1. /\ batch' = Append(batch, Answer(version, r))
        /\ sent' = Append(sent, Said(version, r)) /\ version' = version /\ side' = side
        /\ side = "relay"
    BY <1>2 DEF AddAnswer, Add, Answer, Said
  <2>2. Answer(version, r) \in Transmission
    BY AnswerIs
  <2>3. Said(version, r) \in Sayings
    BY DEF BatchInv, Sayings
  <2>4. Wrote(side, version, Answer(version, r), Said(version, r))
    BY <2>1 DEF Wrote
  <2> QED BY <2>1, <2>2, <2>3, <2>4, Adding
<1>3. ASSUME UNCHANGED <<version, side, batch, sent>> PROVE BatchInv'
  BY <1>3 DEF BatchInv
<1>4. CASE Refuse \/ Frame \/ Damage \/ Read \/ UNCHANGED vars
  BY <1>3, <1>4 DEF Refuse, Frame, Damage, Read, vars
<1> QED BY <1>1, <1>2, <1>4 DEF Next

\* Only a request is authorized.
LEMMA Authentic ==
    ASSUME BatchInv, NEW i \in 1..Len(batch), batch[i].auth # <<>>
    PROVE  \E r \in Requests : batch[i] = Request(version, r) /\ sent[i] = Said(version, r)
<1>1. Wrote(side, version, batch[i], sent[i])
  BY DEF BatchInv
<1>2. ~(side = "relay" /\ \E r \in Answers : batch[i] = Answer(version, r))
  BY AnswerIs
<1> QED BY <1>1, <1>2 DEF Wrote

LEMMA BatchHolds == BatchInv => AuthorizedOnce
<1> SUFFICES ASSUME BatchInv, NEW i \in 1..Len(batch), NEW j \in 1..Len(batch),
                    batch[i].auth = batch[j].auth, batch[i].auth # <<>>
             PROVE  sent[i] = sent[j]
  BY DEF AuthorizedOnce
<1>1. PICK r \in Requests : batch[i] = Request(version, r) /\ sent[i] = Said(version, r)
  BY Authentic
<1>2. PICK q \in Requests : batch[j] = Request(version, q) /\ sent[j] = Said(version, q)
  BY Authentic
<1>3. Signed(version, r) = Signed(version, q) /\ Signed(version, r) # <<>>
  BY <1>1, <1>2, RequestIs DEF BatchInv
<1> QED BY <1>1, <1>2, <1>3, SignedOnce

\* Whatever the commands and the keys, one authenticator stands for one command
\* (send, EncodeCommand, authorize).
THEOREM Authorizes == Spec => []AuthorizedOnce
<1>1. Init => BatchInv
  BY BatchStart
<1>2. BatchInv /\ [Next]_vars => BatchInv'
  BY BatchKept
<1>3. BatchInv => AuthorizedOnce
  BY BatchHolds
<1> QED BY <1>1, <1>2, <1>3, PTL DEF Spec

-----------------------------------------------------------------------------
(* Reading.  p is what the reader has behind it, r what comes after.       *)

\* The piece between the two, byte for byte and cut out.
LEMMA Middle ==
    ASSUME NEW p \in Nums, NEW a \in Nums, NEW r \in Nums
    PROVE  LET buf == Cat(p, Cat(a, r)) IN
           /\ buf \in Nums /\ Len(buf) = Len(p) + Len(a) + Len(r)
           /\ \A i \in 1..Len(a) : buf[Len(p) + i] = a[i]
           /\ SubSeq(buf, Len(p) + 1, Len(p) + Len(a)) = a
<1> DEFINE buf == Cat(p, Cat(a, r))
           n == Len(p)
           m == Len(a)
           part == SubSeq(buf, n + 1, n + m)
<1>1. n \in Nat /\ m \in Nat /\ Len(r) \in Nat
  BY DEF Nums
<1>2. Cat(a, r) \in Nums /\ Len(Cat(a, r)) = m + Len(r)
  BY CatIsNums
<1>3. buf \in Nums /\ Len(buf) = n + (m + Len(r))
  <2> DEFINE ar == Cat(a, r)
  <2>1. ar \in Nums /\ Len(ar) = m + Len(r)
    BY <1>2
  <2> HIDE DEF ar
  <2>2. Cat(p, ar) \in Nums /\ Len(Cat(p, ar)) = n + Len(ar)
    BY <2>1, CatIsNums
  <2> QED BY <2>1, <2>2 DEF ar
<1>4. \A i \in 1..m : Cat(a, r)[i] = a[i]
  BY <1>1, ConcatProperties DEF Cat, Nums
<1>5. \A i \in 1..m : buf[n + i] = a[i]
  <2> DEFINE ar == Cat(a, r)
  <2>1. ar \in Nums /\ Len(ar) = m + Len(r)
    BY <1>2
  <2> HIDE DEF ar
  <2>2. \A k \in 1..n + Len(ar) : Cat(p, ar)[k] = IF k <= n THEN p[k] ELSE ar[k - n]
    BY <2>1, ConcatProperties DEF Cat, Nums
  <2>3. ASSUME NEW i \in 1..m PROVE Cat(p, ar)[n + i] = ar[i]
    <3>1. n + i \in 1..n + Len(ar) /\ ~(n + i <= n) /\ (n + i) - n = i
      BY <1>1, <2>1, <2>3
    <3> HIDE DEF n, m
    <3> QED BY <2>2, <3>1
  <2> QED BY <1>4, <2>3 DEF ar
<1> HIDE DEF buf
<1>6. Len(buf) = n + m + Len(r)
  BY <1>1, <1>3
<1>7. /\ part \in Nums /\ Len(part) = m
      /\ \A i \in 1..m : part[i] = buf[n + i]
  <2>1. n + 1 \in 1..(Len(buf) + 1) /\ n + m \in n..Len(buf)
    BY <1>1, <1>3
  <2>2. /\ part \in Seq(Symbols)
        /\ Len(part) = IF n + 1 <= n + m THEN n + m - (n + 1) + 1 ELSE 0
        /\ \A i \in 1..(n + m - (n + 1) + 1) : part[i] = buf[n + 1 + i - 1]
    <3>1. n + 1 \in Int /\ n + m \in Int /\ n + 1 \in Nat
      BY <1>1
    <3>2. \A i \in n + 1..n + m : buf[i] \in Symbols
      <4>1. \A i \in 1..Len(buf) : buf[i] \in Symbols
        BY <1>3 DEF Nums
      <4>2. n + 1..n + m \subseteq 1..Len(buf)
        BY <1>1, <1>6
      <4> QED BY <4>1, <4>2
    <3> DEFINE lo == n + 1
               hi == n + m
    <3>3. lo \in Int /\ hi \in Int /\ \A i \in lo..hi : buf[i] \in Symbols
      BY <3>1, <3>2
    <3>4. part = SubSeq(buf, lo, hi)
      OBVIOUS
    <3> HIDE DEF lo, hi, part
    <3>5. /\ part \in Seq(Symbols)
          /\ Len(part) = IF lo <= hi THEN hi - lo + 1 ELSE 0
          /\ \A i \in 1..(hi - lo + 1) : part[i] = buf[lo + i - 1]
      BY <3>3, <3>4, SubSeqProperties
    <3> QED BY <3>5 DEF lo, hi
  <2> HIDE DEF part, n, m
  <2>3. n + m - (n + 1) + 1 = m /\ \A i \in 1..m : n + 1 + i - 1 = n + i
    BY <1>1
  <2> QED BY <1>1, <2>2, <2>3 DEF Nums
<1> HIDE DEF part
<1>8. part = a
  <2>1. \A i \in 1..m : part[i] = a[i]
    BY <1>5, <1>7
  <2> QED BY <1>7, <2>1, SeqEqual DEF Nums
<1> QED BY <1>3, <1>5, <1>8, <1>6 DEF part, buf

\* The decoder's need(n), and a string with its length, give what is there and
\* move past it.
LEMMA NeedGives ==
    ASSUME NEW p \in Nums, NEW a \in Nums, NEW r \in Nums
    PROVE  Need(Cat(p, Cat(a, r)), Len(p), Len(a)) = [ok |-> TRUE, v |-> a, pos |-> Len(p) + Len(a)]
<1> DEFINE buf == Cat(p, Cat(a, r))
<1>1. Len(buf) = Len(p) + Len(a) + Len(r) /\ SubSeq(buf, Len(p) + 1, Len(p) + Len(a)) = a
  BY Middle
<1>2. Len(p) \in Nat /\ Len(a) \in Nat /\ Len(r) \in Nat
  BY DEF Nums
<1> HIDE DEF buf
<1>3. ~(Len(p) + Len(a) > Len(buf))
  BY <1>1, <1>2
<1>4. Need(buf, Len(p), Len(a)) = [ok |-> TRUE, v |-> a, pos |-> Len(p) + Len(a)]
  BY <1>1, <1>3 DEF Need
<1> QED BY <1>4 DEF buf

\* The byte at the reader's position.
LEMMA ByteThere ==
    ASSUME NEW p \in Nums, NEW n \in Nat, NEW r \in Nums
    PROVE  LET buf == Cat(p, Cat(One(n), r)) IN
           /\ Need(buf, Len(p), 1) = [ok |-> TRUE, v |-> One(n), pos |-> Len(p) + 1]
           /\ buf[Len(p) + 1] = n
<1>1. One(n) \in Nums /\ Len(One(n)) = 1 /\ One(n)[1] = n
  BY OneIsNums DEF One
<1>2. Cat(p, Cat(One(n), r))[Len(p) + 1] = n
  <2> DEFINE a == One(n)
  <2>1. a \in Nums /\ Len(a) = 1 /\ a[1] = n
    BY <1>1
  <2> HIDE DEF a
  <2>2. \A i \in 1..Len(a) : Cat(p, Cat(a, r))[Len(p) + i] = a[i]
    BY <2>1, Middle
  <2>3. Cat(p, Cat(a, r))[Len(p) + 1] = n
    BY <2>1, <2>2
  <2> QED BY <2>3 DEF a
<1>3. Need(Cat(p, Cat(One(n), r)), Len(p), 1) = [ok |-> TRUE, v |-> One(n), pos |-> Len(p) + 1]
  BY <1>1, NeedGives
<1> QED BY <1>2, <1>3

LEMMA ShortGives ==
    ASSUME NEW p \in Nums, NEW a \in Nums, NEW r \in Nums
    PROVE  GetShort(Cat(p, Cat(Short(a), r)), Len(p))
               = [ok |-> TRUE, v |-> a, pos |-> Len(Cat(p, Short(a)))]
<1> DEFINE n == Len(a)
           one == One(n)
           q == Cat(p, one)
<1>1. n \in Nat /\ one \in Nums /\ Len(one) = 1 /\ Short(a) = Cat(one, a) /\ Len(p) \in Nat
  <2>1. n \in Nat /\ Len(p) \in Nat
    BY DEF Nums
  <2>2. one \in Nums /\ Len(one) = 1
    <3> HIDE DEF n
    <3> QED BY <2>1, OneIsNums
  <2>3. Short(a) = Cat(one, a)
    BY DEF Short, Cat, One
  <2> QED BY <2>1, <2>2, <2>3
<1>2. q \in Nums /\ Len(q) = Len(p) + 1
  <2>1. one \in Nums /\ Len(one) = 1
    BY <1>1
  <2> HIDE DEF one
  <2>2. Cat(p, one) \in Nums /\ Len(Cat(p, one)) = Len(p) + Len(one)
    BY <2>1, CatIsNums
  <2> QED BY <2>1, <2>2
<1>3. Cat(a, r) \in Nums
  BY CatIsNums
<1> DEFINE rest == Cat(a, r)
<1>4. Cat(Short(a), r) = Cat(one, rest)
  <2> HIDE DEF one
  <2> QED BY <1>1, CatAssociates
<1>5. Cat(p, Cat(one, rest)) = Cat(q, rest)
  <2>1. one \in Nums /\ rest \in Nums
    BY <1>1, <1>3
  <2> HIDE DEF one, rest
  <2> QED BY <2>1, CatAssociates DEF q
<1> DEFINE buf == Cat(p, Cat(one, rest))
<1>6. Need(buf, Len(p), 1) = [ok |-> TRUE, v |-> one, pos |-> Len(p) + 1] /\ buf[Len(p) + 1] = n
  <2> rest \in Nums
    BY <1>3
  <2> HIDE DEF rest, n
  <2> QED BY <1>1, ByteThere
<1>7. Need(buf, Len(p) + 1, n) = [ok |-> TRUE, v |-> a, pos |-> Len(q) + n]
  <2>1. Need(Cat(q, Cat(a, r)), Len(q), Len(a)) = [ok |-> TRUE, v |-> a, pos |-> Len(q) + Len(a)]
    <3> HIDE DEF q
    <3> QED BY <1>2, NeedGives
  <2> QED BY <1>2, <1>5, <2>1
<1>8. Len(Cat(p, Short(a))) = Len(q) + n
  <2>1. Cat(p, Short(a)) = Cat(q, a)
    <3>1. one \in Nums
      BY <1>1
    <3> HIDE DEF one
    <3> QED BY <1>1, <3>1, CatAssociates DEF q
  <2>2. q \in Nums
    BY <1>2
  <2> HIDE DEF q
  <2> QED BY <2>1, <2>2, CatIsNums
<1>9. GetShort(buf, Len(p)) = Need(buf, Len(p) + 1, n)
  <2> HIDE DEF buf, n
  <2> QED BY <1>6 DEF GetShort
<1> QED BY <1>4, <1>7, <1>8, <1>9

\* The same of a CorrID, absent or not, and of the command, which takes the rest.
LEMMA CorrGives ==
    ASSUME NEW p \in Nums, NEW c \in CorrID, NEW r \in Nums
    PROVE  decodeCorrID(Cat(p, Cat(encodeCorrID(c), r)), Len(p))
               = [ok |-> TRUE, v |-> c, pos |-> Len(Cat(p, encodeCorrID(c)))]
<1>1. CASE c = NoCorrID
  <2> DEFINE one == One(0)
             buf == Cat(p, Cat(one, r))
  <2>1. encodeCorrID(c) = one
    BY <1>1 DEF encodeCorrID, One
  <2>2. Need(buf, Len(p), 1) = [ok |-> TRUE, v |-> one, pos |-> Len(p) + 1]
    BY ByteThere
  <2>3. Len(Cat(p, one)) = Len(p) + 1
    <3>1. 0 \in Nat
      OBVIOUS
    <3>2. one \in Nums /\ Len(one) = 1
      BY <3>1, OneIsNums
    <3> HIDE DEF one
    <3>3. Len(Cat(p, one)) = Len(p) + Len(one)
      BY <3>2, CatIsNums
    <3> QED BY <3>2, <3>3
  <2>4. one = <<0>>
    BY DEF One
  <2> HIDE DEF one, buf
  <2>5. decodeCorrID(buf, Len(p)) = [ok |-> TRUE, v |-> NoCorrID, pos |-> Len(p) + 1]
    <3> DEFINE tag == Need(buf, Len(p), 1)
    <3>1. tag.ok /\ tag.v = <<0>> /\ tag.pos = Len(p) + 1
      BY <2>2, <2>4
    <3>2. decodeCorrID(buf, Len(p)) =
              IF ~tag.ok THEN Bad
              ELSE IF tag.v = <<0>> THEN [ok |-> TRUE, v |-> NoCorrID, pos |-> tag.pos]
              ELSE IF tag.v = <<CorrLen>> THEN Need(buf, tag.pos, CorrLen)
              ELSE Bad
      BY DEF decodeCorrID
    <3> HIDE DEF tag
    <3> QED BY <3>1, <3>2
  <2> QED BY <1>1, <2>1, <2>3, <2>5 DEF buf
<1>2. CASE c # NoCorrID
  <2> DEFINE one == One(CorrLen)
             q == Cat(p, one)
             rest == Cat(c, r)
             buf == Cat(p, Cat(one, rest))
  <2>1. one \in Nums /\ Len(one) = 1 /\ c \in Nums /\ Len(c) = CorrLen /\ CorrLen \in Nat
    BY OneIsNums, CorrIsNums DEF CorrLen
  <2>2. encodeCorrID(c) = Cat(one, c)
    BY <1>2 DEF encodeCorrID, One, Cat
  <2>3. rest \in Nums
    BY <2>1, CatIsNums
  <2>4. one # <<0>> /\ one = <<CorrLen>>
    BY DEF One, CorrLen
  <2>5. Need(buf, Len(p), 1) = [ok |-> TRUE, v |-> one, pos |-> Len(p) + 1]
    <3> HIDE DEF rest
    <3> QED BY <2>1, <2>3, ByteThere
  <2> HIDE DEF one
  <2>6. q \in Nums /\ Len(q) = Len(p) + 1
    BY <2>1, CatIsNums
  <2>7. Cat(Cat(one, c), r) = Cat(one, rest)
    BY <2>1, CatAssociates
  <2>8. buf = Cat(q, rest)
    <3> HIDE DEF rest
    <3> QED BY <2>1, <2>3, CatAssociates
  <2>9. Cat(p, Cat(one, c)) = Cat(q, c)
    BY <2>1, CatAssociates
  <2>10. Len(Cat(q, c)) = Len(q) + CorrLen
    <3> HIDE DEF q
    <3> QED BY <2>1, <2>6, CatIsNums
  <2>11. Need(buf, Len(p) + 1, CorrLen) = [ok |-> TRUE, v |-> c, pos |-> Len(q) + CorrLen]
    <3>1. Need(Cat(q, Cat(c, r)), Len(q), Len(c)) = [ok |-> TRUE, v |-> c, pos |-> Len(q) + Len(c)]
      <4> HIDE DEF q
      <4> QED BY <2>1, <2>6, NeedGives
    <3> QED BY <2>1, <2>6, <2>8, <3>1
  <2> HIDE DEF buf, q
  <2>12. decodeCorrID(buf, Len(p)) = Need(buf, Len(p) + 1, CorrLen)
    BY <2>4, <2>5 DEF decodeCorrID
  <2> QED BY <2>2, <2>7, <2>9, <2>10, <2>11, <2>12 DEF buf
<1> QED BY <1>1, <1>2

LEMMA TailGives ==
    ASSUME NEW p \in Nums, NEW a \in Nums
    PROVE  SubSeq(Cat(p, a), Len(p) + 1, Len(Cat(p, a))) = a
<1>1. <<>> \in Nums /\ Cat(a, <<>>) = a
  BY Empty
<1>2. SubSeq(Cat(p, Cat(a, <<>>)), Len(p) + 1, Len(p) + Len(a)) = a
  BY <1>1, Middle
<1>3. Len(Cat(p, a)) = Len(p) + Len(a)
  BY CatIsNums
<1> QED BY <1>1, <1>2, <1>3

LEMMA EmptyFirst == \A a \in Nums : Cat(<<>>, a) = a
BY ConcatEmptySeq DEF Cat, Nums

\* A transmission is read as it was written; below v7, if it was for this session.
LEMMA ReadTransmission ==
    ASSUME NEW v, NEW s \in Nums, NEW s2, NEW t \in Transmission
    PROVE  /\ (v < V7 => s = s2) =>
                  decodeTransmission(v, s2, WireBytes(v, s, t)) = [ok |-> TRUE, t |-> t]
           /\ ~(v < V7 => s = s2) => ~decodeTransmission(v, s2, WireBytes(v, s, t)).ok
<1> DEFINE A == Short(t.auth)
           S == SessionPart(v, s)
           C == encodeCorrID(t.corr)
           E == Short(t.entity)
           M == t.command
           p1 == A
           p2 == Cat(p1, S)
           p3 == Cat(p2, C)
           p4 == Cat(p3, E)
           body == WireBytes(v, s, t)
<1>1. t.corr \in CorrID /\ t.entity \in Nums /\ t.auth \in Nums /\ M \in Nums
  BY DEF Transmission
<1>2. A \in Nums /\ S \in Nums /\ C \in Nums /\ E \in Nums
  <2>1. Short(s) \in Nums /\ <<>> \in Nums
    BY ShortIsNums, Empty
  <2> QED BY <1>1, <2>1, ShortIsNums, FieldsAreNums DEF SessionPart
<1>3. body = Cat(Cat(Cat(Cat(A, S), C), E), M)
  BY DEF WireBytes, Cat
<1>4. S = IF v < V7 THEN Short(s) ELSE <<>>
  BY DEF SessionPart
<1> DEFINE r4 == M
           r3 == Cat(E, r4)
           r2 == Cat(C, r3)
           r1 == Cat(S, r2)
<1>5. p1 \in Nums /\ p2 \in Nums /\ p3 \in Nums /\ p4 \in Nums
      /\ r3 \in Nums /\ r2 \in Nums /\ r1 \in Nums
  <2> HIDE DEF A, S, C, E, M
  <2>1. p2 \in Nums /\ r3 \in Nums
    BY <1>1, <1>2, CatIsNums
  <2>2. p3 \in Nums /\ r2 \in Nums
    <3> HIDE DEF p2, r3
    <3> QED BY <1>2, <2>1, CatIsNums
  <2>3. p4 \in Nums /\ r1 \in Nums
    <3> HIDE DEF p3, r2
    <3> QED BY <1>2, <2>2, CatIsNums
  <2> QED BY <1>2, <2>1, <2>2, <2>3
<1>6. body = Cat(p4, M) /\ body = Cat(p3, Cat(E, r4)) /\ body = Cat(p2, Cat(C, r3))
      /\ body = Cat(p1, Cat(S, r2)) /\ body = Cat(<<>>, Cat(A, r1))
  <2> HIDE DEF A, S, C, E, M, body
  <2>1. body = Cat(p4, M)
    BY <1>3
  <2>2. Cat(p4, M) = Cat(p3, Cat(E, r4))
    <3> HIDE DEF p3
    <3> QED BY <1>1, <1>2, <1>5, CatAssociates
  <2>3. Cat(p3, r3) = Cat(p2, Cat(C, r3))
    <3> HIDE DEF p2, r3
    <3> QED BY <1>2, <1>5, CatAssociates
  <2>4. Cat(p2, r2) = Cat(p1, Cat(S, r2))
    <3> HIDE DEF p1, r2
    <3> QED BY <1>2, <1>5, CatAssociates
  <2>5. Cat(A, r1) = Cat(<<>>, Cat(A, r1))
    <3> HIDE DEF r1
    <3>1. Cat(A, r1) \in Nums
      BY <1>2, <1>5, CatIsNums
    <3> QED BY <3>1, EmptyFirst
  <2> QED BY <2>1, <2>2, <2>3, <2>4, <2>5
<1> DEFINE auth == GetShort(body, 0)
           sid  == IF v < V7 THEN GetShort(body, auth.pos)
                   ELSE [ok |-> auth.ok, v |-> s2, pos |-> auth.pos]
           corr == decodeCorrID(body, sid.pos)
           ent  == GetShort(body, corr.pos)
<1>7. auth = [ok |-> TRUE, v |-> t.auth, pos |-> Len(p1)]
  <2>1. <<>> \in Nums /\ Len(<<>>) = 0 /\ Cat(<<>>, A) = p1
    BY <1>2, Empty, EmptyFirst
  <2>2. GetShort(Cat(<<>>, Cat(A, r1)), Len(<<>>)) = [ok |-> TRUE, v |-> t.auth, pos |-> Len(Cat(<<>>, A))]
    <3> HIDE DEF r1
    <3> QED BY <1>1, <1>5, <2>1, ShortGives
  <2> HIDE DEF body
  <2> QED BY <1>6, <2>1, <2>2
<1>8. sid = [ok |-> TRUE, v |-> IF v < V7 THEN s ELSE s2, pos |-> Len(p2)]
  <2> HIDE DEF body, auth
  <2>1. CASE v < V7
    <3>1. GetShort(Cat(p1, Cat(Short(s), r2)), Len(p1)) = [ok |-> TRUE, v |-> s, pos |-> Len(Cat(p1, Short(s)))]
      <4> HIDE DEF p1, r2
      <4> QED BY <1>5, ShortGives
    <3>2. S = Short(s) /\ auth.pos = Len(p1)
      BY <1>4, <1>7, <2>1
    <3> HIDE DEF S, p1, r2
    <3> QED BY <1>6, <2>1, <3>1, <3>2
  <2>2. CASE ~(v < V7)
    <3>1. p2 = p1
      BY <1>4, <1>5, <2>2, Empty
    <3> HIDE DEF p1, p2
    <3> QED BY <1>7, <2>2, <3>1
  <2> QED BY <2>1, <2>2
<1>9. corr = [ok |-> TRUE, v |-> t.corr, pos |-> Len(p3)]
  <2>1. decodeCorrID(Cat(p2, Cat(C, r3)), Len(p2)) = [ok |-> TRUE, v |-> t.corr, pos |-> Len(Cat(p2, C))]
    <3> HIDE DEF p2, r3
    <3> QED BY <1>1, <1>5, CorrGives
  <2>2. sid.pos = Len(p2)
    <3> HIDE DEF sid, p2
    <3> QED BY <1>8
  <2> HIDE DEF body, sid, p2, r3, C
  <2> QED BY <1>6, <2>1, <2>2
<1>10. ent = [ok |-> TRUE, v |-> t.entity, pos |-> Len(p4)]
  <2>1. GetShort(Cat(p3, Cat(E, r4)), Len(p3)) = [ok |-> TRUE, v |-> t.entity, pos |-> Len(Cat(p3, E))]
    <3>1. r4 \in Nums
      BY <1>1
    <3> HIDE DEF p3, r4
    <3> QED BY <1>1, <1>5, <3>1, ShortGives
  <2>2. corr.pos = Len(p3)
    <3> HIDE DEF corr, p3
    <3> QED BY <1>9
  <2> HIDE DEF body, corr, p3, r4, E
  <2> QED BY <1>6, <2>1, <2>2
<1>11. SubSeq(body, ent.pos + 1, Len(body)) = M
  <2> HIDE DEF body, ent, p4, M
  <2> QED BY <1>1, <1>5, <1>6, <1>10, TailGives
<1>12. decodeTransmission(v, s2, body)
         = [ok |-> auth.ok /\ sid.ok /\ sid.v = s2 /\ corr.ok /\ ent.ok,
            t  |-> [corr |-> corr.v, entity |-> ent.v, auth |-> auth.v,
                    command |-> SubSeq(body, ent.pos + 1, Len(body))]]
  <2> HIDE DEF body
  <2> QED BY DEF decodeTransmission
<1> HIDE DEF auth, sid, corr, ent
<1>13. [corr |-> t.corr, entity |-> t.entity, auth |-> t.auth, command |-> t.command] = t
  BY DEF Transmission
<1>14. (v < V7 => s = s2) => decodeTransmission(v, s2, body) = [ok |-> TRUE, t |-> t]
  <2> HIDE DEF body
  <2> SUFFICES ASSUME v < V7 => s = s2
               PROVE  decodeTransmission(v, s2, body) = [ok |-> TRUE, t |-> t]
    OBVIOUS
  <2>1. sid.ok /\ sid.v = s2
    BY <1>8
  <2>2. auth.ok /\ corr.ok /\ ent.ok
    BY <1>7, <1>9, <1>10
  <2>3. corr.v = t.corr /\ ent.v = t.entity /\ auth.v = t.auth
    BY <1>7, <1>9, <1>10
  <2>4. (auth.ok /\ sid.ok /\ sid.v = s2 /\ corr.ok /\ ent.ok) = TRUE
    BY <2>1, <2>2
  <2> QED BY <1>11, <1>12, <1>13, <2>3, <2>4
<1>15. ~(v < V7 => s = s2) => ~decodeTransmission(v, s2, body).ok
  <2> HIDE DEF body
  <2> SUFFICES ASSUME v < V7, s # s2
               PROVE  ~decodeTransmission(v, s2, body).ok
    OBVIOUS
  <2>1. sid.v # s2
    BY <1>8
  <2> DEFINE good == auth.ok /\ sid.ok /\ sid.v = s2 /\ corr.ok /\ ent.ok
             read == [corr |-> corr.v, entity |-> ent.v, auth |-> auth.v,
                      command |-> SubSeq(body, ent.pos + 1, Len(body))]
  <2>2. good = FALSE
    BY <2>1
  <2>3. decodeTransmission(v, s2, body) = [ok |-> good, t |-> read]
    BY <1>12
  <2> HIDE DEF good, read
  <2> QED BY <2>2, <2>3
<1> QED BY <1>14, <1>15

\* In every version, on its session, whatever bytes its fields hold.
THEOREM TransmissionRoundTrip ==
    ASSUME NEW v, NEW s \in Nums, NEW t \in Transmission
    PROVE  decodeTransmission(v, s, WireBytes(v, s, t)) = [ok |-> TRUE, t |-> t]
BY ReadTransmission
-----------------------------------------------------------------------------
(* Induction.                                                              *)

\* Less-than on the naturals, as a relation, is well-founded; so a set of naturals
\* that has 0 and the successor of each of its members has them all.
Less == {p \in Nat \X Nat : p[1] < p[2]}

LEMMA LessIsWellFounded == IsWellFoundedOn(Less, Nat)
BY NatLessThanWellFounded DEF OpToRel, Less

LEMMA Induction ==
    ASSUME NEW S, 0 \in S, \A n \in Nat : n \in S => n + 1 \in S
    PROVE  \A n \in Nat : n \in S
<1> DEFINE T == Nat \ S
<1> SUFFICES ASSUME T # {} PROVE FALSE
  OBVIOUS
<1>1. PICK x \in T : \A y \in T : ~(<<y, x>> \in Less)
  <2>1. T \subseteq Nat
    OBVIOUS
  <2> HIDE DEF T
  <2> QED BY <2>1, LessIsWellFounded, WFMin
<1>2. x \in Nat /\ x # 0
  OBVIOUS
<1>3. x - 1 \in Nat /\ <<x - 1, x>> \in Less
  BY <1>2 DEF Less
<1>4. x - 1 \in S
  BY <1>1, <1>3
<1>5. (x - 1) + 1 \in S
  BY <1>3, <1>4
<1> QED BY <1>2, <1>5

-----------------------------------------------------------------------------
(* The loops of EncodeBlock and DecodeBlock, unfolded.                     *)

\* The text after i transmissions.
Enc(b) ==
    CHOOSE enc : enc = [i \in 0..Len(b) |->
        IF i = 0 THEN <<CountByte(Len(b))>> ELSE enc[i - 1] \o Word16(Len(b[i])) \o b[i]]

LEMMA CountByteIs ==
    ASSUME NEW n \in Nat
    PROVE  CountByte(n) \in Nat /\ (n <= MaxCount => CountByte(n) = n)
<1> DEFINE m == MaxCount + 1
<1>1. m \in Nat /\ m > 0 /\ (n <= MaxCount => n < m)
  BY WireAssumption
<1> HIDE DEF m
<1>2. n % m \in Nat /\ (n < m => n % m = n)
  BY <1>1
<1> QED BY <1>1, <1>2 DEF CountByte, m

\* What is CHOOSEn exists: it is built one turn after another.
LEMMA EncUnfolds ==
    ASSUME NEW b \in Seq(Nums)
    PROVE  /\ EncodeBlock(b) = Enc(b)[Len(b)]
           /\ Enc(b)[0] = One(CountByte(Len(b)))
           /\ \A i \in 1..Len(b) : Enc(b)[i] = Cat(Cat(Enc(b)[i - 1], Word16(Len(b[i]))), b[i])
<1> DEFINE n == Len(b)
           F(g, i) == IF i = 0 THEN <<CountByte(n)>> ELSE g[i - 1] \o Word16(Len(b[i])) \o b[i]
           S == {k \in Nat : \E g : g = [i \in 0..k |-> F(g, i)]}
<1>1. n \in Nat
  OBVIOUS
<1>2. 0 \in S
  <2> DEFINE g == [i \in 0..0 |-> <<CountByte(n)>>]
  <2>1. g = [i \in 0..0 |-> F(g, i)]
    OBVIOUS
  <2> QED BY <2>1
<1>3. ASSUME NEW k \in Nat, k \in S
      PROVE  k + 1 \in S
  <2>1. PICK g : g = [i \in 0..k |-> F(g, i)]
    BY <1>3
  <2> DEFINE h == [i \in 0..k + 1 |-> IF i = k + 1 THEN F(g, i) ELSE g[i]]
  <2>2. ASSUME NEW i \in 0..k + 1
        PROVE  h[i] = F(h, i)
    <3>1. CASE i = 0
      BY <2>1, <3>1
    <3>2. CASE i \in 1..k + 1
      <4>1. h[i - 1] = g[i - 1]
        BY <3>2
      <4>2. h[i] = F(g, i)
        <5>1. i \in 1..k => g[i] = F(g, i)
          <6>1. \A j \in 0..k : g[j] = F(g, j)
            <7> HIDE DEF F
            <7> QED BY <2>1
          <6>2. i \in 1..k => i \in 0..k
            OBVIOUS
          <6> HIDE DEF F
          <6> QED BY <6>1, <6>2
        <5>2. h[i] = IF i = k + 1 THEN F(g, i) ELSE g[i]
          BY <3>2
        <5> HIDE DEF F, h
        <5> QED BY <3>2, <5>1, <5>2
      <4> QED BY <3>2, <4>1, <4>2
    <3> QED BY <3>1, <3>2
  <2>3. h = [i \in 0..k + 1 |-> F(h, i)]
    <3>1. h = [i \in 0..k + 1 |-> h[i]]
      OBVIOUS
    <3> HIDE DEF F, h
    <3> QED BY <2>2, <3>1
  <2>4. \E f : f = [i \in 0..k + 1 |-> F(f, i)]
    <3> HIDE DEF F, h
    <3> QED BY <2>3
  <2> HIDE DEF F
  <2> QED BY <2>4
<1>4. n \in S
  <2> HIDE DEF S
  <2> QED BY <1>1, <1>2, <1>3, Induction
<1>5. PICK g : g = [i \in 0..n |-> F(g, i)]
  BY <1>4
<1>6. Enc(b) = [i \in 0..n |-> F(Enc(b), i)]
  BY <1>5 DEF Enc
<1>7. EncodeBlock(b) = Enc(b)[n]
  BY DEF EncodeBlock, Enc
<1> HIDE DEF n
<1>8. \A i \in 0..n : Enc(b)[i] = F(Enc(b), i)
  <2> HIDE DEF F
  <2> QED BY <1>6
<1>9. 0 \in 0..n /\ \A i \in 1..n : i \in 0..n /\ i # 0
  BY <1>1
<1>10. Enc(b)[0] = One(CountByte(n))
  BY <1>8, <1>9 DEF One
<1>11. ASSUME NEW i \in 1..n
       PROVE  Enc(b)[i] = Cat(Cat(Enc(b)[i - 1], Word16(Len(b[i]))), b[i])
  <2>1. F(Enc(b), i) = Cat(Cat(Enc(b)[i - 1], Word16(Len(b[i]))), b[i])
    BY <1>9 DEF Cat
  <2> HIDE DEF F
  <2> QED BY <1>8, <1>9, <2>1
<1> QED BY <1>7, <1>10, <1>11 DEF n

\* One turn of DecodeBlock's loop, and all of them.
Count(buf) == IF Need(buf, 0, 1).ok THEN buf[1] ELSE 0
Take(v, s, buf, prev) ==
    LET body == Body(buf, GetWord16(buf, prev.pos))
        tx   == decodeTransmission(v, s, body.v)
    IN IF prev.ok /\ body.ok /\ tx.ok
       THEN [ok |-> TRUE, txs |-> Append(prev.txs, tx.t), pos |-> body.pos]
       ELSE [ok |-> FALSE, txs |-> <<>>, pos |-> prev.pos]
Dec(v, s, buf) ==
    CHOOSE dec : dec = [i \in 0..Count(buf) |->
        IF i = 0 THEN [ok |-> Need(buf, 0, 1).ok, txs |-> <<>>, pos |-> 1]
        ELSE Take(v, s, buf, dec[i - 1])]

LEMMA DecUnfolds ==
    ASSUME NEW v, NEW s, NEW buf, Count(buf) \in Nat
    PROVE  /\ DecodeBlock(v, s, buf) = Dec(v, s, buf)[Count(buf)]
           /\ Dec(v, s, buf)[0] = [ok |-> Need(buf, 0, 1).ok, txs |-> <<>>, pos |-> 1]
           /\ \A i \in 1..Count(buf) :
                  Dec(v, s, buf)[i] = Take(v, s, buf, Dec(v, s, buf)[i - 1])
<1> DEFINE n == Count(buf)
           F(g, i) == IF i = 0 THEN [ok |-> Need(buf, 0, 1).ok, txs |-> <<>>, pos |-> 1]
                      ELSE Take(v, s, buf, g[i - 1])
           S == {k \in Nat : \E g : g = [i \in 0..k |-> F(g, i)]}
<1>1. n \in Nat
  OBVIOUS
<1>2. 0 \in S
  <2> DEFINE g == [i \in 0..0 |-> [ok |-> Need(buf, 0, 1).ok, txs |-> <<>>, pos |-> 1]]
  <2>1. g = [i \in 0..0 |-> F(g, i)]
    OBVIOUS
  <2>2. \E f : f = [i \in 0..0 |-> F(f, i)]
    <3> HIDE DEF F, g
    <3> QED BY <2>1
  <2> HIDE DEF F
  <2> QED BY <2>2
<1>3. ASSUME NEW k \in Nat, k \in S
      PROVE  k + 1 \in S
  <2>1. PICK g : g = [i \in 0..k |-> F(g, i)]
    BY <1>3
  <2> DEFINE h == [i \in 0..k + 1 |-> IF i = k + 1 THEN F(g, i) ELSE g[i]]
  <2>2. ASSUME NEW i \in 0..k + 1
        PROVE  h[i] = F(h, i)
    <3>1. i \in 0..k => g[i] = F(g, i)
      BY <2>1
    <3>2. h[i] = F(g, i)
      <4>1. h[i] = IF i = k + 1 THEN F(g, i) ELSE g[i]
        OBVIOUS
      <4> HIDE DEF F, h
      <4> QED BY <3>1, <4>1
    <3>3. i # 0 => h[i - 1] = g[i - 1]
      OBVIOUS
    <3>4. F(g, i) = F(h, i)
      <4> HIDE DEF h
      <4> QED BY <3>3
    <3> QED BY <3>2, <3>4
  <2>3. h = [i \in 0..k + 1 |-> F(h, i)]
    <3>1. h = [i \in 0..k + 1 |-> h[i]]
      OBVIOUS
    <3> HIDE DEF F, h
    <3> QED BY <2>2, <3>1
  <2>4. \E f : f = [i \in 0..k + 1 |-> F(f, i)]
    <3> HIDE DEF F, h
    <3> QED BY <2>3
  <2> HIDE DEF F
  <2> QED BY <2>4
<1>4. n \in S
  <2> HIDE DEF S
  <2> QED BY <1>1, <1>2, <1>3, Induction
<1>5. PICK g : g = [i \in 0..n |-> F(g, i)]
  BY <1>4
<1>6. Dec(v, s, buf) = [i \in 0..n |-> F(Dec(v, s, buf), i)]
  BY <1>5 DEF Dec
<1>7. DecodeBlock(v, s, buf) = Dec(v, s, buf)[n]
  BY DEF DecodeBlock, Dec, Count, Take
<1> HIDE DEF n
<1>8. \A i \in 0..n : Dec(v, s, buf)[i] = F(Dec(v, s, buf), i)
  <2> HIDE DEF F
  <2> QED BY <1>6
<1>9. 0 \in 0..n /\ \A i \in 1..n : i \in 0..n /\ i # 0
  BY <1>1
<1> QED BY <1>7, <1>8, <1>9 DEF n

-----------------------------------------------------------------------------
(* What EncodeBlock has written after each turn.                           *)

LEMMA Word16IsNums ==
    ASSUME NEW n \in Nat
    PROVE  /\ Word16(n) \in Nums /\ Len(Word16(n)) = 2
           /\ n < 65536 => 256 * Word16(n)[1] + Word16(n)[2] = n
<1> DEFINE q == n \div 256  h == q % 256  l == n % 256
<1>1. q \in Nat /\ l \in Nat /\ n = 256 * q + l /\ (n < 65536 => q < 256)
  BY Z3
<1>2. h \in Nat /\ (q < 256 => h = q)
  <2> HIDE DEF q
  <2> QED BY <1>1
<1>3. Word16(n) = <<h, l>>
  BY DEF Word16
<1> HIDE DEF q, h, l
<1>4. <<h, l>> \in Nums /\ Len(<<h, l>>) = 2 /\ <<h, l>>[1] = h /\ <<h, l>>[2] = l
  BY <1>1, <1>2, NatsAreSymbols DEF Nums
<1>5. n < 65536 => 256 * h + l = n
  BY <1>1, <1>2
<1> QED BY <1>3, <1>4, <1>5

LEMMA EncIsNums ==
    ASSUME NEW b \in Seq(Nums), NEW k \in 0..Len(b)
    PROVE  Enc(b)[k] \in Nums
<1> DEFINE S == {j \in Nat : j <= Len(b) => Enc(b)[j] \in Nums}
<1>1. 0 \in S
  <2>1. CountByte(Len(b)) \in Nat
    BY CountByteIs
  <2> QED BY <2>1, EncUnfolds, OneIsNums
<1>2. ASSUME NEW j \in Nat, j \in S, j + 1 <= Len(b)
      PROVE  Enc(b)[j + 1] \in Nums
  <2> DEFINE e == Enc(b)[j]  w == Word16(Len(b[j + 1]))  a == b[j + 1]
  <2>1. e \in Nums /\ a \in Nums
    BY <1>2
  <2>2. w \in Nums
    <3>1. Len(a) \in Nat
      <4> HIDE DEF a
      <4> QED BY <2>1 DEF Nums
    <3> HIDE DEF a
    <3> QED BY <3>1, Word16IsNums
  <2>3. Enc(b)[j + 1] = Cat(Cat(e, w), a)
    <3>1. j + 1 \in 1..Len(b) /\ (j + 1) - 1 = j
      BY <1>2
    <3> QED BY <3>1, EncUnfolds
  <2> HIDE DEF e, w, a
  <2>4. Cat(e, w) \in Nums
    BY <2>1, <2>2, CatIsNums
  <2> QED BY <2>1, <2>3, <2>4, CatIsNums
<1>3. \A j \in Nat : j \in S => j + 1 \in S
  BY <1>2
<1>4. k \in S
  <2> HIDE DEF S
  <2> QED BY <1>1, <1>3, Induction
<1> QED BY <1>4

LEMMA EncAt ==
    ASSUME NEW b \in Seq(Nums), NEW k \in 1..Len(b)
    PROVE  LET e == Enc(b)[k - 1]  w == Word16(Len(b[k])) IN
           /\ e \in Nums /\ w \in Nums /\ b[k] \in Nums
           /\ Enc(b)[k] = Cat(Cat(e, w), b[k])
<1> DEFINE e == Enc(b)[k - 1]  a == b[k]  w == Word16(Len(a))
<1>1. a \in Nums /\ e \in Nums
  <2>1. k - 1 \in 0..Len(b)
    OBVIOUS
  <2> QED BY <2>1, EncIsNums
<1>2. Len(a) \in Nat
  <2> HIDE DEF a
  <2> QED BY <1>1 DEF Nums
<1>3. w \in Nums
  <2> HIDE DEF a
  <2> QED BY <1>2, Word16IsNums
<1>4. Enc(b)[k] = Cat(Cat(e, w), a)
  BY EncUnfolds
<1> QED BY <1>1, <1>3, <1>4

LEMMA EncLength ==
    ASSUME NEW b \in Seq(Nums), NEW k \in 1..Len(b)
    PROVE  Len(Enc(b)[k]) = Len(Enc(b)[k - 1]) + 2 + Len(b[k])
<1> DEFINE e == Enc(b)[k - 1]  a == b[k]  n == Len(a)  w == Word16(n)
<1>1. e \in Nums /\ w \in Nums /\ a \in Nums /\ Enc(b)[k] = Cat(Cat(e, w), a)
  BY EncAt
<1>2. Len(w) = 2
  <2>1. n \in Nat
    <3> HIDE DEF a
    <3> QED BY <1>1 DEF Nums
  <2> HIDE DEF n
  <2> QED BY <2>1, Word16IsNums
<1>3. Len(Cat(Cat(e, w), a)) = Len(e) + Len(w) + Len(a)
  <2> HIDE DEF e, w, a
  <2>1. Cat(e, w) \in Nums /\ Len(Cat(e, w)) = Len(e) + Len(w)
    BY <1>1, CatIsNums
  <2> QED BY <1>1, <2>1, CatIsNums
<1> QED BY <1>1, <1>2, <1>3

\* What is written goes on from what was written so far.
LEMMA EncGoesOn ==
    ASSUME NEW b \in Seq(Nums), NEW k \in 0..Len(b)
    PROVE  \E r \in Nums : EncodeBlock(b) = Cat(Enc(b)[k], r)
<1> DEFINE n == Len(b)
           S == {j \in Nat : j <= n => \E r \in Nums : Enc(b)[n] = Cat(Enc(b)[n - j], r)}
<1>1. n \in Nat
  OBVIOUS
<1>2. 0 \in S
  <2>1. Enc(b)[n] \in Nums /\ n - 0 = n
    BY EncIsNums
  <2>2. Enc(b)[n] = Cat(Enc(b)[n - 0], <<>>) /\ <<>> \in Nums
    BY <2>1, Empty
  <2> HIDE DEF n
  <2> QED BY <2>2
<1>3. ASSUME NEW j \in Nat, j \in S
      PROVE  j + 1 \in S
  <2> SUFFICES ASSUME j + 1 <= n
               PROVE  \E r \in Nums : Enc(b)[n] = Cat(Enc(b)[n - (j + 1)], r)
    OBVIOUS
  <2> DEFINE i == n - j
             e == Enc(b)[i - 1]  a == b[i]  w == Word16(Len(a))
  <2>1. PICK r \in Nums : Enc(b)[n] = Cat(Enc(b)[i], r)
    BY <1>1, <1>3
  <2>2. i \in 1..Len(b) /\ n - (j + 1) = i - 1
    BY <1>1
  <2>3. e \in Nums /\ w \in Nums /\ a \in Nums /\ Enc(b)[i] = Cat(Cat(e, w), a)
    <3> HIDE DEF i
    <3> QED BY <2>2, EncAt
  <2>4. Enc(b)[n] = Cat(e, Cat(w, Cat(a, r))) /\ Cat(w, Cat(a, r)) \in Nums
    <3>1. Enc(b)[n] = Cat(Cat(Cat(e, w), a), r)
      BY <2>1, <2>3
    <3> HIDE DEF e, w, a, n
    <3> QED BY <2>3, <3>1, Regroup
  <2> HIDE DEF n, i, w, a
  <2> QED BY <2>2, <2>4
<1>4. n - k \in S
  <2>1. n - k \in Nat
    BY <1>1
  <2> HIDE DEF S
  <2> QED BY <1>2, <1>3, <2>1, Induction
<1>5. n - k <= n /\ n - (n - k) = k
  BY <1>1
<1>6. EncodeBlock(b) = Enc(b)[n]
  BY EncUnfolds
<1> HIDE DEF n
<1> QED BY <1>4, <1>5, <1>6

\* So a transmission is found behind its length, after those before it.
LEMMA EncSplit ==
    ASSUME NEW b \in Seq(Nums), NEW k \in 1..Len(b)
    PROVE  \E r \in Nums :
               EncodeBlock(b) = Cat(Enc(b)[k - 1], Cat(Word16(Len(b[k])), Cat(b[k], r)))
<1> DEFINE e == Enc(b)[k - 1]  w == Word16(Len(b[k]))  a == b[k]
<1>1. PICK r \in Nums : EncodeBlock(b) = Cat(Enc(b)[k], r)
  <2>1. k \in 0..Len(b)
    OBVIOUS
  <2> QED BY <2>1, EncGoesOn
<1>2. e \in Nums /\ w \in Nums /\ a \in Nums /\ Enc(b)[k] = Cat(Cat(e, w), a)
  BY EncAt
<1>3. EncodeBlock(b) = Cat(e, Cat(w, Cat(a, r)))
  <2>1. EncodeBlock(b) = Cat(Cat(Cat(e, w), a), r)
    BY <1>1, <1>2
  <2> HIDE DEF e, w, a
  <2> QED BY <1>2, <2>1, Regroup
<1> QED BY <1>3

LEMMA Word16Gives ==
    ASSUME NEW p \in Nums, NEW r \in Nums, NEW n \in Nat, n < 65536
    PROVE  GetWord16(Cat(p, Cat(Word16(n), r)), Len(p)) = [ok |-> TRUE, v |-> n, pos |-> Len(p) + 2]
<1> DEFINE w == Word16(n)  buf == Cat(p, Cat(w, r))
<1>1. w \in Nums
  BY Word16IsNums
<1>0. Len(w) = 2 /\ 256 * w[1] + w[2] = n
  BY Word16IsNums
<1> HIDE DEF w
<1>2. Need(buf, Len(p), 2).ok
  <2>1. Need(buf, Len(p), Len(w)) = [ok |-> TRUE, v |-> w, pos |-> Len(p) + Len(w)]
    BY <1>1, NeedGives
  <2> HIDE DEF buf
  <2> QED BY <1>0, <2>1
<1>3. buf[Len(p) + 1] = w[1] /\ buf[Len(p) + 2] = w[2]
  <2>1. \A i \in 1..Len(w) : buf[Len(p) + i] = w[i]
    BY <1>1, Middle
  <2> HIDE DEF buf
  <2> QED BY <1>0, <2>1
<1> HIDE DEF buf
<1>4. GetWord16(buf, Len(p)) = [ok |-> TRUE, v |-> n, pos |-> Len(p) + 2]
  <2> DEFINE x == 256 * buf[Len(p) + 1] + buf[Len(p) + 2]
  <2>1. GetWord16(buf, Len(p)) = [ok |-> TRUE, v |-> x, pos |-> Len(p) + 2]
    BY <1>2 DEF GetWord16
  <2>2. x = 256 * w[1] + w[2]
    BY <1>3
  <2>3. x = n
    BY <1>0, <2>2
  <2> HIDE DEF x
  <2> QED BY <2>1, <2>3
<1> QED BY <1>4 DEF buf, w

-----------------------------------------------------------------------------
(* What DecodeBlock has read after each turn.                              *)

\* The bodies of the transmissions, as they go into the block.
Bodies(v, s, txs) == [i \in 1..Len(txs) |-> WireBytes(v, s, txs[i])]

LEMMA BodiesAreNums ==
    ASSUME NEW v, NEW s \in Nums, NEW txs \in Seq(Transmission)
    PROVE  /\ Bodies(v, s, txs) \in Seq(Nums) /\ Len(Bodies(v, s, txs)) = Len(txs)
           /\ \A i \in 1..Len(txs) : Bodies(v, s, txs)[i] = WireBytes(v, s, txs[i])
<1>1. ASSUME NEW t \in Transmission PROVE WireBytes(v, s, t) \in Nums
  <2> DEFINE A == Short(t.auth)  S == SessionPart(v, s)  C == encodeCorrID(t.corr)
             E == Short(t.entity)  M == t.command
  <2>1. A \in Nums /\ C \in Nums /\ E \in Nums /\ M \in Nums
    BY ShortIsNums, FieldsAreNums DEF Transmission
  <2>2. S \in Nums
    BY ShortIsNums, Empty DEF SessionPart
  <2>3. WireBytes(v, s, t) = Cat(Cat(Cat(Cat(A, S), C), E), M)
    BY DEF WireBytes, Cat
  <2> HIDE DEF A, S, C, E, M
  <2>4. Cat(A, S) \in Nums
    BY <2>1, <2>2, CatIsNums
  <2>5. Cat(Cat(A, S), C) \in Nums
    BY <2>1, <2>4, CatIsNums
  <2>6. Cat(Cat(Cat(A, S), C), E) \in Nums
    BY <2>1, <2>5, CatIsNums
  <2> QED BY <2>1, <2>3, <2>6, CatIsNums
<1>2. \A i \in 1..Len(txs) : WireBytes(v, s, txs[i]) \in Nums
  BY <1>1
<1> QED BY <1>2 DEF Bodies

\* Word16 holds the length.
Measurable(a) == Len(a) < 65536

LEMMA BodyGives ==
    ASSUME NEW p \in Nums, NEW a \in Nums, NEW r \in Nums, Measurable(a)
    PROVE  LET buf == Cat(p, Cat(Word16(Len(a)), Cat(a, r))) IN
           Body(buf, GetWord16(buf, Len(p))) = [ok |-> TRUE, v |-> a, pos |-> Len(p) + 2 + Len(a)]
<1> DEFINE n == Len(a)  w == Word16(n)  ar == Cat(a, r)
           q == Cat(p, w)  buf == Cat(p, Cat(w, ar))
<1>1. n \in Nat /\ n < 65536 /\ Len(p) \in Nat
  BY DEF Nums, Measurable
<1>2. w \in Nums /\ Len(w) = 2
  <2> HIDE DEF n
  <2> QED BY <1>1, Word16IsNums
<1>3. ar \in Nums
  BY CatIsNums
<1>4. q \in Nums /\ Len(q) = Len(p) + 2
  <2> HIDE DEF w
  <2>1. Cat(p, w) \in Nums /\ Len(Cat(p, w)) = Len(p) + Len(w)
    BY <1>2, CatIsNums
  <2> QED BY <1>2, <2>1
<1>5. buf = Cat(q, ar)
  <2> HIDE DEF w, ar
  <2> QED BY <1>2, <1>3, CatAssociates
<1>6. GetWord16(buf, Len(p)) = [ok |-> TRUE, v |-> n, pos |-> Len(p) + 2]
  <2> HIDE DEF n, ar
  <2> QED BY <1>1, <1>3, Word16Gives
<1>7. Need(buf, Len(p) + 2, n) = [ok |-> TRUE, v |-> a, pos |-> Len(p) + 2 + n]
  <2>1. Need(Cat(q, Cat(a, r)), Len(q), Len(a)) = [ok |-> TRUE, v |-> a, pos |-> Len(q) + Len(a)]
    <3>1. q \in Nums
      BY <1>4
    <3> HIDE DEF q
    <3> QED BY <3>1, NeedGives
  <2> HIDE DEF q, buf
  <2> QED BY <1>4, <1>5, <2>1
<1> HIDE DEF buf, n
<1>8. Body(buf, GetWord16(buf, Len(p))) = Need(buf, Len(p) + 2, n)
  BY <1>6 DEF Body
<1>9. Body(buf, GetWord16(buf, Len(p))) = [ok |-> TRUE, v |-> a, pos |-> Len(p) + 2 + n]
  BY <1>7, <1>8
<1> QED BY <1>9 DEF buf, n, w, ar

LEMMA TakeAt ==
    ASSUME NEW b \in Seq(Nums), NEW x \in Nums, NEW k \in 1..Len(b), Measurable(EncodeBlock(b))
    PROVE  LET buf == Cat(EncodeBlock(b), x) IN
           Body(buf, GetWord16(buf, Len(Enc(b)[k - 1])))
               = [ok |-> TRUE, v |-> b[k], pos |-> Len(Enc(b)[k])]
<1> DEFINE e == Enc(b)[k - 1]  a == b[k]  w == Word16(Len(a))
           buf == Cat(EncodeBlock(b), x)
<1>1. e \in Nums /\ w \in Nums /\ a \in Nums
  BY EncAt
<1>2. PICK r \in Nums : EncodeBlock(b) = Cat(e, Cat(w, Cat(a, r)))
  BY EncSplit
<1> DEFINE ra == Cat(a, r)  rw == Cat(w, ra)  rx == Cat(r, x)  ax == Cat(a, rx)
<1>3. ra \in Nums /\ rx \in Nums
  <2> HIDE DEF a
  <2> QED BY <1>1, CatIsNums
<1>4. rw \in Nums /\ ax \in Nums
  <2> HIDE DEF a, w, ra, rx
  <2> QED BY <1>1, <1>3, CatIsNums
<1>5. Measurable(a)
  <2>1. Len(EncodeBlock(b)) = Len(e) + Len(rw)
    <3> HIDE DEF e, rw
    <3> QED BY <1>1, <1>2, <1>4, CatIsNums DEF rw
  <2>2. Len(rw) = Len(w) + Len(ra)
    <3> HIDE DEF w, ra
    <3> QED BY <1>1, <1>3, CatIsNums
  <2>3. Len(ra) = Len(a) + Len(r)
    <3> HIDE DEF a
    <3> QED BY <1>1, CatIsNums
  <2>4. Len(e) \in Nat /\ Len(w) \in Nat /\ Len(a) \in Nat /\ Len(r) \in Nat
    <3> HIDE DEF e, w, a
    <3> QED BY <1>1 DEF Nums
  <2> HIDE DEF rw, ra, w, e, a
  <2> QED BY <2>1, <2>2, <2>3, <2>4 DEF Measurable
<1>6. buf = Cat(e, Cat(w, ax))
  <2>1. buf = Cat(Cat(e, rw), x)
    BY <1>2
  <2>2. Cat(Cat(e, rw), x) = Cat(e, Cat(rw, x))
    <3> HIDE DEF e, rw
    <3> QED BY <1>1, <1>4, CatAssociates
  <2>3. Cat(rw, x) = Cat(w, Cat(ra, x))
    <3> HIDE DEF w, ra
    <3> QED BY <1>1, <1>3, CatAssociates
  <2>4. Cat(ra, x) = ax
    <3> HIDE DEF a
    <3> QED BY <1>1, CatAssociates
  <2> HIDE DEF buf, e, w, ax, ra, rw
  <2> QED BY <2>1, <2>2, <2>3, <2>4
<1>7. Body(buf, GetWord16(buf, Len(e))) = [ok |-> TRUE, v |-> a, pos |-> Len(e) + 2 + Len(a)]
  <2> HIDE DEF buf, e, a, rx
  <2> QED BY <1>1, <1>3, <1>5, <1>6, BodyGives
<1>8. Len(Enc(b)[k]) = Len(e) + 2 + Len(a)
  BY EncLength
<1> HIDE DEF buf, a
<1>9. Body(buf, GetWord16(buf, Len(e))) = [ok |-> TRUE, v |-> a, pos |-> Len(Enc(b)[k])]
  BY <1>7, <1>8
<1> QED BY <1>9 DEF buf, a

\* Whether a session takes what was written for another one.
Takes(v, s, s2) == v < V7 => s = s2

\* The turn that reads transmission k, after q, and where transmission k ends.
Turn(v, s, s2, txs, x, k, q) ==
    Take(v, s2, Cat(EncodeBlock(Bodies(v, s, txs)), x),
         [ok |-> TRUE, txs |-> q, pos |-> Len(Enc(Bodies(v, s, txs))[k - 1])])
TurnEnd(v, s, txs, k) == Len(Enc(Bodies(v, s, txs))[k])

LEMMA TakeTurn ==
    ASSUME NEW v, NEW s \in Nums, NEW s2, NEW txs \in Seq(Transmission), NEW x \in Nums,
           Measurable(EncodeBlock(Bodies(v, s, txs))),
           NEW k \in 1..Len(txs), NEW q
    PROVE  /\ Takes(v, s, s2) =>
                 Turn(v, s, s2, txs, x, k, q)
                     = [ok |-> TRUE, txs |-> Append(q, txs[k]), pos |-> TurnEnd(v, s, txs, k)]
           /\ ~Takes(v, s, s2) => ~Turn(v, s, s2, txs, x, k, q).ok
<1> DEFINE b == Bodies(v, s, txs)
           buf == Cat(EncodeBlock(b), x)
           a == b[k]
           prev == [ok |-> TRUE, txs |-> q, pos |-> Len(Enc(b)[k - 1])]
           tx == decodeTransmission(v, s2, a)
           body == Body(buf, GetWord16(buf, prev.pos))
           next == Turn(v, s, s2, txs, x, k, q)
<1>1. b \in Seq(Nums) /\ k \in 1..Len(b) /\ a = WireBytes(v, s, txs[k]) /\ txs[k] \in Transmission
  BY BodiesAreNums
<1>2. body = [ok |-> TRUE, v |-> a, pos |-> Len(Enc(b)[k])]
  <2>1. Body(buf, GetWord16(buf, Len(Enc(b)[k - 1])))
            = [ok |-> TRUE, v |-> a, pos |-> Len(Enc(b)[k])]
    <3>1. b \in Seq(Nums) /\ k \in 1..Len(b) /\ Measurable(EncodeBlock(b))
      BY <1>1
    <3> HIDE DEF b
    <3> QED BY <3>1, TakeAt
  <2> HIDE DEF buf, a
  <2> QED BY <2>1
<1>3. /\ Takes(v, s, s2) => tx = [ok |-> TRUE, t |-> txs[k]]
      /\ ~Takes(v, s, s2) => ~tx.ok
  <2>1. tx = decodeTransmission(v, s2, WireBytes(v, s, txs[k])) /\ txs[k] \in Transmission
    BY <1>1
  <2> HIDE DEF tx
  <2> QED BY <2>1, ReadTransmission DEF Takes
<1>4. body.v = a /\ body.ok = TRUE /\ body.pos = Len(Enc(b)[k])
  <2> HIDE DEF body, a, b
  <2> QED BY <1>2
<1>5. next = IF prev.ok /\ body.ok /\ tx.ok
             THEN [ok |-> TRUE, txs |-> Append(prev.txs, tx.t), pos |-> body.pos]
             ELSE [ok |-> FALSE, txs |-> <<>>, pos |-> prev.pos]
  <2>1. next = LET txx == decodeTransmission(v, s2, body.v)
               IN IF prev.ok /\ body.ok /\ txx.ok
                  THEN [ok |-> TRUE, txs |-> Append(prev.txs, txx.t), pos |-> body.pos]
                  ELSE [ok |-> FALSE, txs |-> <<>>, pos |-> prev.pos]
    <3>1. next = Take(v, s2, buf, prev)
      BY DEF Turn
    <3> HIDE DEF buf, next
    <3> QED BY <3>1 DEF Take
  <2> HIDE DEF next, body, a
  <2> QED BY <1>4, <2>1
<1>0. prev.ok = TRUE /\ prev.txs = q
  OBVIOUS
<1> HIDE DEF tx, body, next, b, a, prev
<1>6. ASSUME Takes(v, s, s2)
      PROVE  next = [ok |-> TRUE, txs |-> Append(q, txs[k]), pos |-> Len(Enc(b)[k])]
  <2>1. tx.ok = TRUE /\ tx.t = txs[k]
    BY <1>3, <1>6
  <2> QED BY <1>0, <1>4, <1>5, <2>1
<1>7. ASSUME ~Takes(v, s, s2)
      PROVE  ~next.ok
  <2>1. ~tx.ok
    BY <1>3, <1>7
  <2> QED BY <1>5, <2>1
<1> QED BY <1>6, <1>7 DEF next, b, TurnEnd

\* The count is read as it was written.
LEMMA CountIs ==
    ASSUME NEW b \in Seq(Nums), Len(b) <= MaxCount, NEW x \in Nums
    PROVE  LET buf == Cat(EncodeBlock(b), x) IN
           Need(buf, 0, 1).ok = TRUE /\ Count(buf) = Len(b)
<1> DEFINE n == Len(b)  buf == Cat(EncodeBlock(b), x)
<1>1. n \in Nat /\ 0 \in 0..n /\ Enc(b)[0] = One(n)
  <2>1. n \in Nat /\ 0 \in 0..n
    OBVIOUS
  <2>2. CountByte(n) = n
    BY <2>1, CountByteIs
  <2> QED BY <2>1, <2>2, EncUnfolds
<1>2. PICK r \in Nums : EncodeBlock(b) = Cat(One(n), r)
  <2>1. \E r \in Nums : EncodeBlock(b) = Cat(Enc(b)[0], r)
    BY <1>1, EncGoesOn
  <2> HIDE DEF n
  <2> QED BY <1>1, <2>1
<1> HIDE DEF n
<1> DEFINE rx == Cat(r, x)
<1>3. rx \in Nums /\ One(n) \in Nums
  BY <1>1, CatIsNums, OneIsNums
<1>4. buf = Cat(<<>>, Cat(One(n), rx))
  <2>1. buf = Cat(Cat(One(n), r), x)
    BY <1>2
  <2>2. Cat(Cat(One(n), r), x) = Cat(One(n), rx)
    BY <1>3, CatAssociates
  <2>3. Cat(One(n), rx) \in Nums
    <3> HIDE DEF rx
    <3> QED BY <1>3, CatIsNums
  <2> HIDE DEF buf, rx
  <2> QED BY <2>1, <2>2, <2>3, EmptyFirst
<1>5. <<>> \in Nums /\ Len(<<>>) = 0
  BY Empty
<1>6. Need(buf, Len(<<>>), 1) = [ok |-> TRUE, v |-> One(n), pos |-> Len(<<>>) + 1]
      /\ buf[Len(<<>>) + 1] = n
  <2> HIDE DEF rx, buf
  <2> QED BY <1>1, <1>3, <1>4, <1>5, ByteThere
<1>7. Need(buf, 0, 1).ok = TRUE /\ buf[1] = n
  <2> HIDE DEF buf
  <2> QED BY <1>5, <1>6
<1>8. Count(buf) = n
  <2> HIDE DEF buf
  <2> QED BY <1>7 DEF Count
<1> QED BY <1>7, <1>8 DEF n, buf

\* The first k of them.
First(txs, k) == [i \in 1..k |-> txs[i]]

LEMMA FirstGrows ==
    ASSUME NEW T, NEW txs \in Seq(T), NEW k \in Nat, k + 1 <= Len(txs)
    PROVE  Append(First(txs, k), txs[k + 1]) = First(txs, k + 1)
<1> DEFINE a == First(txs, k)  b == First(txs, k + 1)  c == Append(a, txs[k + 1])
<1>1. a \in Seq(T) /\ Len(a) = k /\ txs[k + 1] \in T
  BY DEF First
<1>2. b \in Seq(T) /\ Len(b) = k + 1
  BY DEF First
<1>3. c \in Seq(T) /\ Len(c) = k + 1
  <2> HIDE DEF a
  <2> QED BY <1>1
<1>4. ASSUME NEW i \in 1..k + 1 PROVE c[i] = b[i]
  <2>1. i \in 1..k => a[i] = txs[i]
    BY DEF First
  <2>2. b[i] = txs[i]
    BY DEF First
  <2> HIDE DEF a, b
  <2> QED BY <1>1, <2>1, <2>2
<1> HIDE DEF b, c
<1>5. c = b
  BY <1>2, <1>3, <1>4, SeqEqual
<1> QED BY <1>5 DEF b, c

LEMMA FirstIsAll ==
    ASSUME NEW T, NEW txs \in Seq(T)
    PROVE  First(txs, 0) = <<>> /\ First(txs, Len(txs)) = txs
BY DEF First

\* The turns DecodeBlock makes over what EncodeBlock wrote, and what follows it.
Turned(v, s2, b, x) ==
    LET buf == Cat(EncodeBlock(b), x)
        d   == Dec(v, s2, buf)
    IN /\ DecodeBlock(v, s2, buf) = d[Len(b)]
       /\ d[0] = [ok |-> TRUE, txs |-> <<>>, pos |-> Len(Enc(b)[0])]
       /\ \A k \in 1..Len(b) : d[k] = Take(v, s2, buf, d[k - 1])

LEMMA Turns ==
    ASSUME NEW v, NEW s2, NEW b \in Seq(Nums), Len(b) <= MaxCount, NEW x \in Nums
    PROVE  Turned(v, s2, b, x)
<1> DEFINE n == Len(b)
           buf == Cat(EncodeBlock(b), x)
           d == Dec(v, s2, buf)
<1>1. n \in Nat
  OBVIOUS
<1>2. Need(buf, 0, 1).ok = TRUE /\ Count(buf) = n
  <2> HIDE DEF n
  <2> QED BY CountIs DEF n
<1>3. /\ DecodeBlock(v, s2, buf) = d[n]
      /\ d[0] = [ok |-> TRUE, txs |-> <<>>, pos |-> 1]
      /\ \A k \in 1..n : d[k] = Take(v, s2, buf, d[k - 1])
  <2>1. Count(buf) \in Nat
    BY <1>1, <1>2
  <2> HIDE DEF buf, n
  <2>2. /\ DecodeBlock(v, s2, buf) = Dec(v, s2, buf)[Count(buf)]
        /\ Dec(v, s2, buf)[0] = [ok |-> Need(buf, 0, 1).ok, txs |-> <<>>, pos |-> 1]
        /\ \A i \in 1..Count(buf) :
               Dec(v, s2, buf)[i] = Take(v, s2, buf, Dec(v, s2, buf)[i - 1])
    BY <2>1, DecUnfolds
  <2> QED BY <1>2, <2>2
<1>4. Len(Enc(b)[0]) = 1
  <2>1. Enc(b)[0] = One(CountByte(Len(b)))
    BY EncUnfolds
  <2> QED BY <2>1 DEF One
<1> HIDE DEF d
<1>5. d[0] = [ok |-> TRUE, txs |-> <<>>, pos |-> Len(Enc(b)[0])]
  BY <1>3, <1>4
<1> QED BY <1>3, <1>5 DEF d, Turned

\* The transmissions are read, and no others.
Reads(read, txs) == read.ok = TRUE /\ read.txs = txs

\* On the session it was written for, and from v7 on any, a block is read as what
\* it was written from, whatever follows it.
LEMMA DecodeReads ==
    ASSUME NEW v, NEW s \in Nums, NEW s2, NEW txs \in Seq(Transmission), NEW x \in Nums,
           Len(txs) <= MaxCount, Measurable(EncodeBlock(Bodies(v, s, txs))), Takes(v, s, s2)
    PROVE  Reads(DecodeBlock(v, s2, Cat(EncodeBlock(Bodies(v, s, txs)), x)), txs)
<1> DEFINE b == Bodies(v, s, txs)
           n == Len(txs)
           buf == Cat(EncodeBlock(b), x)
           d == Dec(v, s2, buf)
           At(k) == [ok |-> TRUE, txs |-> First(txs, k), pos |-> Len(Enc(b)[k])]
           S == {k \in Nat : k <= n => d[k] = At(k)}
<1>1. b \in Seq(Nums) /\ Len(b) = n /\ n \in Nat
  BY BodiesAreNums
<1>3. /\ DecodeBlock(v, s2, buf) = d[n]
      /\ d[0] = [ok |-> TRUE, txs |-> <<>>, pos |-> Len(Enc(b)[0])]
      /\ \A k \in 1..n : d[k] = Take(v, s2, buf, d[k - 1])
  <2>1. /\ DecodeBlock(v, s2, buf) = d[Len(b)]
        /\ d[0] = [ok |-> TRUE, txs |-> <<>>, pos |-> Len(Enc(b)[0])]
        /\ \A k \in 1..Len(b) : d[k] = Take(v, s2, buf, d[k - 1])
    <3>1. b \in Seq(Nums) /\ Len(b) <= MaxCount
      BY <1>1
    <3> HIDE DEF b, buf, d
    <3>2. Turned(v, s2, b, x)
      BY <3>1, Turns
    <3> QED BY <3>2 DEF Turned, d, buf
  <2> HIDE DEF d, b, buf, n
  <2> QED BY <1>1, <2>1
<1>4. 0 \in S
  <2>3. First(txs, 0) = <<>>
    BY FirstIsAll
  <2> HIDE DEF d, b, n
  <2> QED BY <1>3, <2>3
<1>5. ASSUME NEW k \in Nat, k \in S
      PROVE  k + 1 \in S
  <2> SUFFICES ASSUME k + 1 <= n PROVE d[k + 1] = At(k + 1)
    OBVIOUS
  <2> HIDE DEF d, buf, n, b
  <2>1. k + 1 \in 1..n /\ (k + 1) - 1 = k /\ k <= n
    BY <1>1
  <2>3. d[k + 1] = Take(v, s2, buf, d[k])
    BY <1>3, <2>1
  <2>4. Take(v, s2, buf, d[k])
            = [ok |-> TRUE, txs |-> Append(First(txs, k), txs[k + 1]), pos |-> Len(Enc(b)[k + 1])]
    <3> DEFINE j == k + 1  q == First(txs, k)
    <3>1. j \in 1..Len(txs) /\ d[k] = [ok |-> TRUE, txs |-> q, pos |-> Len(Enc(Bodies(v, s, txs))[j - 1])]
      BY <1>5, <2>1 DEF n, b
    <3>0. Measurable(EncodeBlock(Bodies(v, s, txs))) /\ Takes(v, s, s2)
      OBVIOUS
    <3> HIDE DEF j, q
    <3>2. Turn(v, s, s2, txs, x, j, q)
              = [ok |-> TRUE, txs |-> Append(q, txs[j]), pos |-> TurnEnd(v, s, txs, j)]
      BY <3>0, <3>1, TakeTurn
    <3> QED BY <3>1, <3>2 DEF buf, b, j, q, Turn, TurnEnd
  <2>5. Append(First(txs, k), txs[k + 1]) = First(txs, k + 1)
    BY FirstGrows DEF n
  <2> QED BY <2>3, <2>4, <2>5
<1>6. n \in S
  <2> HIDE DEF S, n
  <2> QED BY <1>1, <1>4, <1>5, Induction
<1>7. d[n] = At(n)
  BY <1>1, <1>6
<1>8. First(txs, n) = txs
  BY FirstIsAll
<1> HIDE DEF d, n, buf, b
<1>9. d[n].ok = TRUE /\ d[n].txs = txs
  BY <1>7, <1>8
<1> QED BY <1>3, <1>9 DEF buf, b, Reads

\* After a transmission that is not taken, none is.
LEMMA TakeStops ==
    ASSUME NEW v, NEW s2, NEW buf, NEW prev, ~prev.ok
    PROVE  ~Take(v, s2, buf, prev).ok
BY DEF Take

\* Below v7 a block that holds another session's transmissions is refused.
LEMMA DecodeRefuses ==
    ASSUME NEW v, NEW s \in Nums, NEW s2, NEW txs \in Seq(Transmission), NEW x \in Nums,
           Len(txs) <= MaxCount, Measurable(EncodeBlock(Bodies(v, s, txs))), ~Takes(v, s, s2),
           txs # <<>>
    PROVE  ~DecodeBlock(v, s2, Cat(EncodeBlock(Bodies(v, s, txs)), x)).ok
<1> DEFINE b == Bodies(v, s, txs)
           n == Len(txs)
           buf == Cat(EncodeBlock(b), x)
           d == Dec(v, s2, buf)
           S == {k \in Nat : k + 1 <= n => ~d[k + 1].ok}
<1>1. b \in Seq(Nums) /\ Len(b) = n /\ n \in Nat /\ n >= 1
  BY BodiesAreNums
<1>3. /\ DecodeBlock(v, s2, buf) = d[n]
      /\ d[0] = [ok |-> TRUE, txs |-> <<>>, pos |-> Len(Enc(b)[0])]
      /\ \A k \in 1..n : d[k] = Take(v, s2, buf, d[k - 1])
  <2>1. /\ DecodeBlock(v, s2, buf) = d[Len(b)]
        /\ d[0] = [ok |-> TRUE, txs |-> <<>>, pos |-> Len(Enc(b)[0])]
        /\ \A k \in 1..Len(b) : d[k] = Take(v, s2, buf, d[k - 1])
    <3>1. b \in Seq(Nums) /\ Len(b) <= MaxCount
      BY <1>1
    <3> HIDE DEF b, buf, d
    <3>2. Turned(v, s2, b, x)
      BY <3>1, Turns
    <3> QED BY <3>2 DEF Turned, d, buf
  <2> HIDE DEF d, b, buf, n
  <2> QED BY <1>1, <2>1
<1>4. 0 \in S
  <2>1. 1 \in 1..n /\ 1 - 1 = 0 /\ 0 + 1 = 1
    BY <1>1
  <2>2. d[1] = Turn(v, s, s2, txs, x, 1, <<>>)
    <3> HIDE DEF d, n, Bodies
    <3> QED BY <1>3, <2>1 DEF Turn
  <2>3. ~Turn(v, s, s2, txs, x, 1, <<>>).ok
    BY <2>1, TakeTurn
  <2> HIDE DEF d, n
  <2> QED BY <2>1, <2>2, <2>3
<1>5. ASSUME NEW k \in Nat, k \in S
      PROVE  k + 1 \in S
  <2> SUFFICES ASSUME k + 1 + 1 <= n PROVE ~d[k + 1 + 1].ok
    OBVIOUS
  <2>1. k + 1 + 1 \in 1..n /\ k + 1 + 1 - 1 = k + 1 /\ k + 1 <= n
    BY <1>1
  <2> HIDE DEF d, buf, n
  <2>2. d[k + 1 + 1] = Take(v, s2, buf, d[k + 1])
    BY <1>3, <2>1
  <2>3. ~d[k + 1].ok
    BY <1>5, <2>1
  <2> QED BY <2>2, <2>3, TakeStops
<1>6. n - 1 \in S
  <2>1. n - 1 \in Nat
    BY <1>1
  <2> HIDE DEF S, n
  <2> QED BY <1>4, <1>5, <2>1, Induction
<1>7. n - 1 + 1 = n
  BY <1>1
<1> HIDE DEF d, n
<1> QED BY <1>3, <1>6, <1>7 DEF buf, b

-----------------------------------------------------------------------------
(* A block that was cut.                                                   *)

LEMMA CutIs ==
    ASSUME NEW e \in Nums, NEW m \in 0..Len(e)
    PROVE  LET c == SubSeq(e, 1, m) IN
           c \in Nums /\ Len(c) = m /\ \A i \in 1..m : c[i] = e[i]
<1>1. m \in Int /\ 1 \in Int /\ Len(e) \in Nat
  BY DEF Nums
<1>2. \A i \in 1..m : e[i] \in Symbols
  BY DEF Nums
<1> DEFINE lo == 1  c == SubSeq(e, lo, m)
<1>3. lo \in Int /\ \A i \in lo..m : e[i] \in Symbols
  BY <1>2
<1> HIDE DEF lo
<1>4. /\ c \in Seq(Symbols)
      /\ Len(c) = IF lo <= m THEN m - lo + 1 ELSE 0
      /\ \A i \in 1..(m - lo + 1) : c[i] = e[lo + i - 1]
  BY <1>1, <1>3, SubSeqProperties
<1> HIDE DEF c
<1>5. Len(c) = m /\ \A i \in 1..m : c[i] = e[i]
  BY <1>1, <1>4 DEF lo
<1> QED BY <1>4, <1>5 DEF c, lo, Nums

\* A body read whole from a piece of the block is the one of the block.
\* What is still there is read as it was before the cut.
LEMMA CutBody ==
    ASSUME NEW e \in Nums, NEW m \in 0..Len(e), NEW p \in Nat, NEW a, NEW q \in Nat,
           Body(e, GetWord16(e, p)) = [ok |-> TRUE, v |-> a, pos |-> q],
           Body(SubSeq(e, 1, m), GetWord16(SubSeq(e, 1, m), p)).ok
    PROVE  Body(SubSeq(e, 1, m), GetWord16(SubSeq(e, 1, m), p)).pos = q /\ q <= m
<1> DEFINE c == SubSeq(e, 1, m)
           w == 256 * e[p + 1] + e[p + 2]
<1>1. Len(e) \in Nat /\ m \in Nat /\ m <= Len(e)
  BY DEF Nums
<1>2. Len(c) = m /\ \A i \in 1..m : c[i] = e[i]
  BY CutIs
<1> HIDE DEF c
<1>3. GetWord16(c, p).ok
  BY DEF Body, Bad, c
<1>4. p + 2 <= m
  BY <1>2, <1>3 DEF GetWord16, Need, Bad
<1>5. c[p + 1] = e[p + 1] /\ c[p + 2] = e[p + 2]
  BY <1>1, <1>2, <1>4
<1>7. GetWord16(c, p) = [ok |-> TRUE, v |-> w, pos |-> p + 2]
      /\ GetWord16(e, p) = [ok |-> TRUE, v |-> w, pos |-> p + 2]
  <2>1. ~(p + 2 > Len(c)) /\ ~(p + 2 > Len(e))
    BY <1>1, <1>2, <1>4
  <2> QED BY <1>5, <2>1 DEF GetWord16, Need
<1> HIDE DEF w
<1>8. Body(c, GetWord16(c, p)) = Need(c, p + 2, w) /\ Body(e, GetWord16(e, p)) = Need(e, p + 2, w)
  BY <1>7 DEF Body
<1>9. Need(c, p + 2, w).ok /\ Need(e, p + 2, w).ok /\ Need(e, p + 2, w).pos = q
  BY <1>8 DEF c
<1> DEFINE z == p + 2 + w
<1>10. z = q /\ Need(c, p + 2, w).pos = z /\ ~(z > m)
  <2>1. /\ Need(c, p + 2, w) = IF z > m THEN Bad ELSE [ok |-> TRUE, v |-> SubSeq(c, p + 2 + 1, z), pos |-> z]
        /\ Need(e, p + 2, w) = IF z > Len(e) THEN Bad ELSE [ok |-> TRUE, v |-> SubSeq(e, p + 2 + 1, z), pos |-> z]
    BY <1>2 DEF Need
  <2> HIDE DEF z
  <2> QED BY <1>9, <2>1 DEF Bad
<1> HIDE DEF z
<1> QED BY <1>1, <1>8, <1>9, <1>10 DEF c

LEMMA TakeGoesOn ==
    ASSUME NEW v, NEW s2, NEW buf, NEW prev, Take(v, s2, buf, prev).ok
    PROVE  LET body == Body(buf, GetWord16(buf, prev.pos)) IN
           prev.ok /\ body.ok /\ Take(v, s2, buf, prev).pos = body.pos
<1> DEFINE body == Body(buf, GetWord16(buf, prev.pos))
           tx == decodeTransmission(v, s2, body.v)
           next == Take(v, s2, buf, prev)
<1>1. next = IF prev.ok /\ body.ok /\ tx.ok
             THEN [ok |-> TRUE, txs |-> Append(prev.txs, tx.t), pos |-> body.pos]
             ELSE [ok |-> FALSE, txs |-> <<>>, pos |-> prev.pos]
  BY DEF Take
<1>2. next.ok
  OBVIOUS
<1> HIDE DEF body, tx, next
<1>3. prev.ok /\ body.ok /\ next.pos = body.pos
  BY <1>1, <1>2
<1> QED BY <1>3 DEF body, next

\* A block cut anywhere is refused: its last transmission ends where it does.
\* A block cut anywhere is refused: the place DecodeBlock has reached is within it.
LEMMA DecodeCut ==
    ASSUME NEW v, NEW s2, NEW b \in Seq(Nums), Len(b) <= MaxCount, Measurable(EncodeBlock(b)),
           NEW m \in Nat, m < Len(EncodeBlock(b))
    PROVE  ~DecodeBlock(v, s2, SubSeq(EncodeBlock(b), 1, m)).ok
<1> DEFINE e == EncodeBlock(b)
           n == Len(b)
           c == SubSeq(e, 1, m)
           d == Dec(v, s2, c)
           End(k) == Len(Enc(b)[k])
           S == {k \in Nat : k <= n /\ d[k].ok => d[k].pos = End(k) /\ End(k) <= m}
<1>1. n \in Nat /\ e = Enc(b)[n] /\ e \in Nums /\ Enc(b)[0] = One(n)
  <2>1. n \in Nat /\ n \in 0..Len(b) /\ e = Enc(b)[n]
    BY EncUnfolds
  <2>2. CountByte(n) = n
    BY <2>1, CountByteIs
  <2> QED BY <2>1, <2>2, EncIsNums, EncUnfolds
<1>2. m \in 0..Len(e)
  <2>1. Len(e) \in Nat
    <3> HIDE DEF e
    <3> QED BY <1>1 DEF Nums
  <2> QED BY <2>1
<1>3. Len(c) = m /\ \A i \in 1..m : c[i] = e[i]
  <2> HIDE DEF e
  <2> QED BY <1>1, <1>2, CutIs
<1> HIDE DEF c
<1>4. CASE m = 0
  <2>1. Need(c, 0, 1) = Bad
    BY <1>3, <1>4 DEF Need
  <2>2. Need(c, 0, 1).ok = FALSE /\ Count(c) = 0
    BY <2>1 DEF Count, Bad
  <2>3. DecodeBlock(v, s2, c) = d[Count(c)] /\ d[0] = [ok |-> Need(c, 0, 1).ok, txs |-> <<>>, pos |-> 1]
    <3>1. Count(c) \in Nat
      BY <2>2
    <3> QED BY <3>1, DecUnfolds
  <2> HIDE DEF d
  <2>4. DecodeBlock(v, s2, c).ok = FALSE
    BY <2>2, <2>3
  <2> QED BY <2>4 DEF c
<1>5. CASE m > 0
  <2>1. Need(c, 0, 1).ok = TRUE
    BY <1>3, <1>5 DEF Need
  <2>2. c[1] = n
    <3>1. e = Cat(e, <<>>) /\ <<>> \in Nums
      <4> HIDE DEF e
      <4> QED BY <1>1, Empty
    <3>2. Need(e, 0, 1).ok = TRUE /\ Count(e) = n
      <4> DEFINE x == <<>>
      <4>1. x \in Nums /\ e = Cat(EncodeBlock(b), x)
        BY <3>1
      <4> HIDE DEF x, n
      <4>2. Need(Cat(EncodeBlock(b), x), 0, 1).ok = TRUE /\ Count(Cat(EncodeBlock(b), x)) = n
        BY <4>1, CountIs DEF n
      <4> QED BY <4>1, <4>2
    <3>3. e[1] = n
      <4> HIDE DEF e, n
      <4> QED BY <3>2 DEF Count
    <3>4. 1 \in 1..m
      BY <1>5
    <3> HIDE DEF e, n
    <3> QED BY <1>3, <3>3, <3>4
  <2>3. Count(c) = n
    <3> HIDE DEF n
    <3> QED BY <2>1, <2>2 DEF Count
  <2>4. /\ DecodeBlock(v, s2, c) = d[n]
        /\ d[0] = [ok |-> TRUE, txs |-> <<>>, pos |-> 1]
        /\ \A k \in 1..n : d[k] = Take(v, s2, c, d[k - 1])
    <3>1. Count(c) \in Nat
      BY <1>1, <2>3
    <3> HIDE DEF n
    <3>2. /\ DecodeBlock(v, s2, c) = Dec(v, s2, c)[Count(c)]
          /\ Dec(v, s2, c)[0] = [ok |-> Need(c, 0, 1).ok, txs |-> <<>>, pos |-> 1]
          /\ \A i \in 1..Count(c) : Dec(v, s2, c)[i] = Take(v, s2, c, Dec(v, s2, c)[i - 1])
      BY <3>1, DecUnfolds
    <3> QED BY <2>1, <2>3, <3>2
  <2> HIDE DEF d
  <2>5. 0 \in S
    <3>1. End(0) = 1
      BY <1>1 DEF One
    <3>2. d[0].pos = 1
      BY <2>4
    <3> HIDE DEF End, n
    <3> QED BY <1>5, <3>1, <3>2
  <2>6. ASSUME NEW k \in Nat, k \in S
        PROVE  k + 1 \in S
    <3> SUFFICES ASSUME k + 1 <= n, d[k + 1].ok
                 PROVE  d[k + 1].pos = End(k + 1) /\ End(k + 1) <= m
      OBVIOUS
    <3>1. k + 1 \in 1..n /\ k + 1 - 1 = k /\ k <= n
      BY <1>1
    <3>2. d[k + 1] = Take(v, s2, c, d[k])
      <4> HIDE DEF n
      <4> QED BY <2>4, <3>1
    <3>3. /\ d[k].ok /\ Body(c, GetWord16(c, d[k].pos)).ok
          /\ d[k + 1].pos = Body(c, GetWord16(c, d[k].pos)).pos
      <4> HIDE DEF n, End
      <4> QED BY <3>2, TakeGoesOn
    <3>4. d[k].pos = End(k)
      <4> HIDE DEF n, End
      <4> QED BY <2>6, <3>1, <3>3
    <3>5. Body(e, GetWord16(e, End(k))) = [ok |-> TRUE, v |-> b[k + 1], pos |-> End(k + 1)]
      <4> DEFINE j == k + 1  x == <<>>
      <4>1. j \in 1..Len(b) /\ x \in Nums
        BY <3>1, Empty
      <4>2. Cat(EncodeBlock(b), x) = EncodeBlock(b)
        <5> HIDE DEF e
        <5> QED BY <1>1, Empty DEF e
      <4> HIDE DEF j, x
      <4>3. Body(Cat(EncodeBlock(b), x), GetWord16(Cat(EncodeBlock(b), x), Len(Enc(b)[j - 1])))
                = [ok |-> TRUE, v |-> b[j], pos |-> Len(Enc(b)[j])]
        BY <4>1, TakeAt
      <4>4. Body(EncodeBlock(b), GetWord16(EncodeBlock(b), Len(Enc(b)[j - 1])))
                = [ok |-> TRUE, v |-> b[j], pos |-> Len(Enc(b)[j])]
        BY <4>2, <4>3
      <4> QED BY <3>1, <4>4 DEF j
    <3>6. End(k) \in Nat /\ End(k + 1) \in Nat
      <4>1. k \in 0..Len(b) /\ k + 1 \in 0..Len(b)
        BY <3>1
      <4>2. Enc(b)[k] \in Nums /\ Enc(b)[k + 1] \in Nums
        BY <4>1, EncIsNums
      <4> QED BY <4>2 DEF Nums
    <3> DEFINE p == End(k)  q == End(k + 1)  a == b[k + 1]
    <3>7. Body(e, GetWord16(e, p)) = [ok |-> TRUE, v |-> a, pos |-> q] /\ p \in Nat /\ q \in Nat
      BY <3>5, <3>6
    <3>8. Body(c, GetWord16(c, p)).ok /\ d[k + 1].pos = Body(c, GetWord16(c, p)).pos
      BY <3>3, <3>4
    <3> HIDE DEF p, q, a, e, n
    <3>9. Body(c, GetWord16(c, p)).pos = q /\ q <= m
      BY <1>1, <1>2, <3>7, <3>8, CutBody DEF c
    <3> QED BY <3>8, <3>9 DEF q
  <2>7. n \in S
    <3> HIDE DEF S, n
    <3> QED BY <1>1, <2>5, <2>6, Induction
  <2>8. End(n) = Len(e) /\ ~(End(n) <= m)
    <3>1. Len(e) \in Nat
      <4> HIDE DEF e
      <4> QED BY <1>1 DEF Nums
    <3>2. End(n) = Len(e)
      BY <1>1
    <3>3. m < Len(e)
      OBVIOUS
    <3> HIDE DEF End, e
    <3> QED BY <3>1, <3>2, <3>3
  <2>9. ~d[n].ok
    <3> HIDE DEF End, n
    <3> QED BY <1>1, <2>7, <2>8
  <2> QED BY <2>4, <2>9 DEF c
<1> QED BY <1>2, <1>4, <1>5

-----------------------------------------------------------------------------
(* The transport block.                                                    *)

LEMMA FitsIsMeasurable ==
    ASSUME NEW p \in Nums, Fits(p)
    PROVE  Measurable(p)
<1>1. Len(p) \in Nat
  BY DEF Nums
<1>2. BlockSize \in Nat /\ BlockSize <= 65537
  BY WireAssumption
<1> QED BY <1>1, <1>2 DEF Fits, Measurable

\* What WriteBlock pads, ReadBlock gives back, whatever the padding.
LEMMA Unpads ==
    ASSUME NEW p \in Nums, Fits(p)
    PROVE  Unpad(Pad(p)) = [ok |-> TRUE, v |-> p, pos |-> 0]
<1> DEFINE n == Len(p)  w == Word16(n)
           f == [i \in 1..(BlockSize - 2 - n) |-> 35]
           buf == Cat(w, Cat(p, f))
<1>1. n \in Nat /\ n <= BlockSize - 2 /\ n < 65536 /\ BlockSize - 2 - n \in Nat
  <2>1. n \in Nat
    BY DEF Nums
  <2>2. BlockSize \in Nat /\ BlockSize <= 65537
    BY WireAssumption
  <2>3. n <= BlockSize - 2
    BY DEF Fits
  <2> HIDE DEF n
  <2> QED BY <2>1, <2>2, <2>3
<1>2. w \in Nums /\ Len(w) = 2 /\ 256 * w[1] + w[2] = n
  <2> HIDE DEF n
  <2> QED BY <1>1, Word16IsNums
<1>3. f \in Nums
  <2> DEFINE k == BlockSize - 2 - n
  <2>1. k \in Nat
    BY <1>1
  <2> HIDE DEF k
  <2>2. [i \in 1..k |-> 35] \in Seq(Symbols)
    BY <2>1, NatsAreSymbols
  <2> QED BY <2>2 DEF Nums, k
<1>4. Pad(p) = buf
  <2>1. Pad(p) = Cat(Cat(w, p), f)
    BY DEF Pad, Cat
  <2> HIDE DEF w, f
  <2> QED BY <1>2, <1>3, <2>1, CatAssociates
<1> HIDE DEF w, f
<1>5. /\ \A i \in 1..Len(p) : buf[Len(w) + i] = p[i]
      /\ SubSeq(buf, Len(w) + 1, Len(w) + Len(p)) = p
  <2>1. w \in Nums /\ p \in Nums /\ f \in Nums
    BY <1>2, <1>3
  <2> QED BY <2>1, Middle
<1>6. buf[1] = w[1] /\ buf[2] = w[2]
  <2> DEFINE r == Cat(p, f)
  <2>1. r \in Nums
    BY <1>3, CatIsNums
  <2> HIDE DEF r
  <2>2. \A i \in 1..Len(w) : Cat(w, r)[i] = w[i]
    <3>1. \A i \in 1..Len(w) : Cat(<<>>, Cat(w, r))[Len(<<>>) + i] = w[i]
      <4> DEFINE x == <<>>
      <4>1. x \in Nums
        BY Empty
      <4> HIDE DEF x
      <4> QED BY <1>2, <2>1, <4>1, Middle DEF x
    <3>2. Cat(<<>>, Cat(w, r)) = Cat(w, r) /\ Len(<<>>) = 0
      <4>1. Cat(w, r) \in Nums
        BY <1>2, <2>1, CatIsNums
      <4> QED BY <4>1, EmptyFirst
    <3>3. \A i \in 1..Len(w) : 0 + i = i
      BY <1>2
    <3> QED BY <3>1, <3>2, <3>3
  <2>3. 1 \in 1..Len(w) /\ 2 \in 1..Len(w)
    BY <1>2
  <2>4. Cat(w, r)[1] = w[1] /\ Cat(w, r)[2] = w[2]
    BY <2>2, <2>3
  <2> QED BY <2>4 DEF r
<1> HIDE DEF buf
<1>7. 256 * buf[1] + buf[2] = n
  BY <1>2, <1>6
<1>8. SubSeq(buf, 3, 2 + n) = p
  <2>1. Len(w) + 1 = 3 /\ Len(w) + Len(p) = 2 + n
    BY <1>2
  <2> HIDE DEF n
  <2> QED BY <1>5, <2>1
<1>9. ~(n > BlockSize - 2)
  <2>1. BlockSize \in Int
    BY WireAssumption
  <2> HIDE DEF n
  <2> QED BY <1>1, <2>1
<1>10. Unpad(buf) = [ok |-> TRUE, v |-> p, pos |-> 0]
  <2> HIDE DEF n
  <2> QED BY <1>7, <1>8, <1>9 DEF Unpad
<1> QED BY <1>4, <1>10

-----------------------------------------------------------------------------
(* Reading an answer.                                                      *)

LEMMA KeywordRead ==
    ASSUME NEW n \in Nat, NEW r \in Nums
    PROVE  Need(Cat(One(n), r), 0, 1).v = One(n)
<1> DEFINE x == <<>>
<1>1. x \in Nums /\ Len(x) = 0 /\ Cat(x, Cat(One(n), r)) = Cat(One(n), r)
  <2>1. Cat(One(n), r) \in Nums
    BY OneIsNums, CatIsNums
  <2> QED BY <2>1, Empty, EmptyFirst
<1> HIDE DEF x
<1>2. Need(Cat(x, Cat(One(n), r)), Len(x), 1) = [ok |-> TRUE, v |-> One(n), pos |-> Len(x) + 1]
  BY <1>1, ByteThere
<1>3. Need(Cat(One(n), r), 0, 1) = [ok |-> TRUE, v |-> One(n), pos |-> Len(x) + 1]
  BY <1>1, <1>2
<1> QED BY <1>3

\* The string behind what was read, and where the reader is after it.
LEMMA ShortThere ==
    ASSUME NEW p \in Nums, NEW a \in Nums, NEW r \in Nums
    PROVE  /\ GetShort(Cat(p, Cat(Short(a), r)), Len(p))
                 = [ok |-> TRUE, v |-> a, pos |-> Len(Cat(p, Short(a)))]
           /\ Cat(p, Short(a)) \in Nums
           /\ Cat(p, Cat(Short(a), r)) = Cat(Cat(p, Short(a)), r)
<1>1. Short(a) \in Nums
  BY ShortIsNums
<1>2. Cat(p, Short(a)) \in Nums
  BY <1>1, CatIsNums
<1>3. Cat(p, Cat(Short(a), r)) = Cat(Cat(p, Short(a)), r)
  BY <1>1, CatAssociates
<1> QED BY <1>2, <1>3, ShortGives

LEMMA FlagThere ==
    ASSUME NEW v, NEW p \in Nums, NEW on \in BOOLEAN, v >= V9
    PROVE  GetBool(Cat(p, Secure(v, on)), Len(p)).ok = TRUE
           /\ GetBool(Cat(p, Secure(v, on)), Len(p)).v = on
<1> DEFINE n == IF on THEN True ELSE False
           buf == Cat(p, Secure(v, on))
<1>1. Secure(v, on) = One(n) /\ n \in Nat /\ n \in {True, False} /\ (n = True) = on
  BY DEF Secure, Bool, One, True, False
<1>2. One(n) \in Nums /\ Cat(One(n), <<>>) = One(n) /\ <<>> \in Nums
  <2> HIDE DEF n
  <2> QED BY <1>1, OneIsNums, Empty
<1>3. /\ Need(buf, Len(p), 1) = [ok |-> TRUE, v |-> One(n), pos |-> Len(p) + 1]
      /\ buf[Len(p) + 1] = n
  <2> DEFINE x == <<>>
  <2>1. x \in Nums /\ buf = Cat(p, Cat(One(n), x))
    BY <1>1, <1>2
  <2> HIDE DEF x, buf, n
  <2> QED BY <1>1, <2>1, ByteThere
<1> HIDE DEF buf, n
<1>4. GetBool(buf, Len(p)) = [ok |-> TRUE, v |-> (n = True), pos |-> Len(p) + 1]
  <2>1. Need(buf, Len(p), 1).ok /\ buf[Len(p) + 1] \in {True, False}
    BY <1>1, <1>3
  <2>2. GetBool(buf, Len(p)) = [ok |-> TRUE, v |-> buf[Len(p) + 1] = True, pos |-> Len(p) + 1]
    BY <2>1 DEF GetBool
  <2> QED BY <1>3, <2>2
<1>5. GetBool(buf, Len(p)).ok = TRUE /\ GetBool(buf, Len(p)).v = (n = True)
  BY <1>4
<1> QED BY <1>1, <1>5 DEF buf

LEMMA Dispatch ==
    ASSUME NEW v, NEW raw
    PROVE  LET key == Need(raw, 0, 1).v
               bare == {One(79), One(71), One(69)}
           IN
           /\ key = One(73) => DecodeBrokerMsg(v, raw) = decodeIDS(v, raw)
           /\ key = One(77) => DecodeBrokerMsg(v, raw) = decodeMSG(raw)
           /\ key = One(82) => DecodeBrokerMsg(v, raw) = decodeERR(raw)
           /\ key \notin {One(73), One(77), One(82)} /\ raw \in bare =>
                  DecodeBrokerMsg(v, raw)
                      = [type |-> CHOOSE k \in {"OK", "PONG", "END"} : Keyword[k] = raw]
           /\ key \notin {One(73), One(77), One(82)} /\ raw \notin bare =>
                  DecodeBrokerMsg(v, raw) = Unparsed
<1> DEFINE key == Need(raw, 0, 1).v
           bare == {One(79), One(71), One(69)}
           a == decodeIDS(v, raw)
           b == decodeMSG(raw)
           c == decodeERR(raw)
           e == [type |-> CHOOSE k \in {"OK", "PONG", "END"} : Keyword[k] = raw]
<1>1. /\ Keyword.IDS = One(73) /\ Keyword.MSG = One(77) /\ Keyword.ERR = One(82)
      /\ {Keyword.OK, Keyword.PONG, Keyword.END} = bare
      /\ One(73) # One(77) /\ One(73) # One(82) /\ One(77) # One(82)
  BY DEF Keyword, One
<1>2. DecodeBrokerMsg(v, raw) =
          CASE key = Keyword.IDS -> a
            [] key = Keyword.MSG -> b
            [] key = Keyword.ERR -> c
            [] raw \in {Keyword.OK, Keyword.PONG, Keyword.END} -> e
            [] OTHER -> Unparsed
  BY DEF DecodeBrokerMsg
<1> DEFINE g == DecodeBrokerMsg(v, raw)
<1>3. g = CASE key = One(73) -> a
            [] key = One(77) -> b
            [] key = One(82) -> c
            [] raw \in bare -> e
            [] OTHER -> Unparsed
  <2> HIDE DEF key, a, b, c, e, bare
  <2> QED BY <1>1, <1>2
<1>4. raw \in bare => key = raw
  <2> SUFFICES ASSUME NEW n \in {79, 71, 69}, raw = One(n) PROVE key = One(n)
    OBVIOUS
  <2>1. Cat(One(n), <<>>) = One(n) /\ <<>> \in Nums
    BY OneIsNums, Empty
  <2> DEFINE x == <<>>
  <2>2. x \in Nums /\ Cat(One(n), x) = raw
    BY <2>1
  <2> HIDE DEF x
  <2> QED BY <2>2, KeywordRead
<1>5. bare \cap {One(73), One(77), One(82)} = {}
  BY DEF One
<1> HIDE DEF key, a, b, c, e, g, bare
<1>6. (key = One(73) => g = a) /\ (key = One(77) => g = b) /\ (key = One(82) => g = c)
  BY <1>1, <1>3, <1>4, <1>5
<1>7. key \notin {One(73), One(77), One(82)} => g = IF raw \in bare THEN e ELSE Unparsed
  BY <1>3
<1> QED BY <1>6, <1>7 DEF key, a, b, c, e, g, bare

LEMMA ReadIDS ==
    ASSUME NEW v, NEW m \in IDSMsg
    PROVE  DecodeBrokerMsg(v, EncodeBrokerMsg(v, m)) = Meaning(v, m)
<1> DEFINE raw == EncodeBrokerMsg(v, m)
           a == m.rcv  b == m.snd  c == m.dh
           f == Secure(v, m.secure)
           p1 == One(73)
           r1 == FromSecond(v, m)
           p2 == Cat(p1, Short(a))
           r2 == Cat(Short(c), f)
           p3 == Cat(p2, Short(b))
           p4 == Cat(p3, Short(c))
           rcv == GetShort(raw, 1)
           snd == GetShort(raw, rcv.pos)
           dh  == GetShort(raw, snd.pos)
           sec == IF v >= V9 THEN GetBool(raw, dh.pos)
                  ELSE [ok |-> TRUE, v |-> FALSE, pos |-> dh.pos]
<1>1. /\ a \in Nums /\ b \in Nums /\ c \in Nums /\ m.secure \in BOOLEAN
      /\ f \in Nums /\ r1 \in Nums /\ r2 \in Nums /\ p1 \in Nums /\ Cat(Short(a), r1) \in Nums
      /\ raw = Cat(p1, Cat(Short(a), r1))
      /\ r1 = Cat(Short(b), r2) /\ r2 = Cat(Short(c), f)
  BY IDSParts, OneIsNums DEF FromSecond
<1>0. Len(p1) = 1
  BY DEF One
<1>a. f = Secure(v, m.secure)
  OBVIOUS
<1>b. Need(raw, 0, 1).v = One(73)
  <2> DEFINE r == Cat(Short(a), r1)
  <2>1. r \in Nums /\ raw = Cat(One(73), r)
    BY <1>1
  <2> HIDE DEF r, raw
  <2> QED BY <2>1, KeywordRead
<1> HIDE DEF raw, f, p1, r1, r2, a, b, c
<1>2. rcv.ok = TRUE /\ rcv.v = a /\ rcv.pos = Len(p2) /\ p2 \in Nums /\ raw = Cat(p2, r1)
  <2>1. p1 \in Nums /\ a \in Nums /\ r1 \in Nums
    BY <1>1
  <2>2. /\ GetShort(Cat(p1, Cat(Short(a), r1)), Len(p1))
              = [ok |-> TRUE, v |-> a, pos |-> Len(Cat(p1, Short(a)))]
        /\ Cat(p1, Short(a)) \in Nums
        /\ Cat(p1, Cat(Short(a), r1)) = Cat(Cat(p1, Short(a)), r1)
    BY <2>1, ShortThere
  <2> QED BY <1>0, <1>1, <2>2
<1> HIDE DEF rcv, p2
<1>3. snd.ok = TRUE /\ snd.v = b /\ snd.pos = Len(p3) /\ p3 \in Nums /\ raw = Cat(p3, r2)
  <2>1. p2 \in Nums /\ b \in Nums /\ r2 \in Nums
    BY <1>1, <1>2
  <2>2. /\ GetShort(Cat(p2, Cat(Short(b), r2)), Len(p2))
              = [ok |-> TRUE, v |-> b, pos |-> Len(Cat(p2, Short(b)))]
        /\ Cat(p2, Short(b)) \in Nums
        /\ Cat(p2, Cat(Short(b), r2)) = Cat(Cat(p2, Short(b)), r2)
    BY <2>1, ShortThere
  <2> QED BY <1>1, <1>2, <2>2
<1> HIDE DEF snd, p3
<1>4. dh.ok = TRUE /\ dh.v = c /\ dh.pos = Len(p4) /\ p4 \in Nums /\ raw = Cat(p4, f)
  <2>1. p3 \in Nums /\ c \in Nums /\ f \in Nums
    BY <1>1, <1>3
  <2>2. /\ GetShort(Cat(p3, Cat(Short(c), f)), Len(p3))
              = [ok |-> TRUE, v |-> c, pos |-> Len(Cat(p3, Short(c)))]
        /\ Cat(p3, Short(c)) \in Nums
        /\ Cat(p3, Cat(Short(c), f)) = Cat(Cat(p3, Short(c)), f)
    BY <2>1, ShortThere
  <2> QED BY <1>1, <1>3, <2>2
<1> HIDE DEF dh, p4
<1>5. sec.ok = TRUE /\ sec.v = (v >= V9 /\ m.secure)
  <2>1. CASE v >= V9
    <3>0. m.secure \in BOOLEAN
      BY <1>1
    <3>1. GetBool(Cat(p4, Secure(v, m.secure)), Len(p4)).ok = TRUE
          /\ GetBool(Cat(p4, Secure(v, m.secure)), Len(p4)).v = m.secure
      BY <1>4, <2>1, <3>0, FlagThere
    <3>2. GetBool(raw, dh.pos).ok = TRUE /\ GetBool(raw, dh.pos).v = m.secure
      BY <1>a, <1>4, <3>1
    <3>3. sec = GetBool(raw, dh.pos)
      BY <2>1
    <3> HIDE DEF sec
    <3> QED BY <2>1, <3>0, <3>2, <3>3
  <2>2. CASE ~(v >= V9)
    <3>1. sec = [ok |-> TRUE, v |-> FALSE, pos |-> dh.pos]
      BY <2>2
    <3> HIDE DEF sec
    <3> QED BY <2>2, <3>1
  <2> QED BY <2>1, <2>2
<1>6. decodeIDS(v, raw)
        = IF rcv.ok /\ snd.ok /\ dh.ok /\ sec.ok
          THEN [type |-> "IDS", rcv |-> rcv.v, snd |-> snd.v, dh |-> dh.v, secure |-> sec.v]
          ELSE Unparsed
  BY DEF decodeIDS, rcv, snd, dh
<1> HIDE DEF sec
<1>7. decodeIDS(v, raw) = [type |-> "IDS", rcv |-> m.rcv, snd |-> m.snd, dh |-> m.dh,
                           secure |-> (v >= V9 /\ m.secure)]
  BY <1>2, <1>3, <1>4, <1>5, <1>6 DEF a, b, c
<1>8. DecodeBrokerMsg(v, raw) = decodeIDS(v, raw)
  BY <1>b, Dispatch
<1>9. Meaning(v, m) = [type |-> "IDS", rcv |-> m.rcv, snd |-> m.snd, dh |-> m.dh,
                       secure |-> (v >= V9 /\ m.secure)]
  BY DEF Meaning, IDSMsg
<1> QED BY <1>7, <1>8, <1>9 DEF raw

LEMMA ReadMSG ==
    ASSUME NEW v, NEW m \in MSGMsg
    PROVE  DecodeBrokerMsg(v, EncodeBrokerMsg(v, m)) = Meaning(v, m)
<1> DEFINE raw == EncodeBrokerMsg(v, m)
           a == m.id  r == m.body
           p1 == One(77)
           p2 == Cat(p1, Short(a))
           id == GetShort(raw, 1)
<1>1. /\ a \in Nums /\ r \in Nums /\ p1 \in Nums /\ Cat(Short(a), r) \in Nums
      /\ raw = Cat(p1, Cat(Short(a), r))
  BY MSGParts, OneIsNums
<1>0. Len(p1) = 1
  BY DEF One
<1>b. Need(raw, 0, 1).v = One(77)
  <2> DEFINE x == Cat(Short(a), r)
  <2>1. x \in Nums /\ raw = Cat(One(77), x)
    BY <1>1
  <2> HIDE DEF x, raw
  <2> QED BY <2>1, KeywordRead
<1> HIDE DEF raw, p1, a, r
<1>2. id.ok = TRUE /\ id.v = a /\ id.pos = Len(p2) /\ p2 \in Nums /\ raw = Cat(p2, r)
  <2>1. p1 \in Nums /\ a \in Nums /\ r \in Nums
    BY <1>1
  <2>2. /\ GetShort(Cat(p1, Cat(Short(a), r)), Len(p1))
              = [ok |-> TRUE, v |-> a, pos |-> Len(Cat(p1, Short(a)))]
        /\ Cat(p1, Short(a)) \in Nums
        /\ Cat(p1, Cat(Short(a), r)) = Cat(Cat(p1, Short(a)), r)
    BY <2>1, ShortThere
  <2> QED BY <1>0, <1>1, <2>2
<1> HIDE DEF p2
<1>3. SubSeq(raw, Len(p2) + 1, Len(raw)) = r
  <2>1. SubSeq(Cat(p2, r), Len(p2) + 1, Len(Cat(p2, r))) = r
    BY <1>1, <1>2, TailGives
  <2> QED BY <1>2, <2>1
<1>4. decodeMSG(raw) = IF id.ok THEN [type |-> "MSG", id |-> id.v, body |-> GetTail(raw, id.pos)]
                       ELSE Unparsed
  BY DEF decodeMSG
<1> HIDE DEF id
<1>5. GetTail(raw, id.pos) = r
  BY <1>2, <1>3 DEF GetTail
<1>6. decodeMSG(raw) = [type |-> "MSG", id |-> m.id, body |-> m.body]
  BY <1>2, <1>4, <1>5 DEF a, r
<1>7. DecodeBrokerMsg(v, raw) = decodeMSG(raw)
  BY <1>b, Dispatch
<1>8. Meaning(v, m) = [type |-> "MSG", id |-> m.id, body |-> m.body]
  BY DEF Meaning, MSGMsg
<1> QED BY <1>6, <1>7, <1>8 DEF raw

LEMMA ReadERR ==
    ASSUME NEW v, NEW m \in ERRMsg
    PROVE  DecodeBrokerMsg(v, EncodeBrokerMsg(v, m)) = Meaning(v, m)
<1> DEFINE raw == EncodeBrokerMsg(v, m)
           k == m.kind  e == m.detail  d == Detail(m)
           p == One(82)  q == Cat(p, k)
           n == Len(k)
           spaces == {i \in 2..Len(raw) : raw[i] = Space}
           sp == CHOOSE i \in spaces : \A j \in spaces : i <= j
<1>1. /\ k \in Nums /\ e \in Nums /\ d \in Nums /\ p \in Nums
      /\ \A i \in 1..n : k[i] # Space
      /\ Cat(k, d) \in Nums
      /\ raw = Cat(p, Cat(k, d))
      /\ d = IF e = <<>> THEN <<>> ELSE Cat(One(Space), e)
  BY ERRParts, OneIsNums DEF Detail
<1>2. Len(p) = 1
  BY DEF One
<1>3. DecodeBrokerMsg(v, raw) = decodeERR(raw)
  <2> DEFINE x == Cat(k, d)
  <2>1. x \in Nums /\ raw = Cat(One(82), x)
    BY <1>1
  <2> HIDE DEF x, raw
  <2>2. Need(raw, 0, 1).v = One(82)
    BY <2>1, KeywordRead
  <2> QED BY <2>2, Dispatch
<1> HIDE DEF raw, p, k, e, d
<1>4. n \in Nat /\ Len(d) \in Nat
  BY <1>1 DEF Nums
<1>5. /\ Len(raw) = 1 + n + Len(d) /\ \A i \in 1..n : raw[1 + i] = k[i]
      /\ SubSeq(raw, 2, 1 + n) = k
  <2>1. /\ Len(Cat(p, Cat(k, d))) = Len(p) + Len(k) + Len(d)
        /\ \A i \in 1..Len(k) : Cat(p, Cat(k, d))[Len(p) + i] = k[i]
        /\ SubSeq(Cat(p, Cat(k, d)), Len(p) + 1, Len(p) + Len(k)) = k
    <3>1. p \in Nums /\ k \in Nums /\ d \in Nums
      BY <1>1
    <3> QED BY <3>1, Middle
  <2>2. 1 + 1 = 2
    OBVIOUS
  <2> QED BY <1>1, <1>2, <2>1, <2>2
<1>6. ASSUME NEW i \in 2..1 + n PROVE raw[i] # Space
  <2>1. i - 1 \in 1..n /\ 1 + (i - 1) = i
    BY <1>4
  <2>2. raw[1 + (i - 1)] = k[i - 1] /\ k[i - 1] # Space
    BY <1>1, <1>5, <2>1
  <2> QED BY <2>1, <2>2
<1>7. Meaning(v, m) = [type |-> "ERR", kind |-> k, detail |-> e]
  BY DEF Meaning, ERRMsg, k, e
<1>8. decodeERR(raw)
          = IF spaces = {} THEN [type |-> "ERR", kind |-> GetTail(raw, 1), detail |-> <<>>]
            ELSE [type |-> "ERR", kind |-> SubSeq(raw, 2, sp - 1), detail |-> GetTail(raw, sp)]
  BY DEF decodeERR
<1>9. CASE e = <<>>
  <2>1. Len(raw) = 1 + n
    <3>1. d = <<>> /\ Len(<<>>) = 0
      BY <1>1, <1>9
    <3> QED BY <1>4, <1>5, <3>1
  <2>2. spaces = {}
    BY <1>6, <2>1
  <2>3. GetTail(raw, 1) = k
    <3>1. 1 + 1 = 2
      OBVIOUS
    <3> QED BY <1>5, <2>1, <3>1 DEF GetTail
  <2> HIDE DEF spaces, sp
  <2> QED BY <1>3, <1>7, <1>8, <1>9, <2>2, <2>3 DEF raw
<1>10. CASE e # <<>>
  <2> DEFINE s == One(Space)  at == n + 2
  <2>1. d = Cat(s, e) /\ s \in Nums /\ Len(s) = 1 /\ Space \in Nat
    <3>1. Space \in Nat
      BY DEF Space
    <3> QED BY <1>1, <1>10, <3>1, OneIsNums
  <2>2. q \in Nums /\ Len(q) = 1 + n
    <3>1. Cat(p, k) \in Nums /\ Len(Cat(p, k)) = Len(p) + Len(k)
      BY <1>1, CatIsNums
    <3> QED BY <1>2, <3>1
  <2>3. raw = Cat(q, Cat(s, e))
    <3>1. Cat(Cat(p, k), d) = Cat(p, Cat(k, d))
      BY <1>1, CatAssociates
    <3> QED BY <1>1, <2>1, <3>1
  <2>4. raw[at] = Space
    <3>1. Cat(q, Cat(One(Space), e))[Len(q) + 1] = Space
      <4>1. q \in Nums /\ e \in Nums /\ Space \in Nat
        BY <1>1, <2>1, <2>2
      <4> HIDE DEF q
      <4> QED BY <4>1, ByteThere
    <3>2. Len(q) + 1 = at
      BY <1>4, <2>2
    <3> QED BY <2>3, <3>1, <3>2
  <2>5. SubSeq(raw, at + 1, Len(raw)) = e
    <3> DEFINE u == Cat(q, s)
    <3>1. u \in Nums /\ Len(u) = Len(q) + Len(s)
      <4> HIDE DEF q, s
      <4> QED BY <2>1, <2>2, CatIsNums
    <3>2. raw = Cat(u, e)
      <4>1. e \in Nums
        BY <1>1
      <4> HIDE DEF q, s
      <4> QED BY <2>1, <2>2, <2>3, <4>1, CatAssociates
    <3>3. Len(u) = at
      BY <1>4, <2>1, <2>2, <3>1
    <3> HIDE DEF u, at
    <3>4. SubSeq(Cat(u, e), Len(u) + 1, Len(Cat(u, e))) = e
      BY <1>1, <3>1, TailGives
    <3> QED BY <3>2, <3>3, <3>4
  <2>6. at \in 2..Len(raw)
    <3>1. Len(d) = 1 + Len(e) /\ Len(e) \in Nat
      <4>1. Len(Cat(s, e)) = Len(s) + Len(e)
        <5> HIDE DEF s
        <5> QED BY <1>1, <2>1, CatIsNums
      <4>2. Len(e) \in Nat
        BY <1>1 DEF Nums
      <4> QED BY <2>1, <4>1, <4>2
    <3> QED BY <1>4, <1>5, <3>1
  <2>7. at \in spaces /\ \A j \in spaces : at <= j
    <3>1. at \in spaces
      BY <2>4, <2>6
    <3>2. ASSUME NEW j \in 2..Len(raw), raw[j] = Space PROVE at <= j
      <4>1. ~(j \in 2..1 + n)
        BY <1>6, <3>2
      <4> QED BY <1>4, <4>1
    <3> QED BY <3>1, <3>2
  <2>8. sp = at
    <3>1. spaces \subseteq Int
      OBVIOUS
    <3>2. sp \in spaces /\ \A j \in spaces : sp <= j
      <4> HIDE DEF spaces, at
      <4> QED BY <2>7
    <3>3. sp <= at /\ at <= sp /\ sp \in Int /\ at \in Int
      <4> HIDE DEF spaces, at, sp
      <4> QED BY <2>7, <3>1, <3>2
    <3> HIDE DEF sp, at
    <3> QED BY <3>3
  <2>9. spaces # {}
    BY <2>7
  <2>10. GetTail(raw, at) = e
    BY <2>5 DEF GetTail
  <2>11. SubSeq(raw, 2, at - 1) = k
    <3>1. at - 1 = 1 + n
      BY <1>4
    <3> QED BY <1>5, <3>1
  <2> HIDE DEF spaces, sp, at
  <2> QED BY <1>3, <1>7, <1>8, <2>8, <2>9, <2>10, <2>11 DEF raw
<1> QED BY <1>9, <1>10

LEMMA ReadBare ==
    ASSUME NEW v, NEW m \in BareMsg
    PROVE  DecodeBrokerMsg(v, EncodeBrokerMsg(v, m)) = Meaning(v, m)
<1> DEFINE raw == EncodeBrokerMsg(v, m)
<1>1. m.type \in {"OK", "PONG", "END"} /\ raw = Keyword[m.type]
  BY DEF EncodeBrokerMsg, BareMsg
<1>2. raw \in {One(79), One(71), One(69)}
  BY <1>1 DEF Keyword, One
<1>3. Need(raw, 0, 1).v = raw
  <2> SUFFICES ASSUME NEW n \in {79, 71, 69}, raw = One(n) PROVE Need(raw, 0, 1).v = One(n)
    BY <1>2
  <2> HIDE DEF raw
  <2> DEFINE x == <<>>
  <2>1. Cat(One(n), x) = One(n) /\ x \in Nums
    BY OneIsNums, Empty
  <2> HIDE DEF x
  <2> QED BY <2>1, KeywordRead
<1>4. raw \notin {One(73), One(77), One(82)}
  <2> HIDE DEF raw
  <2> QED BY <1>2 DEF One
<1>5. (CHOOSE k \in {"OK", "PONG", "END"} : Keyword[k] = raw) = m.type
  <2> DEFINE c == CHOOSE k \in {"OK", "PONG", "END"} : Keyword[k] = raw
  <2>1. c \in {"OK", "PONG", "END"} /\ Keyword[c] = raw
    <3> HIDE DEF raw
    <3> QED BY <1>1
  <2> HIDE DEF c, raw
  <2>2. Keyword[c] = Keyword[m.type]
    BY <1>1, <2>1
  <2>3. Keyword.OK[1] = 79 /\ Keyword.PONG[1] = 71 /\ Keyword.END[1] = 69
    BY DEF Keyword
  <2>4. c = m.type
    BY <1>1, <2>1, <2>2, <2>3
  <2> QED BY <2>4 DEF c
<1>6. DecodeBrokerMsg(v, raw) = [type |-> m.type]
  <2> HIDE DEF raw
  <2>1. DecodeBrokerMsg(v, raw)
            = [type |-> CHOOSE k \in {"OK", "PONG", "END"} : Keyword[k] = raw]
    BY <1>2, <1>3, <1>4, Dispatch
  <2> QED BY <1>5, <2>1
<1>7. Meaning(v, m) = [type |-> m.type]
  BY DEF Meaning, BareMsg
<1> QED BY <1>6, <1>7 DEF raw

\* What lies between two places of a text.
Slice(b, i, j) == SubSeq(b, i + 1, j)

LEMMA SliceIs ==
    ASSUME NEW b \in Nums, NEW i \in Nat, NEW j \in Nat, i <= j, j <= Len(b)
    PROVE  /\ Slice(b, i, j) \in Nums /\ Len(Slice(b, i, j)) = j - i
           /\ \A x \in 1..(j - i) : Slice(b, i, j)[x] = b[i + x]
           /\ Slice(b, i, j) \in Parts(b)
<1> DEFINE lo == i + 1  c == SubSeq(b, lo, j)
<1>1. lo \in Int /\ lo \in 1..(Len(b) + 1) /\ j \in 0..Len(b)
  <2>1. Len(b) \in Nat
    BY DEF Nums
  <2> QED BY <2>1
<1>2. \A x \in lo..j : b[x] \in Symbols
  <2>1. \A x \in 1..Len(b) : b[x] \in Symbols
    BY DEF Nums
  <2>2. lo..j \subseteq 1..Len(b)
    OBVIOUS
  <2> QED BY <2>1, <2>2
<1>3. c \in Parts(b)
  <2> HIDE DEF lo
  <2> QED BY <1>1 DEF Parts
<1> HIDE DEF lo
<1>4. /\ c \in Seq(Symbols)
      /\ Len(c) = IF lo <= j THEN j - lo + 1 ELSE 0
      /\ \A x \in 1..(j - lo + 1) : c[x] = b[lo + x - 1]
  BY <1>1, <1>2, SubSeqProperties
<1> HIDE DEF c
<1>5. Len(c) = j - i /\ \A x \in 1..(j - i) : c[x] = b[i + x]
  <2>1. j - lo + 1 = j - i /\ \A x \in 1..(j - i) : lo + x - 1 = i + x
    BY DEF lo
  <2>2. Len(c) = j - i
    BY <1>4, <2>1 DEF lo
  <2> QED BY <1>4, <2>1, <2>2
<1> QED BY <1>3, <1>4, <1>5 DEF c, lo, Slice, Nums

LEMMA SliceCat ==
    ASSUME NEW b \in Nums, NEW i \in Nat, NEW j \in Nat, NEW k \in Nat,
           i <= j, j <= k, k <= Len(b)
    PROVE  Slice(b, i, k) = Cat(Slice(b, i, j), Slice(b, j, k))
<1> DEFINE x == Slice(b, i, j)  y == Slice(b, j, k)  z == Slice(b, i, k)
<1>0. Len(b) \in Nat
  BY DEF Nums
<1>1. x \in Nums /\ Len(x) = j - i /\ \A n \in 1..(j - i) : x[n] = b[i + n]
  <2>1. j <= Len(b)
    BY <1>0
  <2> QED BY <2>1, SliceIs
<1>2. y \in Nums /\ Len(y) = k - j /\ \A n \in 1..(k - j) : y[n] = b[j + n]
  BY SliceIs
<1>3. z \in Nums /\ Len(z) = k - i /\ \A n \in 1..(k - i) : z[n] = b[i + n]
  <2>1. i <= k
    OBVIOUS
  <2> QED BY <2>1, SliceIs
<1> HIDE DEF x, y, z
<1>4. Cat(x, y) \in Nums /\ Len(Cat(x, y)) = Len(x) + Len(y)
  BY <1>1, <1>2, CatIsNums
<1>5. Len(Cat(x, y)) = k - i
  BY <1>1, <1>2, <1>4
<1>6. ASSUME NEW n \in 1..(k - i) PROVE Cat(x, y)[n] = b[i + n]
  <2>1. n \in 1..Len(x) + Len(y)
    BY <1>1, <1>2
  <2>2. Cat(x, y)[n] = IF n <= Len(x) THEN x[n] ELSE y[n - Len(x)]
    BY <1>1, <1>2, <2>1, ConcatProperties DEF Cat, Nums
  <2>3. CASE n <= Len(x)
    <3>1. n \in 1..(j - i)
      BY <1>1, <2>3
    <3> QED BY <1>1, <2>2, <2>3, <3>1
  <2>4. CASE ~(n <= Len(x))
    <3>1. n - Len(x) \in 1..(k - j) /\ j + (n - Len(x)) = i + n
      BY <1>1, <2>4
    <3>2. y[n - Len(x)] = b[j + (n - Len(x))]
      BY <1>2, <3>1
    <3> QED BY <2>2, <2>4, <3>1, <3>2
  <2> QED BY <2>3, <2>4
<1>7. z = Cat(x, y)
  <2>1. \A n \in 1..Len(z) : z[n] = Cat(x, y)[n]
    BY <1>3, <1>6
  <2> DEFINE w == Cat(x, y)
  <2>2. w \in Nums /\ Len(w) = Len(z)
    BY <1>3, <1>4, <1>5
  <2> HIDE DEF w
  <2>3. z \in Seq(Symbols) /\ w \in Seq(Symbols) /\ Len(z) = Len(w) /\ \A n \in 1..Len(z) : z[n] = w[n]
    BY <1>3, <2>1, <2>2 DEF Nums, w
  <2>4. z = w
    BY <2>3, SeqEqual
  <2> QED BY <2>4 DEF w
<1> QED BY <1>7 DEF x, y, z

\* A string the reader takes is one that was written there.
LEMMA ShortTaken ==
    ASSUME NEW b \in Nums, b \in Seq(Nat), NEW p \in Nat, NEW g, g = GetShort(b, p), g.ok
    PROVE  /\ g.v \in Nums /\ g.v \in Parts(b)
           /\ g.pos \in Nat /\ p <= g.pos /\ g.pos <= Len(b)
           /\ Slice(b, p, Len(b)) = Cat(Short(g.v), Slice(b, g.pos, Len(b)))
<1> DEFINE l == Len(b)  n == b[p + 1]
<1>0. l \in Nat /\ \A i \in 1..l : b[i] \in Nat
  BY DEF Nums
<1>1. Need(b, p, 1).ok /\ g = Need(b, p + 1, n)
  BY DEF GetShort, Bad
<1>2. p + 1 <= l
  BY <1>0, <1>1 DEF Need, Bad
<1>3. n \in Nat
  BY <1>0, <1>2
<1> HIDE DEF n
<1> DEFINE q == p + 1  e == p + 1 + n
<1>4. e <= l /\ g = [ok |-> TRUE, v |-> SubSeq(b, p + 1 + 1, e), pos |-> e]
  <2>1. g = IF e > l THEN Bad ELSE [ok |-> TRUE, v |-> SubSeq(b, p + 1 + 1, e), pos |-> e]
    BY <1>1 DEF Need
  <2>2. ~(e > l)
    <3> HIDE DEF e, l
    <3> QED BY <2>1 DEF Bad
  <2>3. e \in Nat
    BY <1>3
  <2>4. g = [ok |-> TRUE, v |-> SubSeq(b, p + 1 + 1, e), pos |-> e]
    <3> HIDE DEF e, l
    <3> QED BY <2>1, <2>2
  <2> HIDE DEF e, l
  <2> QED BY <1>0, <2>2, <2>3, <2>4
<1>5. g.v = Slice(b, q, e) /\ g.pos = e
  <2>1. Slice(b, q, e) = SubSeq(b, p + 1 + 1, e)
    BY DEF Slice
  <2> HIDE DEF e
  <2> QED BY <1>4, <2>1
<1>6. e \in Nat /\ q \in Nat /\ q <= e /\ p <= e /\ p <= q
  BY <1>3
<1>7. g.v \in Nums /\ Len(g.v) = n /\ g.v \in Parts(b)
  <2>1. e - q = n
    BY <1>3
  <2>2. e <= Len(b)
    BY <1>4
  <2> HIDE DEF e, q
  <2>3. Slice(b, q, e) \in Nums /\ Len(Slice(b, q, e)) = e - q /\ Slice(b, q, e) \in Parts(b)
    BY <1>6, <2>2, SliceIs
  <2> QED BY <1>5, <2>1, <2>3
<1>8. Slice(b, p, q) = One(n)
  <2>1. Slice(b, p, q) \in Nums /\ Len(Slice(b, p, q)) = 1 /\ Slice(b, p, q)[1] = n
    <3>1. q - p = 1 /\ q <= Len(b) /\ 1 \in 1..(q - p) /\ p + 1 = q
      BY <1>2
    <3>2. Slice(b, p, q)[1] = b[p + 1]
      BY <1>6, <3>1, SliceIs
    <3>3. Slice(b, p, q) \in Nums /\ Len(Slice(b, p, q)) = q - p
      BY <1>6, <3>1, SliceIs
    <3> HIDE DEF q
    <3> QED BY <3>1, <3>2, <3>3 DEF n
  <2> DEFINE s == Slice(b, p, q)
  <2>2. s \in Nums /\ Len(s) = 1 /\ s[1] = n
    BY <2>1
  <2> HIDE DEF s
  <2>3. s = One(n)
    BY <2>2 DEF One, Nums
  <2> QED BY <2>3 DEF s
<1> DEFINE r == Slice(b, e, l)
<1>9. Slice(b, p, l) = Cat(One(n), Cat(g.v, r))
  <2>1. Slice(b, p, l) = Cat(Slice(b, p, q), Slice(b, q, l))
    <3> HIDE DEF q
    <3>1. q <= Len(b)
      BY <1>2 DEF q
    <3> QED BY <1>0, <1>6, <3>1, SliceCat
  <2>2. Slice(b, q, l) = Cat(Slice(b, q, e), Slice(b, e, l))
    <3> HIDE DEF q, e
    <3> QED BY <1>0, <1>4, <1>6, SliceCat
  <2> HIDE DEF q, e, l
  <2> QED BY <1>5, <1>8, <2>1, <2>2
<1>10. Cat(One(n), Cat(g.v, r)) = Cat(Short(g.v), r)
  <2>1. Short(g.v) = Cat(One(n), g.v)
    BY <1>7 DEF Short, Cat, One
  <2>2. r \in Nums /\ One(n) \in Nums
    <3>1. e <= l /\ l <= Len(b) /\ l \in Nat /\ e \in Nat
      BY <1>0, <1>4, <1>6
    <3>2. One(n) \in Nums
      BY <1>3, OneIsNums
    <3> HIDE DEF e, l
    <3> QED BY <3>1, <3>2, SliceIs
  <2> HIDE DEF r
  <2> QED BY <1>7, <2>1, <2>2, CatAssociates
<1> QED BY <1>4, <1>5, <1>6, <1>7, <1>9, <1>10

\* The whole of a text that begins with a keyword.
LEMMA KeywordTaken ==
    ASSUME NEW b \in Nums, NEW n \in Nat, Need(b, 0, 1).v = One(n)
    PROVE  b = Cat(One(n), Slice(b, 1, Len(b))) /\ 1 <= Len(b)
<1> DEFINE l == Len(b)
<1>0. l \in Nat /\ b \in Seq(Symbols)
  BY DEF Nums
<1>1. One(n) # <<>>
  BY DEF One
<1>2. 1 <= l /\ SubSeq(b, 1, 1) = One(n)
  <2>1. Need(b, 0, 1) = IF 1 > l THEN Bad ELSE [ok |-> TRUE, v |-> SubSeq(b, 1, 1), pos |-> 1]
    BY DEF Need
  <2>2. CASE 1 > l
    <3> HIDE DEF l
    <3> QED BY <1>1, <2>1, <2>2 DEF Bad
  <2>3. CASE ~(1 > l)
    <3> HIDE DEF l
    <3> QED BY <1>0, <2>1, <2>3
  <2> QED BY <2>2, <2>3
<1>3. Slice(b, 0, 1) = One(n)
  BY <1>2 DEF Slice
<1>4. Slice(b, 0, l) = Cat(Slice(b, 0, 1), Slice(b, 1, l))
  <2>1. 0 \in Nat /\ 1 \in Nat /\ 0 <= 1 /\ l <= Len(b)
    BY <1>0
  <2> HIDE DEF l
  <2> QED BY <1>0, <1>2, <2>1, SliceCat
<1>5. Slice(b, 0, l) = b
  <2> DEFINE s == Slice(b, 0, l)
  <2>1. s \in Nums /\ Len(s) = l - 0 /\ \A x \in 1..(l - 0) : s[x] = b[0 + x]
    <3>1. 0 \in Nat /\ 0 <= l /\ l <= Len(b)
      BY <1>0
    <3> HIDE DEF l
    <3> QED BY <1>0, <3>1, SliceIs
  <2> HIDE DEF s
  <2>2. s \in Seq(Symbols) /\ Len(s) = Len(b) /\ \A x \in 1..Len(s) : s[x] = b[x]
    <3>1. l - 0 = l /\ \A x \in 1..l : 0 + x = x
      BY <1>0
    <3>2. Len(s) = l /\ s \in Seq(Symbols)
      BY <2>1, <3>1 DEF Nums
    <3> HIDE DEF l
    <3>3. \A x \in 1..l : s[x] = b[x]
      BY <2>1, <3>1
    <3> QED BY <3>2, <3>3 DEF l
  <2>3. s = b
    BY <1>0, <2>2, SeqEqual
  <2> QED BY <2>3 DEF s
<1> QED BY <1>2, <1>3, <1>4, <1>5

LEMMA ReadMalformed ==
    ASSUME NEW v, NEW m \in Malformed
    PROVE  DecodeBrokerMsg(v, EncodeBrokerMsg(v, m)) = Meaning(v, m)
<1> DEFINE b == m.bytes  l == Len(b)  key == Need(b, 0, 1).v
<1>1. /\ b \in Nums /\ b \in Seq(Nat) /\ b \notin {One(79), One(71), One(69)} /\ key # One(82)
      /\ \A id, rest \in Parts(b) : b # Cat(Cat(One(77), Short(id)), rest)
      /\ \A rcv, snd, dh, rest \in Parts(b) :
             b # Cat(Cat(Cat(Cat(One(73), Short(rcv)), Short(snd)), Short(dh)), rest)
  <2>1. /\ b \in Bytes
        /\ b \notin {Keyword.OK, Keyword.PONG, Keyword.END} /\ key # Keyword.ERR
        /\ \A id, rest \in Parts(b) : b # Keyword.MSG \o Short(id) \o rest
        /\ \A rcv, snd, dh, rest \in Parts(b) :
               b # Keyword.IDS \o Short(rcv) \o Short(snd) \o Short(dh) \o rest
    BY DEF Malformed
  <2>2. /\ Keyword.IDS = One(73) /\ Keyword.MSG = One(77) /\ Keyword.ERR = One(82)
        /\ Keyword.OK = One(79) /\ Keyword.PONG = One(71) /\ Keyword.END = One(69)
    BY DEF Keyword, One
  <2>3. \A id, rest : Keyword.MSG \o Short(id) \o rest = Cat(Cat(One(77), Short(id)), rest)
    BY <2>2 DEF Cat
  <2>4. \A rcv, snd, dh, rest :
            Keyword.IDS \o Short(rcv) \o Short(snd) \o Short(dh) \o rest
                = Cat(Cat(Cat(Cat(One(73), Short(rcv)), Short(snd)), Short(dh)), rest)
    BY <2>2 DEF Cat
  <2> DEFINE P == Parts(b)
  <2> HIDE DEF b, key, P
  <2>5. b \in Nums /\ b \in Seq(Nat)
    <3>1. b \in Seq(0..255) /\ 0..255 \subseteq Nat
      BY <2>1 DEF Bytes
    <3> QED BY <2>1, <3>1, BytesAreNums, SeqMonotonic
  <2>6. b \notin {One(79), One(71), One(69)} /\ key # One(82)
    BY <2>1, <2>2
  <2>7. \A id, rest \in P : b # Cat(Cat(One(77), Short(id)), rest)
    BY <2>1, <2>3 DEF P
  <2>8. ASSUME NEW rcv \in P, NEW snd \in P, NEW dh \in P, NEW rest \in P
        PROVE  b # Cat(Cat(Cat(Cat(One(73), Short(rcv)), Short(snd)), Short(dh)), rest)
    <3> DEFINE c == Keyword.IDS \o Short(rcv) \o Short(snd) \o Short(dh) \o rest
    <3>1. b # c
      BY <2>1 DEF P
    <3>2. c = Cat(Cat(Cat(Cat(One(73), Short(rcv)), Short(snd)), Short(dh)), rest)
      BY <2>4
    <3> QED BY <3>1, <3>2
  <2> QED BY <2>5, <2>6, <2>7, <2>8 DEF P
<1>2. EncodeBrokerMsg(v, m) = b /\ Meaning(v, m) = Unparsed
  BY DEF EncodeBrokerMsg, Meaning, Malformed
<1> HIDE DEF b
<1>3. l \in Nat /\ 1 \in Nat
  BY <1>1 DEF Nums
<1>4. CASE key = One(73)
  <2> DEFINE rcv == GetShort(b, 1)
             snd == GetShort(b, rcv.pos)
             dh  == GetShort(b, snd.pos)
             sec == IF v >= V9 THEN GetBool(b, dh.pos)
                    ELSE [ok |-> TRUE, v |-> FALSE, pos |-> dh.pos]
  <2>1. decodeIDS(v, b)
          = IF rcv.ok /\ snd.ok /\ dh.ok /\ sec.ok
            THEN [type |-> "IDS", rcv |-> rcv.v, snd |-> snd.v, dh |-> dh.v, secure |-> sec.v]
            ELSE Unparsed
    BY DEF decodeIDS
  <2>2. ASSUME rcv.ok, snd.ok, dh.ok
        PROVE  FALSE
    <3>1. b = Cat(One(73), Slice(b, 1, l))
      <4> HIDE DEF key
      <4>1. Need(b, 0, 1).v = One(73)
        BY <1>4 DEF key
      <4> QED BY <1>1, <4>1, KeywordTaken
    <3>2. /\ rcv.v \in Nums /\ rcv.v \in Parts(b) /\ rcv.pos \in Nat
          /\ Slice(b, 1, l) = Cat(Short(rcv.v), Slice(b, rcv.pos, l))
      BY <1>1, <1>3, <2>2, ShortTaken
    <3> HIDE DEF rcv
    <3>3. /\ snd.v \in Nums /\ snd.v \in Parts(b) /\ snd.pos \in Nat
          /\ Slice(b, rcv.pos, l) = Cat(Short(snd.v), Slice(b, snd.pos, l))
      BY <1>1, <2>2, <3>2, ShortTaken
    <3> HIDE DEF snd
    <3> DEFINE r == Slice(b, dh.pos, l)
    <3>4. /\ dh.v \in Nums /\ dh.v \in Parts(b) /\ dh.pos \in Nat /\ dh.pos <= l
          /\ Slice(b, snd.pos, l) = Cat(Short(dh.v), r)
      BY <1>1, <2>2, <3>3, ShortTaken
    <3> HIDE DEF dh
    <3>5. r \in Nums /\ r \in Parts(b)
      <4>1. l <= Len(b)
        BY <1>3
      <4> HIDE DEF l
      <4> QED BY <1>1, <1>3, <3>4, <4>1, SliceIs
    <3> HIDE DEF r
    <3> DEFINE k == One(73)  x == Short(rcv.v)  y == Short(snd.v)  z == Short(dh.v)
    <3>6. b = Cat(k, Cat(x, Cat(y, Cat(z, r))))
      BY <3>1, <3>2, <3>3, <3>4
    <3>7. k \in Nums /\ x \in Nums /\ y \in Nums /\ z \in Nums
      BY <3>2, <3>3, <3>4, ShortIsNums, OneIsNums
    <3>8. b # Cat(Cat(Cat(Cat(k, x), y), z), r)
      BY <1>1, <3>2, <3>3, <3>4, <3>5
    <3> HIDE DEF k, x, y, z
    <3>9. Cat(k, x) \in Nums /\ Cat(z, r) \in Nums
      BY <3>5, <3>7, CatIsNums
    <3>10. Cat(y, Cat(z, r)) \in Nums
      BY <3>7, <3>9, CatIsNums
    <3>11. Cat(Cat(Cat(Cat(k, x), y), z), r) = Cat(Cat(k, x), Cat(y, Cat(z, r)))
      BY <3>5, <3>7, <3>9, Regroup
    <3>12. Cat(Cat(k, x), Cat(y, Cat(z, r))) = Cat(k, Cat(x, Cat(y, Cat(z, r))))
      BY <3>7, <3>10, CatAssociates
    <3> QED BY <3>6, <3>8, <3>11, <3>12
  <2> HIDE DEF rcv, snd, dh, sec
  <2>3. decodeIDS(v, b) = Unparsed
    BY <2>1, <2>2
  <2>4. DecodeBrokerMsg(v, b) = decodeIDS(v, b)
    BY <1>4, Dispatch
  <2> QED BY <1>2, <2>3, <2>4
<1>5. CASE key = One(77)
  <2> DEFINE id == GetShort(b, 1)
  <2>1. decodeMSG(b) = IF id.ok THEN [type |-> "MSG", id |-> id.v, body |-> GetTail(b, id.pos)]
                       ELSE Unparsed
    BY DEF decodeMSG
  <2>2. ASSUME id.ok
        PROVE  FALSE
    <3>1. b = Cat(One(77), Slice(b, 1, l))
      <4> HIDE DEF key
      <4>1. Need(b, 0, 1).v = One(77)
        BY <1>5 DEF key
      <4> QED BY <1>1, <4>1, KeywordTaken
    <3> DEFINE r == Slice(b, id.pos, l)
    <3>2. /\ id.v \in Nums /\ id.v \in Parts(b) /\ id.pos \in Nat /\ id.pos <= l
          /\ Slice(b, 1, l) = Cat(Short(id.v), r)
      BY <1>1, <1>3, <2>2, ShortTaken
    <3> HIDE DEF id
    <3>3. r \in Nums /\ r \in Parts(b)
      <4>1. l <= Len(b)
        BY <1>3
      <4> HIDE DEF l
      <4> QED BY <1>1, <1>3, <3>2, <4>1, SliceIs
    <3> HIDE DEF r
    <3>4. Cat(Cat(One(77), Short(id.v)), r) = Cat(One(77), Cat(Short(id.v), r))
      <4>1. One(77) \in Nums /\ Short(id.v) \in Nums
        BY <3>2, ShortIsNums, OneIsNums
      <4> QED BY <3>3, <4>1, CatAssociates
    <3>5. b = Cat(Cat(One(77), Short(id.v)), r)
      BY <3>1, <3>2, <3>4
    <3> QED BY <1>1, <3>2, <3>3, <3>5
  <2> HIDE DEF id
  <2>3. decodeMSG(b) = Unparsed
    BY <2>1, <2>2
  <2>4. DecodeBrokerMsg(v, b) = decodeMSG(b)
    BY <1>5, Dispatch
  <2> QED BY <1>2, <2>3, <2>4
<1>6. CASE key \notin {One(73), One(77)}
  <2>1. DecodeBrokerMsg(v, b) = Unparsed
    BY <1>1, <1>6, Dispatch
  <2> QED BY <1>2, <2>1
<1> QED BY <1>4, <1>5, <1>6

\* Every answer is read as what it means, in every version.
LEMMA ReadAnswer ==
    ASSUME NEW v, NEW m \in BrokerMsg \cup Malformed
    PROVE  DecodeBrokerMsg(v, EncodeBrokerMsg(v, m)) = Meaning(v, m)
BY AnswerTypes, ReadIDS, ReadMSG, ReadERR, ReadBare, ReadMalformed

-----------------------------------------------------------------------------
(* A block on its way: what it carries, and what is read of it.            *)

\* The block is the batch, or what the damage left of it.
Carries ==
    /\ damage \in {"none", "session"} => block = Pad(Encoded)
    /\ damage = "junk" => Fits(Append(Encoded, 0)) /\ block = Pad(Append(Encoded, 0))
    /\ damage = "cut" => \E n \in 0..(Len(Encoded) - 1) : block = Pad(SubSeq(Encoded, 1, n))
\* The session of the one who reads.
Reader == IF damage = "session" THEN OtherSession ELSE Session
\* What Read finds.
Reading ==
    LET body == Unpad(block) IN
    IF body.ok THEN DecodeBlock(version, Reader, body.v)
    ELSE [ok |-> FALSE, txs |-> <<>>, pos |-> 0]

FrameInv ==
    /\ damage \in {"none", "cut", "junk", "session"}
    /\ phase = "building" => damage = "none"
    /\ phase \in {"framed", "read"} => Len(batch) <= MaxCount /\ Fits(Encoded) /\ Carries
    /\ phase = "read" => got = Reading

LEMMA FrameStart == Init => FrameInv
BY DEF Init, FrameInv

LEMMA FrameKept == FrameInv /\ [Next]_vars => FrameInv'
<1> SUFFICES ASSUME FrameInv, [Next]_vars PROVE FrameInv'
  OBVIOUS
<1>1. ASSUME NEW r, NEW tx, Add(r, tx) PROVE FrameInv'
  BY <1>1 DEF Add, FrameInv
<1>2. ASSUME NEW r \in Requests, AddCommand(r) PROVE FrameInv'
  BY <1>1, <1>2 DEF AddCommand
<1>3. ASSUME NEW r \in Answers, AddAnswer(r) PROVE FrameInv'
  BY <1>1, <1>3 DEF AddAnswer
<1>4. CASE Refuse
  BY <1>4 DEF Refuse, FrameInv
<1>5. CASE Frame
  <2>1. Encoded' = Encoded
    BY <1>5 DEF Frame, Encoded
  <2>2. /\ damage' = "none" /\ block' = Pad(Encoded) /\ phase' = "framed" /\ Fits(Encoded)
        /\ Len(batch') <= MaxCount
    BY <1>5 DEF Frame, FrameInv
  <2>3. Fits(Encoded)'
    BY <2>1, <2>2 DEF Fits
  <2>4. Carries'
    BY <2>1, <2>2 DEF Carries
  <2> QED BY <2>2, <2>3, <2>4 DEF FrameInv
<1>6. CASE Damage
  <2>1. Encoded' = Encoded
    BY <1>6 DEF Damage, Encoded
  <2>2. /\ phase' = "framed" /\ damage = "none" /\ Fits(Encoded) /\ block = Pad(Encoded)
        /\ Len(batch') <= MaxCount
        /\ \/ damage' = "cut"
              /\ \E n \in 0..(Len(Encoded) - 1) : block' = Pad(SubSeq(Encoded, 1, n))
           \/ damage' = "junk" /\ Fits(Append(Encoded, 0)) /\ block' = Pad(Append(Encoded, 0))
           \/ damage' = "session" /\ block' = block
    BY <1>6 DEF Damage, FrameInv, Carries
  <2>3. Fits(Encoded)'
    BY <2>1, <2>2 DEF Fits
  <2>4. CASE damage' = "cut"
    BY <2>1, <2>2, <2>3, <2>4 DEF FrameInv, Carries
  <2>5. CASE damage' = "junk"
    BY <2>1, <2>2, <2>3, <2>5 DEF FrameInv, Carries, Fits
  <2>6. CASE damage' = "session"
    BY <2>1, <2>2, <2>3, <2>6 DEF FrameInv, Carries
  <2> QED BY <2>2, <2>4, <2>5, <2>6
<1>7. CASE Read
  <2>1. Encoded' = Encoded /\ Reader' = Reader
    BY <1>7 DEF Read, Encoded, Reader
  <2>2. /\ phase = "framed" /\ phase' = "read" /\ damage' = damage /\ block' = block
        /\ version' = version
    BY <1>7 DEF Read
  <2>3. Fits(Encoded)' /\ Carries' /\ Len(batch') <= MaxCount
    BY <1>7, <2>1, <2>2 DEF Read, FrameInv, Fits, Carries
  <2>4. got' = Reading
    BY <1>7 DEF Read, Reading, Reader
  <2>5. Reading' = Reading
    BY <2>1, <2>2 DEF Reading
  <2>6. damage' \in {"none", "cut", "junk", "session"}
    BY <2>2 DEF FrameInv
  <2> QED BY <2>2, <2>3, <2>4, <2>5, <2>6 DEF FrameInv
<1>8. CASE UNCHANGED vars
  BY <1>8 DEF vars, FrameInv, Carries, Encoded, Fits, Reading, Reader
<1> QED BY <1>2, <1>3, <1>4, <1>5, <1>6, <1>7, <1>8 DEF Next

WireInv == BatchInv /\ FrameInv

LEMMA WireInvHolds == Spec => []WireInv
<1>1. Init => WireInv
  BY BatchStart, FrameStart DEF WireInv
<1>2. WireInv /\ [Next]_vars => WireInv'
  BY BatchKept, FrameKept DEF WireInv
<1> QED BY <1>1, <1>2, PTL DEF Spec

\* What the relay or the client takes a block for, if it holds what another session
\* or this one wrote, and what comes after it.
LEMMA EncodedIs ==
    ASSUME BatchInv
    PROVE  /\ Encoded = EncodeBlock(Bodies(version, Session, batch))
           /\ Encoded \in Nums /\ batch \in Seq(Transmission)
           /\ Bodies(version, Session, batch) \in Seq(Nums)
<1> DEFINE b == Bodies(version, Session, batch)
<1>1. batch \in Seq(Transmission)
  BY DEF BatchInv
<1>2. b \in Seq(Nums)
  BY <1>1, SessionsAreNums, BodiesAreNums
<1>3. Encoded = EncodeBlock(b)
  BY DEF Encoded, Bodies
<1> HIDE DEF b
<1>4. EncodeBlock(b) \in Nums
  <2>1. EncodeBlock(b) = Enc(b)[Len(b)] /\ Len(b) \in 0..Len(b)
    BY <1>2, EncUnfolds
  <2> QED BY <1>2, <2>1, EncIsNums
<1> QED BY <1>1, <1>2, <1>3, <1>4 DEF b

LEMMA BlockRead ==
    ASSUME BatchInv, Len(batch) <= MaxCount, Fits(Encoded), NEW x \in Nums, NEW s2 \in {Session, OtherSession}
    PROVE  LET read == DecodeBlock(version, s2, Cat(Encoded, x)) IN
           /\ s2 = Session \/ version >= V7 \/ batch = <<>> => read.ok = TRUE /\ read.txs = batch
           /\ s2 # Session /\ version < V7 /\ batch # <<>> => ~read.ok
<1> DEFINE e == EncodeBlock(Bodies(version, Session, batch))
           read == DecodeBlock(version, s2, Cat(Encoded, x))
<1>1. /\ Encoded = e /\ Encoded \in Nums /\ batch \in Seq(Transmission)
      /\ Session \in Nums /\ s2 \in Nums
  BY EncodedIs, SessionsAreNums
<1>2. Measurable(e)
  <2> HIDE DEF e
  <2> QED BY <1>1, FitsIsMeasurable
<1>3. version \in Nat
  BY WireAssumption DEF BatchInv
<1>4. CASE s2 = Session \/ version >= V7
  <2>1. Takes(version, Session, s2)
    BY <1>3, <1>4 DEF Takes, V7
  <2>2. Reads(DecodeBlock(version, s2, Cat(EncodeBlock(Bodies(version, Session, batch)), x)), batch)
    BY <1>1, <1>2, <2>1, DecodeReads
  <2>3. read.ok = TRUE /\ read.txs = batch
    BY <1>1, <2>2 DEF Reads
  <2>4. ~(s2 # Session /\ version < V7)
    BY <1>3, <1>4 DEF V7
  <2> QED BY <2>3, <2>4
<1>5. CASE batch = <<>>
  <2>1. Bodies(version, Session, batch) = Bodies(version, s2, batch)
    BY <1>5 DEF Bodies
  <2>2. Takes(version, s2, s2) /\ Measurable(EncodeBlock(Bodies(version, s2, batch)))
    BY <1>2, <2>1 DEF Takes
  <2>3. Reads(DecodeBlock(version, s2, Cat(EncodeBlock(Bodies(version, s2, batch)), x)), batch)
    BY <1>1, <2>2, DecodeReads
  <2>4. read.ok = TRUE /\ read.txs = batch
    BY <1>1, <2>1, <2>3 DEF Reads
  <2> QED BY <1>5, <2>4
<1>6. CASE s2 # Session /\ version < V7 /\ batch # <<>>
  <2>1. ~Takes(version, Session, s2)
    BY <1>6 DEF Takes
  <2>2. ~DecodeBlock(version, s2, Cat(EncodeBlock(Bodies(version, Session, batch)), x)).ok
    BY <1>1, <1>2, <1>6, <2>1, DecodeRefuses
  <2>3. ~read.ok
    BY <1>1, <2>2
  <2>4. ~(version >= V7)
    BY <1>3, <1>6 DEF V7
  <2> QED BY <1>6, <2>3, <2>4
<1>7. version >= V7 \/ version < V7
  BY <1>3 DEF V7
<1> QED BY <1>4, <1>5, <1>6, <1>7

LEMMA Unpadded ==
    ASSUME NEW p \in Nums, Fits(p), block = Pad(p)
    PROVE  Reading = DecodeBlock(version, Reader, p)
<1>1. Unpad(block) = [ok |-> TRUE, v |-> p, pos |-> 0]
  BY Unpads
<1> DEFINE body == Unpad(block)
<1>2. Reading = IF body.ok THEN DecodeBlock(version, Reader, body.v)
                ELSE [ok |-> FALSE, txs |-> <<>>, pos |-> 0]
  BY DEF Reading
<1>3. body.ok = TRUE /\ body.v = p
  BY <1>1
<1> HIDE DEF body
<1> QED BY <1>2, <1>3

LEMMA ReadIs ==
    ASSUME WireInv, phase = "read"
    PROVE  /\ damage \in {"none", "junk"} => got.ok = TRUE /\ got.txs = batch
           /\ damage = "cut" => ~got.ok
           /\ damage = "session" /\ (version >= V7 \/ batch = <<>>) =>
                  got.ok = TRUE /\ got.txs = batch
           /\ damage = "session" /\ version < V7 /\ batch # <<>> => ~got.ok
           /\ damage \in {"none", "junk", "cut", "session"}
<1>1. /\ BatchInv /\ Len(batch) <= MaxCount /\ Fits(Encoded) /\ Carries /\ got = Reading
      /\ damage \in {"none", "junk", "cut", "session"}
  BY DEF WireInv, FrameInv
<1>2. /\ Encoded = EncodeBlock(Bodies(version, Session, batch))
      /\ Encoded \in Nums /\ batch \in Seq(Transmission)
      /\ Bodies(version, Session, batch) \in Seq(Nums)
  BY <1>1, EncodedIs
<1>3. Cat(Encoded, <<>>) = Encoded /\ <<>> \in Nums
  BY <1>2, Empty
<1>4. CASE damage = "none"
  <2> DEFINE x == <<>>
  <2>1. block = Pad(Encoded) /\ Reader = Session
    BY <1>1, <1>4 DEF Carries, Reader
  <2>2. got = DecodeBlock(version, Session, Encoded)
    BY <1>1, <1>2, <2>1, Unpadded
  <2>3. x \in Nums /\ Cat(Encoded, x) = Encoded
    BY <1>3
  <2> HIDE DEF x
  <2>4. DecodeBlock(version, Session, Cat(Encoded, x)).ok = TRUE
        /\ DecodeBlock(version, Session, Cat(Encoded, x)).txs = batch
    BY <1>1, <2>3, BlockRead
  <2> QED BY <1>4, <2>2, <2>3, <2>4
<1>5. CASE damage = "junk"
  <2> DEFINE x == One(0)
  <2>1. Append(Encoded, 0) = Cat(Encoded, x) /\ x \in Nums
    <3>1. x \in Nums
      BY OneIsNums
    <3>2. Append(Encoded, 0) = Cat(Encoded, x)
      BY <1>2, AppendIsConcat DEF Nums, Cat, One
    <3> QED BY <3>1, <3>2
  <2> HIDE DEF x
  <2>2. Cat(Encoded, x) \in Nums
    BY <1>2, <2>1, CatIsNums
  <2>3. block = Pad(Cat(Encoded, x)) /\ Fits(Cat(Encoded, x)) /\ Reader = Session
    BY <1>1, <1>5, <2>1 DEF Carries, Reader
  <2>4. got = DecodeBlock(version, Session, Cat(Encoded, x))
    BY <1>1, <2>2, <2>3, Unpadded
  <2>5. DecodeBlock(version, Session, Cat(Encoded, x)).ok = TRUE
        /\ DecodeBlock(version, Session, Cat(Encoded, x)).txs = batch
    BY <1>1, <2>1, BlockRead
  <2> QED BY <1>5, <2>4, <2>5
<1>6. CASE damage = "session"
  <2> DEFINE x == <<>>
  <2>1. block = Pad(Encoded) /\ Reader = OtherSession /\ OtherSession # Session
    BY <1>1, <1>6, SessionsAreNums DEF Carries, Reader
  <2>2. got = DecodeBlock(version, OtherSession, Encoded)
    BY <1>1, <1>2, <2>1, Unpadded
  <2>3. x \in Nums /\ Cat(Encoded, x) = Encoded
    BY <1>3
  <2> HIDE DEF x
  <2> DEFINE read == DecodeBlock(version, OtherSession, Cat(Encoded, x))
  <2>4. /\ version >= V7 \/ batch = <<>> => read.ok = TRUE /\ read.txs = batch
        /\ version < V7 /\ batch # <<>> => ~read.ok
    BY <1>1, <2>1, <2>3, BlockRead
  <2>5. got = read
    BY <2>2, <2>3
  <2> HIDE DEF read
  <2> QED BY <1>6, <2>4, <2>5
<1>7. CASE damage = "cut"
  <2>1. PICK n \in 0..(Len(Encoded) - 1) : block = Pad(SubSeq(Encoded, 1, n))
    BY <1>1, <1>7 DEF Carries
  <2>2. n \in Nat /\ n < Len(Encoded) /\ n \in 0..Len(Encoded)
    <3>1. Len(Encoded) \in Nat
      BY <1>2 DEF Nums
    <3> QED BY <3>1
  <2> DEFINE c == SubSeq(Encoded, 1, n)
  <2>3. c \in Nums /\ Len(c) = n
    BY <1>2, <2>2, CutIs
  <2>4. Fits(c)
    <3>1. n <= BlockSize - 2
      <4>1. Len(Encoded) <= BlockSize - 2 /\ Len(Encoded) \in Nat /\ BlockSize \in Nat
        BY <1>1, <1>2, WireAssumption DEF Fits, Nums
      <4> QED BY <2>2, <4>1
    <3> HIDE DEF c
    <3> QED BY <2>3, <3>1 DEF Fits
  <2>5. got = DecodeBlock(version, Reader, c)
    <3> HIDE DEF c
    <3> QED BY <1>1, <2>1, <2>3, <2>4, Unpadded DEF c
  <2>6. ~DecodeBlock(version, Reader, c).ok
    <3> DEFINE b == Bodies(version, Session, batch)
    <3>1. Measurable(Encoded)
      BY <1>1, <1>2, FitsIsMeasurable
    <3>2. b \in Seq(Nums) /\ Encoded = EncodeBlock(b) /\ Measurable(EncodeBlock(b))
          /\ n \in Nat /\ n < Len(EncodeBlock(b))
      BY <1>2, <2>2, <3>1
    <3>4. Len(b) <= MaxCount
      BY <1>1, <1>2 DEF Bodies
    <3> HIDE DEF b
    <3>3. ~DecodeBlock(version, Reader, SubSeq(EncodeBlock(b), 1, n)).ok
      BY <3>2, <3>4, DecodeCut
    <3> QED BY <3>2, <3>3
  <2> QED BY <1>7, <2>5, <2>6
<1> QED BY <1>1, <1>4, <1>5, <1>6, <1>7

-----------------------------------------------------------------------------
(* The properties.                                                         *)

\* Whatever was sent, and however long: read as it was written, transmission for
\* transmission, with or without bytes after it (EncodeBlock, WriteBlock, ReadBlock,
\* DecodeBlock).
THEOREM ReadsBack == Spec => []RoundTrip
<1>1. WireInv => RoundTrip
  BY ReadIs DEF RoundTrip
<1> QED BY <1>1, WireInvHolds, PTL

\* A cut block, and below v7 one of another session, gives nothing (DecodeBlock).
THEOREM RefusesDamage == Spec => []DamageIsRefused
<1>1. WireInv => DamageIsRefused
  BY ReadIs DEF DamageIsRefused
<1> QED BY <1>1, WireInvHolds, PTL

\* Whatever is taken is what was sent.
LEMMA TakenIsSent ==
    ASSUME WireInv, phase = "read", got.ok
    PROVE  got.txs = batch
<1>1. version \in Nat
  BY WireAssumption DEF WireInv, BatchInv
<1>2. version >= V7 \/ version < V7
  BY <1>1 DEF V7
<1> QED BY <1>2, ReadIs

LEMMA SessionEnds ==
    ASSUME NEW s1 \in Nums, NEW s2 \in Nums, NEW t \in Transmission,
           AuthBytes(s1, t) = AuthBytes(s2, t)
    PROVE  s1 = s2
<1> DEFINE c == encodeCorrID(t.corr)  e == Short(t.entity)  m == t.command
           r == Cat(c, Cat(e, m))
<1>1. c \in Nums /\ e \in Nums /\ m \in Nums
  BY FieldsAreNums, ShortIsNums DEF Transmission
<1>2. ASSUME NEW s \in Nums
      PROVE  AuthBytes(s, t) = Cat(Short(s), r) /\ r \in Nums
  <2>1. AuthBytes(s, t) = Cat(Cat(Cat(Short(s), c), e), m)
    BY DEF AuthBytes, Cat
  <2>2. Short(s) \in Nums
    BY ShortIsNums
  <2> HIDE DEF c, e, m
  <2> QED BY <1>1, <2>1, <2>2, Regroup
<1> HIDE DEF r
<1> QED BY <1>2, ShortEnds

LEMMA AuthBytesNums ==
    ASSUME NEW s \in Nums, NEW t \in Transmission
    PROVE  AuthBytes(s, t) \in Nums
<1> DEFINE a == Short(s)  c == encodeCorrID(t.corr)  e == Short(t.entity)  m == t.command
<1>1. a \in Nums /\ c \in Nums /\ e \in Nums /\ m \in Nums
  BY FieldsAreNums, ShortIsNums DEF Transmission
<1>2. AuthBytes(s, t) = Cat(Cat(Cat(a, c), e), m)
  BY DEF AuthBytes, Cat
<1> HIDE DEF a, c, e, m
<1>3. Cat(a, c) \in Nums
  BY <1>1, CatIsNums
<1>4. Cat(Cat(a, c), e) \in Nums
  BY <1>1, <1>3, CatIsNums
<1> QED BY <1>1, <1>2, <1>4, CatIsNums

\* The relay accepts what the client authorized, on its own session only.
LEMMA VerifiedIs ==
    ASSUME NEW v \in Versions, NEW r \in Requests, NEW t, t = Request(v, r), t.auth # <<>>
    PROVE  Verified(Session, t) /\ ~Verified(OtherSession, t)
<1> DEFINE a == AuthBytes(Session, t)  b == AuthBytes(OtherSession, t)
           k == r.key  c == t.corr
<1>1. /\ t \in Transmission /\ t.auth = Signed(v, r)
      /\ t.corr = r.corr /\ t.entity = r.entity /\ t.command = EncodeCommand(v, r.body)
  BY RequestIs
<1>2. AuthBytes(Session, Bare(v, r)) = a
  BY <1>1 DEF AuthBytes, Bare
<1>3. t.auth = Authorize(k, a, c) /\ k \in Keys /\ c \in CorrID
  BY <1>1, <1>2, AuthBytesAreNums DEF Signed
<1>4. a \in Nums /\ b \in Nums /\ a # b
  <2>1. a \in Nums /\ b \in Nums
    BY <1>1, SessionsAreNums, AuthBytesNums
  <2>2. a # b
    BY <1>1, SessionsAreNums, SessionEnds
  <2> QED BY <2>1, <2>2
<1>5. X25519DeriveShared(ServerKey, ClientKey) = X25519DeriveShared(ClientKey, ServerKey)
  <2> DEFINE x == ClientKey  y == ServerKey
  <2>1. x \in Nat /\ y \in Nat
    BY KeyAssumption
  <2> HIDE DEF x, y
  <2>2. x * y = y * x
    BY <2>1
  <2> QED BY <2>2 DEF X25519DeriveShared, x, y
<1>6. ASSUME NEW s
      PROVE  Verified(s, t) <=> \E l \in {"ed25519", "x25519"} :
                                    t.auth = Authorize(l, AuthBytes(s, t), c)
  <2> DEFINE d == AuthBytes(s, t)
  <2>1. Authorize("ed25519", d, c) = Sign(d)
    BY DEF Authorize
  <2>2. Authorize("x25519", d, c) = Seal(X25519DeriveShared(ClientKey, ServerKey), c, d)
    BY DEF Authorize
  <2>3. Verified(s, t) <=> t.auth = Sign(d)
                           \/ t.auth = Seal(X25519DeriveShared(ServerKey, ClientKey), c, d)
    BY DEF Verified, VerifyCbAuth
  <2> HIDE DEF d, c
  <2> QED BY <1>5, <2>1, <2>2, <2>3 DEF d
<1>7. k \in {"ed25519", "x25519"}
  <2>1. k \notin {"ed25519", "x25519"} => Authorize(k, a, c) = <<>>
    BY DEF Authorize
  <2> QED BY <1>3, <2>1
<1>8. Verified(Session, t)
  <2> HIDE DEF k, c
  <2> QED BY <1>3, <1>6, <1>7
<1>9. ~Verified(OtherSession, t)
  <2> SUFFICES ASSUME NEW l \in {"ed25519", "x25519"}, t.auth = Authorize(l, b, c)
               PROVE  FALSE
    BY <1>6
  <2> HIDE DEF a, b, c, k
  <2>1. l \in Keys /\ Authorize(k, a, c) = Authorize(l, b, c) /\ Authorize(k, a, c) # <<>>
    BY <1>3 DEF Keys
  <2>2. k \in Keys /\ l \in Keys /\ a \in Nums /\ b \in Nums /\ c \in CorrID
    BY <1>3, <1>4, <2>1
  <2>3. k = l /\ a = b
    BY <2>1, <2>2, AuthorizedOnceOnly
  <2> QED BY <1>4, <2>3
<1> QED BY <1>8, <1>9

\* What the relay decodes on its session verifies, whatever the command and the
\* key, and for no other session (authorize, VerifyCbAuth).
THEOREM Covers == Spec => []AuthorizationCovers
<1>1. WireInv => AuthorizationCovers
  <2> SUFFICES ASSUME WireInv, phase = "read", got.ok,
                      NEW i \in 1..Len(got.txs), got.txs[i].auth # <<>>
               PROVE  Verified(Session, got.txs[i]) /\ ~Verified(OtherSession, got.txs[i])
    BY DEF AuthorizationCovers
  <2>1. got.txs = batch
    BY TakenIsSent
  <2>2. BatchInv /\ i \in 1..Len(batch) /\ batch[i].auth # <<>>
    BY <2>1 DEF WireInv
  <2>3. PICK r \in Requests : batch[i] = Request(version, r) /\ sent[i] = Said(version, r)
    BY <2>2, Authentic
  <2>4. Verified(Session, batch[i]) /\ ~Verified(OtherSession, batch[i])
    BY <2>2, <2>3, VerifiedIs DEF BatchInv
  <2> QED BY <2>1, <2>4
<1> QED BY <1>1, WireInvHolds, PTL

\* Whatever the relay answers, in whatever version, is read as what it means
\* (DecodeBrokerMsg).
THEOREM ReadsAnswers == Spec => []AnswersAreRead
<1>1. WireInv => AnswersAreRead
  <2> SUFFICES ASSUME WireInv, phase = "read", side = "relay", got.ok,
                      NEW i \in 1..Len(got.txs)
               PROVE  DecodeBrokerMsg(version, got.txs[i].command) = sent[i].body
    BY DEF AnswersAreRead
  <2>1. got.txs = batch
    BY TakenIsSent
  <2>2. Wrote(side, version, batch[i], sent[i])
    BY <2>1 DEF WireInv, BatchInv
  <2>3. PICK r \in Answers : batch[i] = Answer(version, r) /\ sent[i] = Said(version, r)
    BY <2>2 DEF Wrote
  <2>4. batch[i].command = EncodeBrokerMsg(version, r.body)
    BY <2>3 DEF Answer
  <2>5. sent[i].body = Meaning(version, r.body) /\ r.body \in BrokerMsg \cup Malformed
    BY <2>3, AnswerIs
  <2>6. DecodeBrokerMsg(version, EncodeBrokerMsg(version, r.body)) = Meaning(version, r.body)
    BY <2>5, ReadAnswer
  <2> QED BY <2>1, <2>4, <2>5, <2>6
<1> QED BY <1>1, WireInvHolds, PTL
=============================================================================
