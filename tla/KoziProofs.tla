----------------------------- MODULE KoziProofs -----------------------------
(***************************************************************************)
(* Proofs about KoziState, for any shells, names, grids and number of      *)
(* commands: that no name gets into the list twice, when the file can be   *)
(* loaded, and that one command at a time makes it a KoziStore.            *)
(***************************************************************************)
EXTENDS KoziState, SequenceTheorems, TLAPS

-----------------------------------------------------------------------------
(* Applying a command to a state.                                          *)

LEMMA StateFields ==
    ASSUME NEW s \in States
    PROVE  /\ s.loc \in CoarseGrids /\ s.buddies \in Seq(Buddies)
           /\ Len(s.buddies) \in Nat
           /\ \A i \in 1..Len(s.buddies) : s.buddies[i] \in Buddies
BY DEF States

LEMMA EmptyStateOK == EmptyState \in States /\ NamesDiffer(EmptyState)
<1>1. NoGrid \in CoarseGrids
  BY KoziAssumption DEF CoarseGrids
<1>2. <<>> \in Seq(Buddies) /\ Len(<<>>) = 0
  OBVIOUS
<1> QED BY <1>1, <1>2 DEF EmptyState, States, NamesDiffer

\* In a list without repetitions the buddy that unpair picks is the one of that
\* name.
LEMMA IndexOfName ==
    ASSUME NEW s \in States, NamesDiffer(s), NEW n, Has(s, n)
    PROVE  IndexOf(s, n) \in 1..Len(s.buddies) /\ s.buddies[IndexOf(s, n)].name = n
<1>1. PICK i \in 1..Len(s.buddies) : s.buddies[i].name = n
  BY DEF Has
<1>2. \A j \in 1..(i - 1) : s.buddies[j].name # n
  BY <1>1, StateFields DEF NamesDiffer
<1> QED BY <1>1, <1>2 DEF IndexOf

\* What is left of a sequence, and where its elements come from.
LEMMA WithoutProperties ==
    ASSUME NEW S, NEW seq \in Seq(S), NEW i \in 1..Len(seq)
    PROVE  /\ Without(seq, i) \in Seq(S)
           /\ Len(Without(seq, i)) = Len(seq) - 1
           /\ \A j \in 1..(Len(seq) - 1) :
                 Without(seq, i)[j] = seq[IF j < i THEN j ELSE j + 1]
<1> DEFINE front == SubSeq(seq, 1, i - 1)
           back == SubSeq(seq, i + 1, Len(seq))
<1>1. Len(seq) \in Nat /\ \A j \in 1..Len(seq) : seq[j] \in S
  BY ElementOfSeq
<1>2. /\ front \in Seq(S) /\ Len(front) = i - 1
      /\ \A j \in 1..(i - 1) : front[j] = seq[j]
  BY <1>1, SubSeqProperties
<1>3. /\ back \in Seq(S) /\ Len(back) = Len(seq) - i
      /\ \A j \in 1..(Len(seq) - i) : back[j] = seq[i + j]
  BY <1>1, SubSeqProperties
<1>4. Without(seq, i) = front \o back
  BY DEF Without
<1>5. /\ front \o back \in Seq(S)
      /\ Len(front \o back) = Len(front) + Len(back)
      /\ \A j \in 1..(Len(front) + Len(back)) :
            (front \o back)[j] = IF j <= Len(front) THEN front[j] ELSE back[j - Len(front)]
  BY <1>2, <1>3, ConcatProperties
<1>6. ASSUME NEW j \in 1..(Len(seq) - 1)
      PROVE  (front \o back)[j] = seq[IF j < i THEN j ELSE j + 1]
  <2> HIDE DEF front, back
  <2>1. CASE j < i
    BY <1>1, <1>2, <1>3, <1>5, <2>1
  <2>2. CASE ~(j < i)
    <3>1. j - (i - 1) \in 1..(Len(seq) - i) /\ i + (j - (i - 1)) = j + 1
      BY <1>1, <2>2
    <3>2. (front \o back)[j] = back[j - (i - 1)]
      BY <1>1, <1>2, <1>3, <1>5, <2>2
    <3> QED BY <1>3, <2>2, <3>1, <3>2
  <2> QED BY <2>1, <2>2
<1> HIDE DEF front, back
<1> QED BY <1>1, <1>2, <1>3, <1>4, <1>5, <1>6

\* A command that is accepted leaves a state, and one without repetitions.
LEMMA ApplyOK ==
    ASSUME NEW s \in States, NamesDiffer(s),
           NEW c \in Commands, c.kind # "list", Accepted(c, s)
    PROVE  Apply(c, s) \in States /\ NamesDiffer(Apply(c, s))
<1>1. CASE c.kind = "pair"
  <2>1. c.arg \in Names
    BY <1>1 DEF Commands
  <2>2. Buddy(c.arg) \in Buddies /\ Buddy(c.arg).name = c.arg
    BY <2>1 DEF Buddy, Buddies
  <2> DEFINE longer == Append(s.buddies, Buddy(c.arg))
  <2>3. /\ longer \in Seq(Buddies) /\ Len(longer) = Len(s.buddies) + 1
        /\ \A i \in 1..Len(s.buddies) : longer[i] = s.buddies[i]
        /\ longer[Len(s.buddies) + 1] = Buddy(c.arg)
    BY <2>2, StateFields, AppendProperties
  <2>4. \A i \in 1..Len(s.buddies) : s.buddies[i].name # c.arg
    BY <1>1 DEF Accepted, Has
  <2>5. Apply(c, s) = [s EXCEPT !.buddies = longer]
    BY <1>1 DEF Apply
  <2> HIDE DEF longer
  <2>6. Apply(c, s) \in States /\ Apply(c, s).buddies = longer
    BY <2>3, <2>5, StateFields DEF States
  <2>7. ASSUME NEW i \in 1..Len(longer), NEW j \in 1..Len(longer),
               longer[i].name = longer[j].name
        PROVE  i = j
    <3> DEFINE n == Len(s.buddies)
    <3>1. n \in Nat /\ Len(longer) = n + 1
      BY <2>3, StateFields
    <3>2. CASE i \in 1..n /\ j \in 1..n
      BY <2>3, <2>7, <3>2 DEF NamesDiffer
    <3>3. ~(i \in 1..n /\ j = n + 1) /\ ~(i = n + 1 /\ j \in 1..n)
      BY <2>2, <2>3, <2>4, <2>7
    <3> HIDE DEF n
    <3> QED BY <3>1, <3>2, <3>3
  <2> QED BY <2>6, <2>7 DEF NamesDiffer
<1>2. CASE c.kind = "unpair"
  <2> DEFINE k == IndexOf(s, c.arg)
             shorter == Without(s.buddies, k)
  <2>1. k \in 1..Len(s.buddies)
    BY <1>2, IndexOfName DEF Accepted
  <2>2. /\ shorter \in Seq(Buddies) /\ Len(shorter) = Len(s.buddies) - 1
        /\ \A j \in 1..(Len(s.buddies) - 1) :
              shorter[j] = s.buddies[IF j < k THEN j ELSE j + 1]
    BY <2>1, StateFields, WithoutProperties
  <2>3. Apply(c, s) = [s EXCEPT !.buddies = shorter]
    BY <1>2 DEF Apply
  <2> HIDE DEF k, shorter
  <2>4. Apply(c, s) \in States /\ Apply(c, s).buddies = shorter
    BY <2>2, <2>3, StateFields DEF States
  <2>5. ASSUME NEW i \in 1..Len(shorter), NEW j \in 1..Len(shorter),
               shorter[i].name = shorter[j].name
        PROVE  i = j
    <3> DEFINE a == IF i < k THEN i ELSE i + 1
               b == IF j < k THEN j ELSE j + 1
    <3>1. Len(s.buddies) \in Nat /\ i \in 1..(Len(s.buddies) - 1) /\ j \in 1..(Len(s.buddies) - 1)
      BY <2>1, <2>2, <2>5, StateFields
    <3>2. a \in 1..Len(s.buddies) /\ b \in 1..Len(s.buddies)
      BY <2>1, <3>1
    <3>3. s.buddies[a].name = s.buddies[b].name
      BY <2>2, <2>5, <3>1
    <3> HIDE DEF a, b
    <3>4. a = b
      BY <3>2, <3>3 DEF NamesDiffer
    <3> QED BY <2>1, <3>1, <3>4 DEF a, b
  <2> QED BY <2>4, <2>5 DEF NamesDiffer
<1>3. CASE c.kind = "set-location"
  <2>1. c.arg \in Grids
    BY <1>3 DEF Commands
  <2>2. normalizePlusCode(c.arg) \in CoarseGrids
    BY <2>1 DEF CoarseGrids, normalizePlusCode
  <2>3. Apply(c, s) = [s EXCEPT !.loc = normalizePlusCode(c.arg)]
    BY <1>3 DEF Apply
  <2>4. Apply(c, s) \in States /\ Apply(c, s).buddies = s.buddies
    BY <2>2, <2>3, StateFields DEF States
  <2> QED BY <2>4 DEF NamesDiffer
<1> QED BY <1>1, <1>2, <1>3 DEF Commands

-----------------------------------------------------------------------------
(* The inductive invariant: what is in the file and what each command is   *)
(* about to write are states without repetitions.  A list checked and      *)
(* written by one command stays so however stale it is by then, which is   *)
(* why the interleaving does no harm to this.                              *)

PCs == {"idle", "start", "saving", "writing", "done", "failed", "crashed"}

Shape ==
    /\ pc \in [Procs -> PCs]
    /\ cmd \in [Procs -> Commands \cup {NoState}]
    /\ mem \in [Procs -> States \cup {NoState}]
    /\ \A p \in Procs : Running(p) => cmd[p] \in Commands
    /\ \A p \in Procs : pc[p] \in {"saving", "writing"} => mem[p] \in States
    /\ file # NoFile => file.head \in States \cup {NoState}

Inv == Shape /\ NoNameTwice

LEMMA LoadedOK ==
    ASSUME Inv, LoadState # NoState
    PROVE  LoadState \in States /\ NamesDiffer(LoadState)
<1>1. CASE file = NoFile
  BY <1>1, EmptyStateOK DEF LoadState
<1>2. CASE file # NoFile
  <2>1. LoadState = file.head /\ file.head # NoState
    BY <1>2 DEF LoadState
  <2> QED BY <1>2, <2>1 DEF Inv, Shape, NoNameTwice
<1> QED BY <1>1, <1>2

LEMMA InvInit == Init => Inv
<1> SUFFICES ASSUME Init PROVE Inv
  OBVIOUS
<1>1. Shape
  BY DEF Init, Shape, PCs, Running
<1>2. NoNameTwice
  BY DEF Init, NoNameTwice
<1> QED BY <1>1, <1>2 DEF Inv

LEMMA ContentHead == \A h, n : Content(h, n).head = h
BY DEF Content

\* The steps of a command that leave the file and the memories alone, and bring
\* nobody nearer to a write.
LEMMA Harmless ==
    ASSUME Inv, NEW p \in Procs, UNCHANGED <<file, cmd, mem>>,
           NEW at \in PCs \ {"start", "saving", "writing"}, Goto(p, at)
    PROVE  Inv'
<1>1. /\ pc' \in [Procs -> PCs]
      /\ \A r \in Procs : pc'[r] \in {"start", "saving", "writing"} => pc'[r] = pc[r]
  BY DEF Goto, Inv, Shape
<1>2. Shape'
  BY <1>1 DEF Inv, Shape, Running
<1>3. NoNameTwice'
  BY <1>1 DEF Inv, Shape, NoNameTwice
<1> QED BY <1>2, <1>3 DEF Inv

LEMMA StartStep ==
    ASSUME Inv, NEW p \in Procs, NEW c \in Commands, Start(p, c)
    PROVE  Inv'
<1>1. /\ pc' \in [Procs -> PCs] /\ pc'[p] = "start"
      /\ \A r \in Procs : r # p => pc'[r] = pc[r] /\ cmd'[r] = cmd[r]
      /\ cmd' \in [Procs -> Commands \cup {NoState}] /\ cmd'[p] = c
      /\ file' = file /\ mem' = mem
  BY DEF Start, Goto, Inv, Shape, PCs
<1>2. Shape'
  BY <1>1 DEF Inv, Shape, Running
<1>3. NoNameTwice'
  BY <1>1 DEF Inv, Shape, NoNameTwice
<1> QED BY <1>2, <1>3 DEF Inv

LEMMA ChangeStep ==
    ASSUME Inv, NEW p \in Procs, Change(p)
    PROVE  Inv'
<1> DEFINE s == Apply(cmd[p], LoadState)
<1>1. cmd[p] \in Commands
  BY DEF Change, Running, Inv, Shape
<1>2. s \in States /\ NamesDiffer(s)
  BY <1>1, LoadedOK, ApplyOK DEF Change
<1>3. /\ pc' \in [Procs -> PCs] /\ pc'[p] = "saving"
      /\ mem' = [mem EXCEPT ![p] = s]
      /\ \A r \in Procs : r # p => pc'[r] = pc[r]
      /\ file' = file /\ cmd' = cmd
  BY DEF Change, Goto, Inv, Shape, PCs
<1> HIDE DEF s
<1>4. /\ mem' \in [Procs -> States \cup {NoState}] /\ mem'[p] = s
      /\ \A r \in Procs : r # p => mem'[r] = mem[r]
  BY <1>2, <1>3 DEF Inv, Shape
<1>5. Shape'
  BY <1>1, <1>2, <1>3, <1>4 DEF Inv, Shape, Running
<1>6. NoNameTwice'
  BY <1>2, <1>3, <1>4 DEF Inv, Shape, NoNameTwice
<1> QED BY <1>5, <1>6 DEF Inv

LEMMA TruncateStep ==
    ASSUME Inv, NEW p \in Procs, Truncate(p)
    PROVE  Inv'
<1>1. /\ pc' \in [Procs -> PCs] /\ pc[p] = "saving" /\ pc'[p] = "writing"
      /\ \A r \in Procs : r # p => pc'[r] = pc[r]
      /\ file' = Content(NoState, 0) /\ cmd' = cmd /\ mem' = mem
  BY DEF Truncate, Truncated, Goto, Inv, Shape, PCs
<1>2. file'.head = NoState
  BY <1>1, ContentHead
<1>3. Shape'
  BY <1>1, <1>2 DEF Inv, Shape, Running
<1>4. NoNameTwice'
  BY <1>1, <1>2 DEF Inv, Shape, NoNameTwice
<1> QED BY <1>3, <1>4 DEF Inv

\* The command is over; the file is as before, spoiled, or what it had to write.
LEMMA WriteStep ==
    ASSUME Inv, NEW p \in Procs, Write(p) \/ WriteShort(p)
    PROVE  Inv'
<1>1. /\ pc' \in [Procs -> PCs]
      /\ \A r \in Procs : pc'[r] \in {"start", "saving", "writing"} => pc'[r] = pc[r]
      /\ pc[p] = "writing" /\ cmd' = cmd /\ mem' = mem
  BY DEF Write, WriteShort, Goto, Inv, Shape, PCs
<1>2. file' = file \/ file'.head = NoState \/ file'.head = mem[p]
  BY ContentHead DEF Write, WriteShort
<1>3. mem[p] \in States /\ NamesDiffer(mem[p])
  BY <1>1 DEF Inv, Shape, NoNameTwice
<1>4. Shape'
  BY <1>1, <1>2, <1>3 DEF Inv, Shape, Running
<1>5. NoNameTwice'
  BY <1>1, <1>2, <1>3 DEF Inv, Shape, NoNameTwice
<1> QED BY <1>4, <1>5 DEF Inv

LEMMA InvStep == Inv /\ [Next]_vars => Inv'
<1> SUFFICES ASSUME Inv, [Next]_vars PROVE Inv'
  OBVIOUS
<1>1. ASSUME NEW p \in Procs, NEW c \in Commands, Start(p, c) PROVE Inv'
  BY <1>1, StartStep
<1>2. ASSUME NEW p \in Procs,
             Refuse(p) \/ LoadFails(p) \/ Reject(p) \/ List(p) \/ SaveRefused(p) \/ Crash(p)
      PROVE  Inv'
  <2>1. UNCHANGED <<file, cmd, mem>> /\ \E at \in {"failed", "done", "crashed"} : Goto(p, at)
    BY <1>2 DEF Refuse, LoadFails, Reject, List, SaveRefused, Crash
  <2> QED BY <2>1, Harmless DEF PCs
<1>3. ASSUME NEW p \in Procs, Change(p) PROVE Inv'
  BY <1>3, ChangeStep
<1>4. ASSUME NEW p \in Procs, Truncate(p) PROVE Inv'
  BY <1>4, TruncateStep
<1>5. ASSUME NEW p \in Procs, Write(p) \/ WriteShort(p) PROVE Inv'
  BY <1>5, WriteStep
<1>6. CASE UNCHANGED vars
  BY <1>6 DEF vars, Inv, Shape, NoNameTwice, Running, NamesDiffer
<1> QED BY <1>1, <1>2, <1>3, <1>4, <1>5, <1>6 DEF Next, Command

\* However many commands overlap, and wherever they are killed, no name is
\* paired twice.
THEOREM NoNameTwiceAlways == Spec => []NoNameTwice
<1>1. Inv => NoNameTwice
  BY DEF Inv
<1> QED BY InvInit, InvStep, <1>1, PTL DEF Spec

-----------------------------------------------------------------------------
(* A file that cannot be loaded.                                           *)

\* Only a command that has loaded a state writes, and none loads this one.
LEMMA StuckStep ==
    ASSUME Shape, Stuck, [Next]_vars
    PROVE  Stuck' /\ file' = file
<1>1. LoadState = NoState
  BY DEF Stuck, LoadState, Readable
<1>2. ASSUME NEW p \in Procs, NEW c \in Commands, Start(p, c)
      PROVE  file' = file /\ pc' = [pc EXCEPT ![p] = "start"]
  BY <1>2 DEF Start, Goto
<1>3. ASSUME NEW p \in Procs, Command(p) \/ Crash(p)
      PROVE  file' = file /\ \E at \in {"failed", "done", "crashed"} : pc' = [pc EXCEPT ![p] = at]
  BY <1>1, <1>3 DEF Command, Refuse, LoadFails, Reject, List, Change, SaveRefused, Truncate,
                    Write, WriteShort, Crash, Running, Stuck, Goto
<1>4. file' = file /\ \A p \in Procs : pc'[p] \notin {"saving", "writing"}
  <2>1. CASE UNCHANGED vars
    BY <2>1 DEF vars, Stuck
  <2>2. CASE Next
    <3>1. PICK p \in Procs : (\E c \in Commands : Start(p, c)) \/ Command(p) \/ Crash(p)
      BY <2>2 DEF Next
    <3>2. file' = file
          /\ \E at \in {"start", "failed", "done", "crashed"} : pc' = [pc EXCEPT ![p] = at]
      BY <1>2, <1>3, <3>1
    <3> QED BY <3>2 DEF Stuck, Shape
  <2> QED BY <2>1, <2>2
<1> QED BY <1>4 DEF Stuck, Readable

\* What is left of an unreadable file stays as it is, whatever commands follow.
THEOREM UnreadableKept == Spec => UnreadableIsKept
<1>1. Inv /\ [Next]_vars => (Stuck => Stuck' /\ file' = file)
  BY StuckStep DEF Inv
<1>2. Inv /\ [Next]_vars => [Stuck => Stuck' /\ file' = file]_vars
  BY <1>1
<1> QED BY InvInit, InvStep, <1>2, PTL DEF Spec, UnreadableIsKept

-----------------------------------------------------------------------------
(* The file, when the length of a text is a number.                        *)

SizeOK == \A s \in States : Size(s) \in Nat \ {0}

Writing(p) == pc[p] = "writing"

\* One save at a time, and from its truncation to its write the file is empty;
\* otherwise it can be loaded.
Clean ==
    ~spoiled =>
        /\ \A p, r \in Procs : Writing(p) /\ Writing(r) => p = r
        /\ Saving => file = Content(NoState, 0)
        /\ ~Saving => Readable

FileInv ==
    /\ file \in {NoFile} \cup Files
    /\ starts \in 0..MaxStarts
    /\ spoiled \in BOOLEAN
    /\ Saving => file # NoFile
    /\ Clean

LEMMA SavingWriting == Saving <=> \E p \in Procs : Writing(p)
BY DEF Saving, Writing

LEMMA FileInit == Init => FileInv
<1> SUFFICES ASSUME Init PROVE FileInv
  OBVIOUS
<1>1. ~Saving
  BY DEF Init, Saving
<1>2. Readable
  BY DEF Init, Readable
<1>3. \A p, r \in Procs : ~(Writing(p) /\ Writing(r))
  BY DEF Init, Writing
<1>4. Clean
  BY <1>1, <1>2, <1>3 DEF Clean
<1>5. starts \in 0..MaxStarts /\ spoiled \in BOOLEAN /\ file = NoFile
  <2>1. MaxStarts \in Nat
    BY KoziAssumption
  <2>2. starts = 0 /\ file = NoFile
    BY DEF Init
  <2>3. spoiled = FALSE
    BY DEF Init
  <2>4. starts \in 0..MaxStarts
    BY <2>1, <2>2
  <2>5. spoiled \in BOOLEAN
    BY <2>3
  <2> QED BY <2>2, <2>4, <2>5
<1> QED BY <1>1, <1>4, <1>5 DEF FileInv

\* The steps that neither touch the file nor open nor leave a save.
LEMMA Aside ==
    ASSUME FileInv, UNCHANGED <<file, spoiled>>, starts' \in 0..MaxStarts,
           \A r \in Procs : Writing(r)' = Writing(r)
    PROVE  FileInv'
<1>1. Saving' = Saving /\ Readable' = Readable
  BY DEF Saving, Writing, Readable
<1>2. Clean'
  BY <1>1 DEF FileInv, Clean
<1> QED BY <1>1, <1>2 DEF FileInv

\* What a step of p does to who is writing.
LEMMA Moves ==
    ASSUME Shape, NEW p \in Procs, NEW at \in PCs, Goto(p, at)
    PROVE  /\ Writing(p)' = (at = "writing")
           /\ \A r \in Procs \ {p} : Writing(r)' = Writing(r)
BY DEF Shape, Goto, Writing

LEMMA FileStep ==
    ASSUME SizeOK, Inv, FileInv, [Next]_vars
    PROVE  FileInv'
<1>1. ASSUME NEW p \in Procs, NEW c \in Commands, Start(p, c)
      PROVE  FileInv'
  <2>1. ~Writing(p) /\ Goto(p, "start") /\ "start" \in PCs
    BY <1>1 DEF Start, Running, Writing, PCs
  <2>2. \A r \in Procs : Writing(r)' = Writing(r)
    BY <2>1, Moves DEF Inv, Writing
  <2>3. starts' \in 0..MaxStarts /\ UNCHANGED <<file, spoiled>>
    BY <1>1, KoziAssumption DEF Start, FileInv
  <2> QED BY <2>2, <2>3, Aside
<1>2. ASSUME NEW p \in Procs,
             Refuse(p) \/ LoadFails(p) \/ Reject(p) \/ List(p) \/ Change(p) \/ SaveRefused(p)
                 \/ (Crash(p) /\ ~Writing(p))
      PROVE  FileInv'
  <2>1. PICK at \in {"failed", "done", "saving", "crashed"} : Goto(p, at)
    BY <1>2 DEF Refuse, LoadFails, Reject, List, Change, SaveRefused, Crash
  <2>2. ~Writing(p)
    BY <1>2 DEF Refuse, LoadFails, Reject, List, Change, SaveRefused, Writing
  <2>3. \A r \in Procs : Writing(r)' = Writing(r)
    BY <2>1, <2>2, Moves DEF Inv, PCs, Writing
  <2>4. UNCHANGED <<file, starts>>
    BY <1>2 DEF Refuse, LoadFails, Reject, List, Change, SaveRefused, Crash
  <2>5. spoiled' = spoiled
    BY <1>2 DEF Refuse, LoadFails, Reject, List, Change, SaveRefused, Crash, FileInv, Writing
  <2> QED BY <2>3, <2>4, <2>5, Aside DEF FileInv
<1>3. ASSUME NEW p \in Procs, Crash(p), Writing(p)
      PROVE  FileInv'
  <2>1. spoiled' = TRUE /\ UNCHANGED <<file, starts>>
    BY <1>3 DEF Crash, Writing, FileInv
  <2>2. file # NoFile
    BY <1>3 DEF FileInv, Saving, Writing
  <2> QED BY <2>1, <2>2 DEF FileInv, Clean
<1>4. ASSUME NEW p \in Procs, Truncate(p)
      PROVE  FileInv'
  <2>1. file' = Content(NoState, 0) /\ file' \in Files
    BY <1>4 DEF Truncate, Truncated, Content, Files
  <2>2. Writing(p)' /\ \A r \in Procs \ {p} : Writing(r)' = Writing(r)
    BY <1>4, Moves DEF Truncate, Inv, PCs, Writing
  <2>3. Saving'
    BY <2>2 DEF Saving, Writing
  <2>4. spoiled' = (spoiled \/ Saving) /\ starts' = starts
    BY <1>4 DEF Truncate
  <2>5. ~spoiled' => \A r \in Procs \ {p} : ~Writing(r)'
    BY <2>2, <2>4, SavingWriting
  <2>6. Clean'
    BY <2>1, <2>3, <2>5 DEF Clean
  <2> QED BY <2>1, <2>4, <2>6, NothingAssumption DEF FileInv
<1>5. ASSUME NEW p \in Procs, Write(p)
      PROVE  FileInv'
  <2>1. mem[p] \in States /\ Size(mem[p]) \in Nat \ {0} /\ mem[p] # NoState
    BY <1>5, NothingAssumption DEF Write, Inv, Shape, SizeOK
  <2>2. file # NoFile => file.size \in Nat
    BY DEF FileInv, Files
  <2>3. /\ UNCHANGED <<starts, spoiled>>
        /\ file' = Content(mem[p], IF file.size > Size(mem[p]) THEN file.size ELSE Size(mem[p]))
    BY <1>5 DEF Write
  <2>4. file # NoFile
    BY <1>5 DEF Write, FileInv, Saving
  <2>5. file' \in Files
    BY <2>1, <2>2, <2>3, <2>4 DEF Content, Files
  <2>6. ~Writing(p)' /\ \A r \in Procs \ {p} : Writing(r)' = Writing(r)
    BY <1>5, Moves DEF Write, Inv, PCs
  <2>7. ASSUME ~spoiled' PROVE ~Saving' /\ Readable' /\ \A r \in Procs : ~Writing(r)'
    <3>1. ~spoiled /\ Saving /\ \A r \in Procs \ {p} : ~Writing(r)
      BY <1>5, <2>3, <2>7 DEF FileInv, Clean, Write, Saving, Writing
    <3>2. ~Saving' /\ \A r \in Procs : ~Writing(r)'
      BY <2>6, <3>1 DEF Saving, Writing
    <3>3. file = Content(NoState, 0)
      BY <3>1 DEF FileInv, Clean
    <3>4. file' = Content(mem[p], Size(mem[p]))
      BY <2>1, <2>3, <3>3 DEF Content
    <3>5. file'.head = mem[p] /\ file'.size = Size(mem[p])
      BY <3>4 DEF Content
    <3>6. Readable'
      BY <2>1, <3>5 DEF Readable
    <3> QED BY <3>2, <3>6
  <2>8. Clean'
    BY <2>7 DEF Clean
  <2> QED BY <2>3, <2>5, <2>8, NothingAssumption DEF FileInv
<1>6. ASSUME NEW p \in Procs, WriteShort(p)
      PROVE  FileInv'
  <2> DEFINE n == IF file.size > Size(mem[p]) THEN file.size ELSE Size(mem[p]) - 1
  <2>1. Size(mem[p]) \in Nat \ {0}
    BY <1>6 DEF WriteShort, Inv, Shape, SizeOK
  <2>2. file \in Files /\ file.size \in Nat
    BY <1>6 DEF WriteShort, FileInv, Saving, Files
  <2>3. n \in Nat
    BY <2>1, <2>2
  <2>4. starts' = starts /\ spoiled' = TRUE /\ file' \in {file, Content(NoState, n)}
    BY <1>6 DEF WriteShort
  <2> HIDE DEF n
  <2>5. file' \in Files
    BY <2>2, <2>3, <2>4 DEF Content, Files
  <2> QED BY <2>4, <2>5, NothingAssumption DEF FileInv, Clean
<1>7. CASE UNCHANGED vars
  BY <1>7, Aside DEF vars, FileInv, Writing
<1> QED BY <1>1, <1>2, <1>3, <1>4, <1>5, <1>6, <1>7 DEF Next, Command

\* The file and the memories have their types.
THEOREM Types == ASSUME SizeOK PROVE Spec => []TypeOK
<1>1. Init => Inv /\ FileInv
  BY InvInit, FileInit
<1>2. Inv /\ FileInv /\ [Next]_vars => (Inv /\ FileInv)'
  BY InvStep, FileStep
<1>3. Inv /\ FileInv => TypeOK
  BY DEF Inv, Shape, PCs, FileInv, TypeOK
<1> QED BY <1>1, <1>2, <1>3, PTL DEF Spec

\* Between saves the file can be loaded, unless a save was cut short or began
\* during another.
THEOREM ReadableBetweenSaves == ASSUME SizeOK PROVE Spec => []ReadableAtRest
<1>1. Init => Inv /\ FileInv
  BY InvInit, FileInit
<1>2. Inv /\ FileInv /\ [Next]_vars => (Inv /\ FileInv)'
  BY InvStep, FileStep
<1>3. Inv /\ FileInv => ReadableAtRest
  BY DEF FileInv, Clean, ReadableAtRest
<1> QED BY <1>1, <1>2, <1>3, PTL DEF Spec

-----------------------------------------------------------------------------
(* One command at a time: the file is a KoziStore.                         *)

Told(s) == {s.buddies[i].name : i \in 1..Len(s.buddies)}

paired == IF Lost THEN {} ELSE Told(Current)
location == IF Lost THEN NoGrid ELSE Current.loc

\* A user's edit changes neither.
Same(s, t) == Told(s) = Told(t) /\ s.loc = t.loc

Applied(c, s, t) == NamesDiffer(s) /\ Accepted(c, s) /\ t = Apply(c, s)

\* No other command changes the file between a command's load and its save, nor
\* anything between the save's two steps.
Alone ==
    /\ \A p, r \in Procs : Running(p) /\ Running(r) => p = r
    /\ \A p \in Procs : pc[p] = "saving" =>
           /\ LoadState # NoState /\ cmd[p].kind # "list"
           /\ \E s \in States : Same(s, LoadState) /\ Applied(cmd[p], s, mem[p])
    /\ \A p \in Procs : Writing(p) => file = Content(NoState, 0)

LEMMA LoadedIsReadable == LoadState # NoState <=> Readable
<1>1. EmptyState # NoState
  BY EmptyStateOK, NothingAssumption
<1> QED BY <1>1 DEF LoadState, Readable

\* The writer is the one whose state counts.
LEMMA Writer ==
    ASSUME Alone, NEW p \in Procs, Writing(p)
    PROVE  Saving /\ ~Lost /\ Current = mem[p] /\ paired = Told(mem[p]) /\ location = mem[p].loc
<1>1. Saving
  BY DEF Saving, Writing
<1>2. \A r \in Procs : pc[r] = "writing" => r = p
  BY DEF Alone, Running, Writing
<1>3. (CHOOSE r \in Procs : pc[r] = "writing") = p
  BY <1>2 DEF Writing
<1> QED BY <1>1, <1>3 DEF Current, Lost, paired, location

LEMMA Writers ==
    \A p \in Procs : Alone /\ Writing(p) =>
        ~Lost /\ paired = Told(mem[p]) /\ location = mem[p].loc
BY Writer

LEMMA WritersAfter ==
    \A p \in Procs : Alone' /\ Writing(p)' =>
        ~Lost' /\ paired' = Told(mem'[p]) /\ location' = mem'[p].loc
<1>1. (\A p \in Procs : Alone /\ Writing(p) =>
          ~Lost /\ paired = Told(mem[p]) /\ location = mem[p].loc)'
  BY Writers, PTL
<1> QED BY <1>1 DEF Told

LEMMA AtRest ==
    ASSUME ~Saving
    PROVE  Lost = ~Readable /\ Current = LoadState
BY DEF Lost, Current

LEMMA StoreStart == Init => Store!Init
<1> SUFFICES ASSUME Init PROVE Store!Init
  OBVIOUS
<1>1. ~Saving /\ Readable /\ LoadState = EmptyState
  BY DEF Init, Saving, Readable, LoadState
<1>2. ~Lost /\ Current = EmptyState
  BY <1>1, AtRest
<1>3. EmptyState.loc = NoGrid /\ Len(EmptyState.buddies) = 0
  BY DEF EmptyState
<1> QED BY <1>2, <1>3 DEF Store!Init

\* What the accepted commands do to the set of names and to the location.
LEMMA PairTells ==
    ASSUME NEW s \in States, NEW n \in Names, NEW t, t = [s EXCEPT !.buddies = Append(@, Buddy(n))],
           ~Has(s, n)
    PROVE  Told(t) = Told(s) \cup {n} /\ n \notin Told(s) /\ t.loc = s.loc
<1> DEFINE longer == Append(s.buddies, Buddy(n))
           k == Len(s.buddies)
<1>1. t.buddies = longer /\ t.loc = s.loc
  BY StateFields DEF States
<1>2. /\ Len(longer) = k + 1 /\ k \in Nat
      /\ \A i \in 1..k : longer[i] = s.buddies[i]
      /\ longer[k + 1].name = n
  <2>1. Buddy(n) \in Buddies /\ Buddy(n).name = n
    BY DEF Buddy, Buddies
  <2> QED BY <2>1, StateFields, AppendProperties
<1> HIDE DEF longer
<1>3. Told(t) = Told(s) \cup {n}
  <2>1. ASSUME NEW x \in Told(t) PROVE x \in Told(s) \cup {n}
    <3>1. PICK i \in 1..Len(longer) : x = longer[i].name
      BY <1>1, <2>1 DEF Told
    <3>2. CASE i \in 1..k
      BY <1>2, <3>1, <3>2 DEF Told
    <3>3. CASE i = k + 1
      BY <1>2, <3>1, <3>3
    <3> QED BY <1>2, <3>1, <3>2, <3>3
  <2>2. ASSUME NEW x \in Told(s) PROVE x \in Told(t)
    <3>1. PICK i \in 1..k : x = s.buddies[i].name
      BY <2>2 DEF Told
    <3>2. i \in 1..Len(longer) /\ x = longer[i].name
      BY <1>2, <3>1
    <3> QED BY <1>1, <3>2 DEF Told
  <2>3. n \in Told(t)
    <3>1. k + 1 \in 1..Len(longer) /\ longer[k + 1].name = n
      BY <1>2
    <3> HIDE DEF k
    <3> QED BY <1>1, <3>1 DEF Told
  <2> QED BY <2>1, <2>2, <2>3
<1>4. n \notin Told(s)
  BY DEF Has, Told
<1> QED BY <1>1, <1>3, <1>4

LEMMA UnpairTells ==
    ASSUME NEW s \in States, NamesDiffer(s), NEW n, Has(s, n),
           NEW t, t = [s EXCEPT !.buddies = Without(@, IndexOf(s, n))]
    PROVE  Told(t) = Told(s) \ {n} /\ n \in Told(s) /\ t.loc = s.loc
<1> DEFINE k == IndexOf(s, n)
           shorter == Without(s.buddies, k)
           m == Len(s.buddies)
<1>1. t.buddies = shorter /\ t.loc = s.loc
  BY StateFields DEF States
<1>2. k \in 1..m /\ s.buddies[k].name = n /\ m \in Nat
  BY IndexOfName, StateFields
<1>3. /\ Len(shorter) = m - 1
      /\ \A j \in 1..(m - 1) : shorter[j] = s.buddies[IF j < k THEN j ELSE j + 1]
  BY <1>2, StateFields, WithoutProperties
<1> HIDE DEF shorter, k
<1>4. n \in Told(s)
  BY <1>2 DEF Told
<1>5. ASSUME NEW x \in Told(t) PROVE x \in Told(s) \ {n}
  <2>1. PICK j \in 1..Len(shorter) : x = shorter[j].name
    BY <1>1, <1>5 DEF Told
  <2> DEFINE i == IF j < k THEN j ELSE j + 1
  <2>2. i \in 1..m /\ i # k /\ x = s.buddies[i].name
    BY <1>2, <1>3, <2>1
  <2> HIDE DEF i
  <2>3. x # n
    BY <1>2, <2>2 DEF NamesDiffer
  <2> QED BY <2>2, <2>3 DEF Told
<1>6. ASSUME NEW x \in Told(s) \ {n} PROVE x \in Told(t)
  <2>1. PICK i \in 1..m : x = s.buddies[i].name
    BY <1>6 DEF Told
  <2>2. i # k
    BY <1>2, <1>6, <2>1
  <2> DEFINE j == IF i < k THEN i ELSE i - 1
  <2>3. j \in 1..(m - 1) /\ (IF j < k THEN j ELSE j + 1) = i
    BY <1>2, <2>1, <2>2
  <2> HIDE DEF j, m
  <2>4. j \in 1..Len(shorter) /\ shorter[j] = s.buddies[i]
    BY <1>3, <2>3
  <2> QED BY <1>1, <2>1, <2>4 DEF Told
<1> QED BY <1>1, <1>4, <1>5, <1>6

LEMMA AloneStart == Init => Alone
BY DEF Init, Alone, Running, Writing

LEMMA AloneStep ==
    ASSUME Exclusive, Inv, Alone, [Next]_vars
    PROVE  Alone'
<1>1. ASSUME NEW p \in Procs, NEW c \in Commands, Start(p, c) PROVE Alone'
  <2>1. \A r \in Procs : ~Running(r)
    BY <1>1 DEF Start
  <2>2. pc'[p] = "start" /\ \A r \in Procs \ {p} : pc'[r] = pc[r]
    BY <1>1 DEF Start, Goto, Inv, Shape
  <2>3. \A r \in Procs : Running(r)' => r = p
    BY <2>1, <2>2 DEF Running
  <2>4. \A r \in Procs : pc'[r] # "saving" /\ ~Writing(r)'
    BY <2>2, <2>3 DEF Running, Writing
  <2> QED BY <2>3, <2>4 DEF Alone
\* Of a step by p nobody else is running after it.
<1>2. ASSUME NEW p \in Procs, Running(p), NEW at \in PCs, Goto(p, at)
      PROVE  pc'[p] = at /\ \A r \in Procs : Running(r)' => r = p
  <2>1. \A r \in Procs \ {p} : ~Running(r)
    BY <1>2 DEF Alone
  <2>2. pc'[p] = at /\ \A r \in Procs \ {p} : pc'[r] = pc[r]
    BY <1>2 DEF Goto, Inv, Shape
  <2> QED BY <2>1, <2>2 DEF Running
<1>3. ASSUME NEW p \in Procs,
             Refuse(p) \/ LoadFails(p) \/ Reject(p) \/ List(p) \/ SaveRefused(p) \/ Write(p)
                 \/ WriteShort(p) \/ Crash(p)
      PROVE  Alone'
  <2>1. Running(p) /\ \E at \in {"failed", "done", "crashed"} : Goto(p, at)
    BY <1>3 DEF Refuse, LoadFails, Reject, List, SaveRefused, Write, WriteShort, Crash, Running
  <2>2. \A r \in Procs : ~Running(r)'
    BY <1>2, <2>1 DEF PCs, Running
  <2> QED BY <2>2 DEF Alone, Running, Writing
<1>4. ASSUME NEW p \in Procs, Change(p) PROVE Alone'
  <2>1. pc'[p] = "saving" /\ \A r \in Procs : Running(r)' => r = p
    BY <1>2, <1>4 DEF Change, Running, PCs
  <2>2. /\ LoadState # NoState /\ cmd[p].kind # "list" /\ Accepted(cmd[p], LoadState)
        /\ mem'[p] = Apply(cmd[p], LoadState)
        /\ cmd' = cmd /\ file' = file
    BY <1>4 DEF Change, Inv, Shape
  <2>5. LoadState \in States /\ Same(LoadState, LoadState) /\ Applied(cmd[p], LoadState, mem'[p])
    BY <2>2, LoadedOK DEF Same, Applied
  <2>3. LoadState' = LoadState
    BY <2>2 DEF LoadState, Readable
  <2>4. \A r \in Procs : ~Writing(r)' /\ (pc'[r] = "saving" => r = p)
    BY <2>1 DEF Running, Writing
  <2>6. \E s \in States : Same(s, LoadState') /\ Applied(cmd'[p], s, mem'[p])
    BY <2>2, <2>3, <2>5
  <2>7. ASSUME NEW r \in Procs, pc'[r] = "saving"
        PROVE  /\ LoadState' # NoState /\ cmd'[r].kind # "list"
               /\ \E s \in States : Same(s, LoadState') /\ Applied(cmd'[r], s, mem'[r])
    BY <2>2, <2>3, <2>4, <2>6, <2>7
  <2> QED BY <2>1, <2>4, <2>7 DEF Alone
<1>5. ASSUME NEW p \in Procs, Truncate(p) PROVE Alone'
  <2>1. pc'[p] = "writing" /\ \A r \in Procs : Running(r)' => r = p
    BY <1>2, <1>5 DEF Truncate, Running, PCs
  <2>2. file' = Content(NoState, 0)
    BY <1>5 DEF Truncate, Truncated
  <2>3. \A r \in Procs : pc'[r] # "saving"
    BY <2>1 DEF Running
  <2> QED BY <2>1, <2>2, <2>3 DEF Alone
<1>6. CASE UNCHANGED vars
  <2>1. LoadState' = LoadState
    BY <1>6 DEF vars, LoadState, Readable
  <2> QED BY <1>6, <2>1 DEF vars, Alone, Running, Writing
<1> QED BY <1>1, <1>3, <1>4, <1>5, <1>6 DEF Next, Command

\* Steps of the store, in terms of the mapping.
LEMMA PairStep ==
    ASSUME NEW n \in Names, ~Lost, ~Lost', n \notin paired,
           paired' = paired \cup {n}, location' = location
    PROVE  Store!Next
<1>1. Lost' = Lost
  BY DEF Lost
<1>2. Store!Pair(n)
  BY <1>1 DEF Store!Pair, paired, location, Told
<1> QED BY <1>2 DEF Store!Next

LEMMA UnpairStep ==
    ASSUME NEW n \in Names, ~Lost, ~Lost', n \in paired,
           paired' = paired \ {n}, location' = location
    PROVE  Store!Next
<1>1. Lost' = Lost
  BY DEF Lost
<1>2. Store!Unpair(n)
  BY <1>1 DEF Store!Unpair, paired, location, Told
<1> QED BY <1>2 DEF Store!Next

LEMMA LocationStep ==
    ASSUME NEW g \in Grids, ~Lost, ~Lost', paired' = paired, location' = Coarse[g]
    PROVE  Store!Next
<1>1. Lost' = Lost
  BY DEF Lost
<1>2. Store!SetLocation(g)
  BY <1>1 DEF Store!SetLocation, paired, location, Told
<1> QED BY <1>2 DEF Store!Next

LEMMA LoseStep ==
    ASSUME ~Lost, Lost'
    PROVE  Store!Next
<1>1. Store!Lose
  BY DEF Store!Lose
<1> QED BY <1>1 DEF Store!Next

LEMMA NoStep ==
    ASSUME Lost' = Lost, paired' = paired, location' = location
    PROVE  UNCHANGED Store!vars
BY DEF Store!vars, paired, location, Told

\* A truncation is the command.
LEMMA TruncateTells ==
    ASSUME SizeOK, Inv, Alone, NEW p \in Procs, Truncate(p), Alone'
    PROVE  Store!Next
<1>1. Running(p) /\ pc[p] = "saving" /\ cmd[p] \in Commands /\ LoadState # NoState
      /\ cmd[p].kind # "list"
  BY DEF Truncate, Running, Alone, Inv, Shape
<1>2. PICK s \in States : Same(s, LoadState) /\ Applied(cmd[p], s, mem[p])
  BY <1>1 DEF Alone
<1>3. ~Saving
  BY <1>1 DEF Alone, Running, Saving
<1>4. NamesDiffer(s) /\ Accepted(cmd[p], s) /\ mem[p] = Apply(cmd[p], s)
  BY <1>2 DEF Applied
<1>5. ~Lost /\ paired = Told(s) /\ location = s.loc
  BY <1>1, <1>2, <1>3, AtRest, LoadedIsReadable DEF paired, location, Same
<1>6. Writing(p)' /\ mem' = mem
  BY DEF Truncate, Goto, Inv, Shape, Writing
<1>7. ~Lost' /\ paired' = Told(mem[p]) /\ location' = mem[p].loc
  BY <1>6, WritersAfter
<1>8. CASE cmd[p].kind = "pair"
  <2>1. cmd[p].arg \in Names /\ ~Has(s, cmd[p].arg)
    BY <1>1, <1>4, <1>8 DEF Commands, Accepted
  <2>2. mem[p] = [s EXCEPT !.buddies = Append(@, Buddy(cmd[p].arg))]
    BY <1>1, <1>4, <1>8 DEF Apply
  <2>3. Told(mem[p]) = Told(s) \cup {cmd[p].arg} /\ cmd[p].arg \notin Told(s)
        /\ mem[p].loc = s.loc
    BY <1>4, <2>1, <2>2, PairTells
  <2> QED BY <1>5, <1>7, <2>1, <2>3, PairStep
<1>9. CASE cmd[p].kind = "unpair"
  <2>1. cmd[p].arg \in Names /\ Has(s, cmd[p].arg)
    BY <1>1, <1>4, <1>9 DEF Commands, Accepted
  <2>2. mem[p] = [s EXCEPT !.buddies = Without(@, IndexOf(s, cmd[p].arg))]
    BY <1>1, <1>4, <1>9 DEF Apply
  <2>3. Told(mem[p]) = Told(s) \ {cmd[p].arg} /\ cmd[p].arg \in Told(s)
        /\ mem[p].loc = s.loc
    BY <1>4, <2>1, <2>2, UnpairTells
  <2> QED BY <1>5, <1>7, <2>1, <2>3, UnpairStep
<1>20. CASE cmd[p].kind = "set-location"
  <2>1. cmd[p].arg \in Grids
    BY <1>1, <1>4, <1>20 DEF Commands
  <2>2. mem[p] = [s EXCEPT !.loc = Coarse[cmd[p].arg]]
    BY <1>1, <1>4, <1>20 DEF Apply, normalizePlusCode
  <2>3. mem[p].buddies = s.buddies /\ mem[p].loc = Coarse[cmd[p].arg]
    BY <1>4, <2>2 DEF States
  <2>4. Told(mem[p]) = Told(s)
    BY <2>3 DEF Told
  <2> QED BY <1>5, <1>7, <2>1, <2>3, <2>4, LocationStep
<1> QED BY <1>1, <1>8, <1>9, <1>20 DEF Commands

LEMMA StoreStep ==
    ASSUME Exclusive, SizeOK, Inv, FileInv, Alone, [Next]_vars
    PROVE  [Store!Next]_(Store!vars)
\* Steps which neither touch the file nor begin or end a save.
<1>1. ASSUME file' = file, ~Saving, ~Saving' PROVE UNCHANGED Store!vars
  <2>1. Readable' = Readable /\ LoadState' = LoadState
    BY <1>1 DEF Readable, LoadState
  <2>2. Lost' = Lost /\ Current' = Current
    BY <1>1, <2>1 DEF Lost, Current
  <2> QED BY <2>2, NoStep DEF paired, location, Told
<1>2. ASSUME NEW p \in Procs, NEW c \in Commands, Start(p, c) PROVE UNCHANGED Store!vars
  <2>1. /\ \A r \in Procs : ~Running(r) /\ pc'[r] \in {pc[r], "start"}
        /\ file' = file
    BY <1>2 DEF Start, Goto, Inv, Shape
  <2>2. ~Saving /\ ~Saving'
    BY <2>1 DEF Saving, Running
  <2> QED BY <1>1, <2>1, <2>2
\* A step by p: nobody else is saving.
<1>3. ASSUME NEW p \in Procs, Running(p)
      PROVE  \A r \in Procs \ {p} : pc[r] # "writing"
  BY <1>3 DEF Alone, Running
<1>4. ASSUME NEW p \in Procs,
             Refuse(p) \/ LoadFails(p) \/ Reject(p) \/ List(p) \/ Change(p) \/ SaveRefused(p)
                 \/ (Crash(p) /\ ~Writing(p))
      PROVE  UNCHANGED Store!vars
  <2>1. /\ Running(p) /\ pc[p] # "writing" /\ file' = file
        /\ \E at \in {"failed", "done", "saving", "crashed"} : Goto(p, at)
    BY <1>4 DEF Refuse, LoadFails, Reject, List, Change, SaveRefused, Crash, Writing, Running
  <2>2. \A r \in Procs : pc'[r] \in {pc[r], "failed", "done", "saving", "crashed"}
    BY <2>1 DEF Goto, Inv, Shape
  <2>3. \A r \in Procs : pc[r] # "writing"
    BY <1>3, <2>1
  <2>4. ~Saving /\ ~Saving'
    BY <2>2, <2>3 DEF Saving
  <2> QED BY <1>1, <2>1, <2>4
<1>5. ASSUME NEW p \in Procs, Truncate(p) PROVE Store!Next
  BY <1>5, AloneStep, TruncateTells
<1>6. ASSUME NEW p \in Procs, Write(p) \/ WriteShort(p) \/ (Crash(p) /\ Writing(p))
      PROVE  /\ Writing(p) /\ file = Content(NoState, 0) /\ ~Saving'
             /\ mem[p] \in States /\ Size(mem[p]) \in Nat \ {0}
             /\ ~Lost /\ paired = Told(mem[p]) /\ location = mem[p].loc
  <2>1. pc[p] = "writing" /\ \E at \in {"failed", "done", "crashed"} : Goto(p, at)
    BY <1>6 DEF Write, WriteShort, Crash, Writing
  <2>2. pc'[p] # "writing" /\ \A r \in Procs \ {p} : pc'[r] = pc[r]
    BY <2>1 DEF Goto, Inv, Shape
  <2>3. ~Saving'
    BY <1>3, <2>1, <2>2 DEF Saving, Running
  <2>4. mem[p] \in States /\ Size(mem[p]) \in Nat \ {0}
    BY <2>1 DEF Inv, Shape, SizeOK
  <2> QED BY <2>1, <2>3, <2>4, Writers DEF Writing, Alone
<1>7. ASSUME NEW p \in Procs, Write(p) PROVE UNCHANGED Store!vars
  <2>1. file' = Content(mem[p], Size(mem[p]))
    BY <1>6, <1>7 DEF Write, Content
  <2>2. file' # NoFile /\ file'.head = mem[p] /\ file'.size = Size(mem[p]) /\ mem[p] # NoState
    BY <1>6, <1>7, <2>1, NothingAssumption DEF Content, Files
  <2>3. Readable' /\ LoadState' = mem[p]
    BY <2>2 DEF Readable, LoadState
  <2>4. ~Lost' /\ Current' = mem[p]
    BY <1>6, <1>7, <2>3 DEF Lost, Current
  <2>5. paired' = paired /\ location' = location /\ ~Lost
    BY <1>6, <1>7, <2>4 DEF paired, location, Told
  <2>6. Lost' = Lost
    BY <2>4, <2>5 DEF Lost
  <2> QED BY <2>5, <2>6, NoStep
<1>8. ASSUME NEW p \in Procs, WriteShort(p) \/ (Crash(p) /\ Writing(p)) PROVE Store!Next
  <2> DEFINE n == IF file.size > Size(mem[p]) THEN file.size ELSE Size(mem[p]) - 1
  <2>1. file' = file \/ file' = Content(NoState, n)
    BY <1>8 DEF WriteShort, Crash
  <2>2. file = Content(NoState, 0) /\ ~Saving' /\ ~Lost /\ Size(mem[p]) \in Nat \ {0}
    BY <1>6, <1>8
  <2>3. file'.head = NoState
    <3> HIDE DEF n
    <3> QED BY <2>1, <2>2, ContentHead
  <2>4. n \in Nat
    BY <2>2 DEF Content
  <2>5. file' # NoFile
    <3> HIDE DEF n
    <3> QED BY <2>1, <2>2, <2>4, NothingAssumption DEF Content, Files
  <2>6. Lost'
    BY <2>2, <2>3, <2>5 DEF Lost, Readable
  <2> QED BY <2>2, <2>6, LoseStep
<1>9. CASE UNCHANGED vars
  <2>1. Saving' = Saving /\ Readable' = Readable /\ LoadState' = LoadState /\ mem' = mem /\ pc' = pc
    BY <1>9 DEF vars, Saving, Readable, LoadState
  <2>2. Lost' = Lost /\ Current' = Current
    BY <2>1 DEF Lost, Current
  <2> QED BY <2>2, NoStep DEF paired, location, Told
<1> QED BY <1>2, <1>4, <1>5, <1>7, <1>8, <1>9 DEF Next, Command

\* A user who runs one command at a time sees whole commands, in order, until a
\* save that was cut short loses everything.
THEOREM StoreImplemented == ASSUME Exclusive, SizeOK PROVE Spec => StoreSpec
<1>1. Init => Inv /\ FileInv /\ Alone
  BY InvInit, FileInit, AloneStart
<1>2. Inv /\ FileInv /\ Alone /\ [Next]_vars => (Inv /\ FileInv /\ Alone)'
  BY InvStep, FileStep, AloneStep
<1>3. Inv /\ FileInv /\ Alone /\ [Next]_vars => [Store!Next]_(Store!vars)
  BY StoreStep
<1> QED BY <1>1, <1>2, <1>3, StoreStart, PTL DEF Spec, StoreSpec, Store!Spec
=============================================================================
