----------------------------- MODULE WatchProofs -----------------------------
(***************************************************************************)
(* Proofs about Watch: what is proved of the file in KoziProofs goes on to *)
(* hold with the user's edits, and what a tick of the daemon tells of.     *)
(***************************************************************************)
EXTENDS Watch, KoziProofs

-----------------------------------------------------------------------------
(* The file, as the daemon may find it.                                    *)

\* Only last_seen_grid changes.
Edited(n, g) == [LoadState EXCEPT !.buddies[IndexOf(LoadState, n)].seen = g]

LEMMA EditLeaves ==
    ASSUME Inv, NEW n \in Names, NEW g \in Grids, EditSeen(n, g)
    PROVE  Edited(n, g) \in States /\ NamesDiffer(Edited(n, g)) /\ Same(Edited(n, g), LoadState)
<1> DEFINE k == IndexOf(LoadState, n)
           s == Edited(n, g)
           old == LoadState.buddies
           b == [old[k] EXCEPT !.seen = g]
           new == [old EXCEPT ![k] = b]
<1>1. LoadState \in States /\ NamesDiffer(LoadState) /\ Has(LoadState, n)
  BY LoadedOK DEF EditSeen
<1>2. k \in 1..Len(old)
  BY <1>1, IndexOfName
<1>3. /\ old \in Seq(Buddies) /\ Len(old) \in Nat
      /\ \A i \in 1..Len(old) : old[i] \in Buddies
  BY <1>1, StateFields
<1>4. b \in Buddies /\ b.name = old[k].name
  BY <1>2, <1>3 DEF Buddies
<1>5. s = [LoadState EXCEPT !.buddies = new]
  BY <1>1 DEF States, Edited
<1>6. /\ new \in Seq(Buddies) /\ Len(new) = Len(old)
      /\ \A i \in 1..Len(old) : new[i] = IF i = k THEN b ELSE old[i]
  BY <1>2, <1>3, <1>4, ExceptSeq
<1> HIDE DEF s
<1>7. s \in States /\ s.buddies = new /\ s.loc = LoadState.loc
  BY <1>1, <1>5, <1>6 DEF States
<1>8. \A i \in 1..Len(new) : new[i].name = old[i].name
  BY <1>4, <1>6
<1> HIDE DEF new
<1>9. NamesDiffer(s)
  BY <1>1, <1>6, <1>7, <1>8 DEF NamesDiffer
<1>10. Told(s) = Told(LoadState)
  BY <1>6, <1>7, <1>8 DEF Told
<1> QED BY <1>7, <1>9, <1>10 DEF s, Same

LEMMA EditStep ==
    ASSUME Inv, NEW n \in Names, NEW g \in Grids, EditSeen(n, g)
    PROVE  Inv'
<1> DEFINE s == Edited(n, g)
<1>1. s \in States /\ NamesDiffer(s)
  BY EditLeaves
<1>2. file'.head = s /\ UNCHANGED <<pc, cmd, mem>>
  BY ContentHead DEF EditSeen, Edited
<1> HIDE DEF s
<1>3. Shape'
  BY <1>1, <1>2 DEF Inv, Shape, Running
<1>4. NoNameTwice'
  BY <1>1, <1>2 DEF Inv, NoNameTwice
<1> QED BY <1>3, <1>4 DEF Inv

\* The daemon only reads.
LEMMA Unchanged ==
    ASSUME Launch \/ Fire \/ Signal \/ Stop \/ Loop \/ Notifier
    PROVE  UNCHANGED vars
BY DEF Launch, Fire, Signal, Stop, Loop, LoadTick, Begin, Pass, Notify, TickDone, NextTick,
       Notifier, Notified, NotifyFails, EndTick, allvars

LEMMA ListStep == Inv /\ [WatchNext]_allvars => Inv'
<1> SUFFICES ASSUME Inv, [WatchNext]_allvars PROVE Inv'
  OBVIOUS
<1>1. CASE [Next]_vars
  BY <1>1, InvStep
<1>2. ASSUME NEW n \in Names, NEW g \in Grids, EditSeen(n, g) PROVE Inv'
  BY <1>2, EditStep
<1>3. CASE Launch \/ Fire \/ Signal \/ Stop \/ Loop \/ Notifier
  BY <1>3, Unchanged, InvStep
<1> QED BY <1>1, <1>2, <1>3 DEF WatchNext, allvars

\* Nothing is being saved when the user has an editor open on the file that can
\* be loaded, and the file can be loaded after.
LEMMA EditFile ==
    ASSUME SizeOK, Inv, FileInv, NEW n \in Names, NEW g \in Grids, EditSeen(n, g)
    PROVE  /\ FileInv'
           /\ LoadState # NoState /\ file' \in Files /\ Readable' /\ LoadState' = Edited(n, g)
<1> DEFINE s == Edited(n, g)
<1>1. s \in States /\ s # NoState /\ Size(s) \in Nat \ {0}
  BY EditLeaves, NothingAssumption DEF SizeOK
<1>2. file' = Content(s, Size(s)) /\ UNCHANGED <<pc, starts, spoiled>> /\ LoadState # NoState
  BY DEF EditSeen, Edited
<1> HIDE DEF s
<1>3. file' \in Files /\ file'.head = s /\ file'.size = Size(s)
  BY <1>1, <1>2 DEF Content, Files
<1>4. file' # NoFile
  BY <1>3, NothingAssumption
<1>5. Readable' /\ LoadState' = s
  BY <1>1, <1>3, <1>4 DEF Readable, LoadState
<1>6. spoiled \/ ~Saving
  <2>1. ASSUME ~spoiled, Saving PROVE FALSE
    <3>1. file = Content(NoState, 0)
      BY <2>1 DEF FileInv, Clean
    <3>2. file.head = NoState
      BY <3>1, ContentHead
    <3>3. ~Readable
      BY <2>1, <3>2 DEF FileInv, Readable
    <3> QED BY <1>2, <3>3, LoadedIsReadable
  <2> QED BY <2>1
<1>7. Saving' = Saving /\ \A r \in Procs : Writing(r)' = Writing(r)
  BY <1>2 DEF Saving, Writing
<1>8. Clean'
  BY <1>2, <1>5, <1>6, <1>7 DEF Clean, FileInv
<1>9. FileInv'
  BY <1>2, <1>3, <1>4, <1>8 DEF FileInv
<1> QED BY <1>2, <1>3, <1>5, <1>9 DEF s

LEMMA FileKept == SizeOK /\ Inv /\ FileInv /\ [WatchNext]_allvars => FileInv'
<1> SUFFICES ASSUME SizeOK, Inv, FileInv, [WatchNext]_allvars PROVE FileInv'
  OBVIOUS
<1>1. CASE [Next]_vars
  BY <1>1, FileStep
<1>2. ASSUME NEW n \in Names, NEW g \in Grids, EditSeen(n, g) PROVE FileInv'
  BY <1>2, EditFile
<1>3. CASE Launch \/ Fire \/ Signal \/ Stop \/ Loop \/ Notifier
  BY <1>3, <1>1, Unchanged
<1> QED BY <1>1, <1>2, <1>3 DEF WatchNext, allvars, vars

\* An edit is nothing to the store.
LEMMA EditStore ==
    ASSUME SizeOK, Inv, FileInv, Alone, NEW n \in Names, NEW g \in Grids, EditSeen(n, g)
    PROVE  Alone' /\ UNCHANGED Store!vars
<1> DEFINE s == Edited(n, g)
<1>1. LoadState # NoState /\ file' \in Files /\ Readable' /\ LoadState' = s
  BY EditFile
<1>2. s \in States /\ Same(s, LoadState) /\ s # NoState
  BY EditLeaves, NothingAssumption
<1>3. UNCHANGED <<pc, cmd, mem>>
  BY DEF EditSeen
<1> HIDE DEF s
<1>4. \A p \in Procs : ~Writing(p)
  <2>1. ASSUME NEW p \in Procs, Writing(p) PROVE FALSE
    <3>1. ~Lost /\ Saving /\ file = Content(NoState, 0)
      BY <2>1, Writer DEF Alone
    <3>2. ~Readable
      BY <3>1, ContentHead DEF FileInv, Readable
    <3> QED BY <1>1, <3>2, LoadedIsReadable
  <2> QED BY <2>1
<1>5. ~Saving /\ ~Saving'
  BY <1>3, <1>4 DEF Saving, Writing
<1>6. Alone'
  <2>1. ASSUME NEW p \in Procs, pc'[p] = "saving"
        PROVE  /\ LoadState' # NoState /\ cmd'[p].kind # "list"
               /\ \E t \in States : Same(t, LoadState') /\ Applied(cmd'[p], t, mem'[p])
    <3>1. /\ cmd[p].kind # "list"
          /\ \E t \in States : Same(t, LoadState) /\ Applied(cmd[p], t, mem[p])
      BY <1>3, <2>1 DEF Alone
    <3>2. \A t \in States : Same(t, LoadState) => Same(t, s)
      BY <1>2 DEF Same
    <3> QED BY <1>1, <1>2, <1>3, <3>1, <3>2
  <2>2. \A p, r \in Procs : Running(p)' /\ Running(r)' => p = r
    BY <1>3 DEF Alone, Running
  <2>3. \A p \in Procs : ~Writing(p)'
    BY <1>3, <1>4 DEF Writing
  <2> QED BY <2>1, <2>2, <2>3 DEF Alone
<1>7. Readable
  BY <1>1, LoadedIsReadable
<1>8. Lost' = Lost
  BY <1>1, <1>5, <1>7 DEF Lost
<1>9. Current = LoadState /\ Current' = s
  BY <1>1, <1>5 DEF Current
<1>10. paired' = paired /\ location' = location
  <2>1. ~Lost /\ ~Lost'
    BY <1>1, <1>7 DEF Lost
  <2>2. paired = Told(LoadState) /\ location = LoadState.loc
    BY <1>9, <2>1 DEF paired, location
  <2>3. paired' = Told(s) /\ location' = s.loc
    BY <1>9, <2>1 DEF paired, location, Told
  <2> QED BY <1>2, <2>2, <2>3 DEF Same
<1> QED BY <1>6, <1>8, <1>10, NoStep

LEMMA StoreKept ==
    Exclusive /\ SizeOK /\ Inv /\ FileInv /\ Alone /\ [WatchNext]_allvars =>
        Alone' /\ [Store!Next]_(Store!vars)
<1> SUFFICES ASSUME Exclusive, SizeOK, Inv, FileInv, Alone, [WatchNext]_allvars
             PROVE  Alone' /\ [Store!Next]_(Store!vars)
  OBVIOUS
<1>1. CASE [Next]_vars
  BY <1>1, AloneStep, StoreStep
<1>2. ASSUME NEW n \in Names, NEW g \in Grids, EditSeen(n, g)
      PROVE  Alone' /\ [Store!Next]_(Store!vars)
  BY <1>2, EditStore
<1>3. CASE Launch \/ Fire \/ Signal \/ Stop \/ Loop \/ Notifier
  BY <1>3, <1>1, Unchanged
<1> QED BY <1>1, <1>2, <1>3 DEF WatchNext, allvars, vars

\* A file that cannot be loaded is not edited by way of the program.
LEMMA StuckKept == Inv /\ [WatchNext]_allvars => (Stuck => Stuck' /\ file' = file)
<1> SUFFICES ASSUME Inv, [WatchNext]_allvars, Stuck PROVE Stuck' /\ file' = file
  OBVIOUS
<1>1. CASE [Next]_vars
  BY <1>1, StuckStep DEF Inv
<1>2. ASSUME NEW n \in Names, NEW g \in Grids, EditSeen(n, g) PROVE FALSE
  BY <1>2, LoadedIsReadable DEF EditSeen, Stuck
<1>3. CASE Launch \/ Fire \/ Signal \/ Stop \/ Loop \/ Notifier
  BY <1>3, <1>1, Unchanged
<1> QED BY <1>1, <1>2, <1>3 DEF WatchNext, allvars, vars

LEMMA ListInit == WatchInit => Init
BY DEF WatchInit

\* With the daemon running and the user's edits, too, the file has its type and
\* can be loaded between saves, stays as it is when it cannot, and is a KoziStore
\* for a user who runs one command at a time.
THEOREM TypesWatched == ASSUME SizeOK PROVE WatchSpec => []TypeOK
<1>1. Init => Inv /\ FileInv
  BY InvInit, FileInit
<1>2. Inv /\ FileInv /\ [WatchNext]_allvars => (Inv /\ FileInv)'
  BY ListStep, FileKept
<1>3. Inv /\ FileInv => TypeOK
  BY DEF Inv, Shape, PCs, FileInv, TypeOK
<1> QED BY <1>1, <1>2, <1>3, ListInit, PTL DEF WatchSpec

THEOREM ReadableWatched == ASSUME SizeOK PROVE WatchSpec => []ReadableAtRest
<1>1. Init => Inv /\ FileInv
  BY InvInit, FileInit
<1>2. Inv /\ FileInv /\ [WatchNext]_allvars => (Inv /\ FileInv)'
  BY ListStep, FileKept
<1>3. Inv /\ FileInv => ReadableAtRest
  BY DEF FileInv, Clean, ReadableAtRest
<1> QED BY <1>1, <1>2, <1>3, ListInit, PTL DEF WatchSpec

THEOREM UnreadableKeptWatched == WatchSpec => UnreadableIsKept
<1>1. Inv /\ [WatchNext]_allvars => [Stuck => Stuck' /\ file' = file]_vars
  BY StuckKept
<1> QED BY InvInit, ListStep, <1>1, ListInit, PTL DEF WatchSpec, UnreadableIsKept

THEOREM StoreWatched == ASSUME Exclusive, SizeOK PROVE WatchSpec => StoreSpec
<1>1. Init => Inv /\ FileInv /\ Alone /\ Store!Init
  BY InvInit, FileInit, AloneStart, StoreStart
<1>2. Inv /\ FileInv /\ Alone /\ [WatchNext]_allvars =>
          (Inv /\ FileInv /\ Alone)' /\ [Store!Next]_(Store!vars)
  BY ListStep, FileKept, StoreKept
<1> QED BY <1>1, <1>2, ListInit, PTL DEF WatchSpec, StoreSpec, Store!Spec

-----------------------------------------------------------------------------
(* A tick.                                                                 *)

ToldSet == {told[i] : i \in 1..Len(told)}
Before(k) == {view.buddies[j].name : j \in {i \in 1..(k - 1) : Matches(view.buddies[i], view)}}

\* In the middle of a tick the buddies before "at" have been dealt with, each
\* near one told of once.
TickInv ==
    /\ view \in States /\ NamesDiffer(view)
    /\ told \in Seq(Names)
    /\ at \in 1..(Len(view.buddies) + 1)
    /\ watch = "notifying" => at <= Len(view.buddies) /\ Matches(view.buddies[at], view)
    /\ InTick /\ watch # "loading" => ToldSet = Before(at)
    /\ OncePerTick

LEMMA ToldOfAppend ==
    ASSUME NEW t \in Seq(Names), NEW n \in Names
    PROVE  LET u == Append(t, n) IN
           /\ u \in Seq(Names) /\ Len(u) = Len(t) + 1
           /\ {u[i] : i \in 1..Len(u)} = {t[i] : i \in 1..Len(t)} \cup {n}
           /\ \A i \in 1..Len(t) : u[i] = t[i]
           /\ u[Len(t) + 1] = n
<1> DEFINE u == Append(t, n)
<1>1. /\ u \in Seq(Names) /\ Len(u) = Len(t) + 1 /\ Len(t) \in Nat
      /\ \A i \in 1..Len(t) : u[i] = t[i]
      /\ u[Len(t) + 1] = n
  BY AppendProperties, LenProperties
<1>2. 1..Len(u) = 1..Len(t) \cup {Len(t) + 1}
  BY <1>1
<1> HIDE DEF u
<1>3. {u[i] : i \in 1..Len(u)} = {t[i] : i \in 1..Len(t)} \cup {n}
  BY <1>1, <1>2
<1> QED BY <1>1, <1>3 DEF u

\* One buddy more: near, or not.
LEMMA BeforeNext ==
    ASSUME view \in States, NEW k \in 1..Len(view.buddies)
    PROVE  Before(k + 1) = Before(k) \cup
               (IF Matches(view.buddies[k], view) THEN {view.buddies[k].name} ELSE {})
<1>1. 1..((k + 1) - 1) = 1..(k - 1) \cup {k}
  BY StateFields
<1> QED BY <1>1 DEF Before

LEMMA BeginStep ==
    ASSUME Inv, Begin
    PROVE  TickInv'
<1>1. /\ view' = LoadState /\ at' = 1 /\ told' = <<>> /\ watch' = "looking"
      /\ LoadState \in States /\ NamesDiffer(LoadState)
  BY LoadedOK DEF Begin
<1>2. told' \in Seq(Names) /\ Len(told') = 0
  BY <1>1
<1>3. ToldSet' = {} /\ Before(1)' = {}
  BY <1>1, <1>2 DEF ToldSet, Before
<1>4. at' \in 1..(Len(view'.buddies) + 1)
  BY <1>1, StateFields
<1> QED BY <1>1, <1>2, <1>3, <1>4 DEF TickInv, OncePerTick

LEMMA NotifiedStep ==
    ASSUME TickInv, NEW n \in Names, Notified(n)
    PROVE  TickInv'
<1>1. /\ watch = "notifying" /\ view.buddies[at].name = n /\ view' = view
      /\ told' = Append(told, n) /\ at' = at + 1 /\ watch' = "looking"
  BY DEF Notified
<1>2. at \in 1..Len(view.buddies) /\ Matches(view.buddies[at], view)
  BY <1>1, StateFields DEF TickInv
<1>3. told \in Seq(Names) /\ view \in States /\ NamesDiffer(view) /\ ToldSet = Before(at)
  BY <1>1 DEF TickInv, InTick
<1>4. /\ told' \in Seq(Names) /\ Len(told') = Len(told) + 1 /\ Len(told) \in Nat
      /\ ToldSet' = ToldSet \cup {n}
      /\ \A i \in 1..Len(told) : told'[i] = told[i]
      /\ told'[Len(told) + 1] = n
  BY <1>1, <1>3, ToldOfAppend, LenProperties DEF ToldSet
<1>5. Before(at + 1) = Before(at) \cup {n}
  BY <1>1, <1>2, <1>3, BeforeNext
<1>6. ToldSet' = Before(at)'
  BY <1>1, <1>3, <1>4, <1>5 DEF Before, Matches
<1>7. n \notin Before(at)
  <2> SUFFICES ASSUME NEW j \in 1..(at - 1), view.buddies[j].name = n
               PROVE  FALSE
    BY DEF Before
  <2>1. j \in 1..Len(view.buddies) /\ j # at
    BY <1>2, <1>3, StateFields
  <2> QED BY <1>1, <1>2, <1>3, <2>1 DEF NamesDiffer
<1>8. \A i \in 1..Len(told) : told[i] # n
  BY <1>3, <1>7 DEF ToldSet
<1>9. OncePerTick'
  <2> SUFFICES ASSUME NEW i \in 1..Len(told'), NEW j \in 1..Len(told'), told'[i] = told'[j]
               PROVE  i = j
    BY DEF OncePerTick
  <2>1. CASE i \in 1..Len(told) /\ j \in 1..Len(told)
    BY <1>4, <2>1 DEF TickInv, OncePerTick
  <2>2. ~(i \in 1..Len(told) /\ j = Len(told) + 1) /\ ~(i = Len(told) + 1 /\ j \in 1..Len(told))
    BY <1>4, <1>8
  <2> QED BY <1>4, <2>1, <2>2
<1>10. at' \in 1..(Len(view'.buddies) + 1)
  BY <1>1, <1>2, <1>3, StateFields
<1> QED BY <1>1, <1>3, <1>4, <1>6, <1>9, <1>10 DEF TickInv

LEMMA PassStep ==
    ASSUME TickInv, Pass
    PROVE  TickInv'
<1>1. /\ watch = "looking" /\ watch' = "looking" /\ view' = view /\ told' = told
      /\ at' = at + 1 /\ ~Matches(view.buddies[at], view) /\ at <= Len(view.buddies)
  BY DEF Pass
<1>2. at \in 1..Len(view.buddies) /\ view \in States /\ ToldSet = Before(at)
  <2>1. at \in 1..(Len(view.buddies) + 1) /\ view \in States
    BY DEF TickInv
  <2>2. ToldSet = Before(at)
    BY <1>1 DEF TickInv, InTick
  <2> QED BY <1>1, <2>1, <2>2, StateFields
<1>3. Before(at + 1) = Before(at)
  BY <1>1, <1>2, BeforeNext
<1>4. ToldSet' = Before(at)'
  <2>1. ToldSet' = ToldSet
    BY <1>1 DEF ToldSet
  <2>2. Before(at)' = Before(at + 1)
    BY <1>1 DEF Before, Matches
  <2> QED BY <1>2, <1>3, <2>1, <2>2
<1>5. Len(view.buddies) \in Nat /\ view'.buddies = view.buddies
  BY <1>1, <1>2, StateFields
<1>6. at' \in 1..(Len(view'.buddies) + 1)
  BY <1>1, <1>2, <1>5
<1>7. OncePerTick' /\ NamesDiffer(view)' /\ view' \in States /\ told' \in Seq(Names)
  BY <1>1 DEF TickInv, OncePerTick
<1> QED BY <1>1, <1>4, <1>6, <1>7 DEF TickInv

LEMMA TickStep == Inv /\ TickInv /\ [WatchNext]_allvars => TickInv'
<1> SUFFICES ASSUME Inv, TickInv, [WatchNext]_allvars PROVE TickInv'
  OBVIOUS
<1>1. CASE Begin
  BY <1>1, BeginStep
<1>2. ASSUME NEW n \in Names, Notified(n) PROVE TickInv'
  BY <1>2, NotifiedStep
<1>3. CASE Pass
  BY <1>3, PassStep
<1>4. CASE Notify
  <2>1. /\ watch = "looking" /\ watch' = "notifying"
        /\ at <= Len(view.buddies) /\ Matches(view.buddies[at], view)
        /\ view' = view /\ at' = at /\ told' = told
    BY <1>4 DEF Notify
  <2>2. ToldSet' = Before(at)'
    BY <2>1 DEF TickInv, InTick, ToldSet, Before, Matches
  <2>3. OncePerTick' /\ NamesDiffer(view)' /\ Matches(view.buddies[at], view)'
    BY <2>1 DEF TickInv, OncePerTick, Matches
  <2> QED BY <2>1, <2>2, <2>3 DEF TickInv
<1>5. CASE Launch \/ LoadTick \/ NotifyFails \/ TickDone \/ NextTick \/ Stop
  <2>1. UNCHANGED <<view, at, told>> /\ watch' \in {"loading", "waiting", "stopped"}
    BY <1>5 DEF Launch, LoadTick, NotifyFails, TickDone, NextTick, Stop, EndTick
  <2>2. OncePerTick' /\ NamesDiffer(view)'
    BY <2>1 DEF TickInv, OncePerTick
  <2>3. ~(InTick /\ watch # "loading")'
    BY <2>1 DEF InTick
  <2> QED BY <2>1, <2>2, <2>3 DEF TickInv
<1>6. CASE UNCHANGED <<watch, view, at, told>>
  <2>1. OncePerTick' /\ NamesDiffer(view)' /\ InTick' = InTick
    BY <1>6 DEF TickInv, OncePerTick, InTick
  <2>2. ToldSet' = ToldSet /\ Before(at)' = Before(at)
    BY <1>6 DEF ToldSet, Before, Matches
  <2>3. Matches(view.buddies[at], view)' = Matches(view.buddies[at], view)
    BY <1>6 DEF Matches
  <2> QED BY <1>6, <2>1, <2>2, <2>3 DEF TickInv
<1>7. ASSUME NEW n \in Names, NEW g \in Grids, EditSeen(n, g)
      PROVE  UNCHANGED <<watch, view, at, told>>
  BY <1>7 DEF EditSeen
<1>8. CASE Fire \/ Signal \/ (Next /\ UNCHANGED wvars) \/ UNCHANGED allvars
  BY <1>6, <1>8 DEF Fire, Signal, wvars, allvars
<1> QED BY <1>1, <1>2, <1>3, <1>4, <1>5, <1>6, <1>7, <1>8 DEF WatchNext, Loop, Notifier

LEMMA WatchInvariant == WatchSpec => [](Inv /\ TickInv)
<1>1. WatchInit => Inv
  BY InvInit DEF WatchInit
<1>2. WatchInit => TickInv
  <2> SUFFICES ASSUME WatchInit PROVE TickInv
    OBVIOUS
  <2>1. view = EmptyState /\ at = 1 /\ told = <<>> /\ watch = "off"
    BY DEF WatchInit
  <2>2. told \in Seq(Names) /\ Len(told) = 0
    BY <2>1
  <2>3. at \in 1..(Len(view.buddies) + 1)
    BY <2>1, EmptyStateOK, StateFields
  <2> QED BY <2>1, <2>2, <2>3, EmptyStateOK DEF TickInv, InTick, OncePerTick
<1> QED BY <1>1, <1>2, ListStep, TickStep, PTL DEF WatchSpec

\* With the daemon running and the user editing, too, no name is paired twice.
THEOREM NoNameTwiceWatched == WatchSpec => []NoNameTwice
<1>1. Inv => NoNameTwice
  BY DEF Inv
<1> QED BY WatchInvariant, <1>1, PTL

\* No buddy is notified of twice in a tick.
THEOREM OncePerTickAlways == WatchSpec => []OncePerTick
<1>1. TickInv => OncePerTick
  BY DEF TickInv
<1> QED BY WatchInvariant, <1>1, PTL

\* A tick without a failed notification tells of all who were near when it
\* loaded the file, and of nobody else.
THEOREM WholeTickAlways == WatchSpec => WholeTick
<1> DEFINE Near == {view.buddies[i].name :
                      i \in {j \in 1..Len(view.buddies) : Matches(view.buddies[j], view)}}
<1>1. ASSUME TickInv, [WatchNext]_allvars, watch = "looking", watch' = "waiting"
      PROVE  ToldSet = Near
  <2>1. CASE TickDone
    <3>1. at > Len(view.buddies) /\ view \in States /\ at \in 1..(Len(view.buddies) + 1)
      BY <1>1, <2>1 DEF TickDone, TickInv
    <3>2. at - 1 = Len(view.buddies)
      BY <3>1, StateFields
    <3> QED BY <1>1, <3>2 DEF TickInv, InTick, Before
  <2>2. TickDone
    BY <1>1 DEF WatchNext, Launch, Fire, Signal, Stop, Loop, LoadTick, Begin, Pass, Notify,
                NextTick, Notifier, Notified, NotifyFails, EditSeen, wvars, allvars
  <2> QED BY <2>1, <2>2
<1>2. TickInv /\ [WatchNext]_allvars =>
          [watch = "looking" /\ watch' = "waiting" => ToldSet = Near]_allvars
  BY <1>1
<1>3. [][watch = "looking" /\ watch' = "waiting" => ToldSet = Near]_allvars => WholeTick
  BY DEF WholeTick, ToldSet
<1> QED BY WatchInvariant, <1>2, <1>3, PTL DEF WatchSpec
=============================================================================
