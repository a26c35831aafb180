----------------------------- MODULE ConnProofs -----------------------------
(***************************************************************************)
(* Proof about Conn, for any number of goroutines and any timeouts.        *)
(***************************************************************************)
EXTENDS Conn, TLAPS

\* Whose deadline it is has been past applyWriteDeadline and not yet past
\* clearWriteDeadline: while it is still to set its deadline, a goroutine is no
\* reason for the connection to have one.
Owned ==
    deadline # 0 => \E p \in Writers : pc[p] \notin {"idle", "calling"} /\ due[p] = deadline

Inv == TypeOK /\ Owned

LEMMA InvInit == Init => Inv
<1>1. Init => TypeOK
  <2> SUFFICES ASSUME Init PROVE TypeOK
    OBVIOUS
  <2>1. now \in Nat /\ deadline \in Nat /\ broken \in BOOLEAN
    BY DEF Init
  <2>2. pc \in [Writers -> {"idle", "calling", "queueing", "writing", "leaving"}]
    BY DEF Init
  <2>3. due \in [Writers -> Nat] /\ failed \in [Writers -> {"no", "timeout", "error", "broken"}]
    BY DEF Init
  <2> QED BY <2>1, <2>2, <2>3 DEF TypeOK
<1>2. Init => Owned
  BY DEF Init, Owned
<1> QED BY <1>1, <1>2 DEF Inv

\* A goroutine that is at work and whose step leaves "due" and the connection's
\* deadline alone goes on owning what it owned.
LEMMA StillOwned ==
    ASSUME Inv, UNCHANGED <<due, deadline>>,
           \A p \in Writers : pc[p] \notin {"idle", "calling"} => pc'[p] \notin {"idle", "calling"}
    PROVE  Owned'
BY DEF Inv, Owned

LEMMA TypeStep == TypeOK /\ [Next]_vars => TypeOK'
<1> SUFFICES ASSUME TypeOK, [Next]_vars PROVE TypeOK'
  OBVIOUS
<1> USE ConnAssumption DEF TypeOK, Goto
<1>1. CASE Tick
  BY <1>1 DEF Tick
<1>2. ASSUME NEW p \in Writers, Call(p) PROVE TypeOK'
  <2>1. \A t \in Timeouts : earliestDeadline(t) \in Nat
    BY DEF earliestDeadline, Lower
  <2> QED BY <1>2, <2>1 DEF Call
<1>3. ASSUME NEW p \in Writers, applyWriteDeadline(p) PROVE TypeOK'
  BY <1>3 DEF applyWriteDeadline
<1>4. ASSUME NEW p \in Writers, BeginWrite(p) \/ Written(p) \/ clearWriteDeadline(p)
      PROVE  TypeOK'
  BY <1>4 DEF BeginWrite, Written, clearWriteDeadline
<1>5. ASSUME NEW p \in Writers, TimesOut(p) \/ WriteError(p) \/ FailsAfter(p)
      PROVE  TypeOK'
  BY <1>5 DEF TimesOut, WriteError, FailsAfter
<1>6. CASE UNCHANGED vars
  BY <1>6 DEF vars
<1> QED BY <1>1, <1>2, <1>3, <1>4, <1>5, <1>6 DEF Next

LEMMA OwnedStep == Inv /\ [Next]_vars => Owned'
<1> SUFFICES ASSUME Inv, [Next]_vars PROVE Owned'
  OBVIOUS
<1>1. CASE Tick \/ UNCHANGED vars
  BY <1>1, StillOwned DEF Tick, vars
<1>2. ASSUME NEW p \in Writers, Call(p) PROVE Owned'
  \* Its own due changes, but it was idle.
  BY <1>2 DEF Inv, TypeOK, Owned, Call, Goto
<1>3. ASSUME NEW p \in Writers, applyWriteDeadline(p) PROVE Owned'
  <2>1. CASE due[p] = 0
    BY <1>3, <2>1, StillOwned DEF applyWriteDeadline, Inv, TypeOK, Goto
  <2>2. CASE due[p] # 0
    BY <1>3, <2>2 DEF applyWriteDeadline, Inv, TypeOK, Owned, Goto
  <2> QED BY <2>1, <2>2
<1>4. ASSUME NEW p \in Writers,
             BeginWrite(p) \/ Written(p) \/ TimesOut(p) \/ WriteError(p) \/ FailsAfter(p)
      PROVE  Owned'
  BY <1>4, StillOwned DEF BeginWrite, Written, TimesOut, WriteError, FailsAfter, Inv,
                                TypeOK, Goto
<1>5. ASSUME NEW p \in Writers, clearWriteDeadline(p) PROVE Owned'
  BY <1>5 DEF clearWriteDeadline, Owned
<1> QED BY <1>1, <1>2, <1>3, <1>4, <1>5 DEF Next

\* However many goroutines write at once, with whatever deadlines: one that is
\* set on the connection is that of a block still being sent.
THEOREM DeadlineIsSomeonesAlways == Spec => []DeadlineIsSomeones
<1>1. Inv /\ [Next]_vars => Inv'
  BY TypeStep, OwnedStep DEF Inv
<1>2. Inv => DeadlineIsSomeones
  BY DEF Inv, Owned, DeadlineIsSomeones
<1> QED BY InvInit, <1>1, <1>2, PTL DEF Spec
=============================================================================
