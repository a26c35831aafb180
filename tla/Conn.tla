-------------------------------- MODULE Conn --------------------------------
(***************************************************************************)
(* Goroutines in Conn.WriteBlock on one connection.  Each sets the         *)
(* connection's write deadline if it has one, writes under the lock of     *)
(* tls.Conn, and clears the deadline on its way out.  The deadline belongs *)
(* to the connection, not to the write.  Timers are prompt: time does not  *)
(* pass over a write that is overdue.                                      *)
(***************************************************************************)
EXTENDS Integers

CONSTANTS
    Writers,
    IOTimeout,   \* 0 is none
    Timeouts,    \* what a caller's context leaves it, from the call on; 0 is no deadline
    MaxTime      \* bound

ASSUME ConnAssumption ==
    /\ IOTimeout \in Nat
    /\ Timeouts \subseteq Nat
    /\ MaxTime \in Nat

VARIABLES
    now,
    pc,          \* "idle", "calling", "queueing", "writing", "leaving"
    due,         \* due[p]: the deadline p's block is entitled to; 0 is none
    deadline,    \* the connection's write deadline; 0 is none
    broken,      \* a write failed: tls.Conn fails every later one
    failed       \* history: failed[p]: p's last write failed, and why

vars == <<now, pc, due, deadline, broken, failed>>

Lower(a, b) == IF a < b THEN a ELSE b

\* earliestDeadline: t is what the context leaves.
earliestDeadline(t) ==
    IF IOTimeout = 0 /\ t = 0 THEN 0
    ELSE now + (IF t = 0 THEN IOTimeout ELSE IF IOTimeout = 0 THEN t ELSE Lower(IOTimeout, t))

Init ==
    /\ now = 1
    /\ pc = [p \in Writers |-> "idle"]
    /\ due = [p \in Writers |-> 0]
    /\ deadline = 0
    /\ broken = FALSE
    /\ failed = [p \in Writers |-> "no"]

Goto(p, at) == pc' = [pc EXCEPT ![p] = at]

Call(p) ==
    /\ pc[p] = "idle"
    /\ \E t \in Timeouts : due' = [due EXCEPT ![p] = earliestDeadline(t)]
    /\ failed' = [failed EXCEPT ![p] = "no"]
    /\ Goto(p, "calling")
    /\ UNCHANGED <<now, deadline, broken>>

\* Mutant: the context's deadline is forgotten.
applyIOTimeout(p) ==
    /\ pc[p] = "calling"
    /\ deadline' = IF IOTimeout = 0 THEN deadline ELSE now + IOTimeout
    /\ Goto(p, "queueing")
    /\ UNCHANGED <<now, due, broken, failed>>

\* A block without a deadline leaves the connection's as it is.
applyWriteDeadline(p) ==
    /\ pc[p] = "calling"
    /\ deadline' = IF due[p] = 0 THEN deadline ELSE due[p]
    /\ Goto(p, "queueing")
    /\ UNCHANGED <<now, due, broken, failed>>

Free == \A r \in Writers : pc[r] # "writing"

BeginWrite(p) ==
    /\ pc[p] = "queueing"
    /\ Free
    /\ Goto(p, "writing")
    /\ UNCHANGED <<now, due, deadline, broken, failed>>

\* The peer reads.
Written(p) ==
    /\ pc[p] = "writing"
    /\ ~broken
    /\ Goto(p, "leaving")
    /\ UNCHANGED <<now, due, deadline, broken, failed>>

Expired == deadline # 0 /\ now >= deadline

TimesOut(p) ==
    /\ pc[p] = "writing"
    /\ ~broken
    /\ Expired
    /\ broken' = TRUE
    /\ failed' = [failed EXCEPT ![p] = "timeout"]
    /\ Goto(p, "leaving")
    /\ UNCHANGED <<now, due, deadline>>

\* The peer has reset the connection, or the transport was closed.
WriteError(p) ==
    /\ pc[p] = "writing"
    /\ ~broken
    /\ broken' = TRUE
    /\ failed' = [failed EXCEPT ![p] = "error"]
    /\ Goto(p, "leaving")
    /\ UNCHANGED <<now, due, deadline>>

\* tls: an error of a write is kept, and every later one fails with it.
FailsAfter(p) ==
    /\ pc[p] = "writing"
    /\ broken
    /\ failed' = [failed EXCEPT ![p] = "broken"]
    /\ Goto(p, "leaving")
    /\ UNCHANGED <<now, due, deadline, broken>>

\* Mutant: the deadline is cleared after a success only.
clearAfterSuccess(p) ==
    /\ pc[p] = "leaving"
    /\ deadline' = IF failed[p] = "no" THEN 0 ELSE deadline
    /\ Goto(p, "idle")
    /\ UNCHANGED <<now, due, broken, failed>>

clearWriteDeadline(p) ==
    /\ pc[p] = "leaving"
    /\ deadline' = 0
    /\ Goto(p, "idle")
    /\ UNCHANGED <<now, due, broken, failed>>

Tick ==
    /\ now < MaxTime
    /\ \A p \in Writers : pc[p] = "writing" => ~broken /\ ~Expired
    /\ now' = now + 1
    /\ UNCHANGED <<pc, due, deadline, broken, failed>>

Next ==
    \/ Tick
    \/ \E p \in Writers :
          \/ Call(p) \/ applyWriteDeadline(p) \/ BeginWrite(p)
          \/ Written(p) \/ TimesOut(p) \/ WriteError(p) \/ FailsAfter(p)
          \/ clearWriteDeadline(p)

Spec == Init /\ [][Next]_vars

-----------------------------------------------------------------------------
(* Properties.                                                             *)

TypeOK ==
    /\ now \in Nat
    /\ pc \in [Writers -> {"idle", "calling", "queueing", "writing", "leaving"}]
    /\ due \in [Writers -> Nat]
    /\ deadline \in Nat
    /\ broken \in BOOLEAN
    /\ failed \in [Writers -> {"no", "timeout", "error", "broken"}]

\* A deadline on the connection is that of a block somebody is still sending,
\* however the calls overlap; at rest there is none.
DeadlineIsSomeones ==
    deadline # 0 => \E p \in Writers : pc[p] # "idle" /\ due[p] = deadline

\* transport.go:54-55, "IOTimeout, if non-zero, is set as the read/write deadline
\* on each block sent or received": time does not pass over the deadline of a
\* block that is being written.
DeadlineHolds ==
    [][\A p \in Writers :
          pc[p] = "writing" /\ due[p] # 0 /\ now' > now => now < due[p]]_vars
=============================================================================
