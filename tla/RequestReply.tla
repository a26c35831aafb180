---------------------------- MODULE RequestReply ----------------------------
(***************************************************************************)
(* What smp.Client promises the goroutines that call it, without channels, *)
(* maps or wire: a call is taken on only while the client is up, ends at   *)
(* most once, succeeds only on the peer's answer to that very call, and no *)
(* answer that arrives after the shutdown counts.                          *)
(***************************************************************************)
CONSTANT Calls

VARIABLES up,        \* the client accepts calls
          st,        \* what the caller of each call can observe
          answered   \* the calls whose answer from the peer has been taken

vars == <<up, st, answered>>

Statuses == {"idle", "pending", "ok", "failed"}

TypeOK ==
    /\ up \in BOOLEAN
    /\ st \in [Calls -> Statuses]
    /\ answered \subseteq Calls

Init ==
    /\ up = TRUE
    /\ st = [c \in Calls |-> "idle"]
    /\ answered = {}

Invoke(c) ==
    /\ up
    /\ st[c] = "idle"
    /\ st' = [st EXCEPT ![c] = "pending"]
    /\ UNCHANGED <<up, answered>>

Answer(c) ==
    /\ up
    /\ st[c] = "pending"
    /\ answered' = answered \cup {c}
    /\ UNCHANGED <<up, st>>

Succeed(c) ==
    /\ st[c] = "pending"
    /\ c \in answered
    /\ st' = [st EXCEPT ![c] = "ok"]
    /\ UNCHANGED <<up, answered>>

\* An error: refused before it was sent, cancelled, not written, rejected by
\* the peer, or caught by the shutdown.
Fail(c) ==
    /\ st[c] \in {"idle", "pending"}
    /\ st' = [st EXCEPT ![c] = "failed"]
    /\ UNCHANGED <<up, answered>>

Shutdown ==
    /\ up
    /\ up' = FALSE
    /\ UNCHANGED <<st, answered>>

Next ==
    \/ \E c \in Calls : Invoke(c) \/ Answer(c) \/ Succeed(c) \/ Fail(c)
    \/ Shutdown

Spec == Init /\ [][Next]_vars
=============================================================================
