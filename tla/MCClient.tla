------------------------------ MODULE MCClient ------------------------------
(* Constant values for the model-checking runs of Client.                    *)
EXTENDS Client, TLC

CONSTANTS s1, s2, p1, n1, d1, q1, m1, m2, k1, k2

\* Two goroutines that subscribe to the same queue.
SubCalls == {s1, s2}
SubOp == [c \in SubCalls |-> "Subscribe"]
SubQueue == [c \in SubCalls |-> q1]

\* A Subscribe and a NewQueue in flight together.
MixCalls == {s1, n1}
MixOp == s1 :> "Subscribe" @@ n1 :> "NewQueue"
MixQueue == [c \in MixCalls |-> q1]

\* A Subscribe and an Ack.
PairCalls == {s1, d1}
PairOp == s1 :> "Subscribe" @@ d1 :> "Ack"
PairQueue == [c \in PairCalls |-> q1]

\* A Ping and a Send.
PlainCalls == {p1, d1}
PlainOp == p1 :> "Ping" @@ d1 :> "Send"
PlainQueue == [c \in PlainCalls |-> q1]
=============================================================================
