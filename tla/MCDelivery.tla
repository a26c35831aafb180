----------------------------- MODULE MCDelivery -----------------------------
(* Constant values for the model-checking run of Delivery.                   *)
EXTENDS Delivery, TLC

CONSTANTS s1, s2, a1, q1

\* Two Subscribes to the queue, one after the other or together, and an Ack.
DeliveryCalls == {s1, s2, a1}
DeliveryOp == s1 :> "Subscribe" @@ s2 :> "Subscribe" @@ a1 :> "Ack"
DeliveryQueue == [c \in DeliveryCalls |-> q1]
=============================================================================
