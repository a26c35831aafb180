------------------------------- MODULE MCConn -------------------------------
(* Constant values for the model-checking runs of Conn.                      *)
EXTENDS Conn

CONSTANTS w1, w2, w3

\* With and without a deadline of the context, short and long.
TimeoutsDef == {0, 1, 3}
=============================================================================
