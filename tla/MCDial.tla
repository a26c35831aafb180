------------------------------- MODULE MCDial -------------------------------
(* Constant values for the model-checking run of Dial.                       *)
EXTENDS Dial

CONSTANTS ca, other

\* Timeouts only, a context's deadline only, both, DialTimeout only, and nothing.
ConfigsDef ==
    {[dial |-> 2, io |-> 2, ctx |-> 0], [dial |-> 0, io |-> 0, ctx |-> 4],
     [dial |-> 3, io |-> 2, ctx |-> 7], [dial |-> 1, io |-> 0, ctx |-> 0],
     [dial |-> 0, io |-> 0, ctx |-> 0]}

\* Each length from none to one too many, the pinned certificate first, last, in
\* the middle, or missing.
ChainsDef ==
    {<<>>, <<ca>>, <<ca, other>>, <<other, ca>>, <<other, other>>, <<other, ca, other>>,
     <<other, other, other, ca>>, <<ca, other, other, other, other>>}
=============================================================================
