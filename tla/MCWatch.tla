------------------------------- MODULE MCWatch -------------------------------
(* Constant values for the model-checking runs of Watch.                     *)
EXTENDS Watch

CONSTANTS near, near2, pluses

\* Two codes of the same neighbourhood and one of '+' only,
\* which is long enough to be accepted and normalizes to the empty string.
CoarseDef ==
    [g \in Grids \cup {NoGrid} |->
        IF g = near2 THEN near ELSE IF g = pluses THEN NoGrid ELSE g]

SizeDef(s) == 2 + 2 * Len(s.buddies) + (IF s.loc = NoGrid THEN 0 ELSE 1)
=============================================================================
