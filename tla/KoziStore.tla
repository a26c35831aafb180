------------------------------ MODULE KoziStore ------------------------------
(***************************************************************************)
(* What state.json is for a user who runs one kozi-cli command at a time:  *)
(* a set of buddies and a location, changed by whole commands, until a     *)
(* command is cut short in its save and everything is lost for good.       *)
(***************************************************************************)
CONSTANTS Names, Grids, Coarse, NoGrid

VARIABLES paired, location, lost

vars == <<paired, location, lost>>

Init ==
    /\ paired = {}
    /\ location = NoGrid
    /\ lost = FALSE

Pair(n) ==
    /\ ~lost
    /\ n \notin paired
    /\ paired' = paired \cup {n}
    /\ UNCHANGED <<location, lost>>

Unpair(n) ==
    /\ ~lost
    /\ n \in paired
    /\ paired' = paired \ {n}
    /\ UNCHANGED <<location, lost>>

SetLocation(g) ==
    /\ ~lost
    /\ location' = Coarse[g]
    /\ UNCHANGED <<paired, lost>>

Lose ==
    /\ ~lost
    /\ paired' = {}
    /\ location' = NoGrid
    /\ lost' = TRUE

Next ==
    \/ \E n \in Names : Pair(n) \/ Unpair(n)
    \/ \E g \in Grids : SetLocation(g)
    \/ Lose

Spec == Init /\ [][Next]_vars
=============================================================================
