---------------------------- MODULE PrivSwitch ----------------------------
(***************************************************************************)
(* What goto_priv() and the trap handlers together promise a test case:    *)
(* its privilege changes only by a switch it asked for, a switch ends at   *)
(* the privilege asked for, and traps leave the privilege alone.           *)
(***************************************************************************)
EXTENDS Naturals

VARIABLES
    at,     \* [priv, mode]: curr_priv and the mode of the hart
    goal,   \* {} or the privilege of the switch under way
    alive   \* whether the program runs
vars == <<at, goal, alive>>

Priv == 0 .. 4
Mode == {"U", "S", "M"}
Place(p) == [priv |-> p,
             mode |-> IF p = 4 THEN "M" ELSE IF p \in {2, 3} THEN "S" ELSE "U"]

Init == at = Place(4) /\ goal = {} /\ alive = TRUE

\* The test calls goto_priv(p).
Ask(p) ==
    /\ alive /\ goal = {}
    /\ goal' = {p}
    /\ UNCHANGED <<at, alive>>

\* The switch goes through other privileges and modes.
Move ==
    /\ alive /\ goal # {}
    /\ at' \in [priv : Priv, mode : Mode]
    /\ UNCHANGED <<goal, alive>>

Arrive ==
    /\ alive /\ goal # {}
    /\ \E p \in goal : at' = Place(p)
    /\ goal' = {}
    /\ UNCHANGED alive

\* exit(), at any moment.
Die ==
    /\ alive /\ ~alive'
    /\ at' \in [priv : Priv, mode : Mode]
    /\ goal' \in SUBSET Priv

Next == (\E p \in Priv : Ask(p)) \/ Move \/ Arrive \/ Die

Spec == Init /\ [][Next]_vars
=============================================================================
