------------------------- MODULE BalancingHandshake -------------------------
(***************************************************************************)
(* What the balancing module promises the block that consumes its outputs: *)
(* the strobes out_valid1, out_valid2 and out_valid3 are raised one at a   *)
(* time, in that order and round again, each dropped before the next one   *)
(* is raised; every raise latches an input; out_value1 moves only while    *)
(* out_valid1 is high, and when out_valid1 drops it holds the value that   *)
(* was latched when out_valid1 rose.                                       *)
(***************************************************************************)
EXTENDS Naturals

Values == 0..15

VARIABLES
    strobe,     \* the out_valid that is high (1, 2, 3), or 0 for none
    turn,       \* the branch whose strobe is raised next, or is high
    latched,    \* the input latched by the last raise
    outValue1   \* the out_value1 port

hvars == <<strobe, turn, latched, outValue1>>

Init ==
    /\ strobe = 0
    /\ turn = 1
    /\ latched = 0
    /\ outValue1 = 0

\* The branch whose turn it is latches an input and raises its strobe;
\* the first branch may also write out_value1 in that step.
Raise(v) ==
    /\ strobe = 0
    /\ strobe' = turn
    /\ latched' = v
    /\ IF turn = 1 THEN outValue1' \in Values ELSE UNCHANGED outValue1
    /\ UNCHANGED turn

\* While out_valid1 is high the first branch may write out_value1.
Work ==
    /\ strobe = 1
    /\ outValue1' \in Values
    /\ UNCHANGED <<strobe, turn, latched>>

\* The strobe drops, out_value1 then holding the latched input if it was
\* out_valid1, and the turn passes to the next branch.
Drop ==
    /\ strobe # 0
    /\ strobe = 1 => outValue1 = latched
    /\ strobe' = 0
    /\ turn' = (turn % 3) + 1
    /\ UNCHANGED <<latched, outValue1>>

Next == (\E v \in Values : Raise(v)) \/ Work \/ Drop

Spec == Init /\ [][Next]_hvars
=============================================================================
