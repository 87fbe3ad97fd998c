----------------------------- MODULE QuadShaft -----------------------------
(***************************************************************************)
(* The encoder on a motor's shaft and the table with which the gateware    *)
(* (Encoder.v) and the bench programs (encoder_reader.c, motor_test.c)     *)
(* both decode it.  Its two lines, <<A, B>>, show the position in a Gray   *)
(* code: one of them changes from a position to the next.  Positions are   *)
(* counted modulo Turns.                                                   *)
(***************************************************************************)
EXTENDS Integers, Sequences

CONSTANT Turns  \* bound: positions of the shaft that are told apart

ASSUME TurnsAssumption == Turns \in Nat \ {0} /\ Turns % 4 = 0

VARIABLE shaft  \* the position

Lines(x) == (<< <<0, 0>>, <<0, 1>>, <<1, 1>>, <<1, 0>> >>)[(x % 4) + 1]

\* {prev_A, prev_B, A, B}
Forward == {<<0, 0, 0, 1>>, <<0, 1, 1, 1>>, <<1, 1, 1, 0>>, <<1, 0, 0, 0>>}
Backward == {<<0, 0, 1, 0>>, <<0, 1, 0, 0>>, <<1, 1, 0, 1>>, <<1, 0, 1, 1>>}

\* What a change of the lines adds to the count: nothing when both changed.
Delta(prev, curr) ==
    CASE prev \o curr \in Forward -> 1
      [] prev \o curr \in Backward -> -1
      [] OTHER -> 0

\* The lines that the shaft changes when it turns by step.
Edges(step) ==
    LET x == shaft + step
    IN {t \in 1 .. 2 : Lines(x)[t] # Lines(shaft)[t]}

Turn(step) == shaft' = (shaft + step) % Turns

\* The positions one step from x.
Beside(x) == {(x + 1) % Turns, (x - 1) % Turns}
=============================================================================
