----------------------------- MODULE MCSpiSlave -----------------------------
(* Words of six bits for the ICO board, which differ from their own shifts.  *)
(* The pitch half is 3 (stop), 7 (above the largest duty, 6, and taken for   *)
(* it) and 1 (backward, two thirds).                                         *)
EXTENDS IcoBoard

MCMidWord == <<0, 1, 1, 0, 1, 1>>
MCPwmWords == {<<1, 1, 1, 0, 1, 0>>, <<0, 0, 1, 1, 1, 0>>}
MCEncWords == {<<0, 1, 1, 0, 0, 1>>, <<1, 0, 0, 1, 1, 0>>}
=============================================================================
