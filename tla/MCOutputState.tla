---------------------------- MODULE MCOutputState ----------------------------
(* OutputState on a small instance; output 1 is lit by default, 2 is dark. *)
EXTENDS OutputState

DefaultDef == [f \in Field |-> IF f = Pwr(2) THEN 0 ELSE 1]

===============================================================================
