------------------------------ MODULE MCServer ------------------------------
(***************************************************************************)
(* An instance of Server for TLC: one call of each kind on one connection. *)
(***************************************************************************)
EXTENDS Server, TLC

CONSTANTS p1, w1, h1, g1, copy, register, row1, row2

OneCopy == [c \in {h1, g1, copy, register} |-> IF c = copy THEN {row1, row2} ELSE {}]
=============================================================================
