---------------------------- MODULE MC_Enumerate ----------------------------
(* Enumerate on three connections, two objects and two properties whose values  *)
(* are bools or an integer.                                                 *)
EXTENDS Enumerate, TLC

CONSTANTS c1, c2, c3, o1, o2, p1, p2

MCVals == {<<"b", 0>>, <<"b", 1>>, <<"i", 2>>}

=============================================================================
