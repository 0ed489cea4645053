------------------------------- MODULE MC_Get -------------------------------
(* GET with two connections, two interfaces and two properties; the mapper *)
(* may list both connections, in either order, with or without            *)
(* interfaces.                                                             *)
EXTENDS Get, TLC

CONSTANTS c1, c2, i1, i2, p1, p2

MCVals == {<<"b", 1>>, <<"i", 2>>}
=============================================================================
