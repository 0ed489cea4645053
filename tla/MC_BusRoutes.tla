----------------------------- MODULE MC_BusRoutes ----------------------------
(* Model values and an object tree for checking BusRoutes with TLC.        *)
(* The tree is / with children a and b, a with children c and d, and b    *)
(* with child e: a callback can start two Introspects while a sibling's   *)
(* subtree is still being walked.                                          *)
EXTENDS BusRoutes, TLC

CONSTANTS root, a, b, c, d, e

MCKids == (root :> {a, b}) @@ (a :> {c, d}) @@ (b :> {e})
            @@ (c :> {}) @@ (d :> {}) @@ (e :> {})
=============================================================================
