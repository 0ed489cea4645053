----------------------------- MODULE BusValues -----------------------------
(***************************************************************************)
(* Property values as the REST bridge reads them from the bus, and the     *)
(* JSON they become (src/include/openbmc_dbus_rest.hpp).                   *)
(*                                                                         *)
(* A property arrives as a DbusRestVariantType, a variant over strings,    *)
(* the integer types, double and bool.  The model keeps the distinction    *)
(* the handlers act on, bool or number: a bus value is <<"b", n>> (n # 0   *)
(* is true) or <<"i", n>>.  A JSON value is <<"bool", n>> or               *)
(* <<"number", n>>, so that every value can be compared with every other.  *)
(***************************************************************************)
EXTENDS Naturals

CONSTANTS Vals,    \* the bus values a reply may carry
          Absent   \* a property a reply or a JSON object does not carry

ASSUME ValsAssumption == Vals \subseteq ({"b", "i"} \X Nat)

JsonValues == {"bool", "number"} \X Nat

ASSUME AbsentAssumption == Absent \notin Vals \cup JsonValues

(***************************************************************************)
(* mapbox::util::apply_visitor([&](auto &&val) { json = val; }, variant):  *)
(* the variant's alternative is assigned to the JSON value, a bool as a    *)
(* JSON bool and a number as a JSON number.                                *)
(***************************************************************************)
VariantToJson(v) ==
  IF v[1] = "b" THEN <<"bool", IF v[2] # 0 THEN 1 ELSE 0>>
                ELSE <<"number", v[2]>>

(***************************************************************************)
(* The dbus-rest compatibility rewrite: a JSON bool is replaced by the     *)
(* integer 1 or 0.                                                         *)
(***************************************************************************)
BoolAsInt(j) == IF j[1] = "bool" THEN <<"number", j[2]>> ELSE j
=============================================================================
