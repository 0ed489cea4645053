-------------------------------- MODULE Get --------------------------------
(***************************************************************************)
(* GET <path> and GET <path>/attr/<prop>: handle_get                       *)
(* (src/include/openbmc_dbus_rest.hpp).                                    *)
(*                                                                         *)
(* The handler asks the object mapper (GetObject) which connections own    *)
(* the path and with which interfaces, then walks that list in order and   *)
(* starts one Properties.GetAll call per (connection, interface).  The     *)
(* calls share a std::shared_ptr<nlohmann::json> response; each reply      *)
(* writes its properties into it (all of them, or only the requested one,  *)
(* which then replaces the whole JSON), and the callback that sees         *)
(* response.use_count() == 1 completes the HTTP response.  A connection    *)
(* listed with no interface completes the response with 404 on the spot   *)
(* and returns, whether or not calls for earlier connections are already   *)
(* in flight.                                                              *)
(*                                                                         *)
(* One reactor thread runs every callback, so each is an atomic step;     *)
(* replies of distinct calls arrive in any order, and a call that gets no  *)
(* answer ends with the bus timeout as an error reply.                     *)
(***************************************************************************)
EXTENDS Naturals, FiniteSets, Sequences, BusValues

CONSTANTS Conns,     \* bus connections the mapper may name
          Ifaces,    \* interface names
          Props,     \* property names
          MaxOwners  \* longest GetObject reply considered

ASSUME GetAssumption ==
  /\ IsFiniteSet(Conns) /\ IsFiniteSet(Ifaces)
  /\ MaxOwners \in Nat

\* dest_property of a request whose URL has no /attr/ part.
NoProperty == ""

\* A GetObject reply: a list of (connection, interfaces) with distinct
\* connections.
OwnerLists ==
  {r \in UNION {[1..n -> Conns \X SUBSET Ifaces] : n \in 1..MaxOwners} :
     \A j, k \in DOMAIN r : j # k => r[j][1] # r[k][1]}

\* A GetAll reply: property -> value, or Absent.
PropReplies == [Props -> Vals \cup {Absent}]

ObjJson == [Props -> JsonValues \cup {Absent}]

EmptyObject == [p \in Props |-> Absent]

VARIABLES
  destProperty,  \* the requested property, or NoProperty
  mapperPending, \* the GetObject call is in flight
  pending,       \* (connection, interface) whose GetAll is in flight
  refs,          \* use_count() of the shared response JSON
  respObj,       \* *response while it is a JSON object
  respScalar,    \* the value *response was replaced by, or Absent
  ends,          \* number of res.end() calls
  resStatus,     \* res.result()
  resBody,       \* the "data" member of res.json_value
  reported       \* history: properties some successful GetAll returned

vars == <<destProperty, mapperPending, pending, refs, respObj, respScalar,
          ends, resStatus, resBody, reported>>

NoBody == [obj |-> EmptyObject, scalar |-> Absent]

Init ==
  /\ destProperty \in Props \cup {NoProperty}
  /\ mapperPending = TRUE
  /\ pending = {}
  /\ refs = 0
  /\ respObj = EmptyObject
  /\ respScalar = Absent
  /\ ends = 0
  /\ resStatus = 200
  /\ resBody = NoBody
  /\ reported = {}

(***************************************************************************)
(* The GetObject callback with an error or an empty list: 404.             *)
(***************************************************************************)
MapperNotFound ==
  /\ mapperPending
  /\ mapperPending' = FALSE
  /\ resStatus' = 404
  /\ ends' = ends + 1
  /\ UNCHANGED <<destProperty, pending, refs, respObj, respScalar, resBody,
                 reported>>

\* Index of the first connection listed without interfaces (Len + 1 if
\* none): the loop returns there.
StopIndex(r) ==
  LET empty == {k \in DOMAIN r : r[k][2] = {}} IN
  IF empty = {} THEN Len(r) + 1
                ELSE CHOOSE k \in empty : \A j \in empty : k <= j

\* The GetAll calls the loop starts before it stops.
Started(r) ==
  UNION {{<<r[k][1], i>> : i \in r[k][2]} : k \in 1..(StopIndex(r) - 1)}

(***************************************************************************)
(* The GetObject callback with a non-empty list r.  One GetAll per         *)
(* (connection, interface) is started, each capturing the response; on a  *)
(* connection without interfaces the response is completed with 404 and   *)
(* the loop returns.  The callback's own reference dies on return.         *)
(***************************************************************************)
\* Mutant: the callback's own reference is never released.
MapperReplyLeaksRef(r) ==
  /\ mapperPending
  /\ mapperPending' = FALSE
  /\ pending' = Started(r)
  /\ refs' = Cardinality(Started(r)) + 1
  /\ IF StopIndex(r) <= Len(r)
       THEN resStatus' = 404 /\ ends' = ends + 1
       ELSE UNCHANGED <<resStatus, ends>>
  /\ UNCHANGED <<destProperty, respObj, respScalar, resBody, reported>>

MapperReply(r) ==
  /\ mapperPending
  /\ mapperPending' = FALSE
  /\ pending' = Started(r)
  /\ refs' = Cardinality(Started(r))
  /\ IF StopIndex(r) <= Len(r)
       THEN resStatus' = 404 /\ ends' = ends + 1
       ELSE UNCHANGED <<resStatus, ends>>
  /\ UNCHANGED <<destProperty, respObj, respScalar, resBody, reported>>

(***************************************************************************)
(* The end of a GetAll callback: the holder of the last reference sets the *)
(* JSON body from the response and calls res.end() (the status is left as  *)
(* it is); then the reference is released.                                 *)
(***************************************************************************)
FinishCallback(obj, scalar) ==
  /\ IF refs = 1
       THEN /\ ends' = ends + 1
            /\ resBody' = [obj |-> obj, scalar |-> scalar]
       ELSE UNCHANGED <<ends, resBody>>
  /\ refs' = refs - 1

\* Without a property name every returned property is written into the
\* response object.
WriteAll(props) ==
  [p \in Props |-> IF props[p] = Absent THEN respObj[p]
                                        ELSE VariantToJson(props[p])]

\* With a property name a returned property of that name replaces the
\* whole response JSON.
\* Mutant: the variant itself is stored, without the visitor conversion.
WriteNamedRaw(props) ==
  IF props[destProperty] = Absent THEN respScalar ELSE props[destProperty]

WriteNamed(props) ==
  IF props[destProperty] = Absent THEN respScalar
                                  ELSE VariantToJson(props[destProperty])

\* Mutant: the last-caller test runs before the reply is written.
GetAllReplyEndFirst(call, props) ==
  LET obj    == IF destProperty = NoProperty THEN WriteAll(props) ELSE respObj
      scalar == IF destProperty = NoProperty THEN respScalar
                                             ELSE WriteNamed(props)
  IN
  /\ call \in pending
  /\ pending' = pending \ {call}
  /\ respObj' = obj
  /\ respScalar' = scalar
  /\ reported' = reported \cup {p \in Props : props[p] # Absent}
  /\ FinishCallback(respObj, respScalar)
  /\ UNCHANGED <<destProperty, mapperPending, resStatus>>

\* The GetAll call call returns the properties props.
GetAllReply(call, props) ==
  LET obj    == IF destProperty = NoProperty THEN WriteAll(props) ELSE respObj
      scalar == IF destProperty = NoProperty THEN respScalar
                                             ELSE WriteNamed(props)
  IN
  /\ call \in pending
  /\ pending' = pending \ {call}
  /\ respObj' = obj
  /\ respScalar' = scalar
  /\ reported' = reported \cup {p \in Props : props[p] # Absent}
  /\ FinishCallback(obj, scalar)
  /\ UNCHANGED <<destProperty, mapperPending, resStatus>>

\* The GetAll call call fails (or times out): the error is logged.
GetAllError(call) ==
  /\ call \in pending
  /\ pending' = pending \ {call}
  /\ FinishCallback(respObj, respScalar)
  /\ UNCHANGED <<destProperty, mapperPending, respObj, respScalar, resStatus,
                 reported>>

Next ==
  \/ MapperNotFound
  \/ \E r \in OwnerLists : MapperReply(r)
  \/ \E call \in Conns \X Ifaces :
       \/ GetAllError(call)
       \/ \E props \in PropReplies : GetAllReply(call, props)

\* The bus answers every call and the reactor runs every ready callback.
Fairness ==
  /\ WF_vars(MapperNotFound \/ \E r \in OwnerLists : MapperReply(r))
  /\ \A call \in Conns \X Ifaces :
       WF_vars(GetAllError(call) \/ \E props \in PropReplies :
                                       GetAllReply(call, props))

Spec == Init /\ [][Next]_vars /\ Fairness
-----------------------------------------------------------------------------
TypeOK ==
  /\ destProperty \in Props \cup {NoProperty}
  /\ mapperPending \in BOOLEAN
  /\ pending \in SUBSET (Conns \X Ifaces)
  /\ refs \in Nat
  /\ respObj \in ObjJson
  /\ respScalar \in JsonValues \cup {Absent}
  /\ ends \in Nat
  /\ resStatus \in {200, 404}
  /\ resBody \in [obj : ObjJson, scalar : JsonValues \cup {Absent}]
  /\ reported \in SUBSET Props

(***************************************************************************)
(* A 200 answer to a whole-object GET holds every property that any        *)
(* successful GetAll reply returned: the answer is not given before the    *)
(* last reply has been written into the shared response.                   *)
(***************************************************************************)
ResponseComplete ==
  ends > 0 /\ resStatus = 200 /\ destProperty = NoProperty =>
    \A p \in reported : resBody.obj[p] # Absent

(***************************************************************************)
(* Every GET is eventually answered once every bus call is answered.       *)
(***************************************************************************)
Answered == <>(ends > 0)

(***************************************************************************)
(* The response is completed at most once (spec section 3: "the response  *)
(* is emitted exactly once"), whatever the mapper lists and however the    *)
(* GetAll replies interleave.                                              *)
(***************************************************************************)
EndOnce == ends <= 1

(***************************************************************************)
(* Spec section 4.2.2 and scenario 3: a property of bus type b is answered *)
(* as the integer 1 or 0, not as a JSON bool ("GET .../attr/Powered on a   *)
(* bool property currently true -> data equals 1, not true").              *)
(***************************************************************************)
BoolAnsweredAsInt ==
  ends > 0 /\ resStatus = 200 =>
    /\ resBody.scalar \notin {"bool"} \X Nat
    /\ \A p \in Props : resBody.obj[p] \notin {"bool"} \X Nat
=============================================================================
