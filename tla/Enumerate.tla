----------------------------- MODULE Enumerate -----------------------------
(***************************************************************************)
(* GET <path>/enumerate: handle_enumerate and                              *)
(* get_managed_objects_for_enumerate (src/include/openbmc_dbus_rest.hpp).  *)
(*                                                                         *)
(* The handler asks the object mapper for the subtree of a path, collects  *)
(* the distinct owning connections and fans out one                        *)
(* ObjectManager.GetManagedObjects call per connection.  All the calls     *)
(* share one std::shared_ptr<nlohmann::json> (the "transaction"); each     *)
(* reply merges its objects into it, and the callback that sees            *)
(* transaction.use_count() == 1 completes the response.                    *)
(*                                                                         *)
(* The bus runs on one reactor thread, so every callback is one atomic     *)
(* step; replies of distinct calls arrive in any order.  A call that gets  *)
(* no answer ends with the bus timeout as an error reply, so every call    *)
(* is answered, with success or error.                                     *)
(*                                                                         *)
(* Data abstraction: an object is a member of Objs, a property a member of *)
(* Props, bus and JSON values are those of BusValues.  The interface level *)
(* of a GetManagedObjects reply is folded into one property map per object *)
(* (the code flattens it the same way, later interfaces overwriting).      *)
(***************************************************************************)
EXTENDS Naturals, FiniteSets, BusValues

CONSTANTS Conns,   \* bus connections the mapper may name
          Objs,    \* object paths below the requested path
          Props    \* property names

ASSUME ConnsAssumption == IsFiniteSet(Conns)

(***************************************************************************)
(* The visitor assignment property_json = val followed by the dbus-rest    *)
(* compatibility rewrite: a bool becomes the integer 1 or 0.               *)
(***************************************************************************)
JsonOf(v) == BoolAsInt(VariantToJson(v))

JVals == {JsonOf(v) : v \in Vals}

\* The JSON object of one object path: property -> value, or Absent.
ObjJson == [Props -> JVals \cup {Absent}]

NoProps == [p \in Props |-> Absent]

\* A GetManagedObjects reply: the objects it reports, each with the
\* properties of its interfaces flattened into one map.
ManagedReplies == UNION {[S -> [Props -> Vals \cup {Absent}]] : S \in SUBSET Objs}

\* The mapper's GetSubTree reply: (object path, connection) pairs.
SubTrees == SUBSET (Objs \X Conns)

VARIABLES
  mapperPending, \* the GetSubTree call is in flight
  pending,       \* connections whose GetManagedObjects call is in flight
  refs,          \* use_count() of the shared transaction
  keys,          \* object paths present in *transaction
  data,          \* object path -> its property JSON in *transaction
  ends,          \* number of res.end() calls
  resStatus,     \* res.result()
  resBody,       \* res.json_value, [keys, data] of its "data" member
  reported       \* history: objects some successful reply reported

vars == <<mapperPending, pending, refs, keys, data, ends, resStatus,
          resBody, reported>>

EmptyBody == [keys |-> {}, data |-> [o \in Objs |-> NoProps]]

Init ==
  /\ mapperPending = TRUE
  /\ pending = {}
  /\ refs = 0
  /\ keys = {}
  /\ data = [o \in Objs |-> NoProps]
  /\ ends = 0
  /\ resStatus = 200
  /\ resBody = EmptyBody
  /\ reported = {}

(***************************************************************************)
(* The GetSubTree callback fails: the response is completed at once with   *)
(* 200 and an empty data object.                                           *)
(***************************************************************************)
MapperError ==
  /\ mapperPending
  /\ mapperPending' = FALSE
  /\ ends' = ends + 1
  /\ resBody' = EmptyBody
  /\ UNCHANGED <<pending, refs, keys, data, resStatus, reported>>

(***************************************************************************)
(* The GetSubTree callback succeeds with subtree tree.  The owning         *)
(* connections are deduplicated (flat_set); none -> 404.  Otherwise one    *)
(* GetManagedObjects call per connection is started, each capturing the    *)
(* transaction; the callback's own reference dies when it returns, so the  *)
(* use count is then the number of calls in flight.                        *)
(***************************************************************************)
\* Mutant: the callback's own reference is kept alive (e.g. stored in a
\* second capture), so the count never drops back to one.
MapperReplyLeaksRef(tree) ==
  LET connections == {pair[2] : pair \in tree} IN
  /\ mapperPending
  /\ mapperPending' = FALSE
  /\ IF connections = {}
       THEN /\ resStatus' = 404
            /\ ends' = ends + 1
            /\ UNCHANGED <<pending, refs>>
       ELSE /\ pending' = connections
            /\ refs' = Cardinality(connections) + 1
            /\ UNCHANGED <<ends, resStatus>>
  /\ UNCHANGED <<keys, data, resBody, reported>>

MapperReply(tree) ==
  LET connections == {pair[2] : pair \in tree} IN
  /\ mapperPending
  /\ mapperPending' = FALSE
  /\ IF connections = {}
       THEN /\ resStatus' = 404
            /\ ends' = ends + 1
            /\ UNCHANGED <<pending, refs>>
       ELSE /\ pending' = connections
            /\ refs' = Cardinality(connections)
            /\ UNCHANGED <<ends, resStatus>>
  /\ UNCHANGED <<keys, data, resBody, reported>>

\* object_json[property] = val for every property of one reported object;
\* the object's key is created first if it was null.
MergeObject(cur, props) ==
  [p \in Props |-> IF props[p] = Absent THEN cur[p] ELSE JsonOf(props[p])]

(***************************************************************************)
(* The end of a GetManagedObjects callback: if this callback holds the     *)
(* last reference it completes the response with the transaction as data;  *)
(* then its reference is released.                                         *)
(***************************************************************************)
\* Mutant: the last-caller test is off by one (use_count() <= 2).
FinishCallbackOffByOne(newKeys, newData) ==
  /\ IF refs <= 2
       THEN /\ ends' = ends + 1
            /\ resBody' = [keys |-> newKeys, data |-> newData]
       ELSE UNCHANGED <<ends, resBody>>
  /\ refs' = refs - 1

FinishCallback(newKeys, newData) ==
  /\ IF refs = 1
       THEN /\ ends' = ends + 1
            /\ resBody' = [keys |-> newKeys, data |-> newData]
       ELSE UNCHANGED <<ends, resBody>>
  /\ refs' = refs - 1

\* Mutant: the last-caller test runs before the reply is merged.
ManagedObjectsReplyEndFirst(c, reply) ==
  LET newData == [o \in Objs |-> IF o \in DOMAIN reply
                                   THEN MergeObject(data[o], reply[o])
                                   ELSE data[o]]
  IN
  /\ c \in pending
  /\ pending' = pending \ {c}
  /\ keys' = keys \cup DOMAIN reply
  /\ data' = newData
  /\ reported' = reported \cup DOMAIN reply
  /\ FinishCallback(keys, data)
  /\ UNCHANGED <<mapperPending, resStatus>>

\* The GetManagedObjects call on connection c returns the objects reply.
ManagedObjectsReply(c, reply) ==
  LET newData == [o \in Objs |-> IF o \in DOMAIN reply
                                   THEN MergeObject(data[o], reply[o])
                                   ELSE data[o]]
      newKeys == keys \cup DOMAIN reply
  IN
  /\ c \in pending
  /\ pending' = pending \ {c}
  /\ keys' = newKeys
  /\ data' = newData
  /\ reported' = reported \cup DOMAIN reply
  /\ FinishCallback(newKeys, newData)
  /\ UNCHANGED <<mapperPending, resStatus>>

\* Mutant: the error path completes the response whatever the count.
ManagedObjectsErrorEnds(c) ==
  /\ c \in pending
  /\ pending' = pending \ {c}
  /\ ends' = ends + 1
  /\ refs' = refs - 1
  /\ UNCHANGED <<mapperPending, keys, data, resStatus, resBody, reported>>

\* Mutant: the error path releases its reference twice.
ManagedObjectsErrorDoubleRelease(c) ==
  /\ c \in pending
  /\ pending' = pending \ {c}
  /\ IF refs = 1 THEN ends' = ends + 1 ELSE UNCHANGED ends
  /\ refs' = refs - 2
  /\ UNCHANGED <<mapperPending, keys, data, resStatus, resBody, reported>>

\* The GetManagedObjects call on connection c fails (or times out): the
\* error is logged and the transaction left as it is.
ManagedObjectsError(c) ==
  /\ c \in pending
  /\ pending' = pending \ {c}
  /\ FinishCallback(keys, data)
  /\ UNCHANGED <<mapperPending, keys, data, resStatus, reported>>

Next ==
  \/ MapperError
  \/ \E tree \in SubTrees : MapperReply(tree)
  \/ \E c \in Conns : ManagedObjectsError(c)
  \/ \E c \in Conns, reply \in ManagedReplies : ManagedObjectsReply(c, reply)

(***************************************************************************)
(* The bus answers every call (a reply, an error, or the timeout error),   *)
(* and the reactor runs every ready callback: weak fairness on each        *)
(* callback.                                                               *)
(***************************************************************************)
Fairness ==
  /\ WF_vars(MapperError \/ \E tree \in SubTrees : MapperReply(tree))
  /\ \A c \in Conns :
       WF_vars(ManagedObjectsError(c)
               \/ \E reply \in ManagedReplies : ManagedObjectsReply(c, reply))

Spec == Init /\ [][Next]_vars /\ Fairness
-----------------------------------------------------------------------------
TypeOK ==
  /\ mapperPending \in BOOLEAN
  /\ pending \in SUBSET Conns
  /\ refs \in Nat
  /\ keys \in SUBSET Objs
  /\ data \in [Objs -> ObjJson]
  /\ ends \in Nat
  /\ resStatus \in {200, 404}
  /\ resBody \in [keys : SUBSET Objs, data : [Objs -> ObjJson]]
  /\ reported \in SUBSET Objs

(***************************************************************************)
(* The response is completed at most once: the last GetManagedObjects      *)
(* callback, and only it, sees use_count() == 1, however the replies of    *)
(* the connections interleave.                                             *)
(***************************************************************************)
EndOnce == ends <= 1

(***************************************************************************)
(* A completed 200 response holds every object that any successful         *)
(* GetManagedObjects reply reported: the response is not completed before  *)
(* the last reply has been merged into the transaction.                    *)
(***************************************************************************)
ResponseComplete ==
  ends > 0 /\ resStatus = 200 => reported \subseteq resBody.keys

(***************************************************************************)
(* Every enumerate request is eventually answered, once every bus call has *)
(* been answered.                                                          *)
(***************************************************************************)
Answered == <>(ends > 0)

(***************************************************************************)
(* The handler implements HttpResponse: the answer, once given, is never   *)
(* changed by a later callback.                                            *)
(***************************************************************************)
Resp == INSTANCE HttpResponse
          WITH answered <- ends > 0,
               answer   <- IF ends > 0 THEN <<resStatus, resBody>> ELSE <<>>,
               NoAnswer <- <<>>

RespSpec == Resp!Spec
=============================================================================
