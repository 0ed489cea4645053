----------------------------- MODULE BusRoutes -----------------------------
(***************************************************************************)
(* The listing routes of request_routes (src/include/openbmc_dbus_rest.hpp)*)
(* and the introspection walk introspect_objects.                          *)
(*                                                                         *)
(*  - GET /bus/system/ calls ListNames; its callback answers 500 on an     *)
(*    error, otherwise the sorted names, and calls res.end().              *)
(*  - GET /list/ is handle_list("/"): GetSubTreePaths, 500 on an error,    *)
(*    otherwise the list envelope, then res.end().                         *)
(*  - GET /bus/system/<str>/ calls introspect_objects on "/" with a        *)
(*    shared_ptr<json> transaction.  Each Introspect callback pushes its   *)
(*    path into the transaction and starts one Introspect per child        *)
(*    <node> of the reply, each capturing a copy of the transaction.  The  *)
(*    callback that sees use_count() == 1 writes the objects and ends.     *)
(*  - GET /bus/system/<str>/<path> splits the path at "/": the segments    *)
(*    before the first one with a "." make the object path, that one is   *)
(*    the interface, the next the method; a segment more is 404.  One     *)
(*    Introspect follows; its callback lists the interfaces, or describes  *)
(*    the requested one (404 when absent), and calls res.end().           *)
(*                                                                         *)
(* The route passes a default-constructed (null) shared_ptr.  TxLive says  *)
(* whether the transaction exists: FALSE is the route as written, TRUE is  *)
(* introspect_objects handed an allocated transaction.  use_count() of a   *)
(* null shared_ptr is 0 however it is copied, and push_back through it is  *)
(* undefined behaviour; the build dereferences address 0 and the process   *)
(* dies, which the model records as crashed.                               *)
(*                                                                         *)
(* Data abstraction: object paths are the nodes of a constant tree (Kids   *)
(* gives the children of each node, as the service's XML lists them); a   *)
(* reply lists any subset of them, since objects may vanish between calls. *)
(* Bus names are numbers, ordered as the strings they stand for.  A path  *)
(* segment is "obj" (a plain name), "empty", or one of the dotted          *)
(* interface names Ifaces; a reply is the set of interfaces it lists.     *)
(***************************************************************************)
EXTENDS Naturals, FiniteSets, Sequences, SequencesExt

CONSTANTS Routes,   \* the routes a request may take
          TxLive,   \* does the walk's transaction exist?
          Nodes,    \* object paths of the introspected service
          Root,     \* the path "/"
          Kids,     \* Kids[p]: the child <node>s of p
          Names,    \* bus names ListNames may return
          Ifaces,   \* dotted interface names
          MaxSegs   \* bound on the segments of a requested path

ASSUME BusRoutesAssumption ==
  /\ Routes \subseteq {"BusSystem", "List", "Objects", "Describe"}
  /\ TxLive \in BOOLEAN
  /\ IsFiniteSet(Nodes) /\ Root \in Nodes
  /\ Kids \in [Nodes -> SUBSET (Nodes \ {Root})]
  \* A path names its parent: no two <node>s share a child path ...
  /\ \A p, q \in Nodes : p # q => Kids[p] \cap Kids[q] = {}
  \* ... and a child path is one segment longer than its parent's.
  /\ \E depth \in [Nodes -> 0..Cardinality(Nodes)] :
       \A p \in Nodes : \A c \in Kids[p] : depth[c] = depth[p] + 1
  /\ IsFiniteSet(Names) /\ Names \subseteq Nat
  /\ Ifaces \cap {"None", "obj", "empty"} = {}
  /\ MaxSegs \in Nat \ {0}

\* A ListNames reply: distinct names in the order the bus gives them.
NameLists == UNION {SetToSeqs(S) : S \in SUBSET Names}

\* std::sort of the reply's names: the ascending sequence of the same names.
SortNames(names) ==
  CHOOSE t \in [1..Len(names) -> Range(names)] :
    \A i, j \in 1..Len(names) : i < j => t[i] < t[j]

(***************************************************************************)
(* boost::split of <path> at "/": a non-empty path gives at least one      *)
(* segment, so the object_path = "/" branch for no segment never runs.    *)
(***************************************************************************)
Segments == {"obj", "empty"} \cup Ifaces

Paths == UNION {[1..n -> Segments] : n \in 1..MaxSegs}

\* The position of the first segment containing a ".", Len + 1 if none.
FirstIface(segs) ==
  CHOOSE i \in 1..Len(segs) + 1 :
    /\ i <= Len(segs) => segs[i] \in Ifaces
    /\ \A j \in 1..i - 1 : segs[j] \notin Ifaces

\* Segments remain after the interface and the method.
TooDeep(segs) == Len(segs) >= FirstIface(segs) + 2

\* interface_name: the first dotted segment, "None" for the empty string.
InterfaceOf(segs) ==
  IF FirstIface(segs) <= Len(segs) THEN segs[FirstIface(segs)] ELSE "None"

(***************************************************************************)
(* res.json_value: untouched (null), or the body a callback wrote, tagged  *)
(* by kind: the sorted bus names, {"objects": null} when there are none,   *)
(* the list envelope's data, or the walk's objects.                        *)
(***************************************************************************)
NullJson == [kind |-> "null"]

JsonValues == {NullJson, [kind |-> "nullObjects"]}
                \cup [kind : {"names"}, names : Seq(Names)]
                \cup [kind : {"data"}, data : SUBSET Nodes]
                \cup [kind : {"objects"}, objects : SUBSET Nodes]
                \cup {[kind |-> "xmlError"]}
                \cup [kind : {"interfaces"}, interfaces : SUBSET Ifaces]
                \cup [kind : {"describe"}, interface : Ifaces]

VARIABLES
  route,     \* the route taken ("None" before the request)
  busPending,\* the ListNames or GetSubTreePaths call is in flight
  pending,   \* paths whose Introspect is in flight
  announced, \* history: paths an Introspect was started for
  pushed,    \* paths pushed into the transaction
  refs,      \* copies of the transaction (the lambdas that capture it)
  crashed,   \* push_back through the null transaction was executed
  resStatus, \* res.result()
  jsonValue, \* res.json_value
  ends,      \* number of res.end() calls
  interfaceName, \* the describe route's interface_name ("None" if empty)
  request    \* history: the segments of the describe route's path

vars == <<route, busPending, pending, announced, pushed, refs, crashed,
          resStatus, jsonValue, ends, interfaceName, request>>

describeVars == <<interfaceName, request>>

Init ==
  /\ route = "None"
  /\ busPending = FALSE
  /\ pending = {}
  /\ announced = {}
  /\ pushed = {}
  /\ refs = 0
  /\ crashed = FALSE
  /\ resStatus = 200
  /\ jsonValue = NullJson
  /\ ends = 0
  /\ interfaceName = "None"
  /\ request = <<>>

\* A route handler calls the bus and returns; the callback holds &res.
StartBusCall(r) ==
  /\ route = "None"
  /\ r \in Routes
  /\ route' = r
  /\ busPending' = TRUE
  /\ UNCHANGED <<pending, announced, pushed, refs, crashed, resStatus,
                 jsonValue, ends>>
  /\ UNCHANGED describeVars

\* GET /bus/system/: ListNames.
StartBusSystem == StartBusCall("BusSystem")

\* GET /list/: handle_list(res, "/") calls GetSubTreePaths.
StartList == StartBusCall("List")

(***************************************************************************)
(* GET /bus/system/<str>/: introspect_objects(res, connection, "/",       *)
(* transaction).  The lambda of the Introspect call holds the one copy of *)
(* the transaction left when the route returns.                            *)
(***************************************************************************)
\* Mutant: the walk's lambda captures the transaction by reference.
StartObjectsUncounted ==
  /\ route = "None"
  /\ "Objects" \in Routes
  /\ route' = "Objects"
  /\ pending' = {Root}
  /\ announced' = {Root}
  /\ refs' = 0
  /\ UNCHANGED <<busPending, pushed, crashed, resStatus, jsonValue, ends>>
  /\ UNCHANGED describeVars

StartObjects ==
  /\ route = "None"
  /\ "Objects" \in Routes
  /\ route' = "Objects"
  /\ pending' = {Root}
  /\ announced' = {Root}
  /\ refs' = 1
  /\ UNCHANGED <<busPending, pushed, crashed, resStatus, jsonValue, ends>>
  /\ UNCHANGED describeVars

\* A ListNames or GetSubTreePaths callback with an error: 500, then end.
BusCallFails(r) ==
  /\ busPending
  /\ route = r
  /\ busPending' = FALSE
  /\ resStatus' = 500
  /\ ends' = ends + 1
  /\ UNCHANGED <<route, pending, announced, pushed, refs, crashed, jsonValue>>
  /\ UNCHANGED describeVars

ListNamesError == BusCallFails("BusSystem")

SubTreeError == BusCallFails("List")

(***************************************************************************)
(* The ListNames callback: the names are sorted and pushed one by one into *)
(* j["objects"], which stays null when there are none: the body is then   *)
(* {"status": "ok", "objects": null}.                                      *)
(***************************************************************************)
ListNamesReply(busNames) ==
  /\ busPending
  /\ route = "BusSystem"
  /\ busPending' = FALSE
  /\ jsonValue' = IF busNames = <<>>
                    THEN [kind |-> "nullObjects"]
                    ELSE [kind |-> "names", names |-> SortNames(busNames)]
  /\ ends' = ends + 1
  /\ UNCHANGED <<route, pending, announced, pushed, refs, crashed, resStatus>>
  /\ UNCHANGED describeVars

\* The GetSubTreePaths callback of handle_list: the list envelope.
SubTreeReply(paths) ==
  /\ busPending
  /\ route = "List"
  /\ busPending' = FALSE
  /\ jsonValue' = [kind |-> "data", data |-> paths]
  /\ ends' = ends + 1
  /\ UNCHANGED <<route, pending, announced, pushed, refs, crashed, resStatus>>
  /\ UNCHANGED describeVars

(***************************************************************************)
(* The end of an Introspect callback for p that started the Introspects of *)
(* the paths in new: use_count() counts this callback's copy and the new   *)
(* ones; at 1 the objects are written and the response ends.  Then the     *)
(* callback's copy dies.                                                   *)
(***************************************************************************)
\* Mutant: use_count() is read before the children's Introspects start.
UseCountBeforeKids(new) == IF TxLive THEN refs ELSE 0

UseCount(new) == IF TxLive THEN refs + Cardinality(new) ELSE 0

\* Mutant: the callback's own copy of the transaction is never released.
FinishLeaks(p, new, objs) ==
  /\ pending' = (pending \ {p}) \cup new
  /\ announced' = announced \cup new
  /\ refs' = refs + Cardinality(new)
  /\ IF UseCount(new) = 1
       THEN /\ jsonValue' = [kind |-> "objects", objects |-> objs]
            /\ ends' = ends + 1
       ELSE UNCHANGED <<jsonValue, ends>>

\* Mutant: every callback passes the use_count() test.
FinishEndsEvery(p, new, objs) ==
  /\ pending' = (pending \ {p}) \cup new
  /\ announced' = announced \cup new
  /\ refs' = refs - 1 + Cardinality(new)
  /\ IF UseCount(new) >= 1
       THEN /\ jsonValue' = [kind |-> "objects", objects |-> objs]
            /\ ends' = ends + 1
       ELSE UNCHANGED <<jsonValue, ends>>

Finish(p, new, objs) ==
  /\ pending' = (pending \ {p}) \cup new
  /\ announced' = announced \cup new
  /\ refs' = refs - 1 + Cardinality(new)
  /\ IF UseCount(new) = 1
       THEN /\ jsonValue' = [kind |-> "objects", objects |-> objs]
            /\ ends' = ends + 1
       ELSE UNCHANGED <<jsonValue, ends>>

\* The Introspect call for p fails: logged, nothing pushed.
IntrospectError(p) ==
  /\ ~crashed
  /\ p \in pending
  /\ Finish(p, {}, pushed)
  /\ UNCHANGED <<route, busPending, pushed, crashed, resStatus>>
  /\ UNCHANGED describeVars

(***************************************************************************)
(* The Introspect reply for p: p is pushed into the transaction; if the   *)
(* XML parses, each child <node> in kids is introspected in turn.  Through *)
(* a null transaction the push_back is the crash.                          *)
(***************************************************************************)
\* Mutant: the objects are taken before the path is pushed.
IntrospectReplyLatePush(p, kids) ==
  /\ ~crashed
  /\ p \in pending
  /\ IF TxLive
       THEN /\ pushed' = pushed \cup {p}
            /\ Finish(p, kids, pushed)
            /\ UNCHANGED crashed
       ELSE /\ crashed' = TRUE
            /\ UNCHANGED <<pending, announced, pushed, refs, jsonValue, ends>>
  /\ UNCHANGED <<route, busPending, resStatus>>
  /\ UNCHANGED describeVars

IntrospectReply(p, kids) ==
  /\ ~crashed
  /\ p \in pending
  /\ IF TxLive
       THEN /\ pushed' = pushed \cup {p}
            /\ Finish(p, kids, pushed')
            /\ UNCHANGED crashed
       ELSE /\ crashed' = TRUE
            /\ UNCHANGED <<pending, announced, pushed, refs, jsonValue, ends>>
  /\ UNCHANGED <<route, busPending, resStatus>>
  /\ UNCHANGED describeVars

(***************************************************************************)
(* GET /bus/system/<str>/<path>.  The split loop stops at the first       *)
(* dotted segment; the interface and the method take one segment each, so *)
(* a trailing slash after a method is one segment too many: 404 with no   *)
(* bus call.  Otherwise one Introspect on the object path is started.     *)
(***************************************************************************)
DescribeTooDeep(segs) ==
  /\ route = "None"
  /\ "Describe" \in Routes
  /\ TooDeep(segs)
  /\ route' = "Describe"
  /\ request' = segs
  /\ resStatus' = 404
  /\ ends' = ends + 1
  /\ UNCHANGED <<busPending, pending, announced, pushed, refs, crashed,
                 jsonValue, interfaceName>>

StartDescribe(segs) ==
  /\ route = "None"
  /\ "Describe" \in Routes
  /\ ~TooDeep(segs)
  /\ route' = "Describe"
  /\ request' = segs
  /\ interfaceName' = InterfaceOf(segs)
  /\ busPending' = TRUE
  /\ UNCHANGED <<pending, announced, pushed, refs, crashed, resStatus,
                 jsonValue, ends>>

\* Either Introspect callback with an error: only logged, then res.end().
DescribeError ==
  /\ busPending
  /\ route = "Describe"
  /\ busPending' = FALSE
  /\ ends' = ends + 1
  /\ UNCHANGED <<route, pending, announced, pushed, refs, crashed, resStatus,
                 jsonValue, describeVars>>

(***************************************************************************)
(* The reply has no <node> root: 500; the interface listing also writes   *)
(* {"status": "XML parse error"}, the describe callback no body.          *)
(***************************************************************************)
DescribeParseError ==
  /\ busPending
  /\ route = "Describe"
  /\ busPending' = FALSE
  /\ resStatus' = 500
  /\ jsonValue' = IF interfaceName = "None" THEN [kind |-> "xmlError"]
                                           ELSE jsonValue
  /\ ends' = ends + 1
  /\ UNCHANGED <<route, pending, announced, pushed, refs, crashed,
                 describeVars>>

(***************************************************************************)
(* A parsed reply listing the interfaces ifs: with no interface requested *)
(* they are listed; otherwise the loop breaks at the requested one and     *)
(* describes it, and 404 is set when the loop ran off the end.            *)
(***************************************************************************)
DescribeReply(ifs) ==
  /\ busPending
  /\ route = "Describe"
  /\ busPending' = FALSE
  /\ jsonValue' =
       CASE interfaceName = "None" -> [kind |-> "interfaces", interfaces |-> ifs]
         [] interfaceName \in ifs -> [kind |-> "describe",
                                       interface |-> interfaceName]
         [] OTHER -> jsonValue
  /\ resStatus' = IF interfaceName \notin ifs \cup {"None"} THEN 404
                                                          ELSE resStatus
  /\ ends' = ends + 1
  /\ UNCHANGED <<route, pending, announced, pushed, refs, crashed,
                 describeVars>>

Next ==
  \/ StartBusSystem
  \/ StartList
  \/ StartObjects
  \/ ListNamesError
  \/ SubTreeError
  \/ \E busNames \in NameLists : ListNamesReply(busNames)
  \/ \E paths \in SUBSET Nodes : SubTreeReply(paths)
  \/ \E p \in pending : IntrospectError(p)
  \/ \E p \in pending : \E kids \in SUBSET Kids[p] : IntrospectReply(p, kids)
  \/ \E segs \in Paths : DescribeTooDeep(segs) \/ StartDescribe(segs)
  \/ DescribeError
  \/ DescribeParseError
  \/ \E ifs \in SUBSET Ifaces : DescribeReply(ifs)

(***************************************************************************)
(* Each bus call is answered, by a reply or an error; the bus's call       *)
(* timeout makes the answer certain.                                       *)
(***************************************************************************)
Fairness ==
  /\ WF_vars(StartBusSystem \/ StartList \/ StartObjects
             \/ \E segs \in Paths : DescribeTooDeep(segs) \/ StartDescribe(segs))
  /\ WF_vars(DescribeError \/ DescribeParseError
             \/ \E ifs \in SUBSET Ifaces : DescribeReply(ifs))
  /\ WF_vars(ListNamesError \/ \E busNames \in NameLists : ListNamesReply(busNames))
  /\ WF_vars(SubTreeError \/ \E paths \in SUBSET Nodes : SubTreeReply(paths))
  /\ \A p \in Nodes :
       WF_vars(IntrospectError(p) \/ \E kids \in SUBSET Kids[p] :
                                        IntrospectReply(p, kids))

Spec == Init /\ [][Next]_vars /\ Fairness

-----------------------------------------------------------------------------
\* Type invariant.
TypeOK ==
  /\ route \in {"None"} \cup Routes
  /\ busPending \in BOOLEAN
  /\ pending \subseteq Nodes /\ announced \subseteq Nodes
  /\ pushed \subseteq Nodes
  /\ refs \in Nat
  /\ crashed \in BOOLEAN
  /\ resStatus \in {200, 404, 500}
  /\ jsonValue \in JsonValues
  /\ ends \in Nat
  /\ interfaceName \in {"None"} \cup Ifaces
  /\ request \in {<<>>} \cup Paths

\* The response of every route is completed at most once.
EndOnce == ends <= 1

(***************************************************************************)
(* When the walk answers, no Introspect is still in flight, every child a *)
(* reply listed has been introspected, and the objects are exactly the     *)
(* paths whose Introspect succeeded.  It is about the use_count() test of *)
(* introspect_objects racing the children its own callback starts.        *)
(***************************************************************************)
WalkComplete ==
  route = "Objects" /\ ends > 0 =>
    /\ pending = {}
    /\ jsonValue = [kind |-> "objects", objects |-> pushed]

\* Every request is eventually answered.
Answered == <>(ends > 0)

\* The routes implement the HttpResponse contract.
Resp == INSTANCE HttpResponse
          WITH answered <- ends > 0,
               answer <- IF ends > 0 THEN <<resStatus, jsonValue>> ELSE <<>>,
               NoAnswer <- <<>>

RespSpec == Resp!Spec
=============================================================================
