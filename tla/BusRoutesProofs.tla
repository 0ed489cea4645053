-------------------------- MODULE BusRoutesProofs --------------------------
(***************************************************************************)
(* Proofs about the listing routes and the introspection walk, for every   *)
(* object tree, every set of bus names, and with or without a live        *)
(* transaction.                                                            *)
(*                                                                         *)
(* The walk is answered by the callback that sees use_count() == 1.  The  *)
(* copies of the transaction are the Introspects in flight, so that       *)
(* callback is the last one, and it started no child.  For the count to   *)
(* grow by the number of children a callback starts, those children must  *)
(* be new: no path is introspected twice.  That holds because every path  *)
(* has one parent (BusRoutesAssumption) and a parent's children are        *)
(* started only by its own callback: the children of a path in flight are *)
(* not announced yet (Fresh), and every announced path other than / has a *)
(* parent whose callback has run (ParentDone).  Once the response is      *)
(* completed nothing is in flight, so no action is enabled and the answer *)
(* never changes.                                                          *)
(*                                                                         *)
(* The type of res.json_value (TypeCorrect) rests on the sorted name list *)
(* being a sequence of names: std::sort is modelled by a CHOOSE of an      *)
(* ascending arrangement, and one exists because the listed names are     *)
(* distinct naturals (SortLemmas, AscendingExists).                       *)
(*                                                                         *)
(* The describe route's interface_name is a dotted segment of its path or *)
(* "None": the first dotted position FirstIface exists because a          *)
(* non-empty set of naturals has a least element (LeastElement), and      *)
(* while the Introspect is in flight the chosen interface is that of the  *)
(* request (DescribeState).                                                *)
(***************************************************************************)
EXTENDS BusRoutes, FiniteSetTheorems, LeastElement, SortLemmas, TLAPS

\* TypeOK without the type of res.json_value.
StateType ==
  /\ route \in {"None", "BusSystem", "List", "Objects", "Describe"}
  /\ busPending \in BOOLEAN
  /\ pending \subseteq Nodes /\ announced \subseteq Nodes
  /\ pushed \subseteq Nodes
  /\ refs \in Nat
  /\ ends \in Nat

\* Each Introspect in flight holds one copy of the transaction.
CountIsPending == refs = Cardinality(pending)

\* Before the request nothing has happened.
NoneIdle ==
  route = "None" => /\ ~busPending /\ pending = {} /\ announced = {}
                    /\ ends = 0 /\ jsonValue = NullJson

\* The listing routes start no Introspect, and the walk no other bus call.
BusQuiet ==
  /\ route # "Objects" => pending = {} /\ announced = {}
  /\ route = "Objects" => ~busPending

\* A path in flight has announced none of its children yet.
Fresh == \A q \in pending : Kids[q] \cap announced = {}

\* Every announced path but / was listed by a callback that has run.
ParentDone ==
  \A x \in announced \ {Root} : \E q \in announced \ pending : x \in Kids[q]

\* Once completed, nothing is left to run.
Ended ==
  /\ ends \in {0, 1}
  /\ ends = 1 => pending = {} /\ ~busPending /\ route # "None"

(***************************************************************************)
(* The describe route's request is a path of the model; while its         *)
(* Introspect is in flight, interface_name is the first dotted segment,   *)
(* the path is not too deep, and no body has been written.                *)
(***************************************************************************)
DescribeState ==
  route = "Describe" =>
    /\ request \in Paths
    /\ busPending => /\ interfaceName = InterfaceOf(request)
                     /\ ~TooDeep(request)
                     /\ jsonValue = NullJson

IInv ==
  /\ StateType
  /\ CountIsPending
  /\ NoneIdle
  /\ BusQuiet
  /\ pending \subseteq announced
  /\ Fresh
  /\ ParentDone
  /\ Ended
  /\ WalkComplete
  /\ DescribeState

-----------------------------------------------------------------------------
\* Retiring an element of a finite set lowers its size by one.
LEMMA Retire ==
  ASSUME NEW P, IsFiniteSet(P), NEW x \in P
  PROVE  /\ IsFiniteSet(P \ {x})
         /\ Cardinality(P \ {x}) = Cardinality(P) - 1
         /\ Cardinality(P) \in Nat \ {0}
<1>1. Cardinality(P) \in Nat /\ (Cardinality(P) = 0 <=> P = {})
  BY FS_CardinalityType, FS_EmptySet
<1>2. QED
  BY <1>1, FS_RemoveElement

\* Adding a disjoint finite set adds its size.
LEMMA AddDisjoint ==
  ASSUME NEW S, NEW T, IsFiniteSet(S), IsFiniteSet(T), S \cap T = {}
  PROVE  /\ IsFiniteSet(S \cup T)
         /\ Cardinality(S \cup T) = Cardinality(S) + Cardinality(T)
<1>1. Cardinality(S \cap T) = 0
  BY FS_EmptySet
<1>2. /\ IsFiniteSet(S \cup T)
      /\ Cardinality(S \cup T) =
           Cardinality(S) + Cardinality(T) - Cardinality(S \cap T)
  BY FS_Union
<1>3. Cardinality(S) \in Nat /\ Cardinality(T) \in Nat
  BY FS_CardinalityType
<1>4. QED
  BY <1>1, <1>2, <1>3

\* Every subset of the object paths is finite, with a natural size.
LEMMA NodesCount ==
  ASSUME NEW S \in SUBSET Nodes
  PROVE  IsFiniteSet(S) /\ Cardinality(S) \in Nat
BY BusRoutesAssumption, FS_Subset, FS_CardinalityType

(***************************************************************************)
(* The split loop of the describe route stops at the first dotted segment,*)
(* or after the last segment when none is dotted.                          *)
(***************************************************************************)
LEMMA FirstIfaceFacts ==
  ASSUME NEW segs \in Paths
  PROVE  /\ DOMAIN segs = 1..Len(segs) /\ Len(segs) \in Nat
         /\ FirstIface(segs) \in 1..Len(segs) + 1
         /\ FirstIface(segs) <= Len(segs) => segs[FirstIface(segs)] \in Ifaces
         /\ \A j \in 1..FirstIface(segs) - 1 : segs[j] \notin Ifaces
<1>1. PICK n \in 1..MaxSegs : segs \in [1..n -> Segments]
  BY DEF Paths
<1>2. DOMAIN segs = 1..n /\ Len(segs) = n /\ n \in Nat
  BY <1>1, BusRoutesAssumption
<1>3. DEFINE Stop(i) == /\ i <= Len(segs) => segs[i] \in Ifaces
                       /\ \A j \in 1..i - 1 : segs[j] \notin Ifaces
<1>4. \E i \in 1..Len(segs) + 1 : Stop(i)
  <2> DEFINE T == {i \in 1..Len(segs) + 1 : i <= Len(segs) => segs[i] \in Ifaces}
  <2>1. T \in SUBSET Nat
    BY <1>2
  <2>5. Len(segs) + 1 \in T
    BY <1>2
  <2>2. PICK m \in T : \A y \in T : m <= y
    BY <2>1, <2>5, LeastExists, Zenon
  <2>3. \A j \in 1..m - 1 : segs[j] \notin Ifaces
    BY <1>2, <2>2
  <2>4. QED
    BY <2>2, <2>3
<1>5. FirstIface(segs) \in 1..Len(segs) + 1 /\ Stop(FirstIface(segs))
  BY <1>4, Zenon DEF FirstIface
<1>6. QED
  BY <1>2, <1>5

(***************************************************************************)
(* The children a callback for p in flight starts are new: none of them is *)
(* announced, and none has a child already announced or among them.      *)
(***************************************************************************)
LEMMA KidsFresh ==
  ASSUME IInv, NEW p \in pending, NEW kids \in SUBSET Kids[p]
  PROVE  /\ kids \cap announced = {}
         /\ p \notin kids
         /\ \A c \in kids : Kids[c] \cap (announced \cup kids) = {}
         /\ \A q \in pending \ {p} : Kids[q] \cap kids = {}
<1>1. kids \cap announced = {}
  BY DEF IInv, Fresh
<1>2. p \in announced
  BY DEF IInv
<1>3. p \notin kids
  BY <1>1, <1>2
<1>4. ASSUME NEW c \in kids, NEW y \in Kids[c] \cap announced PROVE FALSE
  <2>1. y # Root /\ c \in Nodes
    BY BusRoutesAssumption DEF IInv, StateType
  <2>2. PICK q \in announced \ pending : y \in Kids[q]
    BY <1>4, <2>1 DEF IInv, ParentDone
  <2>3. q = c
    BY <2>1, <2>2, BusRoutesAssumption DEF IInv, StateType
  <2>4. QED
    BY <1>1, <2>2, <2>3
<1>5. ASSUME NEW c \in kids, NEW y \in Kids[c] \cap kids PROVE FALSE
  <2>1. c \in Nodes /\ p \in Nodes
    BY BusRoutesAssumption DEF IInv, StateType
  <2>2. c = p
    BY <1>5, <2>1, BusRoutesAssumption
  <2>3. QED
    BY <1>3, <2>2
<1>6. \A q \in pending \ {p} : Kids[q] \cap kids = {}
  BY BusRoutesAssumption DEF IInv, StateType
<1>7. QED
  BY <1>1, <1>3, <1>4, <1>5, <1>6

LEMMA InitIInv == Init => IInv
<1> SUFFICES ASSUME Init PROVE IInv
  OBVIOUS
<1>1. StateType
  BY DEF Init, StateType
<1>5. NoneIdle /\ BusQuiet
  BY DEF Init, NoneIdle, BusQuiet
<1>6. Ended /\ WalkComplete /\ DescribeState
  BY DEF Init, Ended, WalkComplete, DescribeState
<1>2. CountIsPending
  BY FS_EmptySet DEF Init, CountIsPending
<1>3. Fresh /\ ParentDone
  BY DEF Init, Fresh, ParentDone
<1>4. QED
  BY <1>1, <1>2, <1>3, <1>5, <1>6 DEF Init, IInv

\* While an Introspect is in flight the walk runs and nothing is answered.
LEMMA Walking ==
  ASSUME IInv, NEW p \in pending
  PROVE  /\ route = "Objects" /\ ends = 0 /\ ~busPending
         /\ refs = Cardinality(pending) /\ Cardinality(pending) \in Nat \ {0}
<1>1. route = "Objects"
  BY DEF IInv, BusQuiet
<1>2. ends = 0
  BY DEF IInv, Ended
<1>3. ~busPending
  BY <1>1 DEF IInv, BusQuiet
<1>4. Cardinality(pending) \in Nat \ {0}
  BY NodesCount, Retire DEF IInv, StateType
<1>5. QED
  BY <1>1, <1>2, <1>3, <1>4 DEF IInv, CountIsPending

(***************************************************************************)
(* The end of an Introspect callback for p in flight that started kids and *)
(* leaves the objects objs, equal to what was pushed: the count follows    *)
(* the calls in flight, and the callback that passes the use_count() test  *)
(* is the last one and answers with every pushed path.                     *)
(***************************************************************************)
LEMMA FinishStep ==
  ASSUME IInv, NEW p \in pending, NEW kids \in SUBSET Kids[p], NEW objs,
         Finish(p, kids, objs), objs = pushed', pushed' \subseteq Nodes,
         UNCHANGED <<route, busPending>>
  PROVE  IInv'
<1>1. /\ route = "Objects" /\ ends = 0 /\ ~busPending
      /\ refs = Cardinality(pending) /\ Cardinality(pending) \in Nat \ {0}
  BY Walking
<1>2. /\ kids \cap announced = {}
      /\ p \notin kids
      /\ \A c \in kids : Kids[c] \cap (announced \cup kids) = {}
      /\ \A q \in pending \ {p} : Kids[q] \cap kids = {}
  BY KidsFresh
<1>3. /\ pending \subseteq Nodes /\ announced \subseteq Nodes
      /\ kids \subseteq Nodes /\ pending \subseteq announced
  BY BusRoutesAssumption DEF IInv, StateType
<1>4. /\ IsFiniteSet(pending \ {p})
      /\ Cardinality(pending \ {p}) = Cardinality(pending) - 1
  BY <1>3, NodesCount, Retire
<1>5. IsFiniteSet(kids) /\ Cardinality(kids) \in Nat
  BY <1>3, NodesCount
<1>6. /\ IsFiniteSet((pending \ {p}) \cup kids)
      /\ Cardinality((pending \ {p}) \cup kids)
           = Cardinality(pending \ {p}) + Cardinality(kids)
  BY <1>2, <1>3, <1>4, <1>5, AddDisjoint
<1>7. /\ pending' = (pending \ {p}) \cup kids
      /\ announced' = announced \cup kids
      /\ refs' = refs - 1 + Cardinality(kids)
  BY DEF Finish
<1>8. CountIsPending' /\ refs' \in Nat
  BY <1>1, <1>4, <1>5, <1>6, <1>7 DEF CountIsPending
<1>9. Fresh'
  BY <1>2, <1>7 DEF IInv, Fresh
<1>10. ParentDone'
  <2>1. SUFFICES ASSUME NEW x \in announced' \ {Root}
                 PROVE  \E q \in announced' \ pending' : x \in Kids[q]
    BY DEF ParentDone
  <2>2. CASE x \in announced
    <3>1. PICK q \in announced \ pending : x \in Kids[q]
      BY <2>2 DEF IInv, ParentDone
    <3>2. q \notin kids
      BY <1>2, <3>1
    <3>3. QED
      BY <1>7, <3>1, <3>2
  <2>3. CASE x \in kids
    BY <1>2, <1>3, <1>7, <2>3
  <2>4. QED
    BY <1>7, <2>2, <2>3
<1>11. Ended' /\ WalkComplete'
  <2>1. CASE UseCount(kids) = 1
    <3>1. refs + Cardinality(kids) = 1
      BY <2>1, BusRoutesAssumption DEF UseCount
    <3>2. Cardinality(pending \ {p}) = 0 /\ Cardinality(kids) = 0
      BY <1>1, <1>4, <1>5, <3>1
    <3>3. pending \ {p} = {} /\ kids = {}
      BY <1>4, <1>5, <3>2, FS_EmptySet
    <3>4. pending' = {}
      BY <1>7, <3>3
    <3>5. ends' = 1 /\ jsonValue' = [kind |-> "objects", objects |-> pushed']
      BY <1>1, <2>1 DEF Finish
    <3>6. QED
      BY <1>1, <3>4, <3>5 DEF Ended, WalkComplete
  <2>2. CASE UseCount(kids) # 1
    <3>1. ends' = 0
      BY <1>1, <2>2 DEF Finish
    <3>2. QED
      BY <3>1 DEF Ended, WalkComplete
  <2>3. QED
    BY <2>1, <2>2
<1>12. StateType'
  BY <1>1, <1>3, <1>7, <1>8, <1>11 DEF IInv, StateType, Ended
<1>13. NoneIdle' /\ BusQuiet' /\ (pending \subseteq announced)'
  BY <1>1, <1>3, <1>7 DEF NoneIdle, BusQuiet
<1>15. DescribeState'
  BY <1>1 DEF DescribeState
<1>14. QED
  BY <1>8, <1>9, <1>10, <1>11, <1>12, <1>13, <1>15 DEF IInv
\* A listing or describe callback completes the response it started.
LEMMA BusReplyStep ==
  ASSUME IInv, busPending, busPending' = FALSE, ends' = ends + 1,
         UNCHANGED <<route, pending, announced, pushed, refs, request>>
  PROVE  IInv'
<1>1. route \in {"BusSystem", "List", "Describe"} /\ pending = {} /\ ends = 0
  BY DEF IInv, StateType, NoneIdle, BusQuiet, Ended
<1>7. route' = route /\ pending' = pending /\ announced' = announced
      /\ pushed' = pushed /\ refs' = refs
  OBVIOUS
<1>8. busPending' \in BOOLEAN /\ ends' \in Nat
  <2>1. busPending' \in BOOLEAN
    BY Zenon
  <2>2. ends' \in Nat
    BY <1>1
  <2>3. QED
    BY <2>1, <2>2
<1>2. StateType' /\ CountIsPending'
  BY <1>7, <1>8 DEF IInv, StateType, CountIsPending
<1>3. NoneIdle' /\ BusQuiet' /\ (pending \subseteq announced)'
  BY <1>1 DEF IInv, NoneIdle, BusQuiet
<1>4. Fresh' /\ ParentDone'
  BY DEF IInv, Fresh, ParentDone
<1>5. Ended' /\ WalkComplete'
  BY <1>1 DEF Ended, WalkComplete
<1>9. DescribeState'
  BY DEF IInv, DescribeState
<1>6. QED
  BY <1>2, <1>3, <1>4, <1>5, <1>9 DEF IInv

LEMMA NextIInv == IInv /\ [Next]_vars => IInv'
<1> SUFFICES ASSUME IInv, [Next]_vars PROVE IInv'
  OBVIOUS
<1>1. ASSUME NEW r \in {"BusSystem", "List"}, StartBusCall(r) PROVE IInv'
  <2>1. /\ route = "None" /\ route' = r /\ busPending' = TRUE
        /\ UNCHANGED <<pending, announced, pushed, refs, ends>>
    BY <1>1 DEF StartBusCall
  <2>2. pending = {} /\ announced = {} /\ ends = 0
    BY <2>1 DEF IInv, NoneIdle
  <2>3. r \in {"None", "BusSystem", "List", "Objects", "Describe"}
        /\ r \notin {"None", "Describe"}
    OBVIOUS
  <2>4. QED
    BY <1>1, <2>1, <2>2, <2>3
       DEF IInv, StateType, CountIsPending, NoneIdle, BusQuiet, Fresh,
           ParentDone, Ended, WalkComplete, DescribeState
<1>2. CASE StartBusSystem
  BY <1>1, <1>2, BusRoutesAssumption DEF StartBusSystem, StartBusCall
<1>3. CASE StartList
  BY <1>1, <1>3 DEF StartList, StartBusCall
<1>4. CASE StartObjects
  <2>1. /\ route = "None" /\ route' = "Objects"
        /\ pending' = {Root} /\ announced' = {Root} /\ refs' = 1
        /\ UNCHANGED <<busPending, pushed, ends>>
    BY <1>4 DEF StartObjects
  <2>2. ~busPending /\ ends = 0
    BY <2>1 DEF IInv, NoneIdle
  <2>3. Root \in Nodes /\ Root \notin Kids[Root]
    BY BusRoutesAssumption
  <2>4. Cardinality({Root}) = 1
    BY FS_Singleton
  <2>5. StateType' /\ CountIsPending'
    BY <2>1, <2>3, <2>4 DEF IInv, StateType, CountIsPending
  <2>6. Fresh' /\ ParentDone'
    BY <2>1, <2>3 DEF Fresh, ParentDone
  <2>7. QED
    BY <2>1, <2>2, <2>5, <2>6
       DEF IInv, NoneIdle, BusQuiet, Ended, WalkComplete, DescribeState
<1>5. ASSUME NEW r \in {"BusSystem", "List"}, BusCallFails(r) PROVE IInv'
  BY <1>5, BusReplyStep DEF BusCallFails, describeVars
<1>6. CASE ListNamesError
  BY <1>5, <1>6 DEF ListNamesError
<1>7. CASE SubTreeError
  BY <1>5, <1>7 DEF SubTreeError
<1>8. ASSUME NEW busNames \in NameLists, ListNamesReply(busNames)
      PROVE  IInv'
  BY <1>8, BusReplyStep DEF ListNamesReply, describeVars
<1>9. ASSUME NEW paths \in SUBSET Nodes, SubTreeReply(paths) PROVE IInv'
  BY <1>9, BusReplyStep DEF SubTreeReply, describeVars
<1>10. ASSUME NEW p \in pending, IntrospectError(p) PROVE IInv'
  <2>1. Finish(p, {}, pushed) /\ UNCHANGED <<route, busPending, pushed>>
    BY <1>10 DEF IntrospectError
  <2>2. pushed \subseteq Nodes /\ {} \in SUBSET Kids[p]
    BY DEF IInv, StateType
  <2>3. QED
    BY <2>1, <2>2, FinishStep
<1>11. ASSUME NEW p \in pending, NEW kids \in SUBSET Kids[p],
              IntrospectReply(p, kids)
       PROVE  IInv'
  <2>1. CASE TxLive
    <3>1. /\ pushed' = pushed \cup {p} /\ Finish(p, kids, pushed')
          /\ UNCHANGED <<route, busPending>>
      BY <1>11, <2>1 DEF IntrospectReply
    <3>2. pushed' \subseteq Nodes
      BY <3>1 DEF IInv, StateType
    <3>3. QED
      BY <3>1, <3>2, FinishStep
  <2>2. CASE ~TxLive
    <3>1. UNCHANGED <<route, busPending, pending, announced, pushed, refs,
                      jsonValue, ends>>
      BY <1>11, <2>2 DEF IntrospectReply
    <3>2. QED
      BY <3>1 DEF IInv, StateType, CountIsPending, NoneIdle, BusQuiet, Fresh,
                  ParentDone, Ended, WalkComplete, DescribeState
  <2>3. QED
    BY <2>1, <2>2
<1>13. ASSUME NEW segs \in Paths, DescribeTooDeep(segs) PROVE IInv'
  <2>1. /\ route = "None" /\ route' = "Describe" /\ ends' = ends + 1
        /\ UNCHANGED <<busPending, pending, announced, pushed, refs>>
    BY <1>13 DEF DescribeTooDeep
  <2>2. /\ ~busPending /\ pending = {} /\ announced = {} /\ ends = 0
        /\ jsonValue = NullJson
    BY <2>1 DEF IInv, NoneIdle
  <2>4. request' = segs /\ jsonValue' = jsonValue
    BY <1>13 DEF DescribeTooDeep
  <2>5. DescribeState'
    BY <2>1, <2>2, <2>4 DEF DescribeState
  <2>3. QED
    BY <2>1, <2>2, <2>5 DEF IInv, StateType, CountIsPending, NoneIdle,
                            BusQuiet, Fresh, ParentDone, Ended, WalkComplete
<1>14. ASSUME NEW segs \in Paths, StartDescribe(segs) PROVE IInv'
  <2>1. /\ route = "None" /\ route' = "Describe" /\ busPending' = TRUE
        /\ UNCHANGED <<pending, announced, pushed, refs, ends>>
    BY <1>14 DEF StartDescribe
  <2>2. pending = {} /\ announced = {} /\ ends = 0 /\ jsonValue = NullJson
    BY <2>1 DEF IInv, NoneIdle
  <2>4. /\ request' = segs /\ interfaceName' = InterfaceOf(segs)
        /\ ~TooDeep(segs) /\ jsonValue' = jsonValue
    BY <1>14 DEF StartDescribe
  <2>5. DescribeState'
    BY <2>1, <2>2, <2>4 DEF DescribeState
  <2>3. QED
    BY <2>1, <2>2, <2>5 DEF IInv, StateType, CountIsPending, NoneIdle,
                            BusQuiet, Fresh, ParentDone, Ended, WalkComplete
<1>15. CASE DescribeError
  BY <1>15, BusReplyStep DEF DescribeError, describeVars
<1>16. CASE DescribeParseError
  BY <1>16, BusReplyStep DEF DescribeParseError, describeVars
<1>17. ASSUME NEW ifs \in SUBSET Ifaces, DescribeReply(ifs) PROVE IInv'
  BY <1>17, BusReplyStep DEF DescribeReply, describeVars
<1>12. CASE UNCHANGED vars
  BY <1>12 DEF vars, describeVars, IInv, StateType, CountIsPending, NoneIdle,
               BusQuiet, Fresh, ParentDone, Ended, WalkComplete,
               DescribeState
<1>18. QED
  BY <1>2, <1>3, <1>4, <1>6, <1>7, <1>8, <1>9, <1>10, <1>11, <1>12, <1>13,
     <1>14, <1>15, <1>16, <1>17 DEF Next

THEOREM IInvHolds == Spec => []IInv
BY InitIInv, NextIInv, PTL DEF Spec
-----------------------------------------------------------------------------
(***************************************************************************)
(* Every listing route and the introspection walk complete their response *)
(* at most once: the ListNames and GetSubTreePaths callbacks run once, and *)
(* only the last Introspect callback of the walk passes use_count() == 1. *)
(***************************************************************************)
THEOREM EndOnceHolds == Spec => []EndOnce
<1>1. IInv => EndOnce
  BY DEF IInv, Ended, EndOnce
<1>2. QED
  BY <1>1, IInvHolds, PTL

(***************************************************************************)
(* When the introspection walk answers, no Introspect is in flight and the *)
(* objects are exactly the paths pushed by successful Introspect replies, *)
(* for every object tree and order of the replies.                         *)
(***************************************************************************)
THEOREM WalkCompleteHolds == Spec => []WalkComplete
<1>1. IInv => WalkComplete
  BY DEF IInv
<1>2. QED
  BY <1>1, IInvHolds, PTL

\* Once the response is completed, no action of the routes is enabled.
LEMMA Idle == IInv /\ ends # 0 => ~Next
<1> SUFFICES ASSUME IInv, ends # 0 PROVE ~Next
  OBVIOUS
<1>1. pending = {} /\ ~busPending /\ route # "None"
  BY DEF IInv, StateType, Ended
<1>2. QED
  BY <1>1 DEF Next, StartBusSystem, StartList, StartBusCall, StartObjects,
              ListNamesError, SubTreeError, BusCallFails, ListNamesReply,
              SubTreeReply, DescribeTooDeep, StartDescribe, DescribeError,
              DescribeParseError, DescribeReply

\* Every step is a step of HttpResponse or leaves the response unchanged.
LEMMA ResponseStep == IInv /\ [Next]_vars => [Resp!Respond]_Resp!vars
<1> SUFFICES ASSUME IInv, [Next]_vars PROVE [Resp!Respond]_Resp!vars
  OBVIOUS
<1>1. ends \in {0, 1} /\ ends' \in {0, 1}
  <2>1. IInv'
    BY NextIInv
  <2>2. QED
    BY <2>1 DEF IInv, Ended
<1>2. CASE ends # 0
  <2>1. ~Next
    BY <1>2, Idle
  <2>2. UNCHANGED vars
    BY <2>1
  <2>3. QED
    BY <2>2 DEF vars, Resp!vars
<1>3. CASE ends = 0 /\ ends' = 0
  BY <1>3 DEF Resp!vars
<1>4. CASE ends = 0 /\ ends' # 0
  BY <1>1, <1>4 DEF Resp!Respond
<1>5. QED
  BY <1>2, <1>3, <1>4

(***************************************************************************)
(* The listing routes and the walk implement HttpResponse: the response is *)
(* completed once and its status and body never change afterwards.         *)
(***************************************************************************)
THEOREM RespSpecHolds == Spec => RespSpec
<1>1. Init => Resp!Init
  BY DEF Init, Resp!Init
<1>2. QED
  BY <1>1, ResponseStep, IInvHolds, PTL DEF Spec, RespSpec, Resp!Spec

-----------------------------------------------------------------------------
(***************************************************************************)
(* The type of res.json_value.  The ListNames callback writes the sorted   *)
(* names; the sort is a CHOOSE of an ascending arrangement of the reply,   *)
(* which exists because the reply's names are distinct naturals            *)
(* (SortLemmas!AscendingExists).                                           *)
(***************************************************************************)

\* The sorted names of a ListNames reply are bus names.
LEMMA SortNamesType ==
  ASSUME NEW busNames \in NameLists
  PROVE  SortNames(busNames) \in Seq(Names)
<1>0. IsFiniteSet(Names) /\ Names \subseteq Nat
  BY BusRoutesAssumption
<1>1. PICK S \in SUBSET Names : busNames \in SetToSeqs(S)
  BY DEF NameLists
<1>2. IsFiniteSet(S) /\ Cardinality(S) \in Nat
  <2>1. IsFiniteSet(S)
    BY <1>0, <1>1, FS_Subset, Zenon
  <2>2. QED
    BY <2>1, FS_CardinalityType
<1> DEFINE n == Cardinality(S)
<1>3. /\ busNames \in [1..n -> S]
      /\ \A i, j \in 1..n : i # j => busNames[i] # busNames[j]
  BY <1>1 DEF SetToSeqs
<1>4. busNames = [i \in 1..n |-> busNames[i]]
  BY <1>3
<1>5. busNames \in Seq(S)
  <2>1. [i \in 1..n |-> busNames[i]] \in Seq(S)
    BY <1>2, <1>3, IsASeq
  <2>2. QED
    BY <1>4, <2>1, Zenon
<1>6. DOMAIN busNames = 1..Len(busNames) /\ DOMAIN busNames = 1..n
  BY <1>3, <1>5, LenProperties
<1>7. busNames \in Seq(Nat)
  <2>1. S \subseteq Nat
    BY <1>0, <1>1
  <2>2. \A i \in 1..n : busNames[i] \in Nat
    BY <1>3, <2>1, Zenon
  <2>4. [i \in 1..n |-> busNames[i]] \in Seq(Nat)
    BY <1>2, <2>2, IsASeq
  <2>3. QED
    BY <1>4, <2>4, Zenon
<1>8. \A i, j \in 1..Len(busNames) : i # j => busNames[i] # busNames[j]
  <2>1. 1..Len(busNames) = 1..n
    BY <1>6
  <2>2. QED
    BY <1>3, <2>1, Zenon
<1> DEFINE Asc(t) == \A i, j \in 1..Len(busNames) : i < j => t[i] < t[j]
<1>9. \E t \in [1..Len(busNames) -> Range(busNames)] : Asc(t)
  BY <1>7, <1>8, AscendingExists
<1>10. SortNames(busNames) \in [1..Len(busNames) -> Range(busNames)]
  BY <1>9 DEF SortNames
<1>11. Range(busNames) \subseteq Names
  <2>0. \A x \in 1..n : busNames[x] \in S
    BY <1>3
  <2>1. \A x \in DOMAIN busNames : busNames[x] \in S
    BY <2>0, <1>6, Zenon
  <2>2. QED
    BY <1>1, <2>1 DEF Range
<1>12. Len(busNames) \in Nat
  BY <1>5, LenProperties
<1>13. SortNames(busNames) = [i \in 1..Len(busNames) |-> SortNames(busNames)[i]]
  BY <1>10
<1>14. QED
  BY <1>10, <1>11, <1>12, <1>13, IsASeq

\* The conjuncts of TypeOK that IInv leaves out.
RestType ==
  /\ route \in {"None"} \cup Routes
  /\ crashed \in BOOLEAN
  /\ resStatus \in {200, 404, 500}
  /\ jsonValue \in JsonValues
  /\ interfaceName \in {"None"} \cup Ifaces
  /\ request \in {<<>>} \cup Paths

\* No step takes res.json_value, the status or the route out of its type.
LEMMA NextRestType == IInv /\ RestType /\ [Next]_vars => RestType'
<1> SUFFICES ASSUME IInv, RestType, [Next]_vars PROVE RestType'
  OBVIOUS
<1> DEFINE Keep(x) == x' = x
<1>0. IInv'
  BY NextIInv
<1>1. ASSUME NEW r, StartBusCall(r) PROVE RestType'
  <2>1. /\ route' = r /\ r \in Routes /\ Keep(crashed) /\ Keep(resStatus) /\ Keep(jsonValue)
        /\ Keep(interfaceName) /\ Keep(request)
    BY <1>1 DEF StartBusCall, describeVars
  <2>2. QED
    BY <2>1 DEF RestType
<1>2. CASE StartBusSystem \/ StartList
  BY <1>1, <1>2 DEF StartBusSystem, StartList
<1>3. CASE StartObjects
  <2>1. /\ route' = "Objects" /\ "Objects" \in Routes
        /\ Keep(crashed) /\ Keep(resStatus) /\ Keep(jsonValue)
        /\ Keep(interfaceName) /\ Keep(request)
    BY <1>3 DEF StartObjects, describeVars
  <2>2. QED
    BY <2>1 DEF RestType
<1>4. ASSUME NEW r, BusCallFails(r) PROVE RestType'
  <2>1. /\ Keep(route) /\ Keep(crashed) /\ resStatus' = 500 /\ Keep(jsonValue)
        /\ Keep(interfaceName) /\ Keep(request)
    BY <1>4 DEF BusCallFails, describeVars
  <2>2. QED
    BY <2>1 DEF RestType
<1>5. ASSUME NEW busNames \in NameLists, ListNamesReply(busNames)
      PROVE  RestType'
  <2>1. SortNames(busNames) \in Seq(Names)
    BY SortNamesType
  <2>2. jsonValue' \in JsonValues
    BY <1>5, <2>1 DEF ListNamesReply, JsonValues
  <2>3. /\ Keep(route) /\ Keep(crashed) /\ Keep(resStatus)
        /\ Keep(interfaceName) /\ Keep(request)
    BY <1>5 DEF ListNamesReply, describeVars
  <2>4. QED
    BY <2>2, <2>3 DEF RestType
<1>6. ASSUME NEW paths \in SUBSET Nodes, SubTreeReply(paths) PROVE RestType'
  <2>1. jsonValue' \in JsonValues
    BY <1>6 DEF SubTreeReply, JsonValues
  <2>2. /\ Keep(route) /\ Keep(crashed) /\ Keep(resStatus)
        /\ Keep(interfaceName) /\ Keep(request)
    BY <1>6 DEF SubTreeReply, describeVars
  <2>3. QED
    BY <2>1, <2>2 DEF RestType
<1>7. ASSUME NEW p \in pending, IntrospectError(p) PROVE RestType'
  <2>1. pushed \subseteq Nodes
    BY DEF IInv, StateType
  <2>2. jsonValue' \in JsonValues
    BY <1>7, <2>1 DEF IntrospectError, Finish, JsonValues, RestType
  <2>3. /\ Keep(route) /\ Keep(crashed) /\ Keep(resStatus)
        /\ Keep(interfaceName) /\ Keep(request)
    BY <1>7 DEF IntrospectError, describeVars
  <2>4. QED
    BY <2>2, <2>3 DEF RestType
<1>8. ASSUME NEW p \in pending, NEW kids \in SUBSET Kids[p],
             IntrospectReply(p, kids)
      PROVE  RestType'
  <2>1. pushed' \subseteq Nodes
    BY <1>0 DEF IInv, StateType
  <2>2. jsonValue' \in JsonValues
    BY <1>8, <2>1 DEF IntrospectReply, Finish, JsonValues, RestType
  <2>3. crashed' \in BOOLEAN
    BY <1>8, Zenon DEF IntrospectReply, RestType
  <2>4. /\ Keep(route) /\ Keep(resStatus)
        /\ Keep(interfaceName) /\ Keep(request)
    BY <1>8 DEF IntrospectReply, describeVars
  <2>5. QED
    BY <2>2, <2>3, <2>4 DEF RestType
<1>9. ASSUME NEW segs \in Paths, DescribeTooDeep(segs) PROVE RestType'
  <2>1. /\ route' = "Describe" /\ "Describe" \in Routes /\ request' = segs
        /\ resStatus' = 404 /\ Keep(crashed) /\ Keep(jsonValue)
        /\ Keep(interfaceName)
    BY <1>9 DEF DescribeTooDeep
  <2>2. QED
    BY <2>1 DEF RestType
<1>10. ASSUME NEW segs \in Paths, StartDescribe(segs) PROVE RestType'
  <2>1. InterfaceOf(segs) \in {"None"} \cup Ifaces
    BY FirstIfaceFacts DEF InterfaceOf
  <2>2. /\ route' = "Describe" /\ "Describe" \in Routes /\ request' = segs
        /\ interfaceName' = InterfaceOf(segs)
        /\ Keep(crashed) /\ Keep(resStatus) /\ Keep(jsonValue)
    BY <1>10 DEF StartDescribe
  <2>3. QED
    BY <2>1, <2>2 DEF RestType
<1>11. CASE DescribeError
  <2>1. /\ Keep(route) /\ Keep(crashed) /\ Keep(resStatus) /\ Keep(jsonValue)
        /\ Keep(interfaceName) /\ Keep(request)
    BY <1>11 DEF DescribeError, describeVars
  <2>2. QED
    BY <2>1 DEF RestType
<1>12. CASE DescribeParseError
  <2>1. jsonValue' \in JsonValues
    BY <1>12 DEF DescribeParseError, JsonValues, RestType
  <2>2. /\ Keep(route) /\ Keep(crashed) /\ resStatus' = 500
        /\ Keep(interfaceName) /\ Keep(request)
    BY <1>12 DEF DescribeParseError, describeVars
  <2>3. QED
    BY <2>1, <2>2 DEF RestType
<1>13. ASSUME NEW ifs \in SUBSET Ifaces, DescribeReply(ifs) PROVE RestType'
  <2>1. "None" \notin ifs
    BY BusRoutesAssumption
  <2>2. interfaceName \in {"None"} \cup Ifaces /\ jsonValue \in JsonValues
    BY DEF RestType
  <2>3. ASSUME interfaceName = "None" PROVE jsonValue' \in JsonValues
    BY <1>13, <2>3 DEF DescribeReply, JsonValues
  <2>4. ASSUME interfaceName # "None", interfaceName \in ifs
        PROVE  jsonValue' \in JsonValues
    BY <1>13, <2>1, <2>4 DEF DescribeReply, JsonValues
  <2>5. ASSUME interfaceName # "None", interfaceName \notin ifs
        PROVE  jsonValue' \in JsonValues
    BY <1>13, <2>1, <2>2, <2>5 DEF DescribeReply
  <2>6. jsonValue' \in JsonValues
    BY <2>3, <2>4, <2>5
  <2>7. resStatus' \in {200, 404, 500}
    BY <1>13 DEF DescribeReply, RestType
  <2>8. /\ Keep(route) /\ Keep(crashed)
        /\ Keep(interfaceName) /\ Keep(request)
    BY <1>13 DEF DescribeReply, describeVars
  <2>9. QED
    BY <2>6, <2>7, <2>8 DEF RestType
<1>14. CASE UNCHANGED vars
  <2>1. /\ Keep(route) /\ Keep(crashed) /\ Keep(resStatus) /\ Keep(jsonValue)
        /\ Keep(interfaceName) /\ Keep(request)
    BY <1>14 DEF vars, describeVars
  <2>2. QED
    BY <2>1 DEF RestType
<1>15. QED
  BY <1>1, <1>2, <1>3, <1>4, <1>5, <1>6, <1>7, <1>8, <1>9, <1>10, <1>11,
     <1>12, <1>13, <1>14 DEF Next, ListNamesError, SubTreeError

(***************************************************************************)
(* Every reachable state of the routes is well typed, for every object     *)
(* tree and every finite set of bus names: in particular the ListNames     *)
(* callback writes a list of bus names, because std::sort (a CHOOSE of    *)
(* an ascending arrangement in the model) has a result to choose.          *)
(***************************************************************************)
THEOREM TypeCorrect == Spec => []TypeOK
<1>1. Init => IInv /\ RestType
  <2> SUFFICES ASSUME Init PROVE IInv /\ RestType
    OBVIOUS
  <2>1. NullJson \in JsonValues
    BY DEF NullJson, JsonValues
  <2>2. crashed \in BOOLEAN
    BY Zenon DEF Init
  <2>3. QED
    BY <2>1, <2>2, InitIInv DEF Init, RestType
<1>2. IInv /\ RestType /\ [Next]_vars => IInv' /\ RestType'
  BY NextIInv, NextRestType
<1>3. IInv /\ RestType => TypeOK
  BY DEF IInv, StateType, RestType, TypeOK
<1>4. QED
  BY <1>1, <1>2, <1>3, PTL DEF Spec
=============================================================================
