----------------------------- MODULE GetProofs ------------------------------
(***************************************************************************)
(* Proofs about handle_get, for every set of connections, interfaces,     *)
(* properties and values and every bound on the mapper's reply.           *)
(*                                                                         *)
(* The argument: use_count() of the shared response is the number of      *)
(* GetAll calls in flight, so the callback that sees 1 is the last one.   *)
(* A 200 answer is therefore given only when nothing is in flight, and it *)
(* carries the response object as it is then.  Every property a reply    *)
(* returned stays in that object, because a later reply only overwrites   *)
(* or adds members.  The early 404 of a connection listed without         *)
(* interfaces may complete the response while calls are in flight (run    *)
(* get_end_once), but then the status is 404 for good.                    *)
(***************************************************************************)
EXTENDS Get, FiniteSetTheorems, LeastElement, TLAPS

CountIsPending == refs = Cardinality(pending)

\* Before the mapper answers nothing has been started or completed.
BeforeMapper == mapperPending => pending = {} /\ ends = 0

\* Every property a reply returned is a member of the response object.
ReportedWritten ==
  destProperty = NoProperty => \A p \in reported : respObj[p] # Absent

\* A 200 answer is given when no call is left, from the response object.
Done200 == ends > 0 /\ resStatus = 200 => pending = {} /\ resBody.obj = respObj

IInv ==
  /\ TypeOK
  /\ CountIsPending
  /\ BeforeMapper
  /\ ReportedWritten
  /\ Done200

-----------------------------------------------------------------------------
\* Every set of calls is finite, with a natural size.
LEMMA PendingFinite ==
  ASSUME NEW P \in SUBSET (Conns \X Ifaces)
  PROVE  IsFiniteSet(P) /\ Cardinality(P) \in Nat
<1>1. IsFiniteSet(Conns \X Ifaces)
  BY GetAssumption, FS_Product
<1>2. QED
  BY <1>1, FS_Subset, FS_CardinalityType

\* Retiring a call in flight lowers the count by one, to 0 exactly when it
\* was the last.
LEMMA RetireCall ==
  ASSUME NEW P \in SUBSET (Conns \X Ifaces), NEW c \in P
  PROVE  /\ Cardinality(P \ {c}) = Cardinality(P) - 1
         /\ Cardinality(P) \in Nat \ {0}
         /\ (P \ {c} = {}) <=> (Cardinality(P) = 1)
<1>1. IsFiniteSet(P) /\ Cardinality(P) \in Nat
  BY PendingFinite
<1>2. Cardinality(P \ {c}) = Cardinality(P) - 1 /\ IsFiniteSet(P \ {c})
  BY <1>1, FS_RemoveElement
<1>3. Cardinality(P \ {c}) \in Nat
  BY <1>2, FS_CardinalityType
<1>4. (P \ {c} = {}) <=> (Cardinality(P \ {c}) = 0)
  BY <1>2, FS_EmptySet
<1>5. QED
  BY <1>1, <1>2, <1>3, <1>4

\* The visitor turns a bus value into a JSON value, never Absent.
LEMMA VariantJson ==
  ASSUME NEW v \in Vals
  PROVE  VariantToJson(v) \in JsonValues /\ VariantToJson(v) # Absent
<1>1. VariantToJson(v) \in JsonValues
  BY ValsAssumption DEF VariantToJson, JsonValues
<1>2. QED
  BY <1>1, AbsentAssumption

(***************************************************************************)
(* The GetObject loop stops at the first connection without interfaces or *)
(* after the last one, and the calls it starts are calls of the model.    *)
(***************************************************************************)
LEMMA StartedCalls ==
  ASSUME NEW r \in OwnerLists
  PROVE  /\ StopIndex(r) \in 1..Len(r) + 1
         /\ Started(r) \subseteq Conns \X Ifaces
<1>1. PICK n \in 1..MaxOwners : r \in [1..n -> Conns \X SUBSET Ifaces]
  BY DEF OwnerLists
<1>2. Len(r) = n /\ DOMAIN r = 1..n
  BY <1>1
<1>3. StopIndex(r) \in 1..n + 1
  <2> DEFINE empty == {k \in DOMAIN r : r[k][2] = {}}
  <2>1. CASE empty = {}
    BY <1>2, <2>1 DEF StopIndex
  <2>2. CASE empty # {}
    <3>1. empty \in SUBSET Nat
      BY <1>2
    <3>2. (CHOOSE k \in empty : \A j \in empty : k <= j) \in empty
      BY <2>2, <3>1, LeastChosen
    <3>3. QED
      BY <1>2, <2>2, <3>2 DEF StopIndex
  <2>3. QED
    BY <2>1, <2>2
<1>4. Started(r) \subseteq Conns \X Ifaces
  BY <1>1, <1>2, <1>3 DEF Started
<1>5. QED
  BY <1>2, <1>3, <1>4

\* A whole-object reply keeps every member and adds every returned one.
LEMMA WriteAllType ==
  ASSUME TypeOK, NEW props \in PropReplies
  PROVE  /\ WriteAll(props) \in ObjJson
         /\ \A p \in Props : props[p] # Absent => WriteAll(props)[p] # Absent
         /\ \A p \in Props : respObj[p] # Absent => WriteAll(props)[p] # Absent
<1>1. \A p \in Props : props[p] # Absent => props[p] \in Vals
  BY DEF PropReplies
<1>2. QED
  BY <1>1, VariantJson DEF WriteAll, ObjJson, TypeOK

LEMMA InitIInv == Init => IInv
<1> SUFFICES ASSUME Init PROVE IInv
  OBVIOUS
<1>1. TypeOK
  BY AbsentAssumption DEF Init, TypeOK, EmptyObject, ObjJson, NoBody
<1>2. CountIsPending
  BY FS_EmptySet DEF Init, CountIsPending
<1>3. QED
  BY <1>1, <1>2 DEF Init, IInv, BeforeMapper, ReportedWritten, Done200

(***************************************************************************)
(* The end of a GetAll callback for a call in flight that leaves the       *)
(* response as obj and scalar: the count follows the calls in flight, and *)
(* the callback that sees use_count() == 1 is the last one.               *)
(***************************************************************************)
LEMMA CallbackStep ==
  ASSUME IInv, NEW call \in pending, NEW obj \in ObjJson,
         NEW scalar \in JsonValues \cup {Absent},
         pending' = pending \ {call}, respObj' = obj, respScalar' = scalar,
         FinishCallback(obj, scalar), reported' \in SUBSET Props,
         ReportedWritten',
         UNCHANGED <<destProperty, mapperPending, resStatus>>
  PROVE  IInv'
<1>1. /\ pending \in SUBSET (Conns \X Ifaces)
      /\ refs = Cardinality(pending)
      /\ ends \in Nat
  BY DEF IInv, TypeOK, CountIsPending
<1>2. /\ Cardinality(pending \ {call}) = Cardinality(pending) - 1
      /\ Cardinality(pending) \in Nat \ {0}
      /\ (pending \ {call} = {}) <=> (Cardinality(pending) = 1)
  BY <1>1, RetireCall
<1>3. ~mapperPending
  BY DEF IInv, BeforeMapper
<1>4. CountIsPending' /\ refs' \in Nat
  BY <1>1, <1>2 DEF FinishCallback, CountIsPending
<1>5. /\ ends' \in Nat
      /\ resBody' \in [obj : ObjJson, scalar : JsonValues \cup {Absent}]
  BY <1>1 DEF FinishCallback, IInv, TypeOK
<1>6. TypeOK'
  BY <1>1, <1>4, <1>5 DEF IInv, TypeOK
<1>7. Done200'
  <2>1. CASE refs = 1
    BY <1>1, <1>2, <2>1 DEF FinishCallback, Done200
  <2>2. CASE refs # 1
    <3>1. ends' = ends /\ resBody' = resBody
      BY <2>2 DEF FinishCallback
    <3>2. ~(ends > 0 /\ resStatus = 200)
      BY DEF IInv, Done200
    <3>3. QED
      BY <3>1, <3>2 DEF Done200
  <2>3. QED
    BY <2>1, <2>2
<1>8. QED
  BY <1>3, <1>4, <1>6, <1>7 DEF IInv, BeforeMapper

\* A reply to a named-property GET leaves a JSON value or nothing.
LEMMA WriteNamedType ==
  ASSUME TypeOK, destProperty # NoProperty, NEW props \in PropReplies
  PROVE  WriteNamed(props) \in JsonValues \cup {Absent}
<1>1. destProperty \in Props
  BY DEF TypeOK
<1>2. props[destProperty] # Absent => props[destProperty] \in Vals
  BY <1>1 DEF PropReplies
<1>3. QED
  BY <1>2, VariantJson DEF WriteNamed, TypeOK

LEMMA NextIInv == IInv /\ [Next]_vars => IInv'
<1> SUFFICES ASSUME IInv, [Next]_vars PROVE IInv'
  OBVIOUS
<1>1. CASE MapperNotFound
  <2>1. pending = {} /\ ends = 0
    BY <1>1 DEF MapperNotFound, IInv, BeforeMapper
  <2>2. TypeOK'
    <3>1. mapperPending' \in BOOLEAN
      BY <1>1, Zenon DEF MapperNotFound
    <3>2. ends' \in Nat /\ resStatus' \in {200, 404}
      BY <1>1 DEF MapperNotFound, IInv, TypeOK
    <3>3. QED
      BY <1>1, <3>1, <3>2 DEF MapperNotFound, IInv, TypeOK
  <2>3. CountIsPending' /\ ReportedWritten'
    BY <1>1 DEF MapperNotFound, IInv, CountIsPending, ReportedWritten
  <2>4. BeforeMapper' /\ Done200'
    BY <1>1 DEF MapperNotFound, BeforeMapper, Done200
  <2>5. QED
    BY <2>2, <2>3, <2>4 DEF IInv
<1>2. ASSUME NEW r \in OwnerLists, MapperReply(r) PROVE IInv'
  <2>1. pending = {} /\ ends = 0
    BY <1>2 DEF MapperReply, IInv, BeforeMapper
  <2>2. Started(r) \subseteq Conns \X Ifaces
    BY StartedCalls
  <2>3. Cardinality(Started(r)) \in Nat
    BY <2>2, PendingFinite
  <2>4. /\ ends' \in Nat /\ resStatus' \in {200, 404}
        /\ ~(ends' > 0 /\ resStatus' = 200)
    BY <1>2, <2>1 DEF MapperReply, IInv, TypeOK
  <2>5. TypeOK'
    BY <1>2, <2>2, <2>3, <2>4 DEF MapperReply, IInv, TypeOK
  <2>6. CountIsPending' /\ ReportedWritten'
    BY <1>2 DEF MapperReply, IInv, CountIsPending, ReportedWritten
  <2>7. BeforeMapper' /\ Done200'
    BY <1>2, <2>4 DEF MapperReply, BeforeMapper, Done200
  <2>8. QED
    BY <2>5, <2>6, <2>7 DEF IInv
<1>3. ASSUME NEW call \in Conns \X Ifaces, GetAllError(call) PROVE IInv'
  BY <1>3, CallbackStep DEF GetAllError, IInv, TypeOK, ReportedWritten
<1>4. ASSUME NEW call \in Conns \X Ifaces, NEW props \in PropReplies,
             GetAllReply(call, props)
      PROVE  IInv'
  <2>1. /\ call \in pending /\ pending' = pending \ {call}
        /\ reported' = reported \cup {p \in Props : props[p] # Absent}
        /\ UNCHANGED <<destProperty, mapperPending, resStatus>>
    BY <1>4 DEF GetAllReply
  <2>2. reported' \in SUBSET Props
    BY <2>1 DEF IInv, TypeOK
  <2>3. CASE destProperty = NoProperty
    <3>1. /\ respObj' = WriteAll(props) /\ respScalar' = respScalar
          /\ FinishCallback(WriteAll(props), respScalar)
      BY <1>4, <2>3 DEF GetAllReply
    <3>2. WriteAll(props) \in ObjJson
      BY WriteAllType DEF IInv
    <3>3. ReportedWritten'
      BY <2>1, <2>3, <3>1, WriteAllType DEF IInv, TypeOK, ReportedWritten
    <3>4. QED
      BY <2>1, <2>2, <3>1, <3>2, <3>3, CallbackStep DEF IInv, TypeOK
  <2>4. CASE destProperty # NoProperty
    <3>1. /\ respObj' = respObj /\ respScalar' = WriteNamed(props)
          /\ FinishCallback(respObj, WriteNamed(props))
      BY <1>4, <2>4 DEF GetAllReply
    <3>2. WriteNamed(props) \in JsonValues \cup {Absent}
      BY <2>4, WriteNamedType DEF IInv
    <3>3. ReportedWritten'
      BY <2>1, <2>4 DEF ReportedWritten
    <3>4. QED
      BY <2>1, <2>2, <3>1, <3>2, <3>3, CallbackStep DEF IInv, TypeOK
  <2>5. QED
    BY <2>3, <2>4
<1>5. CASE UNCHANGED vars
  BY <1>5 DEF vars, IInv, TypeOK, CountIsPending, BeforeMapper,
              ReportedWritten, Done200
<1>6. QED
  BY <1>1, <1>2, <1>3, <1>4, <1>5 DEF Next

THEOREM IInvHolds == Spec => []IInv
BY InitIInv, NextIInv, PTL DEF Spec
-----------------------------------------------------------------------------
(***************************************************************************)
(* handle_get keeps its state well typed for every set of connections,    *)
(* interfaces, properties and values.                                      *)
(***************************************************************************)
THEOREM TypeCorrect == Spec => []TypeOK
<1>1. IInv => TypeOK
  BY DEF IInv
<1>2. QED
  BY <1>1, IInvHolds, PTL

(***************************************************************************)
(* A 200 answer to a whole-object GET holds every property some GetAll    *)
(* reply returned, however the replies interleave: the use_count() test   *)
(* lets only the last callback answer, from the merged response.          *)
(***************************************************************************)
THEOREM ResponseCompleteHolds == Spec => []ResponseComplete
<1>1. IInv => ResponseComplete
  BY DEF IInv, ReportedWritten, Done200, ResponseComplete
<1>2. QED
  BY <1>1, IInvHolds, PTL
=============================================================================
