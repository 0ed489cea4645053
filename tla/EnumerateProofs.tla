-------------------------- MODULE EnumerateProofs --------------------------
(***************************************************************************)
(* Proofs about the enumerate handler, for every set of connections,       *)
(* objects, properties and values.                                         *)
(*                                                                         *)
(* The argument: the shared transaction's use count is always the number   *)
(* of GetManagedObjects calls in flight, so the callback that sees a count *)
(* of one is the last one, and the response is completed exactly when no   *)
(* call is in flight any more.  None of this is inductive on its own: the  *)
(* count invariant is what lets a step show that it is (or is not) the     *)
(* completing one.                                                         *)
(***************************************************************************)
EXTENDS Enumerate, FiniteSetTheorems, TLAPS

(***************************************************************************)
(* The inductive invariant.                                                *)
(***************************************************************************)
CountIsPending == refs = Cardinality(pending)

\* Before the mapper answers nothing has been started or collected.
BeforeMapper == mapperPending => pending = {} /\ ends = 0 /\ keys = {}

\* The response has been completed exactly when no call is outstanding.
EndedIffIdle == ends = IF ~mapperPending /\ pending = {} THEN 1 ELSE 0

\* A completed 200 response carries the transaction's current keys.
BodyIsTransaction == ends > 0 /\ resStatus = 200 => resBody.keys = keys

IInv ==
  /\ TypeOK
  /\ CountIsPending
  /\ BeforeMapper
  /\ EndedIffIdle
  /\ reported \subseteq keys
  /\ BodyIsTransaction

-----------------------------------------------------------------------------
(***************************************************************************)
(* Lemmas on the set of calls in flight.                                   *)
(***************************************************************************)
LEMMA PendingFinite ==
  ASSUME NEW P \in SUBSET Conns
  PROVE  IsFiniteSet(P) /\ Cardinality(P) \in Nat
BY ConnsAssumption, FS_Subset, FS_CardinalityType

\* Retiring one call lowers the count by one; it empties the set exactly
\* when the count was one.
LEMMA RetireCall ==
  ASSUME NEW P \in SUBSET Conns, NEW c \in P
  PROVE  /\ Cardinality(P \ {c}) = Cardinality(P) - 1
         /\ Cardinality(P) >= 1
         /\ (P \ {c} = {}) <=> (Cardinality(P) = 1)
<1>1. IsFiniteSet(P) /\ Cardinality(P) \in Nat
  BY PendingFinite
<1>2. Cardinality(P \ {c}) = Cardinality(P) - 1 /\ IsFiniteSet(P \ {c})
  BY <1>1, FS_RemoveElement
<1>3. Cardinality(P \ {c}) \in Nat
  BY <1>2, FS_CardinalityType
<1>4. (P \ {c} = {}) <=> (Cardinality(P \ {c}) = 0)
  BY <1>2, FS_EmptySet
<1>5. QED
  BY <1>1, <1>2, <1>3, <1>4

\* A reply names a set of objects and a property map for each of them.
LEMMA ReplyShape ==
  ASSUME NEW reply \in ManagedReplies
  PROVE  /\ DOMAIN reply \subseteq Objs
         /\ \A o \in DOMAIN reply : reply[o] \in [Props -> Vals \cup {Absent}]
BY DEF ManagedReplies

\* Merging a reported object into the transaction keeps it a JSON object.
LEMMA MergeType ==
  ASSUME NEW cur \in ObjJson, NEW props \in [Props -> Vals \cup {Absent}]
  PROVE  MergeObject(cur, props) \in ObjJson
BY DEF MergeObject, ObjJson, JVals

-----------------------------------------------------------------------------
LEMMA InitIInv == Init => IInv
<1> SUFFICES ASSUME Init PROVE IInv
  OBVIOUS
<1>1. TypeOK
  BY DEF Init, TypeOK, ObjJson, NoProps, EmptyBody
<1>2. CountIsPending
  BY FS_EmptySet DEF Init, CountIsPending
<1>3. QED
  BY <1>1, <1>2 DEF Init, IInv, BeforeMapper, EndedIffIdle, BodyIsTransaction

\* The mapper flag stays a Boolean: every step clears it or leaves it.
LEMMA MapperFlagType ==
  ASSUME TypeOK, [Next]_vars
  PROVE  mapperPending' \in BOOLEAN
BY Zenon DEF Next, vars, TypeOK, MapperError, MapperReply,
             ManagedObjectsError, ManagedObjectsReply

LEMMA NextIInv == IInv /\ [Next]_vars => IInv'
<1> SUFFICES ASSUME IInv, [Next]_vars PROVE IInv'
  OBVIOUS
<1> USE DEF IInv
<1>0. mapperPending' \in BOOLEAN
  BY MapperFlagType
<1> USE <1>0
<1>1. CASE MapperError
  <2>1. /\ mapperPending /\ mapperPending' = FALSE /\ ends' = ends + 1
        /\ resBody' = EmptyBody
        /\ UNCHANGED <<pending, refs, keys, data, resStatus, reported>>
    BY <1>1 DEF MapperError
  <2>2. pending = {} /\ ends = 0 /\ keys = {}
    BY <2>1 DEF BeforeMapper
  <2>3. EmptyBody \in [keys : SUBSET Objs, data : [Objs -> ObjJson]]
    BY DEF EmptyBody, NoProps, ObjJson
  <2>4. TypeOK'
    <3>1. ends' \in Nat
      BY <1>1 DEF MapperError, TypeOK
    <3>2. resBody' \in [keys : SUBSET Objs, data : [Objs -> ObjJson]]
      BY <2>1, <2>3
    <3>3. QED
      BY <1>0, <2>1, <3>1, <3>2 DEF TypeOK
  <2>5. QED
    BY <2>1, <2>2, <2>4 DEF CountIsPending, BeforeMapper, EndedIffIdle,
                            BodyIsTransaction, EmptyBody
<1>2. ASSUME NEW tree \in SubTrees, MapperReply(tree) PROVE IInv'
  <2> DEFINE connections == {pair[2] : pair \in tree}
  <2>1. connections \in SUBSET Conns
    BY DEF SubTrees
  <2>2. /\ mapperPending /\ mapperPending' = FALSE
        /\ UNCHANGED <<keys, data, resBody, reported>>
    BY <1>2 DEF MapperReply
  <2>3. pending = {} /\ ends = 0 /\ keys = {}
    BY <2>2 DEF BeforeMapper
  <2>4. CASE connections = {}
    <3>1. resStatus' = 404 /\ ends' = ends + 1 /\ UNCHANGED <<pending, refs>>
      BY <1>2, <2>4 DEF MapperReply
    <3>2. QED
      BY <1>2, <2>3, <3>1 DEF MapperReply, TypeOK, CountIsPending,
                              BeforeMapper, EndedIffIdle, BodyIsTransaction
  <2>5. CASE connections # {}
    <3>1. pending' = connections /\ refs' = Cardinality(connections)
          /\ UNCHANGED <<ends, resStatus>>
      BY <1>2, <2>5 DEF MapperReply
    <3>2. Cardinality(connections) \in Nat
      BY <2>1, PendingFinite
    <3>3. QED
      BY <2>1, <2>2, <2>3, <2>5, <3>1, <3>2
         DEF TypeOK, CountIsPending, BeforeMapper, EndedIffIdle,
             BodyIsTransaction
  <2>6. QED
    BY <2>4, <2>5
<1>3. ASSUME NEW c \in Conns, ManagedObjectsError(c) PROVE IInv'
  <2>1. c \in pending /\ pending \in SUBSET Conns
    BY <1>3 DEF ManagedObjectsError, TypeOK
  <2>2. /\ Cardinality(pending \ {c}) = Cardinality(pending) - 1
        /\ Cardinality(pending) >= 1
        /\ (pending \ {c} = {}) <=> (Cardinality(pending) = 1)
    BY <2>1, RetireCall
  <2>3. Cardinality(pending) \in Nat
    BY <2>1, PendingFinite
  <2>4. ~mapperPending /\ ends = 0
    BY <2>1 DEF BeforeMapper, EndedIffIdle
  <2>5. QED
    BY <1>3, <2>1, <2>2, <2>3, <2>4
       DEF ManagedObjectsError, FinishCallback, TypeOK, CountIsPending,
           BeforeMapper, EndedIffIdle, BodyIsTransaction
<1>4. ASSUME NEW c \in Conns, NEW reply \in ManagedReplies,
             ManagedObjectsReply(c, reply)
      PROVE IInv'
  <2> DEFINE newData == [o \in Objs |-> IF o \in DOMAIN reply
                                          THEN MergeObject(data[o], reply[o])
                                          ELSE data[o]]
             newKeys == keys \cup DOMAIN reply
  <2>1. c \in pending /\ pending \in SUBSET Conns
    BY <1>4 DEF ManagedObjectsReply, TypeOK
  <2>2. /\ Cardinality(pending \ {c}) = Cardinality(pending) - 1
        /\ Cardinality(pending) >= 1
        /\ (pending \ {c} = {}) <=> (Cardinality(pending) = 1)
    BY <2>1, RetireCall
  <2>3. Cardinality(pending) \in Nat
    BY <2>1, PendingFinite
  <2>4. ~mapperPending /\ ends = 0
    BY <2>1 DEF BeforeMapper, EndedIffIdle
  <2>5. newData \in [Objs -> ObjJson] /\ newKeys \in SUBSET Objs
    BY ReplyShape, MergeType DEF TypeOK
  <2>6. /\ data' = newData /\ keys' = newKeys
        /\ reported' = reported \cup DOMAIN reply
        /\ pending' = pending \ {c}
        /\ refs' = refs - 1
        /\ UNCHANGED <<mapperPending, resStatus>>
        /\ ends' = IF refs = 1 THEN ends + 1 ELSE ends
        /\ resBody' = IF refs = 1 THEN [keys |-> newKeys, data |-> newData]
                                  ELSE resBody
    BY <1>4 DEF ManagedObjectsReply, FinishCallback
  <2>7. TypeOK'
    BY <2>2, <2>3, <2>5, <2>6, ReplyShape DEF TypeOK, CountIsPending
  <2>8. QED
    BY <2>2, <2>3, <2>4, <2>6, <2>7
       DEF CountIsPending, BeforeMapper, EndedIffIdle, BodyIsTransaction
<1>5. CASE UNCHANGED vars
  BY <1>5 DEF vars, TypeOK, CountIsPending, BeforeMapper, EndedIffIdle,
             BodyIsTransaction
<1>6. QED
  BY <1>1, <1>2, <1>3, <1>4, <1>5 DEF Next

THEOREM IInvHolds == Spec => []IInv
BY InitIInv, NextIInv, PTL DEF Spec

-----------------------------------------------------------------------------
(***************************************************************************)
(* Every reachable state is well typed.                                    *)
(***************************************************************************)
THEOREM TypeCorrect == Spec => []TypeOK
BY IInvHolds, PTL DEF IInv

(***************************************************************************)
(* The enumerate response is completed at most once, for every number of   *)
(* owning connections and every order of their replies.                    *)
(***************************************************************************)
THEOREM EndOnceHolds == Spec => []EndOnce
<1>1. IInv => EndOnce
  BY DEF IInv, EndedIffIdle, EndOnce
<1>2. QED
  BY <1>1, IInvHolds, PTL

(***************************************************************************)
(* A completed 200 enumerate response contains every object that any       *)
(* successful GetManagedObjects reply reported.                            *)
(***************************************************************************)
THEOREM ResponseCompleteHolds == Spec => []ResponseComplete
<1>1. IInv => ResponseComplete
  BY DEF IInv, BodyIsTransaction, ResponseComplete
<1>2. QED
  BY <1>1, IInvHolds, PTL

\* Once the response is completed, no callback is left to run.
LEMMA Idle == IInv /\ ends # 0 => ~Next
<1> SUFFICES ASSUME IInv, ends # 0 PROVE ~Next
  OBVIOUS
<1>1. ~mapperPending /\ pending = {}
  BY DEF IInv, TypeOK, EndedIffIdle
<1>2. QED
  BY <1>1 DEF Next, MapperError, MapperReply, ManagedObjectsError,
              ManagedObjectsReply

\* Every step is a step of HttpResponse or leaves the response unchanged.
LEMMA ResponseStep == IInv /\ [Next]_vars => [Resp!Respond]_Resp!vars
<1> SUFFICES ASSUME IInv, [Next]_vars PROVE [Resp!Respond]_Resp!vars
  OBVIOUS
<1>1. ends \in {0, 1} /\ ends' \in {0, 1}
  <2>1. IInv'
    BY NextIInv
  <2>2. QED
    BY <2>1 DEF IInv, EndedIffIdle
<1>2. CASE ends # 0
  <2>1. ~Next
    BY <1>2, Idle
  <2>2. UNCHANGED vars
    BY <2>1
  <2>3. QED
    BY <2>2 DEF vars, Resp!vars
<1>3. CASE ends = 0 /\ ends' = 0
  BY <1>3 DEF Resp!vars
<1>4. CASE ends = 0 /\ ends' # 0
  BY <1>1, <1>4 DEF Resp!Respond
<1>5. QED
  BY <1>2, <1>3, <1>4

(***************************************************************************)
(* The enumerate handler implements HttpResponse: the response is         *)
(* completed once, and no later callback changes its status or body.     *)
(***************************************************************************)
THEOREM RespSpecHolds == Spec => RespSpec
<1>1. Init => Resp!Init
  BY DEF Init, Resp!Init
<1>2. QED
  BY <1>1, ResponseStep, IInvHolds, PTL DEF Spec, RespSpec, Resp!Spec
=============================================================================
