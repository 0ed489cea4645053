---------------------------- MODULE ActionProofs ----------------------------
(***************************************************************************)
(* Proofs about the method-call handler, for every set of connections,     *)
(* every number of matching interfaces and every argument count.           *)
(*                                                                         *)
(* The argument is the one of the PUT handler: the use count of the shared *)
(* InProgressActionData is the number of callbacks still to run, so the    *)
(* destructor runs once, when the last of them returns, and nothing runs   *)
(* after it.  A connection's method calls are sent only after its          *)
(* Introspect is answered, so they are new when added to the count.  A     *)
(* failure sets 500 and nothing lowers it, so the destructor clears the    *)
(* body of every failed request.  Because nothing runs after the answer,   *)
(* the answer never changes: the handler refines HttpResponse.             *)
(***************************************************************************)
EXTENDS Action, FiniteSetTheorems, TLAPS

Statuses == {200, 400, 500}

\* The callbacks still to run, each holding one copy of the transaction.
Outstanding ==
  (IF mapperPending THEN 1 ELSE 0) + Cardinality(introPending)
    + Cardinality(callPending)

CountIsOutstanding == refs = Outstanding

\* Before the handler runs nothing has happened.
NotStarted ==
  ~started => /\ ~mapperPending /\ introPending = {} /\ callPending = {}
              /\ ends = 0 /\ ~failed

\* While GetObject is in flight no later call exists.
MapperFirst == mapperPending => introPending = {} /\ callPending = {}

\* A connection's method calls are sent only after its Introspect returns.
CallsAfterIntrospect == \A x \in callPending : x[1] \notin introPending

\* The response has been completed exactly when nothing is left to run.
EndedIffIdle == ends = IF started /\ refs = 0 THEN 1 ELSE 0

\* A failure seen before the end has left the status at 500.
FailedIs500 == failed /\ ends = 0 => resStatus = 500

IInv ==
  /\ TypeOK
  /\ CountIsOutstanding
  /\ NotStarted
  /\ MapperFirst
  /\ CallsAfterIntrospect
  /\ EndedIffIdle
  /\ FailedIs500
  /\ ErrorWins

-----------------------------------------------------------------------------
LEMMA CallsFinite == IsFiniteSet(Calls)
<1>1. IsFiniteSet(1..MaxIfaces)
  BY ActionAssumption, FS_Interval
<1>2. QED
  BY <1>1, ActionAssumption, FS_Product DEF Calls

\* A subset of a finite set is finite and has a natural cardinality.
LEMMA FiniteCount ==
  ASSUME NEW S, NEW T, IsFiniteSet(T), S \subseteq T
  PROVE  IsFiniteSet(S) /\ Cardinality(S) \in Nat
BY FS_Subset, FS_CardinalityType

\* Retiring a call in flight lowers the count by one.
LEMMA Retire ==
  ASSUME NEW P, IsFiniteSet(P), NEW x \in P
  PROVE  /\ IsFiniteSet(P \ {x})
         /\ Cardinality(P \ {x}) = Cardinality(P) - 1
         /\ Cardinality(P) \in Nat \ {0}
<1>1. Cardinality(P) \in Nat /\ (Cardinality(P) = 0 <=> P = {})
  BY FS_CardinalityType, FS_EmptySet
<1>2. QED
  BY <1>1, FS_RemoveElement

\* Starting calls that are all new adds their number to the count.
LEMMA AddDisjoint ==
  ASSUME NEW S, NEW T, IsFiniteSet(S), IsFiniteSet(T), S \cap T = {}
  PROVE  /\ IsFiniteSet(S \cup T)
         /\ Cardinality(S \cup T) = Cardinality(S) + Cardinality(T)
<1>1. Cardinality(S \cap T) = 0
  BY FS_EmptySet
<1>2. /\ IsFiniteSet(S \cup T)
      /\ Cardinality(S \cup T) =
           Cardinality(S) + Cardinality(T) - Cardinality(S \cap T)
  BY FS_Union
<1>3. Cardinality(S) \in Nat /\ Cardinality(T) \in Nat
  BY FS_CardinalityType
<1>4. QED
  BY <1>1, <1>2, <1>3

\* The calls one Introspect callback sends are calls of its connection.
LEMMA SentShape ==
  ASSUME NEW c \in Conns, NEW r \in Replies
  PROVE  /\ Sent(c, r) \subseteq Calls
         /\ \A x \in Sent(c, r) : x[1] = c
<1>1. DOMAIN r \subseteq 1..MaxIfaces
  BY ActionAssumption DEF Replies
<1>2. QED
  BY <1>1 DEF Sent, Calls

(***************************************************************************)
(* The end of a callback that runs before the answer, leaves status st and *)
(* n copies, and keeps the status at 500 if it records a failure: the      *)
(* answer is given exactly when n is 0, and a failed request is answered   *)
(* 500 with the cleared body.                                              *)
(***************************************************************************)
LEMMA ReleaseStep ==
  ASSUME NEW st \in Statuses, NEW jv \in JsonValues, NEW n \in Nat,
         ends = 0, started' = TRUE, failed' => st = 500,
         Release(st, jv, n)
  PROVE  /\ refs' = n /\ resStatus' \in Statuses
         /\ jsonValue' \in JsonValues /\ ends' \in Nat
         /\ EndedIffIdle' /\ FailedIs500' /\ ErrorWins'
<1>1. CASE n = 0
  BY <1>1 DEF Release, JsonValues, EndedIffIdle, FailedIs500, ErrorWins
<1>2. CASE n # 0
  BY <1>2 DEF Release, EndedIffIdle, FailedIs500, ErrorWins
<1>3. QED
  BY <1>1, <1>2

\* The flags stay Booleans.
LEMMA FlagsType ==
  ASSUME TypeOK, [Next]_vars
  PROVE  /\ started' \in BOOLEAN /\ mapperPending' \in BOOLEAN
         /\ failed' \in BOOLEAN /\ mismatch' \in BOOLEAN
<1> DEFINE Flags == /\ started' \in BOOLEAN /\ mapperPending' \in BOOLEAN
                    /\ failed' \in BOOLEAN /\ mismatch' \in BOOLEAN
<1>1. ASSUME NEW body, NEW n, HandleAction(body, n) PROVE Flags
  BY <1>1, Zenon DEF HandleAction, TypeOK
<1>2. CASE MapperFailure
  BY <1>2 DEF MapperFailure, TypeOK
<1>3. ASSUME NEW owners, MapperReply(owners) PROVE Flags
  BY <1>3, Zenon DEF MapperReply, TypeOK
<1>4. ASSUME NEW c, IntrospectError(c) PROVE Flags
  BY <1>4, Zenon DEF IntrospectError, TypeOK
<1>5. ASSUME NEW c, NEW r, IntrospectReply(c, r) PROVE Flags
  BY <1>5, Zenon DEF IntrospectReply, TypeOK
<1>6. ASSUME NEW x, CallReply(x) PROVE Flags
  BY <1>6, Zenon DEF CallReply, TypeOK
<1>7. ASSUME NEW x, CallError(x) PROVE Flags
  BY <1>7, Zenon DEF CallError, TypeOK
<1>8. CASE UNCHANGED vars
  BY <1>8, Zenon DEF vars, TypeOK
<1>9. QED
  BY <1>1, <1>2, <1>3, <1>4, <1>5, <1>6, <1>7, <1>8 DEF Next

\* The sets of calls in flight are finite.
LEMMA PendingFinite ==
  ASSUME TypeOK
  PROVE  /\ IsFiniteSet(introPending) /\ Cardinality(introPending) \in Nat
         /\ IsFiniteSet(callPending) /\ Cardinality(callPending) \in Nat
BY ActionAssumption, CallsFinite, FiniteCount DEF TypeOK

\* While some callback is still to run the handler has started, the count
\* is positive and the response has not been completed.
LEMMA Running ==
  ASSUME IInv, mapperPending \/ introPending # {} \/ callPending # {}
  PROVE  started /\ refs \in Nat \ {0} /\ ends = 0
<1>1. started
  BY DEF IInv, NotStarted
<1>2. /\ Cardinality(introPending) \in Nat /\ Cardinality(callPending) \in Nat
      /\ (introPending # {} => Cardinality(introPending) # 0)
      /\ (callPending # {} => Cardinality(callPending) # 0)
  BY PendingFinite, FS_EmptySet DEF IInv
<1>3. refs \in Nat \ {0}
  BY <1>2 DEF IInv, CountIsOutstanding, Outstanding
<1>4. QED
  BY <1>1, <1>3 DEF IInv, EndedIffIdle

\* Once the response is completed nothing is left to run.
LEMMA Idle ==
  ASSUME IInv, ends # 0
  PROVE  started /\ ~mapperPending /\ introPending = {} /\ callPending = {}
BY Running DEF IInv, EndedIffIdle

-----------------------------------------------------------------------------
LEMMA InitIInv == Init => IInv
<1> SUFFICES ASSUME Init PROVE IInv
  OBVIOUS
<1>1. TypeOK
  <2>1. /\ started \in BOOLEAN /\ mapperPending \in BOOLEAN
        /\ failed \in BOOLEAN /\ mismatch \in BOOLEAN
    BY Zenon DEF Init
  <2>2. QED
    BY <2>1, ActionAssumption DEF Init, TypeOK, JsonValues
<1>2. CountIsOutstanding
  <2>1. Cardinality({}) = 0
    BY FS_EmptySet
  <2>2. QED
    BY <2>1 DEF Init, CountIsOutstanding, Outstanding
<1>3. QED
  BY <1>1, <1>2 DEF Init, IInv, NotStarted, MapperFirst, CallsAfterIntrospect,
                    EndedIffIdle, FailedIs500, ErrorWins

LEMMA NextIInv == IInv /\ [Next]_vars => IInv'
<1> SUFFICES ASSUME IInv, [Next]_vars PROVE IInv'
  OBVIOUS
<1>0. /\ started' \in BOOLEAN /\ mapperPending' \in BOOLEAN
      /\ failed' \in BOOLEAN /\ mismatch' \in BOOLEAN
  BY FlagsType DEF IInv
<1> USE <1>0
<1>1. /\ IsFiniteSet(introPending) /\ Cardinality(introPending) \in Nat
      /\ IsFiniteSet(callPending) /\ Cardinality(callPending) \in Nat
      /\ Cardinality({}) = 0
      /\ resStatus \in Statuses /\ jsonValue \in JsonValues
  BY PendingFinite, FS_EmptySet DEF IInv, TypeOK, Statuses
<1>2. ASSUME NEW body \in RequestBodies, NEW n \in 0..MaxArgs,
             HandleAction(body, n)
      PROVE  IInv'
  <2>1. /\ ~mapperPending /\ introPending = {} /\ callPending = {}
        /\ ends = 0 /\ ~failed /\ refs = 0
    <3>1. /\ ~mapperPending /\ introPending = {} /\ callPending = {}
          /\ ends = 0 /\ ~failed
      BY <1>2 DEF HandleAction, IInv, NotStarted
    <3>2. refs = 0
      BY <1>1, <3>1 DEF IInv, CountIsOutstanding, Outstanding
    <3>3. QED
      BY <3>1, <3>2
  <2>2. CASE body \in {"Malformed", "NotArray"}
    <3>1. /\ started' /\ resStatus' = 400 /\ ends' = 1
          /\ mapperPending' = FALSE /\ refs' = 0
          /\ UNCHANGED <<nargs, introPending, callPending, jsonValue, failed,
                         sent, mismatch>>
      BY <1>2, <2>1, <2>2 DEF HandleAction
    <3>2. QED
      BY <1>1, <2>1, <3>1 DEF IInv, TypeOK, CountIsOutstanding, Outstanding,
            NotStarted, MapperFirst, CallsAfterIntrospect, EndedIffIdle,
            FailedIs500, ErrorWins
  <2>3. CASE body = "Array"
    <3>1. /\ started' /\ mapperPending' /\ refs' = 1 /\ nargs' = n
          /\ UNCHANGED <<introPending, callPending, jsonValue, failed, sent,
                         mismatch, resStatus, ends>>
      BY <1>2, <2>3 DEF HandleAction
    <3>2. QED
      BY <1>1, <2>1, <3>1 DEF IInv, TypeOK, CountIsOutstanding, Outstanding,
            NotStarted, MapperFirst, CallsAfterIntrospect, EndedIffIdle,
            FailedIs500, ErrorWins
  <2>4. QED
    BY <2>2, <2>3 DEF RequestBodies
<1>3. CASE MapperFailure
  <2>1. started /\ refs \in Nat \ {0} /\ ends = 0
    BY <1>3, Running DEF MapperFailure
  <2>2. introPending = {} /\ callPending = {} /\ refs = 1
    <3>1. mapperPending /\ introPending = {} /\ callPending = {}
      BY <1>3 DEF MapperFailure, IInv, MapperFirst
    <3>2. refs = 1
      BY <1>1, <3>1 DEF IInv, CountIsOutstanding, Outstanding
    <3>3. QED
      BY <3>1, <3>2
  <2>3. /\ mapperPending' = FALSE /\ failed' /\ Release(500, jsonValue, 0)
        /\ UNCHANGED <<started, nargs, introPending, callPending, sent,
                       mismatch>>
    BY <1>3, <2>2 DEF MapperFailure
  <2>4. /\ refs' = 0 /\ resStatus' \in Statuses /\ jsonValue' \in JsonValues
        /\ ends' \in Nat /\ EndedIffIdle' /\ FailedIs500' /\ ErrorWins'
    BY <1>1, <2>1, <2>3, ReleaseStep DEF Statuses
  <2>5. QED
    BY <1>1, <2>1, <2>2, <2>3, <2>4
       DEF IInv, TypeOK, Statuses, CountIsOutstanding, Outstanding,
           NotStarted, MapperFirst, CallsAfterIntrospect
<1>4. ASSUME NEW owners \in (SUBSET Conns) \ {{}}, MapperReply(owners)
      PROVE  IInv'
  <2>1. /\ mapperPending /\ mapperPending' = FALSE /\ introPending' = owners
        /\ Release(resStatus, jsonValue, refs - 1 + Cardinality(owners))
        /\ UNCHANGED <<started, nargs, callPending, failed, sent, mismatch>>
    BY <1>4 DEF MapperReply
  <2>2. started /\ refs \in Nat \ {0} /\ ends = 0
    BY <2>1, Running
  <2>3. introPending = {} /\ callPending = {} /\ refs = 1
    <3>1. introPending = {} /\ callPending = {}
      BY <2>1 DEF IInv, MapperFirst
    <3>2. refs = 1
      BY <1>1, <2>1, <3>1 DEF IInv, CountIsOutstanding, Outstanding
    <3>3. QED
      BY <3>1, <3>2
  <2>4. IsFiniteSet(owners) /\ Cardinality(owners) \in Nat
    BY ActionAssumption, FiniteCount
  <2>5. failed' => resStatus = 500
    BY <2>1, <2>2 DEF IInv, FailedIs500
  <2>6. /\ refs' = Cardinality(owners) /\ resStatus' \in Statuses
        /\ jsonValue' \in JsonValues /\ ends' \in Nat
        /\ EndedIffIdle' /\ FailedIs500' /\ ErrorWins'
    BY <1>1, <2>1, <2>2, <2>3, <2>4, <2>5, ReleaseStep
  <2>7. TypeOK'
    <3>1. owners \in SUBSET Conns
      OBVIOUS
    <3>2. UNCHANGED <<started, nargs, callPending, failed, sent, mismatch>>
      BY <2>1
    <3>3. QED
      BY <2>1, <2>4, <2>6, <3>1, <3>2 DEF IInv, TypeOK, Statuses
  <2>8. CountIsOutstanding'
    <3>1. mapperPending' = FALSE /\ callPending' = {}
      BY <2>1, <2>3
    <3>2. QED
      BY <1>1, <2>1, <2>4, <2>6, <3>1 DEF CountIsOutstanding, Outstanding
  <2>9. NotStarted' /\ MapperFirst' /\ CallsAfterIntrospect'
    BY <2>1, <2>2, <2>3 DEF NotStarted, MapperFirst, CallsAfterIntrospect
  <2>10. QED
    BY <2>6, <2>7, <2>8, <2>9 DEF IInv
<1>5. ASSUME NEW c \in Conns, IntrospectError(c) PROVE IInv'
  <2>1. /\ c \in introPending /\ introPending' = introPending \ {c}
        /\ Release(resStatus, jsonValue, refs - 1)
        /\ UNCHANGED <<started, nargs, mapperPending, callPending, failed,
                       sent, mismatch>>
    BY <1>5 DEF IntrospectError
  <2>2. started /\ refs \in Nat \ {0} /\ ends = 0 /\ ~mapperPending
    BY <2>1, Running DEF IInv, MapperFirst
  <2>3. /\ IsFiniteSet(introPending \ {c})
        /\ Cardinality(introPending \ {c}) = Cardinality(introPending) - 1
    BY <1>1, <2>1, Retire
  <2>4. failed' => resStatus = 500
    BY <2>1, <2>2 DEF IInv, FailedIs500
  <2>5. /\ refs' = refs - 1 /\ resStatus' \in Statuses
        /\ jsonValue' \in JsonValues /\ ends' \in Nat
        /\ EndedIffIdle' /\ FailedIs500' /\ ErrorWins'
    BY <1>1, <2>1, <2>2, <2>4, ReleaseStep
  <2>6. QED
    BY <1>1, <2>1, <2>2, <2>3, <2>5
       DEF IInv, TypeOK, Statuses, CountIsOutstanding, Outstanding,
           NotStarted, MapperFirst, CallsAfterIntrospect

<1>6. ASSUME NEW c \in Conns, NEW r \in Replies, IntrospectReply(c, r)
      PROVE  IInv'
  <2> DEFINE new   == Sent(c, r)
             fails == StopAt(r) <= Len(r)
             st    == IF fails THEN 500 ELSE resStatus
             n     == refs - 1 + Cardinality(new)
  <2>1. /\ c \in introPending /\ introPending' = introPending \ {c}
        /\ callPending' = callPending \cup new
        /\ sent' = sent \cup new
        /\ failed' = (failed \/ fails)
        /\ Release(st, jsonValue, n)
        /\ UNCHANGED <<started, nargs, mapperPending>>
    BY <1>6 DEF IntrospectReply
  <2>2. started /\ refs \in Nat \ {0} /\ ends = 0 /\ ~mapperPending
    BY <2>1, Running DEF IInv, MapperFirst
  <2>3. new \subseteq Calls /\ \A x \in new : x[1] = c
    BY SentShape
  <2>4. new \cap callPending = {}
    BY <2>1, <2>3 DEF IInv, CallsAfterIntrospect
  <2>5. IsFiniteSet(new) /\ Cardinality(new) \in Nat
    BY <2>3, CallsFinite, FiniteCount
  <2>6. /\ IsFiniteSet(callPending \cup new)
        /\ Cardinality(callPending \cup new)
             = Cardinality(callPending) + Cardinality(new)
    BY <1>1, <2>4, <2>5, AddDisjoint
  <2>7. Cardinality(introPending \ {c}) = Cardinality(introPending) - 1
    BY <1>1, <2>1, Retire
  <2>8. failed' => st = 500
    BY <2>1, <2>2 DEF IInv, FailedIs500
  <2>9. st \in Statuses /\ n \in Nat
    BY <1>1, <2>2, <2>5 DEF Statuses
  <2>10. /\ refs' = n /\ resStatus' \in Statuses
         /\ jsonValue' \in JsonValues /\ ends' \in Nat
         /\ EndedIffIdle' /\ FailedIs500' /\ ErrorWins'
    BY <1>1, <2>1, <2>2, <2>8, <2>9, ReleaseStep
  <2>11. CountIsOutstanding'
    BY <1>1, <2>1, <2>2, <2>5, <2>6, <2>7, <2>10
       DEF IInv, CountIsOutstanding, Outstanding
  <2>12. CallsAfterIntrospect'
    BY <2>1, <2>3 DEF IInv, CallsAfterIntrospect
  <2>13. TypeOK'
    BY <2>1, <2>2, <2>3, <2>9, <2>10 DEF IInv, TypeOK, Statuses
  <2>14. QED
    BY <2>1, <2>2, <2>10, <2>11, <2>12, <2>13
       DEF IInv, NotStarted, MapperFirst
<1>7. ASSUME NEW x, NEW st \in Statuses, NEW jv \in JsonValues,
             x \in callPending, callPending' = callPending \ {x},
             Release(st, jv, refs - 1), failed' => st = 500,
             UNCHANGED <<started, nargs, mapperPending, introPending, sent,
                         mismatch>>
      PROVE  IInv'
  <2>1. started /\ refs \in Nat \ {0} /\ ends = 0 /\ ~mapperPending
    BY <1>7, Running DEF IInv, MapperFirst
  <2>2. /\ IsFiniteSet(callPending \ {x})
        /\ Cardinality(callPending \ {x}) = Cardinality(callPending) - 1
    BY <1>1, <1>7, Retire
  <2>3. /\ refs' = refs - 1 /\ resStatus' \in Statuses
        /\ jsonValue' \in JsonValues /\ ends' \in Nat
        /\ EndedIffIdle' /\ FailedIs500' /\ ErrorWins'
    BY <1>7, <2>1, ReleaseStep
  <2>4. CountIsOutstanding'
    BY <1>1, <1>7, <2>1, <2>2, <2>3 DEF IInv, CountIsOutstanding, Outstanding
  <2>5. QED
    BY <1>7, <2>1, <2>3, <2>4
       DEF IInv, TypeOK, Statuses, NotStarted, MapperFirst,
           CallsAfterIntrospect
<1>8. ASSUME NEW x \in Calls, CallReply(x) PROVE IInv'
  <2>1. failed' => resStatus = 500
    BY <1>8, Running DEF CallReply, IInv, FailedIs500
  <2>2. QED
    BY <1>1, <1>7, <1>8, <2>1 DEF CallReply, JsonValues
<1>9. ASSUME NEW x \in Calls, CallError(x) PROVE IInv'
  BY <1>1, <1>7, <1>9 DEF CallError, Statuses
<1>10. CASE UNCHANGED vars
  BY <1>10 DEF vars, IInv, TypeOK, CountIsOutstanding, Outstanding,
               NotStarted, MapperFirst, CallsAfterIntrospect, EndedIffIdle,
               FailedIs500, ErrorWins
<1>11. QED
  BY <1>2, <1>3, <1>4, <1>5, <1>6, <1>8, <1>9, <1>10 DEF Next

THEOREM IInvHolds == Spec => []IInv
BY InitIInv, NextIInv, PTL DEF Spec


-----------------------------------------------------------------------------
(***************************************************************************)
(* Every reachable state of the method-call handler is well typed.         *)
(***************************************************************************)
THEOREM TypeCorrect == Spec => []TypeOK
BY IInvHolds, PTL DEF IInv

(***************************************************************************)
(* The method-call response is completed at most once, for any number of   *)
(* owning connections, matching interfaces and orders of the replies: the  *)
(* InProgressActionData destructor runs once, after the last callback.     *)
(***************************************************************************)
THEOREM EndOnceHolds == Spec => []EndOnce
<1>1. IInv => EndOnce
  BY DEF IInv, EndedIffIdle, EndOnce
<1>2. QED
  BY <1>1, IInvHolds, PTL

(***************************************************************************)
(* A failure anywhere (GetObject, an argument that cannot be encoded, a    *)
(* method call error) ends the request with 500 and an empty body, even if *)
(* a call on another interface or connection succeeds afterwards.          *)
(***************************************************************************)
THEOREM ErrorWinsHolds == Spec => []ErrorWins
<1>1. IInv => ErrorWins
  BY DEF IInv
<1>2. QED
  BY <1>1, IInvHolds, PTL

\* Every step of the handler is a step of HttpResponse or leaves the
\* response as it is: after the answer no callback is left to run.
LEMMA ResponseStep == IInv /\ [Next]_vars => [Resp!Respond]_Resp!vars
<1> SUFFICES ASSUME IInv, [Next]_vars PROVE [Resp!Respond]_Resp!vars
  OBVIOUS
<1>1. ends \in Nat /\ ends' \in Nat /\ (ends' # 0 => ends' = 1)
  <2>1. IInv'
    BY NextIInv
  <2>2. QED
    BY <2>1 DEF IInv, TypeOK, EndedIffIdle
<1>2. CASE ends # 0
  <2>1. started /\ ~mapperPending /\ introPending = {} /\ callPending = {}
    BY <1>2, Idle
  <2>2. ~Next
    BY <2>1 DEF Next, HandleAction, MapperFailure, MapperReply,
                IntrospectError, IntrospectReply, CallReply, CallError
  <2>3. UNCHANGED vars
    BY <2>2
  <2>4. QED
    BY <2>3 DEF vars, Resp!vars
<1>3. CASE ends = 0 /\ ends' = 0
  BY <1>3 DEF Resp!vars
<1>4. CASE ends = 0 /\ ends' # 0
  BY <1>1, <1>4 DEF Resp!Respond
<1>5. QED
  BY <1>1, <1>2, <1>3, <1>4

(***************************************************************************)
(* The handler implements HttpResponse: the response is completed once and *)
(* its status and body never change afterwards, whatever the order of the  *)
(* Introspect and method-call replies.                                     *)
(***************************************************************************)
THEOREM RespSpecHolds == Spec => RespSpec
<1>1. Init => Resp!Init
  BY DEF Init, Resp!Init
<1>2. QED
  BY <1>1, ResponseStep, IInvHolds, PTL DEF Spec, RespSpec, Resp!Spec

=============================================================================
