----------------------------- MODULE PutProofs -----------------------------
(***************************************************************************)
(* Proofs about the PUT handler, for every set of connections and every    *)
(* number of matching property nodes.                                      *)
(*                                                                         *)
(* The argument: the use count of the shared AsyncPutRequest is always the *)
(* number of callbacks still to run (the GetObject one, one per pending    *)
(* Introspect, one per pending Set), so the destructor runs exactly when   *)
(* the last of them returns, and then nothing is left to run.  The Set     *)
(* calls a connection's Introspect callback sends are new, because no Set  *)
(* of a connection exists before its Introspect has been answered; that is *)
(* what lets the count be updated by simple addition.  A failure sets 500, *)
(* and nothing lowers a 500 before the destructor turns it into 403.       *)
(***************************************************************************)
EXTENDS Put, FiniteSetTheorems, TLAPS

\* The callbacks still to run, each holding one copy of the request.
Outstanding ==
  (IF mapperPending THEN 1 ELSE 0) + Cardinality(introPending)
    + Cardinality(setPending)

CountIsOutstanding == refs = Outstanding

\* Before the handler runs nothing has happened.
NotStarted ==
  ~started => /\ ~mapperPending /\ introPending = {} /\ setPending = {}
              /\ ends = 0 /\ ~failed /\ resStatus = 200

\* While GetObject is in flight no later call exists.
MapperFirst ==
  mapperPending => /\ introPending = {} /\ setPending = {} /\ ~failed
                   /\ resStatus = 200

\* A connection's Set calls are sent only after its Introspect is answered.
SetsAfterIntrospect == \A s \in setPending : s[1] \notin introPending

\* The response has been completed exactly when nothing is left to run.
EndedIffIdle == ends = IF started /\ refs = 0 THEN 1 ELSE 0

\* A failure seen before the end has left the status at 500.
FailedIs500 == failed /\ ends = 0 => resStatus = 500

IInv ==
  /\ TypeOK
  /\ CountIsOutstanding
  /\ NotStarted
  /\ MapperFirst
  /\ SetsAfterIntrospect
  /\ EndedIffIdle
  /\ FailedIs500
  /\ FailureIsForbidden

-----------------------------------------------------------------------------
(***************************************************************************)
(* Lemmas on the sets of calls in flight.                                  *)
(***************************************************************************)
LEMMA SetCallsFinite == IsFiniteSet(SetCalls)
<1>1. IsFiniteSet(1..MaxMatches)
  BY PutAssumption, FS_Interval
<1>2. QED
  BY <1>1, PutAssumption, FS_Product DEF SetCalls

\* A subset of a finite set is finite and has a natural cardinality.
LEMMA FiniteCount ==
  ASSUME NEW S, NEW T, IsFiniteSet(T), S \subseteq T
  PROVE  IsFiniteSet(S) /\ Cardinality(S) \in Nat
BY FS_Subset, FS_CardinalityType

\* Retiring a call in flight lowers the count by one.
LEMMA Retire ==
  ASSUME NEW P, IsFiniteSet(P), NEW x \in P
  PROVE  /\ IsFiniteSet(P \ {x})
         /\ Cardinality(P \ {x}) = Cardinality(P) - 1
         /\ Cardinality(P) \in Nat \ {0}
<1>1. Cardinality(P) \in Nat /\ (Cardinality(P) = 0 <=> P = {})
  BY FS_CardinalityType, FS_EmptySet
<1>2. QED
  BY <1>1, FS_RemoveElement

\* Starting calls that are all new adds their number to the count.
LEMMA AddDisjoint ==
  ASSUME NEW S, NEW T, IsFiniteSet(S), IsFiniteSet(T), S \cap T = {}
  PROVE  /\ IsFiniteSet(S \cup T)
         /\ Cardinality(S \cup T) = Cardinality(S) + Cardinality(T)
<1>1. Cardinality(S \cap T) = 0
  BY FS_EmptySet
<1>2. /\ IsFiniteSet(S \cup T)
      /\ Cardinality(S \cup T) =
           Cardinality(S) + Cardinality(T) - Cardinality(S \cap T)
  BY FS_Union
<1>3. Cardinality(S) \in Nat /\ Cardinality(T) \in Nat
  BY FS_CardinalityType
<1>4. QED
  BY <1>1, <1>2, <1>3

\* The Set calls one Introspect callback sends are calls of its connection.
LEMMA SentShape ==
  ASSUME NEW c \in Conns, NEW ms \in Matches
  PROVE  /\ Sent(c, ms) \subseteq SetCalls
         /\ \A s \in Sent(c, ms) : s[1] = c
<1>1. DOMAIN ms \subseteq 1..MaxMatches
  BY PutAssumption DEF Matches
<1>2. QED
  BY <1>1 DEF Sent, SetCalls

\* What the end of a callback does, with and without the destructor.
LEMMA ReleaseEffect ==
  ASSUME NEW st, NEW jv, NEW n, Release(st, jv, n)
  PROVE  /\ refs' = n
         /\ n = 0 => /\ resStatus' = DestructorStatus(st, jv)
                     /\ jsonValue' = DestructorJson(st, jv)
                     /\ ends' = ends + 1
         /\ n # 0 => resStatus' = st /\ jsonValue' = jv /\ ends' = ends
BY DEF Release

\* The destructor keeps the status and body well formed, and turns a 500
\* into the 403 envelope.
LEMMA DestructorFacts ==
  ASSUME NEW st \in {200, 400, 403, 404, 500}, NEW jv \in JsonValues
  PROVE  /\ DestructorStatus(st, jv) \in {200, 400, 403, 404, 500}
         /\ DestructorJson(st, jv) \in JsonValues
         /\ st = 500 => /\ DestructorStatus(st, jv) = 403
                        /\ DestructorJson(st, jv) = "Forbidden"
BY DEF DestructorStatus, DestructorJson, JsonValues

\* The flags stay Booleans.
LEMMA FlagsType ==
  ASSUME TypeOK, [Next]_vars
  PROVE  /\ started' \in BOOLEAN /\ mapperPending' \in BOOLEAN
         /\ failed' \in BOOLEAN /\ dispatched' \in BOOLEAN
<1> DEFINE Flags == /\ started' \in BOOLEAN /\ mapperPending' \in BOOLEAN
                    /\ failed' \in BOOLEAN /\ dispatched' \in BOOLEAN
<1>1. ASSUME NEW body, HandlePut(body) PROVE Flags
  BY <1>1, Zenon DEF HandlePut, TypeOK
<1>2. CASE MapperNotFound
  BY <1>2 DEF MapperNotFound, TypeOK
<1>3. CASE MapperError
  BY <1>3 DEF MapperError, TypeOK
<1>4. ASSUME NEW owners, MapperReply(owners) PROVE Flags
  BY <1>4, Zenon DEF MapperReply, TypeOK
<1>5. ASSUME NEW c, IntrospectError(c) PROVE Flags
  BY <1>5, Zenon DEF IntrospectError, TypeOK
<1>6. ASSUME NEW c, NEW ms, IntrospectReply(c, ms) PROVE Flags
  BY <1>6, Zenon DEF IntrospectReply, TypeOK
<1>7. ASSUME NEW x, SetReply(x) \/ SetError(x) PROVE Flags
  BY <1>7, Zenon DEF SetReply, SetError, TypeOK
<1>8. CASE UNCHANGED vars
  BY <1>8, Zenon DEF vars, TypeOK
<1>9. QED
  BY <1>1, <1>2, <1>3, <1>4, <1>5, <1>6, <1>7, <1>8 DEF Next

\* The sets of calls in flight are finite.
LEMMA PendingFinite ==
  ASSUME TypeOK
  PROVE  /\ IsFiniteSet(introPending) /\ Cardinality(introPending) \in Nat
         /\ IsFiniteSet(setPending) /\ Cardinality(setPending) \in Nat
BY PutAssumption, SetCallsFinite, FiniteCount DEF TypeOK

\* While some callback is still to run the handler has started, the count
\* is positive and the response has not been completed.
LEMMA Running ==
  ASSUME IInv, mapperPending \/ introPending # {} \/ setPending # {}
  PROVE  started /\ refs \in Nat \ {0} /\ ends = 0
<1>1. started
  BY DEF IInv, NotStarted
<1>2. /\ Cardinality(introPending) \in Nat /\ Cardinality(setPending) \in Nat
      /\ (introPending # {} => Cardinality(introPending) # 0)
      /\ (setPending # {} => Cardinality(setPending) # 0)
  BY PendingFinite, FS_EmptySet DEF IInv
<1>3. refs \in Nat \ {0}
  BY <1>2 DEF IInv, CountIsOutstanding, Outstanding
<1>4. QED
  BY <1>1, <1>3 DEF IInv, EndedIffIdle

-----------------------------------------------------------------------------
LEMMA InitIInv == Init => IInv
<1> SUFFICES ASSUME Init PROVE IInv
  OBVIOUS
<1>1. TypeOK
  <2>1. started \in BOOLEAN /\ mapperPending \in BOOLEAN
        /\ failed \in BOOLEAN /\ dispatched \in BOOLEAN
    BY Zenon DEF Init
  <2>2. QED
    BY <2>1 DEF Init, TypeOK, JsonValues
<1>2. CountIsOutstanding
  <2>1. Cardinality({}) = 0
    BY FS_EmptySet
  <2>2. QED
    BY <2>1 DEF Init, CountIsOutstanding, Outstanding
<1>3. QED
  BY <1>1, <1>2 DEF Init, IInv, NotStarted, MapperFirst, SetsAfterIntrospect,
                    EndedIffIdle, FailedIs500, FailureIsForbidden

LEMMA NextIInv == IInv /\ [Next]_vars => IInv'
<1> SUFFICES ASSUME IInv, [Next]_vars PROVE IInv'
  OBVIOUS
<1>0. /\ started' \in BOOLEAN /\ mapperPending' \in BOOLEAN
      /\ failed' \in BOOLEAN /\ dispatched' \in BOOLEAN
  BY FlagsType DEF IInv
<1> USE <1>0
<1>1. /\ IsFiniteSet(introPending) /\ Cardinality(introPending) \in Nat
      /\ IsFiniteSet(setPending) /\ Cardinality(setPending) \in Nat
      /\ Cardinality({}) = 0
  BY PendingFinite, FS_EmptySet DEF IInv
<1>2. ASSUME NEW body \in RequestBodies, HandlePut(body) PROVE IInv'
  <2>1. /\ ~mapperPending /\ introPending = {} /\ setPending = {}
        /\ ends = 0 /\ ~failed /\ refs = 0
    BY <1>1, <1>2 DEF HandlePut, IInv, NotStarted, CountIsOutstanding,
                      Outstanding
  <2>2. CASE body \in {"Malformed", "NoData"}
    <3>1. /\ started' /\ resStatus' = 400 /\ ends' = 1
          /\ mapperPending' = FALSE /\ refs' = 0 /\ jsonValue' = jsonValue
          /\ UNCHANGED <<introPending, setPending, failed, dispatched>>
      BY <1>2, <2>1, <2>2 DEF HandlePut
    <3>2. QED
      BY <1>1, <2>1, <3>1 DEF IInv, TypeOK, CountIsOutstanding, Outstanding,
            NotStarted, MapperFirst, SetsAfterIntrospect, EndedIffIdle,
            FailedIs500, FailureIsForbidden
  <2>3. CASE body = "Data"
    <3>1. /\ started' /\ mapperPending' /\ refs' = 1 /\ jsonValue' = "Ok"
          /\ UNCHANGED <<introPending, setPending, failed, dispatched,
                         resStatus, ends>>
      BY <1>2, <2>3 DEF HandlePut
    <3>2. QED
      BY <1>1, <2>1, <3>1 DEF IInv, TypeOK, JsonValues, CountIsOutstanding,
            Outstanding, NotStarted, MapperFirst, SetsAfterIntrospect,
            EndedIffIdle, FailedIs500, FailureIsForbidden
  <2>4. QED
    BY <2>2, <2>3 DEF RequestBodies
<1>3. ASSUME NEW st \in {200, 404}, mapperPending,
             mapperPending' = FALSE, Release(st, jsonValue, refs - 1),
             UNCHANGED <<started, introPending, setPending, failed, dispatched>>,
             st = 404 \/ st = resStatus
      PROVE  IInv'
  <2>1. started /\ refs \in Nat \ {0} /\ ends = 0
    BY <1>3, Running
  <2>2. introPending = {} /\ setPending = {} /\ ~failed /\ refs = 1
    BY <1>1, <1>3 DEF IInv, MapperFirst, CountIsOutstanding, Outstanding
  <2>3. /\ refs' = 0 /\ resStatus' = DestructorStatus(st, jsonValue)
        /\ jsonValue' = DestructorJson(st, jsonValue) /\ ends' = 1
    BY <1>3, <2>1, <2>2, ReleaseEffect
  <2>4. /\ DestructorStatus(st, jsonValue) \in {200, 400, 403, 404, 500}
        /\ DestructorJson(st, jsonValue) \in JsonValues
    BY DestructorFacts DEF IInv, TypeOK
  <2>5. QED
    BY <1>1, <1>3, <2>1, <2>2, <2>3, <2>4
       DEF IInv, TypeOK, CountIsOutstanding, Outstanding, NotStarted,
           MapperFirst, SetsAfterIntrospect, EndedIffIdle, FailedIs500,
           FailureIsForbidden
<1>4. CASE MapperNotFound
  BY <1>3, <1>4 DEF MapperNotFound
<1>5. CASE MapperError
  <2>1. resStatus = 200
    BY <1>5 DEF MapperError, IInv, MapperFirst
  <2>2. QED
    BY <1>3, <1>5, <2>1 DEF MapperError
<1>6. ASSUME NEW owners \in (SUBSET Conns) \ {{}}, MapperReply(owners)
      PROVE  IInv'
  <2>1. /\ mapperPending' = FALSE /\ introPending' = owners
        /\ Release(resStatus, jsonValue, refs - 1 + Cardinality(owners))
        /\ UNCHANGED <<started, setPending, failed, dispatched>>
    BY <1>6 DEF MapperReply
  <2>2. started /\ ends = 0
    BY <1>6, Running DEF MapperReply
  <2>3. /\ introPending = {} /\ setPending = {} /\ ~failed /\ refs = 1
        /\ resStatus = 200
    <3>1. introPending = {} /\ setPending = {} /\ ~failed /\ resStatus = 200
      BY <1>6 DEF MapperReply, IInv, MapperFirst
    <3>2. refs = 1
      BY <1>1, <1>6, <3>1 DEF MapperReply, IInv, CountIsOutstanding,
                              Outstanding
    <3>3. QED
      BY <3>1, <3>2
  <2>4. Cardinality(owners) \in Nat \ {0}
    <3>1. IsFiniteSet(owners) /\ Cardinality(owners) \in Nat
      BY PutAssumption, FiniteCount
    <3>2. Cardinality(owners) # 0
      <4>1. owners # {}
        OBVIOUS
      <4>2. QED
        BY <3>1, <4>1, FS_EmptySet
    <3>3. QED
      BY <3>1, <3>2
  <2>5. /\ refs' = Cardinality(owners)
        /\ resStatus' = resStatus /\ jsonValue' = jsonValue /\ ends' = ends
    BY <2>1, <2>3, <2>4, ReleaseEffect
  <2>6. QED
    BY <1>1, <2>1, <2>2, <2>3, <2>4, <2>5
       DEF IInv, TypeOK, CountIsOutstanding, Outstanding, NotStarted,
           MapperFirst, SetsAfterIntrospect, EndedIffIdle, FailedIs500,
           FailureIsForbidden
<1>7. ASSUME NEW c \in Conns, IntrospectError(c) PROVE IInv'
  <2>1. /\ c \in introPending /\ introPending' = introPending \ {c}
        /\ failed' /\ Release(500, jsonValue, refs - 1)
        /\ UNCHANGED <<started, mapperPending, setPending, dispatched>>
    BY <1>7 DEF IntrospectError
  <2>2. started /\ refs \in Nat \ {0} /\ ends = 0 /\ ~mapperPending
    BY <2>1, Running DEF IInv, MapperFirst
  <2>3. /\ IsFiniteSet(introPending \ {c})
        /\ Cardinality(introPending \ {c}) = Cardinality(introPending) - 1
    BY <1>1, <2>1, Retire
  <2>4. CountIsOutstanding'
    BY <1>1, <2>1, <2>2, <2>3, ReleaseEffect
       DEF IInv, CountIsOutstanding, Outstanding
  <2>5. jsonValue \in JsonValues
    BY DEF IInv, TypeOK
  <2>6. CASE refs - 1 = 0
    <3>1. /\ refs' = 0 /\ resStatus' = 403 /\ jsonValue' = "Forbidden"
          /\ ends' = 1
      BY <2>1, <2>2, <2>5, <2>6, ReleaseEffect, DestructorFacts
    <3>2. QED
      BY <1>1, <2>1, <2>2, <2>3, <2>4, <3>1
         DEF IInv, TypeOK, JsonValues, NotStarted, MapperFirst,
             SetsAfterIntrospect, EndedIffIdle, FailedIs500,
             FailureIsForbidden
  <2>7. CASE refs - 1 # 0
    <3>1. /\ refs' = refs - 1 /\ resStatus' = 500
          /\ jsonValue' = jsonValue /\ ends' = 0
      BY <2>1, <2>2, <2>7, ReleaseEffect
    <3>2. TypeOK'
      BY <1>1, <2>1, <2>2, <2>5, <3>1 DEF IInv, TypeOK
    <3>3. QED
      BY <2>1, <2>2, <2>4, <2>7, <3>1, <3>2
         DEF IInv, NotStarted, MapperFirst, SetsAfterIntrospect,
             EndedIffIdle, FailedIs500, FailureIsForbidden
  <2>8. QED
    BY <2>6, <2>7
<1>8. ASSUME NEW c \in Conns, NEW ms \in Matches, IntrospectReply(c, ms)
      PROVE  IInv'
  <2> DEFINE sent  == Sent(c, ms)
             fails == StopAt(ms) <= Len(ms)
             st    == IF fails THEN 500 ELSE resStatus
             n     == refs - 1 + Cardinality(sent)
  <2>1. /\ c \in introPending /\ introPending' = introPending \ {c}
        /\ setPending' = setPending \cup sent
        /\ failed' = (failed \/ fails)
        /\ Release(st, jsonValue, n)
        /\ UNCHANGED <<started, mapperPending>>
    BY <1>8 DEF IntrospectReply
  <2>2. started /\ refs \in Nat \ {0} /\ ends = 0 /\ ~mapperPending
    BY <2>1, Running DEF IInv, MapperFirst
  <2>3. sent \subseteq SetCalls /\ \A x \in sent : x[1] = c
    BY SentShape
  <2>4. sent \cap setPending = {}
    BY <2>1, <2>3 DEF IInv, SetsAfterIntrospect
  <2>5. IsFiniteSet(sent) /\ Cardinality(sent) \in Nat
    BY <2>3, SetCallsFinite, FiniteCount
  <2>6. /\ IsFiniteSet(setPending \cup sent)
        /\ Cardinality(setPending \cup sent)
             = Cardinality(setPending) + Cardinality(sent)
    BY <1>1, <2>4, <2>5, AddDisjoint
  <2>7. Cardinality(introPending \ {c}) = Cardinality(introPending) - 1
    BY <1>1, <2>1, Retire
  <2>8. refs' = n /\ CountIsOutstanding'
    BY <1>1, <2>1, <2>2, <2>5, <2>6, <2>7, ReleaseEffect
       DEF IInv, CountIsOutstanding, Outstanding
  <2>9. failed' => st = 500
    BY <2>1, <2>2 DEF IInv, FailedIs500
  <2>10. st \in {200, 400, 403, 404, 500} /\ jsonValue \in JsonValues
    BY DEF IInv, TypeOK
  <2>11. SetsAfterIntrospect'
    BY <2>1, <2>3 DEF IInv, SetsAfterIntrospect
  <2>12. TypeOK' /\ NotStarted' /\ MapperFirst'
    <3>1. setPending' \in SUBSET SetCalls
      BY <2>1, <2>3 DEF IInv, TypeOK
    <3>2. resStatus' \in {200, 400, 403, 404, 500} /\ jsonValue' \in JsonValues
          /\ ends' \in Nat
      BY <2>1, <2>2, <2>10, ReleaseEffect, DestructorFacts
    <3>3. QED
      BY <2>1, <2>2, <2>5, <2>8, <3>1, <3>2
         DEF IInv, TypeOK, NotStarted, MapperFirst
  <2>13. EndedIffIdle' /\ FailedIs500' /\ FailureIsForbidden'
    <3>1. CASE n = 0
      <4>1. ends' = 1 /\ (failed' => resStatus' = 403 /\ jsonValue' = "Forbidden")
        BY <2>1, <2>2, <2>9, <2>10, <3>1, ReleaseEffect, DestructorFacts
      <4>2. QED
        BY <2>1, <2>2, <2>8, <3>1, <4>1 DEF EndedIffIdle, FailedIs500,
                                      FailureIsForbidden
    <3>2. CASE n # 0
      <4>1. ends' = 0 /\ resStatus' = st
        BY <2>1, <2>2, <3>2, ReleaseEffect
      <4>2. QED
        BY <2>1, <2>8, <2>9, <3>2, <4>1 DEF EndedIffIdle, FailedIs500,
                                            FailureIsForbidden
    <3>3. QED
      BY <3>1, <3>2
  <2>14. QED
    BY <2>8, <2>11, <2>12, <2>13 DEF IInv
<1>9. ASSUME NEW x, NEW jv \in JsonValues, x \in setPending,
             setPending' = setPending \ {x}, Release(resStatus, jv, refs - 1),
             UNCHANGED <<started, mapperPending, introPending, failed,
                         dispatched>>
      PROVE  IInv'
  <2>1. started /\ refs \in Nat \ {0} /\ ends = 0 /\ ~mapperPending
    BY <1>9, Running DEF IInv, MapperFirst
  <2>2. /\ IsFiniteSet(setPending \ {x})
        /\ Cardinality(setPending \ {x}) = Cardinality(setPending) - 1
    BY <1>1, <1>9, Retire
  <2>3. refs' = refs - 1 /\ CountIsOutstanding'
    BY <1>1, <1>9, <2>1, <2>2, ReleaseEffect
       DEF IInv, CountIsOutstanding, Outstanding
  <2>4. failed => resStatus = 500
    BY <2>1 DEF IInv, FailedIs500
  <2>5. resStatus \in {200, 400, 403, 404, 500}
    BY DEF IInv, TypeOK
  <2>6. TypeOK' /\ NotStarted' /\ MapperFirst' /\ SetsAfterIntrospect'
    <3>1. resStatus' \in {200, 400, 403, 404, 500} /\ jsonValue' \in JsonValues
          /\ ends' \in Nat
      BY <1>9, <2>1, <2>5, ReleaseEffect, DestructorFacts
    <3>2. QED
      BY <1>9, <2>1, <2>3, <3>1
         DEF IInv, TypeOK, NotStarted, MapperFirst, SetsAfterIntrospect
  <2>7. EndedIffIdle' /\ FailedIs500' /\ FailureIsForbidden'
    <3>1. CASE refs - 1 = 0
      <4>1. ends' = 1 /\ (failed => resStatus' = 403 /\ jsonValue' = "Forbidden")
        BY <1>9, <2>1, <2>4, <2>5, <3>1, ReleaseEffect, DestructorFacts
      <4>2. QED
        BY <1>9, <2>1, <2>3, <3>1, <4>1 DEF EndedIffIdle, FailedIs500,
                                      FailureIsForbidden
    <3>2. CASE refs - 1 # 0
      <4>1. ends' = 0 /\ resStatus' = resStatus
        BY <1>9, <2>1, <3>2, ReleaseEffect
      <4>2. QED
        BY <1>9, <2>3, <2>4, <3>2, <4>1 DEF EndedIffIdle, FailedIs500,
                                            FailureIsForbidden
    <3>3. QED
      BY <3>1, <3>2
  <2>8. QED
    BY <2>3, <2>6, <2>7 DEF IInv
<1>10. ASSUME NEW x \in SetCalls, SetReply(x) PROVE IInv'
  BY <1>9, <1>10 DEF SetReply, IInv, TypeOK
<1>11. ASSUME NEW x \in SetCalls, SetError(x) PROVE IInv'
  BY <1>9, <1>11 DEF SetError, JsonValues
<1>12. CASE UNCHANGED vars
  BY <1>12 DEF vars, IInv, TypeOK, CountIsOutstanding, Outstanding, NotStarted,
               MapperFirst, SetsAfterIntrospect, EndedIffIdle, FailedIs500,
               FailureIsForbidden
<1>13. QED
  BY <1>2, <1>4, <1>5, <1>6, <1>7, <1>8, <1>10, <1>11, <1>12 DEF Next

THEOREM IInvHolds == Spec => []IInv
BY InitIInv, NextIInv, PTL DEF Spec

-----------------------------------------------------------------------------
(***************************************************************************)
(* Every reachable state of the PUT handler is well typed.                 *)
(***************************************************************************)
THEOREM TypeCorrect == Spec => []TypeOK
BY IInvHolds, PTL DEF IInv

(***************************************************************************)
(* The PUT response is completed at most once, for any number of owning    *)
(* connections, matching property nodes and orders of the replies: the     *)
(* AsyncPutRequest destructor runs once, after the last callback.          *)
(***************************************************************************)
THEOREM EndOnceHolds == Spec => []EndOnce
<1>1. IInv => EndOnce
  BY DEF IInv, EndedIffIdle, EndOnce
<1>2. QED
  BY <1>1, IInvHolds, PTL

(***************************************************************************)
(* An Introspect failure or a Set message that cannot be built, on any     *)
(* connection, ends the PUT with the 403 envelope, whatever the other      *)
(* connections' callbacks do.                                              *)
(***************************************************************************)
THEOREM FailureIsForbiddenHolds == Spec => []FailureIsForbidden
<1>1. IInv => FailureIsForbidden
  BY DEF IInv
<1>2. QED
  BY <1>1, IInvHolds, PTL

\* Once the destructor has completed the response, nothing is left to run.
LEMMA Idle == IInv /\ ends # 0 => ~Next
<1> SUFFICES ASSUME IInv, ends # 0 PROVE ~Next
  OBVIOUS
<1>1. started
  BY DEF IInv, EndedIffIdle
<1>2. ~mapperPending /\ introPending = {} /\ setPending = {}
  BY Running
<1>3. QED
  BY <1>1, <1>2 DEF Next, HandlePut, MapperNotFound, MapperError,
                    MapperReply, IntrospectError, IntrospectReply, SetReply,
                    SetError

\* Every step is a step of HttpResponse or leaves the response unchanged.
LEMMA ResponseStep == IInv /\ [Next]_vars => [Resp!Respond]_Resp!vars
<1> SUFFICES ASSUME IInv, [Next]_vars PROVE [Resp!Respond]_Resp!vars
  OBVIOUS
<1>1. ends \in {0, 1} /\ ends' \in {0, 1}
  <2>1. IInv'
    BY NextIInv
  <2>2. QED
    BY <2>1 DEF IInv, EndedIffIdle
<1>2. CASE ends # 0
  <2>1. ~Next
    BY <1>2, Idle
  <2>2. UNCHANGED vars
    BY <2>1
  <2>3. QED
    BY <2>2 DEF vars, Resp!vars
<1>3. CASE ends = 0 /\ ends' = 0
  BY <1>3 DEF Resp!vars
<1>4. CASE ends = 0 /\ ends' # 0
  BY <1>1, <1>4 DEF Resp!Respond
<1>5. QED
  BY <1>2, <1>3, <1>4

(***************************************************************************)
(* The PUT handler implements HttpResponse: the destructor completes the  *)
(* response once, and no Set reply arriving later changes its status or   *)
(* body, because every Set callback holds the request alive.              *)
(***************************************************************************)
THEOREM RespSpecHolds == Spec => RespSpec
<1>1. Init => Resp!Init
  BY DEF Init, Resp!Init
<1>2. QED
  BY <1>1, ResponseStep, IInvHolds, PTL DEF Spec, RespSpec, Resp!Spec

\* A count of zero calls in flight means that none is in flight.
LEMMA NothingOutstanding ==
  ASSUME NEW mp \in BOOLEAN, NEW ip \in SUBSET Conns, NEW sp \in SUBSET SetCalls,
         (IF mp THEN 1 ELSE 0) + Cardinality(ip) + Cardinality(sp) = 0
  PROVE  ~mp /\ ip = {} /\ sp = {}
<1>1. /\ IsFiniteSet(ip) /\ Cardinality(ip) \in Nat
      /\ IsFiniteSet(sp) /\ Cardinality(sp) \in Nat
  BY PutAssumption, SetCallsFinite, FiniteCount
<1>2. /\ (ip # {} => Cardinality(ip) # 0)
      /\ (sp # {} => Cardinality(sp) # 0)
  BY <1>1, FS_EmptySet
<1>3. CASE mp
  BY <1>1, <1>3
<1>4. CASE ~mp
  <2>1. Cardinality(ip) + Cardinality(sp) = 0
    BY <1>1, <1>4
  <2>2. ip = {} /\ sp = {}
    BY <1>1, <1>2, <2>1
  <2>3. QED
    BY <1>4, <2>2, Zenon
<1>5. QED
  BY <1>3, <1>4

(***************************************************************************)
(* The destructor completes the response only in the step that releases   *)
(* the last copy of the request, leaving no callback that could still      *)
(* write the answer; proved from the invariant in the next state.          *)
(***************************************************************************)
THEOREM EndsWhenIdleHolds == Spec => EndsWhenIdle
<1>1. IInv /\ [Next]_vars => [ends' > ends => ~mapperPending' /\ introPending' = {} /\ setPending' = {}]_vars
  <2> SUFFICES ASSUME IInv, [Next]_vars, ends' > ends
               PROVE  ~mapperPending' /\ introPending' = {} /\ setPending' = {}
    BY DEF vars
  <2>1. IInv'
    BY NextIInv
  <2>2. refs' = 0
    <3>1. ends \in Nat /\ ends' \in Nat
      BY <2>1 DEF IInv, TypeOK
    <3>2. ends' # 0
      BY <3>1
    <3>3. QED
      BY <2>1, <3>2 DEF IInv, EndedIffIdle
  <2>3. /\ mapperPending' \in BOOLEAN /\ introPending' \in SUBSET Conns
        /\ setPending' \in SUBSET SetCalls
        /\ Outstanding' = 0
    BY <2>1, <2>2 DEF IInv, TypeOK, CountIsOutstanding
  <2>4. QED
    BY <2>3, NothingOutstanding DEF Outstanding
<1>2. QED
  BY <1>1, IInvHolds, PTL DEF Spec, EndsWhenIdle
=============================================================================
