-------------------------------- MODULE Put --------------------------------
(***************************************************************************)
(* PUT <path>[/attr/<prop>]: handle_put and AsyncPutRequest                *)
(* (src/include/openbmc_dbus_rest.hpp).                                    *)
(*                                                                         *)
(* After the body checks the handler creates a shared AsyncPutRequest,     *)
(* whose constructor writes the success envelope.  The GetObject callback  *)
(* starts one Introspect per owning connection; each Introspect callback   *)
(* walks the interfaces and, for every property named like the requested   *)
(* one, builds a Properties.Set message and sends it.  Every callback      *)
(* holds a copy of the shared pointer; the response is completed by the    *)
(* AsyncPutRequest destructor, which runs when the last copy dies.         *)
(*                                                                         *)
(* Data abstraction: the introspection XML of a connection is reduced to   *)
(* the list of its property nodes that carry the requested name, each      *)
(* with the outcome of building its Set message: no type attribute         *)
(* (skipped), a failure of one of the three message-building calls        *)
(* (open container, convert_json_to_dbus, close container), or sent.       *)
(* The JSON body is reduced to the shapes the handler tells apart.         *)
(***************************************************************************)
EXTENDS Naturals, FiniteSets, Sequences

CONSTANTS Conns,      \* bus connections the mapper may name
          MaxMatches  \* most property nodes of the requested name per reply

ASSUME PutAssumption == IsFiniteSet(Conns) /\ MaxMatches \in Nat

\* The request body: not JSON, JSON without "data", or {"data": V}.
RequestBodies == {"Malformed", "NoData", "Data"}

\* res.json_value: untouched (null), the constructor's success envelope,
\* the envelope with status "error", cleared to {}, or the 403 envelope.
JsonValues == {"Null", "Ok", "Error", "Empty", "Forbidden"}

\* What the loop does with one property node of the requested name.
MatchOutcomes == {"NoType", "BuildFail", "Send"}

Matches == UNION {[1..n -> MatchOutcomes] : n \in 0..MaxMatches}

\* A Set call: the connection and the position of its property node.
SetCalls == Conns \X (1..MaxMatches)

VARIABLES
  started,       \* handle_put has run
  mapperPending, \* the GetObject call is in flight
  introPending,  \* connections whose Introspect is in flight
  setPending,    \* Set calls in flight
  refs,          \* use_count() of the shared AsyncPutRequest
  resStatus,     \* res.result()
  jsonValue,     \* res.json_value
  ends,          \* number of res.end() calls
  failed,        \* history: some callback took an error path
  dispatched     \* history: some Set message was sent

vars == <<started, mapperPending, introPending, setPending, refs, resStatus,
          jsonValue, ends, failed, dispatched>>

Init ==
  /\ started = FALSE
  /\ mapperPending = FALSE
  /\ introPending = {}
  /\ setPending = {}
  /\ refs = 0
  /\ resStatus = 200
  /\ jsonValue = "Null"
  /\ ends = 0
  /\ failed = FALSE
  /\ dispatched = FALSE

(***************************************************************************)
(* ~AsyncPutRequest: a 500 clears the body; an empty body becomes 403      *)
(* with the "cannot be created" envelope; then res.end().                  *)
(***************************************************************************)
DestructorJson(st, jv) ==
  LET cleared == IF st = 500 THEN "Empty" ELSE jv
  IN  IF cleared \in {"Null", "Empty"} THEN "Forbidden" ELSE cleared

DestructorStatus(st, jv) ==
  LET cleared == IF st = 500 THEN "Empty" ELSE jv
  IN  IF cleared \in {"Null", "Empty"} THEN 403 ELSE st

\* The end of a callback that leaves status st, body jv and n references:
\* the destructor runs if n is zero.
Release(st, jv, n) ==
  /\ refs' = n
  /\ IF n = 0
       THEN /\ resStatus' = DestructorStatus(st, jv)
            /\ jsonValue' = DestructorJson(st, jv)
            /\ ends' = ends + 1
       ELSE /\ resStatus' = st
            /\ jsonValue' = jv
            /\ UNCHANGED ends

(***************************************************************************)
(* handle_put: a body that is not JSON, or has no "data" member, is        *)
(* answered 400.  Otherwise the AsyncPutRequest is created (success        *)
(* envelope) and GetObject is called; the handler's own copy dies when it  *)
(* returns, leaving the one held by the call.                              *)
(***************************************************************************)
\* Mutant: the 400 answer for a body without "data" does not return.
HandlePutNoReturn(body) ==
  /\ ~started
  /\ started' = TRUE
  /\ \/ /\ body = "Malformed"
        /\ resStatus' = 400
        /\ ends' = ends + 1
        /\ UNCHANGED <<mapperPending, refs, jsonValue>>
     \/ /\ body = "NoData"
        /\ resStatus' = 400
        /\ ends' = ends + 1
        /\ mapperPending' = TRUE
        /\ refs' = 1
        /\ jsonValue' = "Ok"
     \/ /\ body = "Data"
        /\ mapperPending' = TRUE
        /\ refs' = 1
        /\ jsonValue' = "Ok"
        /\ UNCHANGED <<resStatus, ends>>
  /\ UNCHANGED <<introPending, setPending, failed, dispatched>>

HandlePut(body) ==
  /\ ~started
  /\ started' = TRUE
  /\ \/ /\ body \in {"Malformed", "NoData"}
        /\ resStatus' = 400
        /\ ends' = ends + 1
        /\ UNCHANGED <<mapperPending, refs, jsonValue>>
     \/ /\ body = "Data"
        /\ mapperPending' = TRUE
        /\ refs' = 1
        /\ jsonValue' = "Ok"
        /\ UNCHANGED <<resStatus, ends>>
  /\ UNCHANGED <<introPending, setPending, failed, dispatched>>

(***************************************************************************)
(* The GetObject callback.  A successful empty reply sets 404 and returns. *)
(* An error reply carries an empty list, so the loop starts nothing.  A    *)
(* list of owners starts one Introspect per connection.                    *)
(***************************************************************************)
MapperNotFound ==
  /\ mapperPending
  /\ mapperPending' = FALSE
  /\ Release(404, jsonValue, refs - 1)
  /\ UNCHANGED <<started, introPending, setPending, failed, dispatched>>

MapperError ==
  /\ mapperPending
  /\ mapperPending' = FALSE
  /\ Release(resStatus, jsonValue, refs - 1)
  /\ UNCHANGED <<started, introPending, setPending, failed, dispatched>>

\* Mutant: the callback's own copy of the request is never released.
MapperReplyLeaksRef(owners) ==
  /\ mapperPending
  /\ mapperPending' = FALSE
  /\ introPending' = owners
  /\ Release(resStatus, jsonValue, refs + Cardinality(owners))
  /\ UNCHANGED <<started, setPending, failed, dispatched>>

MapperReply(owners) ==
  /\ mapperPending
  /\ mapperPending' = FALSE
  /\ introPending' = owners
  /\ Release(resStatus, jsonValue, refs - 1 + Cardinality(owners))
  /\ UNCHANGED <<started, setPending, failed, dispatched>>

(***************************************************************************)
(* The Introspect callback of connection c fails, or its XML has no root   *)
(* node: setErrorStatus() (500) and return.                                *)
(***************************************************************************)
\* Mutant: the error path logs and returns without setErrorStatus().
IntrospectErrorNoStatus(c) ==
  /\ c \in introPending
  /\ introPending' = introPending \ {c}
  /\ failed' = TRUE
  /\ Release(resStatus, jsonValue, refs - 1)
  /\ UNCHANGED <<started, mapperPending, setPending, dispatched>>

IntrospectError(c) ==
  /\ c \in introPending
  /\ introPending' = introPending \ {c}
  /\ failed' = TRUE
  /\ Release(500, jsonValue, refs - 1)
  /\ UNCHANGED <<started, mapperPending, setPending, dispatched>>

\* Position of the first node whose Set message cannot be built, where the
\* callback returns (Len + 1 if none).
StopAt(ms) ==
  LET bad == {j \in DOMAIN ms : ms[j] = "BuildFail"} IN
  IF bad = {} THEN Len(ms) + 1
              ELSE CHOOSE j \in bad : \A k \in bad : j <= k

\* The Set calls sent before the callback stops; each captures the request.
Sent(c, ms) ==
  {<<c, j>> : j \in {k \in DOMAIN ms : k < StopAt(ms) /\ ms[k] = "Send"}}

(***************************************************************************)
(* The Introspect callback of connection c with the matching property      *)
(* nodes ms, in document order.  A node without a type is skipped; a node  *)
(* whose message cannot be built sets 500 and returns; the others are      *)
(* sent with async_send.                                                   *)
(***************************************************************************)
\* Mutant: the async_send callback does not capture the request.
IntrospectReplyUncaptured(c, ms) ==
  LET fails == StopAt(ms) <= Len(ms) IN
  /\ c \in introPending
  /\ introPending' = introPending \ {c}
  /\ setPending' = setPending \cup Sent(c, ms)
  /\ failed' = (failed \/ fails)
  /\ dispatched' = (dispatched \/ Sent(c, ms) # {})
  /\ Release(IF fails THEN 500 ELSE resStatus, jsonValue, refs - 1)
  /\ UNCHANGED <<started, mapperPending>>

IntrospectReply(c, ms) ==
  LET fails == StopAt(ms) <= Len(ms) IN
  /\ c \in introPending
  /\ introPending' = introPending \ {c}
  /\ setPending' = setPending \cup Sent(c, ms)
  /\ failed' = (failed \/ fails)
  /\ dispatched' = (dispatched \/ Sent(c, ms) # {})
  /\ Release(IF fails THEN 500 ELSE resStatus, jsonValue,
             refs - 1 + Cardinality(Sent(c, ms)))
  /\ UNCHANGED <<started, mapperPending>>

(***************************************************************************)
(* The Set reply: on error the envelope's status becomes "error" (and its  *)
(* message the bus error); the HTTP status is left alone.                  *)
(***************************************************************************)
SetReply(s) ==
  /\ s \in setPending
  /\ setPending' = setPending \ {s}
  /\ Release(resStatus, jsonValue, refs - 1)
  /\ UNCHANGED <<started, mapperPending, introPending, failed, dispatched>>

\* Mutant: the error path releases its copy twice.
SetErrorDoubleRelease(s) ==
  /\ s \in setPending
  /\ setPending' = setPending \ {s}
  /\ Release(resStatus, "Error", refs - 2)
  /\ UNCHANGED <<started, mapperPending, introPending, failed, dispatched>>

SetError(s) ==
  /\ s \in setPending
  /\ setPending' = setPending \ {s}
  /\ Release(resStatus, "Error", refs - 1)
  /\ UNCHANGED <<started, mapperPending, introPending, failed, dispatched>>

Next ==
  \/ \E body \in RequestBodies : HandlePut(body)
  \/ MapperNotFound
  \/ MapperError
  \/ \E owners \in (SUBSET Conns) \ {{}} : MapperReply(owners)
  \/ \E c \in Conns : \/ IntrospectError(c)
                      \/ \E ms \in Matches : IntrospectReply(c, ms)
  \/ \E s \in SetCalls : SetReply(s) \/ SetError(s)

\* The reactor runs the handler and every ready callback, and the bus
\* answers every call (a silent peer with the timeout error).
Fairness ==
  /\ WF_vars(\E body \in RequestBodies : HandlePut(body))
  /\ WF_vars(MapperNotFound \/ MapperError
             \/ \E owners \in (SUBSET Conns) \ {{}} : MapperReply(owners))
  /\ \A c \in Conns :
       WF_vars(IntrospectError(c) \/ \E ms \in Matches : IntrospectReply(c, ms))
  /\ \A s \in SetCalls : WF_vars(SetReply(s) \/ SetError(s))

Spec == Init /\ [][Next]_vars /\ Fairness
-----------------------------------------------------------------------------
TypeOK ==
  /\ started \in BOOLEAN
  /\ mapperPending \in BOOLEAN
  /\ introPending \in SUBSET Conns
  /\ setPending \in SUBSET SetCalls
  /\ refs \in Nat
  /\ resStatus \in {200, 400, 403, 404, 500}
  /\ jsonValue \in JsonValues
  /\ ends \in Nat
  /\ failed \in BOOLEAN
  /\ dispatched \in BOOLEAN

(***************************************************************************)
(* The response is completed exactly once: only the destructor calls       *)
(* res.end() after the body checks, and it runs once, when the last copy  *)
(* of the request held by a mapper, Introspect or Set callback dies.       *)
(***************************************************************************)
EndOnce == ends <= 1

(***************************************************************************)
(* An Introspect failure, or a Set message that cannot be built, on any    *)
(* connection is never answered as a success, whatever the other          *)
(* connections' callbacks do before or after it: the destructor turns the  *)
(* 500 into the 403 envelope.                                              *)
(***************************************************************************)
FailureIsForbidden ==
  ends > 0 /\ failed => resStatus = 403 /\ jsonValue = "Forbidden"

(***************************************************************************)
(* Every PUT is eventually answered once every bus call is answered.       *)
(***************************************************************************)
Answered == <>(ends > 0)

(***************************************************************************)
(* The handler implements HttpResponse: no Set reply arriving after the    *)
(* answer changes it (every Set callback holds the request alive).         *)
(***************************************************************************)
Resp == INSTANCE HttpResponse
          WITH answered <- ends > 0,
               answer   <- IF ends > 0 THEN <<resStatus, jsonValue>> ELSE <<>>,
               NoAnswer <- <<>>

RespSpec == Resp!Spec

(***************************************************************************)
(* The destructor completes the response only in the step that releases   *)
(* the last copy of the AsyncPutRequest: after it, no GetObject,           *)
(* Introspect or Set callback is left that could still write the answer.  *)
(***************************************************************************)
EndsWhenIdle ==
  [][ends' > ends => ~mapperPending' /\ introPending' = {} /\ setPending' = {}]_vars

(***************************************************************************)
(* Spec section 4.6.4 (step 6) and scenario 4: a PUT answered 200 OK has   *)
(* sent a Properties.Set; if no matching property was found the answer is  *)
(* 403.                                                                    *)
(***************************************************************************)
SuccessMeansSetSent == ends > 0 /\ resStatus = 200 => dispatched

(***************************************************************************)
(* Spec section 7: an upstream error (bus call failed, introspection parse *)
(* failed, encoding failed) sets the error, and "finalization emits 500    *)
(* regardless of accumulated data".                                        *)
(***************************************************************************)
UpstreamErrorIs500 == ends > 0 /\ failed => resStatus = 500
=============================================================================
