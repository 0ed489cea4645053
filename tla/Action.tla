------------------------------- MODULE Action -------------------------------
(***************************************************************************)
(* POST <path>/action/<method>: handle_action, find_action_on_interface    *)
(* and InProgressActionData (src/include/openbmc_dbus_rest.hpp).           *)
(*                                                                         *)
(* After the body checks the handler creates a shared InProgressActionData *)
(* and calls GetObject.  Its callback starts one Introspect per owner.     *)
(* Each Introspect callback walks the interfaces; in every interface the   *)
(* first method of the requested name is called: its arguments are        *)
(* encoded from the JSON array and the call is sent.  A reply writes the   *)
(* success envelope, an error sets 500.  The destructor, run when the last *)
(* copy of the shared object dies, clears the body of a 500 and calls      *)
(* res.end().                                                              *)
(*                                                                         *)
(* Data abstraction: an Introspect reply is reduced to the list, in        *)
(* document order, of the interfaces that have a method of the requested   *)
(* name; for each, the directions of that method's <arg> nodes and whether *)
(* convert_json_to_dbus accepts the first JSON argument for the first      *)
(* argument's type.  A JSON array is reduced to its length.                *)
(***************************************************************************)
EXTENDS Naturals, FiniteSets, Sequences

CONSTANTS Conns,     \* bus connections the mapper may name
          MaxIfaces, \* most interfaces with the method in one reply
          MaxArgs    \* most <arg> nodes of a method, and longest JSON array

ASSUME ActionAssumption ==
  IsFiniteSet(Conns) /\ MaxIfaces \in Nat /\ MaxArgs \in Nat

\* The request body: not JSON, JSON but not an array, or an array.
RequestBodies == {"Malformed", "NotArray", "Array"}

\* res.json_value: untouched, the success envelope, or cleared to {}.
JsonValues == {"Null", "Ok", "Empty"}

\* The directions of a method's <arg> nodes, in document order.
ArgLists == UNION {[1..n -> {"in", "out"}] : n \in 0..MaxArgs}

\* A method of the requested name found in one interface.
MethodMatches == [args : ArgLists, encodes : BOOLEAN]

Replies == UNION {[1..n -> MethodMatches] : n \in 0..MaxIfaces}

\* A method call: the connection and the position of its interface.
Calls == Conns \X (1..MaxIfaces)

\* The number of input arguments the method declares.
InArgs(args) == Cardinality({k \in DOMAIN args : args[k] = "in"})

VARIABLES
  started,       \* handle_action has run
  nargs,         \* length of the JSON argument array
  mapperPending, \* the GetObject call is in flight
  introPending,  \* connections whose Introspect is in flight
  callPending,   \* method calls in flight
  refs,          \* use_count() of the shared InProgressActionData
  resStatus,     \* res.result()
  jsonValue,     \* res.json_value
  ends,          \* number of res.end() calls
  failed,        \* history: setErrorStatus() was called
  sent,          \* history: the method calls sent
  mismatch       \* history: a call was sent with a wrong argument count

vars == <<started, nargs, mapperPending, introPending, callPending, refs,
          resStatus, jsonValue, ends, failed, sent, mismatch>>

Init ==
  /\ started = FALSE
  /\ nargs = 0
  /\ mapperPending = FALSE
  /\ introPending = {}
  /\ callPending = {}
  /\ refs = 0
  /\ resStatus = 200
  /\ jsonValue = "Null"
  /\ ends = 0
  /\ failed = FALSE
  /\ sent = {}
  /\ mismatch = FALSE

(***************************************************************************)
(* The end of a callback that leaves status st, body jv and n copies of    *)
(* the shared object: with none left, ~InProgressActionData clears the     *)
(* body of a 500 and calls res.end().                                      *)
(***************************************************************************)
\* Mutant: the destructor does not clear the body of a 500.
ReleaseKeepsBody(st, jv, n) ==
  /\ refs' = n
  /\ resStatus' = st
  /\ jsonValue' = jv
  /\ IF n = 0 THEN ends' = ends + 1 ELSE UNCHANGED ends

Release(st, jv, n) ==
  /\ refs' = n
  /\ resStatus' = st
  /\ IF n = 0
       THEN /\ jsonValue' = IF st = 500 THEN "Empty" ELSE jv
            /\ ends' = ends + 1
       ELSE /\ jsonValue' = jv
            /\ UNCHANGED ends

(***************************************************************************)
(* handle_action: a body that is not JSON, or not an array, is answered    *)
(* 400.  Otherwise the shared object is created with the arguments and     *)
(* GetObject is called.                                                    *)
(***************************************************************************)
\* Mutant: the 400 branches do not return.
HandleActionNoReturn(body, n) ==
  /\ ~started
  /\ started' = TRUE
  /\ \/ /\ body \in {"Malformed", "NotArray"}
        /\ resStatus' = 400
        /\ ends' = ends + 1
     \/ /\ body = "Array"
        /\ UNCHANGED <<resStatus, ends>>
  /\ nargs' = n
  /\ mapperPending' = TRUE
  /\ refs' = 1
  /\ UNCHANGED <<introPending, callPending, jsonValue, failed, sent, mismatch>>

HandleAction(body, n) ==
  /\ ~started
  /\ started' = TRUE
  /\ \/ /\ body \in {"Malformed", "NotArray"}
        /\ resStatus' = 400
        /\ ends' = ends + 1
        /\ UNCHANGED <<nargs, mapperPending, refs>>
     \/ /\ body = "Array"
        /\ nargs' = n
        /\ mapperPending' = TRUE
        /\ refs' = 1
        /\ UNCHANGED <<resStatus, ends>>
  /\ UNCHANGED <<introPending, callPending, jsonValue, failed, sent, mismatch>>

(***************************************************************************)
(* The GetObject callback: an error or an empty list sets 500 and returns; *)
(* otherwise find_action_on_interface starts one Introspect per owner.     *)
(***************************************************************************)
MapperFailure ==
  /\ mapperPending
  /\ mapperPending' = FALSE
  /\ failed' = TRUE
  /\ Release(500, jsonValue, refs - 1)
  /\ UNCHANGED <<started, nargs, introPending, callPending, sent, mismatch>>

\* Mutant: the callback's own copy of the transaction is never released.
MapperReplyLeaksRef(owners) ==
  /\ mapperPending
  /\ mapperPending' = FALSE
  /\ introPending' = owners
  /\ Release(resStatus, jsonValue, refs + Cardinality(owners))
  /\ UNCHANGED <<started, nargs, callPending, failed, sent, mismatch>>

MapperReply(owners) ==
  /\ mapperPending
  /\ mapperPending' = FALSE
  /\ introPending' = owners
  /\ Release(resStatus, jsonValue, refs - 1 + Cardinality(owners))
  /\ UNCHANGED <<started, nargs, callPending, failed, sent, mismatch>>

(***************************************************************************)
(* The Introspect callback fails, or its XML has no root node: the error   *)
(* is logged and nothing is called.                                        *)
(***************************************************************************)
IntrospectError(c) ==
  /\ c \in introPending
  /\ introPending' = introPending \ {c}
  /\ Release(resStatus, jsonValue, refs - 1)
  /\ UNCHANGED <<started, nargs, mapperPending, callPending, failed, sent,
                 mismatch>>

(***************************************************************************)
(* The argument loop of one matching method.  It starts at the method's    *)
(* first <arg> node and advances with method_node->NextSiblingElement      *)
(* ("arg"), a sibling of the <method> element; introspection XML has no    *)
(* <arg> directly under <interface>, so only the first node is visited.    *)
(* An "in" argument with no JSON argument left, or one the encoder         *)
(* rejects, sets 500 and returns from the callback.                        *)
(***************************************************************************)
ArgsFail(m) ==
  /\ Len(m.args) > 0
  /\ m.args[1] = "in"
  /\ (nargs = 0 \/ ~m.encodes)

\* Position of the first match whose arguments fail (Len + 1 if none).
StopAt(r) ==
  LET bad == {j \in DOMAIN r : ArgsFail(r[j])} IN
  IF bad = {} THEN Len(r) + 1
              ELSE CHOOSE j \in bad : \A k \in bad : j <= k

\* The calls sent before the callback stops: one per matching interface.
Sent(c, r) == {<<c, j>> : j \in {k \in DOMAIN r : k < StopAt(r)}}

(***************************************************************************)
(* The Introspect callback of connection c with reply r.  Every interface  *)
(* with the method gets a call (the break leaves only the method loop);    *)
(* each async_send captures the shared object.                             *)
(***************************************************************************)
\* Mutant: the async_send callback does not capture the transaction.
IntrospectReplyUncaptured(c, r) ==
  LET fails == StopAt(r) <= Len(r) IN
  /\ c \in introPending
  /\ introPending' = introPending \ {c}
  /\ callPending' = callPending \cup Sent(c, r)
  /\ sent' = sent \cup Sent(c, r)
  /\ failed' = (failed \/ fails)
  /\ mismatch' = (mismatch \/ \E j \in DOMAIN r :
                                 j < StopAt(r) /\ InArgs(r[j].args) # nargs)
  /\ Release(IF fails THEN 500 ELSE resStatus, jsonValue, refs - 1)
  /\ UNCHANGED <<started, nargs, mapperPending>>

IntrospectReply(c, r) ==
  LET fails == StopAt(r) <= Len(r) IN
  /\ c \in introPending
  /\ introPending' = introPending \ {c}
  /\ callPending' = callPending \cup Sent(c, r)
  /\ sent' = sent \cup Sent(c, r)
  /\ failed' = (failed \/ fails)
  /\ mismatch' = (mismatch \/ \E j \in DOMAIN r :
                                 j < StopAt(r) /\ InArgs(r[j].args) # nargs)
  /\ Release(IF fails THEN 500 ELSE resStatus, jsonValue,
             refs - 1 + Cardinality(Sent(c, r)))
  /\ UNCHANGED <<started, nargs, mapperPending>>

(***************************************************************************)
(* The method call's reply: success writes the success envelope, an error  *)
(* sets 500.                                                               *)
(***************************************************************************)
CallReply(x) ==
  /\ x \in callPending
  /\ callPending' = callPending \ {x}
  /\ Release(resStatus, "Ok", refs - 1)
  /\ UNCHANGED <<started, nargs, mapperPending, introPending, failed, sent,
                 mismatch>>

\* Mutant: the error path releases the transaction twice.
CallErrorDoubleRelease(x) ==
  /\ x \in callPending
  /\ callPending' = callPending \ {x}
  /\ failed' = TRUE
  /\ Release(500, jsonValue, refs - 2)
  /\ UNCHANGED <<started, nargs, mapperPending, introPending, sent, mismatch>>

CallError(x) ==
  /\ x \in callPending
  /\ callPending' = callPending \ {x}
  /\ failed' = TRUE
  /\ Release(500, jsonValue, refs - 1)
  /\ UNCHANGED <<started, nargs, mapperPending, introPending, sent, mismatch>>

Next ==
  \/ \E body \in RequestBodies, n \in 0..MaxArgs : HandleAction(body, n)
  \/ MapperFailure
  \/ \E owners \in (SUBSET Conns) \ {{}} : MapperReply(owners)
  \/ \E c \in Conns : \/ IntrospectError(c)
                      \/ \E r \in Replies : IntrospectReply(c, r)
  \/ \E x \in Calls : CallReply(x) \/ CallError(x)

\* The reactor runs the handler and every ready callback, and the bus
\* answers every call (a silent peer with the timeout error).
Fairness ==
  /\ WF_vars(\E body \in RequestBodies, n \in 0..MaxArgs : HandleAction(body, n))
  /\ WF_vars(MapperFailure
             \/ \E owners \in (SUBSET Conns) \ {{}} : MapperReply(owners))
  /\ \A c \in Conns :
       WF_vars(IntrospectError(c) \/ \E r \in Replies : IntrospectReply(c, r))
  /\ \A x \in Calls : WF_vars(CallReply(x) \/ CallError(x))

Spec == Init /\ [][Next]_vars /\ Fairness
-----------------------------------------------------------------------------
TypeOK ==
  /\ started \in BOOLEAN
  /\ nargs \in 0..MaxArgs
  /\ mapperPending \in BOOLEAN
  /\ introPending \in SUBSET Conns
  /\ callPending \in SUBSET Calls
  /\ refs \in Nat
  /\ resStatus \in {200, 400, 500}
  /\ jsonValue \in JsonValues
  /\ ends \in Nat
  /\ failed \in BOOLEAN
  /\ sent \in SUBSET Calls
  /\ mismatch \in BOOLEAN

(***************************************************************************)
(* The response is completed at most once: whichever callback drops the    *)
(* last copy of InProgressActionData, and however the Introspect and       *)
(* method-call replies of several connections interleave.                  *)
(***************************************************************************)
EndOnce == ends <= 1

(***************************************************************************)
(* Spec section 5: once any callback has called setErrorStatus(), the       *)
(* answer is 500 with the accumulated JSON discarded, even when a method   *)
(* call on another interface or connection succeeds later and writes the   *)
(* success envelope.                                                       *)
(***************************************************************************)
ErrorWins == ends > 0 /\ failed => resStatus = 500 /\ jsonValue = "Empty"

(***************************************************************************)
(* Every method call request is eventually answered once every bus call is *)
(* answered.                                                               *)
(***************************************************************************)
Answered == <>(ends > 0)

(***************************************************************************)
(* The handler implements HttpResponse: no method-call reply arriving      *)
(* after the answer changes it (every async_send callback holds the        *)
(* transaction alive).                                                     *)
(***************************************************************************)
Resp == INSTANCE HttpResponse
          WITH answered <- ends > 0,
               answer   <- IF ends > 0 THEN <<resStatus, jsonValue>> ELSE <<>>,
               NoAnswer <- <<>>

RespSpec == Resp!Spec

(***************************************************************************)
(* Spec section 4.6.5 (step 3) and scenario 5: if the JSON array does not  *)
(* have one element per "in" argument of the method, the answer is 500     *)
(* ("an arg-count mismatch (body [1]) returns 500").                       *)
(***************************************************************************)
ArgCountMismatchIs500 == ends > 0 /\ mismatch => resStatus = 500

(***************************************************************************)
(* Spec section 6: a method call answered 200 carries the success envelope *)
(* {"status":"ok","message":"200 OK","data":null}; the listed failures are *)
(* 400 and 500.                                                            *)
(***************************************************************************)
SuccessHasEnvelope == ends > 0 /\ resStatus = 200 => jsonValue = "Ok"

=============================================================================
