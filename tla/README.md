# Verification of the D-Bus REST bridge

This directory holds TLA+ models, TLC configurations and TLAPS proofs for
`src/include/openbmc_dbus_rest.hpp`, the bmcweb component that maps REST
requests onto D-Bus calls. `PROJECT.json` lists the components, the runs, the
mutants, the map from each definition to the source lines it models, the
findings, the hazards and the theorems.

## The system

Every handler runs on the single reactor thread of the bus connection
(`crow::connections::system_bus`). A handler issues asynchronous bus calls.
Each reply, error or timeout is delivered as a callback that runs to the end
before the next callback starts. Several handlers fan out: they start one call
per owning connection or interface, and the callbacks share a `std::shared_ptr`.
The callback that sees `use_count() == 1` is the last one alive and completes
the HTTP response with `res.end()`. The PUT handler uses the destructor of the
shared `AsyncPutRequest` instead, and the method-call handler the
destructor of `InProgressActionData`. There, completion happens when the last
copy of the shared object dies, whichever callback holds it.

The parts of the file:

| Part | Code | Module |
|---|---|---|
| Enumerate: GetSubTree, then GetManagedObjects per connection | `handle_enumerate`, `get_managed_objects_for_enumerate` | `Enumerate`, `EnumerateProofs` |
| Property GET: GetObject, then GetAll per (connection, interface) | `handle_get` | `Get` |
| Property PUT: GetObject, Introspect, then Set | `handle_put`, `AsyncPutRequest` | `Put`, `PutProofs` |
| Method call: GetObject, Introspect, then the call | `handle_action`, `find_action_on_interface`, `InProgressActionData` | `Action`, `ActionProofs` |
| Introspection walk | `introspect_objects`, route `/bus/system/<str>/` | `BusRoutes`, `BusRoutesProofs` |
| Listing | `handle_list`, routes `/bus/system/`, `/list/` | `BusRoutes`, `BusRoutesProofs` |
| Listing | route `/bus/` | not modelled (see below) |
| Interface describe | route `/bus/system/<str>/<path>` | `BusRoutes`, `BusRoutesProofs` |
| Router | route `/xyz/<path>` | planned |
| Signature splitter, JSON-to-bus encoder | `dbus_arg_split`, `convert_json_to_dbus` | planned (TLC only) |
| Dump download | route `/download/dump/<str>/` | not modelled: file-system I/O |
| The HTTP response | `crow::response`, not in this repository | `HttpResponse` (from the spec) |

## Modelling conventions

* **Callbacks.** One callback is one action. The bus may deliver the replies
  of distinct calls in any order, so each in-flight call is an element of a
  `pending` set, and any pending call may be answered next, with a reply or an
  error.
* **Reference counts.** The `use_count()` of the shared object is the variable
  `refs`. The handler's own reference dies when the callback that created the
  fan-out returns, so after that callback `refs` is the number of captured
  copies.
* **Completion.** `ends` counts `res.end()` calls. `resStatus` is
  `res.result()`. `resBody` is the `data` member of `res.json_value`.
* **Data.** Connections, objects, interfaces and properties are model values.
  A bus value is `<<"b", n>>` (bool) or `<<"i", n>>` (a number). A JSON value
  is `<<"bool", n>>` or `<<"number", n>>` (`BusValues`). That is the
  distinction the code acts on, when it rewrites bools to 1/0.
* **History variables.** `reported` records what successful replies carried.
  It exists only so that properties can state "the answer holds everything
  that was reported".

## Modules

* `HttpResponse`: the abstract contract of a response, answered once with an
  answer that never changes. crow is not in this repository, so the module is
  written from the spec (marked `spec_modelled` in the map).
* `BusValues`: bus values, JSON values, the visitor assignment
  (`VariantToJson`) and the enumerate bool rewrite (`BoolAsInt`, lines
  104–110).
* `Enumerate`: `handle_enumerate` (560–597) and
  `get_managed_objects_for_enumerate` (77–125).
  * `MapperError` is the `ec` branch of the GetSubTree callback: 200 with
    empty data.
  * `MapperReply(tree)` collects the connections into a set, as the
    `flat_set` does. With none it answers 404. Otherwise it starts one call
    per connection.
  * `ManagedObjectsReply` and `ManagedObjectsError` are the two branches of
    the per-connection callback. Both end in `FinishCallback`, the
    `use_count() == 1` test.
  * `Resp` instantiates `HttpResponse` with `answered <- ends > 0`. The
    property `RespSpec` says that the handler implements it.
* `Get`: `handle_get` (599–670).
  * `MapperReply(r)` walks the owner list in order.
  * `StopIndex` is the first owner without interfaces, where the loop calls
    `res.end()` with 404 and returns. `Started` is the set of GetAll calls
    started before that point.
  * `WriteAll` and `WriteNamed` are the two branches of the property loop.
    With a property name, the value replaces the whole JSON.
* `Put`: `handle_put` and `AsyncPutRequest` (672–829).
  * `HandlePut` covers the body checks: a malformed body or one without
    `data` gets 400.
  * `MapperNotFound`, `MapperError` and `MapperReply(owners)` are the three
    outcomes of the GetObject callback.
  * `IntrospectError(c)` and `IntrospectReply(c, ms)` are the two outcomes of
    one connection's Introspect callback.
    * `ms` is the list of property nodes of the requested name. Each one
      records whether it has no type, its Set message fails to build, or it is
      sent.
    * `StopAt(ms)` is the first build failure, where the callback returns.
      `Sent` is the set of Set calls started before it.
  * `SetReply` and `SetError` are the Set callback.
  * `Release(st, jv, n)` is the end of every callback. With no copy left it
    runs the destructor: a 500 clears the body, and an empty body becomes the
    403 envelope.
* `Action`: `handle_action`, `find_action_on_interface` and
  `InProgressActionData` (132–151 and 409–540).
  * `HandleAction(body, n)` covers the body checks. `n` is the length of the
    JSON array.
  * `MapperFailure` (an error or an empty list gives 500) and
    `MapperReply(owners)` are the two outcomes of the GetObject callback.
  * `IntrospectError(c)` is a failed Introspect or unparsable XML, which is
    only logged.
  * `IntrospectReply(c, r)` handles one connection's reply.
    * `r` lists the interfaces that have the method. For each, it gives the
      directions of the method's `<arg>` nodes and whether the encoder accepts
      the first JSON argument.
    * Every interface gets a call, because the `break` leaves only the method
      loop.
    * `ArgsFail` is the argument loop. It visits only the first `<arg>`,
      because it advances with `method_node->NextSiblingElement("arg")`
      (line 472).
    * `StopAt` is where the callback returns with 500.
  * `CallReply` writes the success envelope. `CallError` sets 500.
  * `Release` is the end of a callback. With no copy left it runs the
    destructor: a 500 clears the body, then `res.end()`.
  * History variables: `sent` records the calls sent. `mismatch` records
    whether a call went out with a JSON array whose length differs from the
    method's number of input arguments.
* `BusRoutes`: the routes `/bus/system/` and `/list/` (838–864 with
  `handle_list`, 542–558), and `/bus/system/<str>/` with
  `introspect_objects` (13–60 and 918–923), and the describe route
  `/bus/system/<str>/<path>` (961–1155).
  * `StartBusSystem`, `StartList` and `StartObjects` are the route handlers.
    Each starts its bus call and returns.
  * `ListNamesError`/`ListNamesReply` and `SubTreeError`/`SubTreeReply` are
    the two callbacks. `ListNamesReply` sorts the names: `SortNames` is the
    ascending sequence of the same names, chosen by `CHOOSE` (the names are
    naturals, so `<` is `std::string`'s order on a small alphabet). With no
    names, `j["objects"]` is never assigned and stays `null`.
  * The walk's state:
    * `pending`: the paths whose Introspect is in flight;
    * `announced`: every path an Introspect was started for;
    * `pushed`: the paths pushed into the transaction;
    * `refs`: the copies of the transaction, one per lambda that holds it.
  * `IntrospectError(p)` only logs.
  * `IntrospectReply(p, kids)` pushes `p` and starts one Introspect per child
    in `kids`. A reply that does not parse is the case `kids = {}`.
  * `Finish` is the code after the `if`: the `use_count() == 1` test, counted
    with the children's copies, then the end of the callback's own copy.
  * The object tree is the constant `Kids`. `BusRoutesAssumption` gives every
    path one parent, as D-Bus object paths do. A reply lists any subset of a
    node's children, because objects may vanish between calls.
  * `TxLive` chooses the transaction.
    * `FALSE` is the route as written. It passes a default-constructed
      `shared_ptr` (line 921), so `use_count()` is 0 however often it is
      copied. `push_back` through it (line 27) is undefined behaviour. The
      build dereferences address 0 and the process dies, which the model
      records as `crashed`.
    * `TRUE` is `introspect_objects` as a function, handed an allocated
      transaction.
  * The describe route works on an abstract path: a sequence of up to
    `MaxSegs` segments, each `"obj"` (a plain name), `"empty"`, or one of the
    dotted names `Ifaces`.
    * `FirstIface(segs)` is where the split loop stops: the first dotted
      segment. `TooDeep(segs)` says a segment follows the interface and the
      method. `InterfaceOf(segs)` is `interface_name`.
    * `boost::split` of a non-empty path always gives a segment, so the
      `object_path = "/"` branch (line 972) never runs, and `Paths` has no
      empty sequence.
    * `DescribeTooDeep(segs)` is the 404 with no bus call.
      `StartDescribe(segs)` starts the Introspect.
    * `DescribeError` is a bus error, which is only logged: the answer is 200
      with a null body. `DescribeParseError` is unparsable XML: 500, with the
      `"XML parse error"` body only in the listing callback.
      `DescribeReply(ifs)` is a reply listing the interfaces `ifs`. It lists
      them, describes the requested one, or sets 404 when it is absent.
    * The methods and signals written into a description are not modelled.
      The description is abstracted to the interface it describes.
    * `request` is a history variable that holds the segments of the path.
* `EnumerateProofs`, `GetProofs`, `PutProofs`, `ActionProofs`,
  `BusRoutesProofs`: the TLAPS proofs. `LeastElement` holds two lemmas on the
  least element of a set of naturals, which resolve the `CHOOSE` of a first
  position in `StopIndex` (`Get`) and `FirstIface` (`BusRoutes`).
  `SortLemmas` proves that a sequence of distinct naturals has an ascending
  arrangement (`AscendingExists`), which resolves the `CHOOSE` in `SortNames`.
* `MC_Enumerate`, `MC_Get`, `MC_Put`, `MC_Action`, `MC_BusRoutes`: model
  values for TLC.

## Runs

| Run | Checks | Shows |
|---|---|---|
| `enumerate_safety` | `TypeOK`, `EndOnce`, `ResponseComplete`, `RespSpec`, `Answered` | With 3 connections, 2 objects and 1 property, every request is answered under fair reply delivery, and the response is completed exactly once. A 200 answer holds every reported object, and the answer never changes after it is given. |
| `put_safety` | `TypeOK`, `EndOnce`, `FailureIsForbidden`, `RespSpec`, `EndsWhenIdle`, `Answered` | Every PUT is answered. With 3 connections and up to 2 matching property nodes, the PUT is answered once, and its answer never changes. The destructor completes it only in the step that leaves no GetObject, Introspect or Set callback to run. An upstream failure ends it with the 403 envelope (see `put_upstream_error`). |
| `put_success_means_set` (violation) | `SuccessMeansSetSent` | After a GetObject error, or with no matching property, the PUT is answered 200 OK with no Set sent. Spec §4.6.4 step 6 says 403. |
| `put_upstream_error` (violation) | `UpstreamErrorIs500` | An Introspect failure ends in 403, because the destructor turns the cleared 500 body into the "cannot be created" message. Spec §7 says 500. |
| `action_safety` | `TypeOK`, `EndOnce`, `ErrorWins`, `RespSpec`, `Answered` | Every method call is answered. With 2 connections, up to 2 matching interfaces each and up to 2 arguments, the method call is answered once. A failure on any path gives 500 with an empty body, even when another call's success reply arrives later, and the answer never changes. |
| `action_arg_count` (violation) | `ArgCountMismatchIs500` | A method whose first `<arg>` is an output is called with `[]` although it has an input argument, and is answered 200. Spec §4.6.5 and scenario 5 say a count mismatch is 500. The cause is the sibling lookup at line 472. |
| `action_no_method` (violation) | `SuccessHasEnvelope` | A failed Introspect, or a method no interface has, is answered 200 with a null body. Spec §6 gives 200 only with the success envelope. |
| `get_safety` | `TypeOK`, `ResponseComplete`, `Answered` | A whole-object 200 answer holds every reported property, and every GET is answered. |
| `get_end_once` (violation) | `EndOnce` | Owners `[<<c1,{i1}>>, <<c2,{}>>]`: the GetAll for c1 is already in flight when c2 triggers `res.end()` 404. The GetAll callback later calls `res.end()` a second time. |
| `get_bool` (violation) | `BoolAnsweredAsInt` | GET answers a bool property as a JSON bool. Spec §4.2.2 and scenario 3 say 1/0. |
| `bus_safety` | `TypeOK`, `EndOnce`, `WalkComplete`, `RespSpec`, `Answered` | Covers the listing routes, the describe route on every path of up to four segments, and the walk over a six-path tree with an allocated transaction. Each response is completed once. The walk answers only after every child any reply listed has been introspected, and it lists exactly the paths whose Introspect succeeded. The answer never changes, and every request is answered. |
| `bus_objects_unanswered` (violation) | `Answered` | `GET /bus/system/<str>/` as written, with the null transaction, is never answered. After error replies no callback sees `use_count() == 1`. After a successful reply the server has crashed in `push_back`. Spec §6 gives the route the objects answer. |

Each property of a passing run has a mutant in `PROJECT.json`: a plausible
bug in the mapped definition that TLC must catch. The mutants are:

* a leaked reference in `MapperReply`;
* a 400 branch that does not return;
* a destructor that does not clear a 500 body;
* an `async_send` callback that does not capture the transaction;
* an off-by-one in the `use_count()` test;
* completing before merging;
* completing on error regardless of the count;
* a double release;
* storing the unconverted variant;
* a walk lambda that captures the transaction by reference;
* a `use_count()` read before the children start;
* the objects taken before the path is pushed;
* a completion test that every callback passes;
* a walk callback that keeps its copy;
* a describe route that lets one more segment follow the method.

**Bounds.**

* Enumerate: three connections are the smallest number at which a middle
  reply is neither first nor last. Two objects let replies overlap on an object.
  One property keeps the state space small enough for the liveness check,
  which runs in the same configuration.
  A second property adds no new control path: every property of a reply is
  merged by the same step.
* Get: two owners with up to two interfaces each reach the early-404 path
  after a dispatched call. Two properties exercise both the whole-object and
  the named write.
* Put: three connections and two property nodes per reply.
  They reach a failure on one connection while Set calls of another are in
  flight, and a build failure after a sent Set in the same callback.
* Action: two connections, two interfaces per reply and argument lists up to
  length 2. They reach a success on one interface after a failure on
  another, a failure after a sent call, and a first argument that is an
  output followed by an input.
* BusRoutes: the tree `/` → {a, b}, a → {c, d}, b → {e}, and two or
  three bus names.
  * A callback starts two Introspects while a sibling's subtree is still
    being walked.
  * The last callback can be a leaf at depth 1 or 2.
  * Every subset of children can be listed.
  * The null-transaction run needs only the root's callback.
  * Describe paths up to four segments over four segment kinds (two
    interfaces). They reach a trailing slash after the interface and after
    the method, two dotted segments, and a dotted segment after the method.
* Each safety run also checks `Answered`, so none uses symmetry, which is
  unsound for liveness. Only the Put violation runs use the permutations of
  the connections.

**Deadlock.** Deadlock checking is off: a handler stops once every call has
been answered, which is the intended end of a request, not a deadlock.

**Fairness.** Every callback has weak fairness. The justification: every
outstanding bus call is eventually answered, because sd-bus delivers a
timeout error if the peer stays silent, and the reactor runs every ready
callback.

## Proofs

`EnumerateProofs` proves the following for every set of connections,
objects, properties and values:

* `TypeCorrect`: `Spec => []TypeOK`;
* `EndOnceHolds`: `Spec => []EndOnce`;
* `ResponseCompleteHolds`: `Spec => []ResponseComplete`;
* `RespSpecHolds`: `Spec => RespSpec`, the refinement of `HttpResponse`
  (argued below for `Action`).

All four follow from the inductive invariant `IInv` (`IInvHolds`). Its
conjuncts are:

* `CountIsPending`: `refs = Cardinality(pending)`. The use count equals the
  number of calls in flight.
* `BeforeMapper`: before the mapper answers, nothing has started.
* `EndedIffIdle`: `ends` is 1 exactly when the mapper has answered and no
  call is pending, and 0 otherwise.
* `BodyIsTransaction`: a completed 200 body is the current transaction.
* `reported \subseteq keys`.

`EndOnce` is not inductive on its own. A step that retires a call must know
whether it is the last one, and `CountIsPending` is what tells it. The
cardinality facts come from `FiniteSetTheorems` (`FS_RemoveElement`,
`FS_EmptySet`, `FS_Subset`), and rest on the assumption
`ConnsAssumption == IsFiniteSet(Conns)`.

`GetProofs` proves `TypeCorrect` and `ResponseCompleteHolds` for every set
of connections, interfaces and properties. Its inductive invariant has the
count `CountIsPending` and `BeforeMapper` as in `Enumerate`, and two more:

* `ReportedWritten`: for a whole-object GET, every property a GetAll reply
  reported has been written into the shared response object. A callback
  that stops at an unconvertible value (`StopIndex`) has reported only what
  it wrote.
* `Done200`: a completed 200 answer has no call in flight and its body is
  the response object. So no later reply adds to it unseen.

`StartedCalls` bounds the calls the mapper callback starts with
`StopIndex(r) \in 1..Len(r)+1`, taken from `LeastChosen`.

`PutProofs` proves `TypeCorrect`, `EndOnceHolds`, `FailureIsForbiddenHolds`,
`RespSpecHolds` and `EndsWhenIdleHolds` for every set of connections and
every bound on matching nodes. `EndsWhenIdle` is an action property: a step
that completes the response leaves no callback to run. Its proof reads
`EndedIffIdle` and `CountIsOutstanding` in the step's next state (lemma
`NothingOutstanding`). `ActionProofs` proves `TypeCorrect`, `EndOnceHolds`,
`ErrorWinsHolds` and `RespSpecHolds`.

Both rest on the same inductive invariant:

* `CountIsOutstanding`: the use count equals the callbacks still to run. That
  is the GetObject callback, plus one per pending Introspect, plus one per
  pending Set or method call.
* `SetsAfterIntrospect` / `CallsAfterIntrospect`: a connection's calls exist
  only after its Introspect returned. So the calls one callback sends are
  disjoint from those in flight, and the count grows by simple addition
  (`FS_Union`).
* `EndedIffIdle`: the response is completed exactly when nothing is left.
* `FailedIs500`: a failure before the end leaves the status at 500, because
  no callback lowers it.

`ReleaseStep` (in `ActionProofs`) states once what the end of a callback does,
and every action cites it.

`RespSpecHolds` is a refinement proof.

* The initial state maps to `HttpResponse`'s initial state.
* Every step of the handler is a `Respond` step or a stutter under the
  mapping `answered <- ends > 0`, `answer <- <<resStatus, jsonValue>>`.
  Lemma `Idle` shows this: once the response is completed no callback is left
  to run, so no action is enabled and the answer cannot change.

`BusRoutesProofs` proves `TypeCorrect`, `EndOnceHolds`, `WalkCompleteHolds`
and `RespSpecHolds`. They hold for every object tree, every set of bus names,
every bound on describe paths, and with or without a live transaction. The
describe route's callbacks, like the listing callbacks, complete the response
they started (lemma `BusReplyStep`).

The inductive invariant adds two facts about the tree to the count:

* `CountIsPending`: the copies of the transaction are the Introspects in
  flight.
  * So the callback that sees `use_count() == 1` is the last one, and it
    started no child.
  * Hence that callback answers with every pushed path, and no callback runs
    after it.
* For the count to grow by the number of children a callback starts, the
  children must be new: no path is introspected twice.
  * `Fresh`: a path in flight has announced none of its children.
  * `ParentDone`: every announced path but `/` has a parent whose callback
    has run.
  * With the one-parent assumption, these give lemma `KidsFresh`.
* `FinishStep` states once what the end of an Introspect callback does, and
  both Introspect actions cite it.

For the describe route the invariant adds `DescribeState`: the request
is a path, and while its Introspect is in flight `interfaceName` is
`InterfaceOf(request)` and the path is not too deep. Lemma
`FirstIfaceFacts` gives what the `CHOOSE` in `FirstIface` picks: a position
in `1..Len+1` with a dotted segment there and none before it. It exists
because a non-empty set of naturals has a least element
(`LeastElement!LeastExists`, from `WFMin` of `WellFoundedInduction`).
`TypeCorrect` uses it for the type of `interfaceName`.

No property is checked about the result of the split loop. The loop is a
pure function of the path, and the model gives it as `FirstIface` and
`TooDeep`. A property about which segment is described could only restate
those two definitions, and no bug in the loop could break it.

`TypeCorrect` proves `BusRoutes!TypeOK`. The variables the walk invariant
does not cover get their types from `RestType`, and lemma `NextRestType`
shows that every action keeps it. The one hard case is the body of
`/bus/system/`, which is the sorted name list. Lemma `SortNamesType` shows
that `SortNames` is a sequence of names. The `CHOOSE` in `SortNames` picks
something useful only if an ascending arrangement exists. A reply comes from
`SetToSeqs`, so its names are distinct, and `SortLemmas!AscendingExists`
builds such an arrangement. Each element goes to position rank, where rank
is one more than the number of smaller elements. The ranks are an injection
of `1..Len` into itself, hence a bijection (`FS_Injection`). So the
inverse of the ranks sorts the list.

The model used to call TLC's `SortSeq`. The provers treat `SortSeq` as an
opaque symbol and cannot expand it. `SortNames` defines the same sequence:
TLC reaches the same 1076 states with it. The proof needs
`IsFiniteSet(Names)`, and `BusRoutesAssumption` states it.

Only model-checked: liveness (`Answered`). It is out of TLAPS's reach.

## Not modelled

* The dump download route: file-system access and regex matching.
* The route `/bus/` (833–836). It has no bus call and no state. It sets a
  constant body and returns without `res.end()`, so every `/bus/` request
  hangs. A single request shows this. A passing run cannot include a route
  that never answers, and a violation run of its own would ask nothing a
  reader of the three lines cannot see.
* Two findings of the first models are no longer checked by a run, to keep
  the run list to distinct questions:
  * GET of an absent property answers 200 `{}` where spec §7 says 404
    (line 654);
  * enumerate of an empty subtree answers 404, which follows spec §4.6.2
    while §8 says 200 (line 583).
* In the describe route:
  * the answer 200 with a null body when Introspect fails (lines 1009 and
    1055). Spec §7 says 500. This is the same outcome `action_no_method`
    shows for `handle_action`, so it has no run of its own;
  * the crash when an `<arg>` has no `name` attribute (lines 1095 and 1116).
    `std::string` and the JSON string are built from a null pointer there.
* Logging, the wording of messages, and the XML parsing of introspection data.
  Introspection results are abstracted to the sets of interfaces, properties
  and children they list.

## Plan

The parts still marked "planned" in the table above, in this order:

1. **The router**: the `/xyz/` dispatch on the `/attr/` and `/action/`
   suffixes. The code splits at the first occurrence; spec §4.7 says the
   last wins.
2. **`dbus_arg_split` and `convert_json_to_dbus`** as TLC-only modules,
   checked against a reference split and encoding over bounded signatures.
   They reach the pointer bool (line 266), the double iterator increment
   (line 333) and the missing return (line 196).

New components share run configurations with the existing ones where their
questions allow, so that each run keeps asking one distinct question.
