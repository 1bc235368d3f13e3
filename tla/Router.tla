-------------------------------- MODULE Router --------------------------------
(***************************************************************************)
(* pkg/router: routers, their middleware and the way to a handler.  The    *)
(* middleware of a router is a Go slice: an array, which slices share, and *)
(* a length.  append writes into the array when it has room and takes a    *)
(* larger one when it has not; SubRouter copies the slice, not the array.  *)
(*                                                                         *)
(* A program makes its calls one after the other before it serves.  What   *)
(* http.ServeMux does with patterns is modelled by Route.                   *)
(***************************************************************************)
EXTENDS Naturals, Sequences, FiniteSets, SequencesExt

CONSTANTS
    Middlewares,  \* middleware functions
    NoMw,         \* what a slot of an array holds before it is written
    Programs      \* programs: the calls they build their routers with

ASSUME NoMwAssumption == NoMw \notin Middlewares

\* "" for a pattern without a method.
Methods == {"", "GET", "POST", "PUT", "DELETE"}

Patterns == [segs : Seq(STRING), tree : BOOLEAN, method : Methods]

NoHandler == "none"
HandlerNames == STRING \cup {NoHandler}

\* The calls a program may make on its routers, which it names by their number.
Calls ==
    [op : {"New"}]
      \cup [op : {"Use"}, rt : Nat, mws : Seq(Middlewares)]
      \cup [op : {"SubRouter"}, rt : Nat, prefix : Seq(STRING)]
      \cup [op : {"Handle"}, rt : Nat, pattern : Patterns, handler : HandlerNames, to : Nat]

ASSUME ProgramsAssumption ==
    \A p \in DOMAIN Programs : Programs[p].calls \in Seq(Calls)

VARIABLES
    program,   \* the index of the program this is
    built,     \* how many of them it has made
    heap,      \* the arrays behind slices
    routers    \* by router: its slice and the routes of its mux

routerVars == <<program, built, heap, routers>>

This == Programs[program]

\* rt.mux: a handler, or a router below, before which segments are stripped.
Routes == [segs : Seq(STRING), tree : BOOLEAN, method : Methods,
           handler : HandlerNames, rt : Nat, strip : Nat]

RouterTypeOK ==
    /\ program \in DOMAIN Programs
    /\ built \in 0 .. Len(This.calls)
    /\ heap \in Seq(Seq(Middlewares \cup {NoMw}))
    /\ routers \in Seq([arr : 0 .. Len(heap), len : Nat, routes : SUBSET Routes])

NewRouter == [arr |-> 0, len |-> 0, routes |-> {}]

RouterInit ==
    /\ program \in DOMAIN Programs
    /\ built = 0
    /\ heap = << >>
    /\ routers = <<NewRouter>>

-----------------------------------------------------------------------------
Cap(k) == IF routers[k].arr = 0 THEN 0 ELSE Len(heap[routers[k].arr])

\* The middleware of router k as a request sees it.
Chain(k) == [i \in 1 .. routers[k].len |-> heap[routers[k].arr][i]]

\* Go's allocator has classes of 1, 2, 3, 4, 6, 8, ... 16 pointers (bound: no slice
\* here is longer).
RoundUp(n) == IF n <= 4 \/ n % 2 = 0 THEN n ELSE n + 1

\* growslice: twice as much, or what is needed when that is more.
Grow(old, need) == RoundUp(IF need > 2 * old THEN need ELSE 2 * old)

Written(array, at, mws) ==
    [i \in 1 .. Len(array) |->
        IF i \in at + 1 .. at + Len(mws) THEN mws[i - at] ELSE array[i]]

\* append in place: other slices of the array see what is written.
AppendInPlace(k, mws) ==
    /\ heap' = [heap EXCEPT ![routers[k].arr] = Written(@, routers[k].len, mws)]
    /\ routers' = [routers EXCEPT ![k].len = @ + Len(mws)]

\* append to a larger array of its own.
AppendInCopy(k, mws) ==
    LET need == routers[k].len + Len(mws)
        room == [i \in 1 .. Grow(Cap(k), need) - routers[k].len |-> NoMw]
    IN  /\ heap' = Append(heap, Written(Chain(k) \o room, routers[k].len, mws))
        /\ routers' = [routers EXCEPT ![k].arr = Len(heap) + 1, ![k].len = need]

HasRoom(k, n) == routers[k].len + n <= Cap(k)

Use(k, mws) ==
    \/ HasRoom(k, Len(mws)) /\ AppendInPlace(k, mws)
    \/ ~HasRoom(k, Len(mws)) /\ AppendInCopy(k, mws)

RouteTo(pattern, handler, k, strip) ==
    [segs |-> pattern.segs, tree |-> pattern.tree, method |-> pattern.method,
     handler |-> handler, rt |-> k, strip |-> strip]

AddRoute(k, route) == routers' = [routers EXCEPT ![k].routes = @ \cup {route}]

\* A handler, or the API of a service: a mux of its own without middleware.
Handle(k, pattern, handler, rt) ==
    AddRoute(k, RouteTo(pattern, handler, rt, 0)) /\ UNCHANGED heap

New == routers' = Append(routers, NewRouter) /\ UNCHANGED heap

\* Mutant: the sub-router begins with none of the middleware, but in the same array.
EmptiedSlice(k) == [arr |-> routers[k].arr, len |-> 0, routes |-> {}]

\* Mutant: the slice is taken up to its capacity, rt.middleware[:cap(rt.middleware)].
FullSlice(k) == [arr |-> routers[k].arr, len |-> Cap(k), routes |-> {}]

\* middleware: rt.middleware.
Inherited(k) == [arr |-> routers[k].arr, len |-> routers[k].len, routes |-> {}]

\* The prefix leads to the sub-router without the prefix (http.StripPrefix).
SubRouter(k, prefix) ==
    /\ routers' = Append([routers EXCEPT ![k].routes = @ \cup
                            {RouteTo([segs |-> prefix, tree |-> TRUE, method |-> ""],
                                     NoHandler, Len(routers) + 1, Len(prefix))}],
                         Inherited(k))
    /\ UNCHANGED heap

\* A call is made on a router there is, with a handler or a router there is.
Made(k) == k \in DOMAIN routers
Given(k) == k = 0 \/ Made(k)

Make(c) ==
    \/ c.op = "New" /\ New
    \/ c.op = "Use" /\ Made(c.rt) /\ Use(c.rt, c.mws)
    \/ c.op = "SubRouter" /\ Made(c.rt) /\ SubRouter(c.rt, c.prefix)
    \/ c.op = "Handle" /\ Made(c.rt) /\ Given(c.to) /\ Handle(c.rt, c.pattern, c.handler, c.to)

\* The next call of the program.
Build ==
    /\ built < Len(This.calls)
    /\ built' = built + 1
    /\ UNCHANGED program
    /\ Make(This.calls[built + 1])

-----------------------------------------------------------------------------
Wild == "*"    \* {name} in a pattern

Covers(segs, path) == \A i \in DOMAIN segs : segs[i] \in {Wild, path[i]}

\* A pattern that ends in a slash matches all that is below.
Matches(route, path) ==
    IF route.tree
    THEN Len(route.segs) <= Len(path) /\ Covers(route.segs, path)
    ELSE Len(route.segs) = Len(path) /\ Covers(route.segs, path)

OnPath(k, path) == {route \in routers[k].routes : Matches(route, path)}

Allowed(k, path, method) ==
    {route \in OnPath(k, path) : route.method \in {"", method}}

\* The most specific of the patterns that match: the longest, and of two that are
\* as long the one without a slash.
MoreSpecific(x, y) ==
    \/ Len(x.segs) > Len(y.segs)
    \/ Len(x.segs) = Len(y.segs) /\ y.tree /\ ~x.tree

Route(k, path, method) ==
    CHOOSE x \in Allowed(k, path, method) :
        \A y \in Allowed(k, path, method) : ~MoreSpecific(y, x)
=============================================================================
