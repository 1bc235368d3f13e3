----------------------------- MODULE ServerProofs -----------------------------
(***************************************************************************)
(* Proofs about Router and Server, for every program that is built from     *)
(* calls of the router package, any number of requests and any inputs.      *)
(***************************************************************************)
EXTENDS ServerProps, SequenceTheorems, TLAPS

(* How a process stops. *)

\* The listener is open only while the main goroutine waits in its select; who waits
\* in Shutdown, or has left with 0, was told to stop; and with 0 nothing runs any more.
StopInv ==
    /\ listener = "open" => main = "select"
    /\ main \in {"shutdown"} => signaled
    /\ exit = 0 => main \in {"deferred", "exited"} /\ signaled /\ Drained

\* A request is served only while it runs.
LEMMA ServeRuns == ASSUME NEW r \in Reqs, Serve(r) PROVE Running(r)
BY DEF Serve, Enter, Dispatch, HandlerStep, WriteAnswer, Return, Unwind, Finish, Running

LEMMA StopInit == Init => StopInv
BY DEF Init, StopInv, NoExit

LEMMA StopStep == StopInv /\ [Next]_vars => StopInv'
<1> SUFFICES ASSUME StopInv, [Next]_vars PROVE StopInv'
  OBVIOUS
<1> USE DEF StopInv
<1>1. CASE Connect BY <1>1 DEF Connect, Drained, Running
<1>2. CASE NoConnection
  BY <1>2 DEF NoConnection, Leave, servingVars, Drained, Running
<1>3. CASE MissingVariable
  BY <1>3 DEF MissingVariable, servingVars, Drained, Running
<1>4. CASE BuildRouters BY <1>4 DEF BuildRouters, procVars, Drained, Running
<1>5. CASE Spawn BY <1>5 DEF Spawn, servingVars, Drained, Running
<1>6. CASE Listen BY <1>6 DEF Listen, servingVars, Drained, Running
<1>7. CASE ServeFails BY <1>7 DEF ServeFails, servingVars, Drained, Running
<1>8. CASE Signal BY <1>8 DEF Signal, servingVars, Drained, Running
<1>9. CASE SelectError
  BY <1>9 DEF SelectError, Leave, servingVars, Drained, Running
<1>10. CASE SelectSignal
  BY <1>10 DEF SelectSignal, Leave, servingVars, Drained, Running
<1>11. CASE ShutdownReturns
  BY <1>11 DEF ShutdownReturns, TimeoutStatus, Leave, servingVars, Drained, Running
<1>12. CASE CloseDB BY <1>12 DEF CloseDB, procVars, Drained, Running
<1>13. CASE Exit BY <1>13 DEF Exit, servingVars, Drained, Running
<1>14. ASSUME NEW r \in Reqs, Accept(r) PROVE StopInv'
  <2>1. main = "select" /\ UNCHANGED <<main, listener, signaled, exit>>
    BY <1>14 DEF Accept, procVars
  <2> QED BY <2>1
<1>15. ASSUME NEW r \in Reqs, ServeRequest(r) PROVE StopInv'
  <2>1. UNCHANGED <<main, listener, signaled, exit>> BY <1>15 DEF ServeRequest, procVars
  <2>2. ~Drained BY <1>15, ServeRuns DEF ServeRequest, Drained
  <2> QED BY <2>1, <2>2
<1>16. CASE UNCHANGED vars BY <1>16 DEF vars, servingVars, Drained, Running
<1> QED
  BY <1>1, <1>2, <1>3, <1>4, <1>5, <1>6, <1>7, <1>8, <1>9, <1>10, <1>11, <1>12,
     <1>13, <1>14, <1>15, <1>16 DEF Next, Main, Finished

\* A process that exits with 0 was told to stop and has answered every request it
\* accepted, however signal, listener, shutdown timeout and handlers interleave.
THEOREM ZeroMeansDrainedAlways == Spec => []ZeroMeansDrained
<1>1. StopInv => ZeroMeansDrained BY DEF StopInv, ZeroMeansDrained
<1> QED BY <1>1, StopInit, StopStep, PTL DEF Spec

\* The database is open from Connect until run() returns; nothing is served before
\* the select, nor by a process that FromEnv ended; and only a process that has left
\* has a status.
OpenInv ==
    /\ main \in {"build", "select", "shutdown"} /\ This.remotes => dbOpen
    /\ main \in {"start", "build"} \/ exit = 2 => Drained
    /\ \/ main \in {"start", "build", "select", "shutdown"} /\ exit = NoExit
       \/ main \in {"deferred", "exited"} /\ exit \in {0, 1, 2}

LEMMA OpenInit == Init => OpenInv
BY DEF Init, ServingInit, IdleReq, OpenInv, Drained, Running

LEMMA OpenStep == StopInv /\ OpenInv /\ [Next]_vars => OpenInv'
<1> SUFFICES ASSUME StopInv, OpenInv, [Next]_vars PROVE OpenInv'
  OBVIOUS
<1> USE DEF OpenInv, Drained, Running, NoExit
<1>1. CASE Connect BY <1>1 DEF Connect, routerVars, This
<1>2. CASE NoConnection
  BY <1>2 DEF NoConnection, Leave, servingVars, routerVars, This
<1>3. CASE MissingVariable
  BY <1>3 DEF MissingVariable, servingVars, routerVars, This
<1>4. CASE BuildRouters BY <1>4 DEF BuildRouters, Build, procVars, This
<1>5. CASE Spawn BY <1>5 DEF Spawn, servingVars, routerVars, This
<1>6. CASE Listen \/ ServeFails \/ Signal
  BY <1>6 DEF Listen, ServeFails, Signal, servingVars, routerVars, This
<1>7. CASE SelectError
  BY <1>7 DEF SelectError, Leave, servingVars, routerVars, This
<1>8. CASE SelectSignal
  BY <1>8 DEF SelectSignal, Leave, servingVars, routerVars, This
<1>9. CASE ShutdownReturns
  BY <1>9 DEF ShutdownReturns, TimeoutStatus, Leave, servingVars, routerVars, This
<1>10. CASE CloseDB BY <1>10 DEF CloseDB, routerVars, procVars, This
<1>11. CASE Exit BY <1>11 DEF Exit, servingVars, routerVars, This
<1>12. ASSUME NEW r \in Reqs, Accept(r) PROVE OpenInv'
  <2>1. main = "select" /\ exit = NoExit BY <1>12 DEF Accept, StopInv
  <2>2. UNCHANGED <<program, dbOpen, main, exit>>
    BY <1>12 DEF Accept, routerVars, procVars
  <2> QED BY <2>1, <2>2 DEF This
<1>13. ASSUME NEW r \in Reqs, ServeRequest(r) PROVE OpenInv'
  <2>1. UNCHANGED <<program, dbOpen, main, exit>>
    BY <1>13 DEF ServeRequest, Serve, Enter, Dispatch, HandlerStep, WriteAnswer, Return,
                 Unwind, Finish, routerVars, procVars
  <2>2. ~Drained BY <1>13, ServeRuns DEF ServeRequest
  <2> QED BY <2>1, <2>2 DEF This
<1>14. CASE UNCHANGED vars
  BY <1>14 DEF vars, servingVars, routerVars, This
<1> QED
  BY <1>1, <1>2, <1>3, <1>4, <1>5, <1>6, <1>7, <1>8, <1>9, <1>10, <1>11, <1>12,
     <1>13, <1>14 DEF Next, Main, Finished

\* Whatever signal, listen error, shutdown timeout and handlers do, a request that has
\* lost its database is one of a process that says, by its status, that it failed.
THEOREM ClosedUnderwayIsToldAlways == Spec => []ClosedUnderwayIsTold
<1>1. StopInv /\ OpenInv => ClosedUnderwayIsTold
  BY DEF StopInv, OpenInv, Drained, ClosedUnderwayIsTold
<1>2. Init => StopInv /\ OpenInv BY StopInit, OpenInit
<1>3. StopInv /\ OpenInv /\ [Next]_vars => StopInv' /\ OpenInv' BY StopStep, OpenStep
<1> QED BY <1>1, <1>2, <1>3, PTL DEF Spec

-----------------------------------------------------------------------------
(* What append does to the arrays. *)

Slots == Middlewares \cup {NoMw}

\* What a router consists of while there are n arrays.
Slices(n) == [arr : 0 .. n, len : Nat, routes : SUBSET Routes]

\* No slice is longer than its array.
SliceInv ==
    /\ RouterTypeOK
    /\ \A k \in DOMAIN routers : routers[k].len <= Cap(k)

LEMMA SliceTypes ==
    ASSUME SliceInv, NEW k \in DOMAIN routers
    PROVE  /\ k \in 1 .. Len(routers) /\ Len(routers) \in Nat
           /\ DOMAIN routers = 1 .. Len(routers)
           /\ Len(heap) \in Nat /\ DOMAIN heap = 1 .. Len(heap)
           /\ routers[k] \in Slices(Len(heap))
           /\ routers[k].arr # 0 => heap[routers[k].arr] \in Seq(Slots)
           /\ Cap(k) \in Nat
           /\ routers[k].len \in 0 .. Cap(k)
           /\ Chain(k) \in Seq(Slots) /\ Len(Chain(k)) = routers[k].len
<1>1. /\ routers \in Seq(Slices(Len(heap)))
      /\ heap \in Seq(Seq(Slots))
  BY DEF SliceInv, RouterTypeOK, Slots, Slices
<1>2. /\ DOMAIN routers = 1 .. Len(routers) /\ DOMAIN heap = 1 .. Len(heap)
      /\ Len(routers) \in Nat /\ Len(heap) \in Nat
  BY <1>1, LenProperties
<1>3. routers[k] \in Slices(Len(heap)) BY <1>1, <1>2, ElementOfSeq
<1>4. routers[k].arr # 0 => heap[routers[k].arr] \in Seq(Slots)
  BY <1>1, <1>2, <1>3 DEF Slices
<1>5. Cap(k) \in Nat BY <1>4, LenProperties DEF Cap
<1>6. routers[k].len \in 0 .. Cap(k) BY <1>3, <1>5 DEF SliceInv, Slices
<1>7. \A i \in 1 .. routers[k].len : heap[routers[k].arr][i] \in Slots
  BY <1>3, <1>4, <1>6, LenProperties DEF Cap, Slices
<1>8. Chain(k) \in Seq(Slots) BY <1>3, <1>7 DEF Chain, Slices
<1>9. Len(Chain(k)) = routers[k].len BY <1>3, <1>7 DEF Chain, Slices
<1> QED BY <1>1, <1>2, <1>3, <1>4, <1>5, <1>6, <1>8, <1>9

\* The array append allocates is large enough.
LEMMA GrowEnough ==
    ASSUME NEW old \in Nat, NEW need \in Nat
    PROVE  Grow(old, need) \in Nat /\ Grow(old, need) >= need
BY DEF Grow, RoundUp

\* Written beyond a prefix, an array begins with the prefix and what was written.
LEMMA WrittenType ==
    ASSUME NEW array \in Seq(Slots), NEW at \in Nat, NEW mws \in Seq(Middlewares)
    PROVE  /\ Written(array, at, mws) \in Seq(Slots)
           /\ Len(Written(array, at, mws)) = Len(array)
           /\ \A i \in 1 .. Len(array) : Written(array, at, mws)[i] =
                 IF i \in at + 1 .. at + Len(mws) THEN mws[i - at] ELSE array[i]
<1>1. Len(array) \in Nat /\ \A i \in 1 .. Len(array) : array[i] \in Slots
  BY LenProperties
<1>2. Len(mws) \in Nat /\ \A i \in 1 .. Len(mws) : mws[i] \in Slots
  BY LenProperties DEF Slots
<1>3. \A i \in 1 .. Len(array) :
         (IF i \in at + 1 .. at + Len(mws) THEN mws[i - at] ELSE array[i]) \in Slots
  BY <1>1, <1>2
<1> QED BY <1>1, <1>3 DEF Written

\* append to an array of its own: the slice is longer by what is appended, and
\* nobody else notices.
LEMMA CopyEffect ==
    ASSUME SliceInv, NEW k \in DOMAIN routers, NEW mws \in Seq(Middlewares),
           AppendInCopy(k, mws)
    PROVE  /\ heap' \in Seq(Seq(Slots)) /\ Len(heap') = Len(heap) + 1
           /\ routers' \in Seq(Slices(Len(heap')))
           /\ DOMAIN routers' = DOMAIN routers
           /\ \A j \in DOMAIN routers \ {k} :
                 routers'[j] = routers[j] /\ Cap(j)' = Cap(j) /\ Chain(j)' = Chain(j)
           /\ routers'[k].len = routers[k].len + Len(mws)
           /\ Cap(k)' = Grow(Cap(k), routers[k].len + Len(mws))
           /\ Chain(k)' = Chain(k) \o mws
<1> DEFINE need == routers[k].len + Len(mws)
           size == Grow(Cap(k), need)
           room == [i \in 1 .. size - routers[k].len |-> NoMw]
           array == Written(Chain(k) \o room, routers[k].len, mws)
<1>1. Len(mws) \in Nat /\ \A i \in 1 .. Len(mws) : mws[i] \in Slots
  BY LenProperties DEF Slots
<1>2. /\ routers[k].len \in Nat /\ Cap(k) \in Nat /\ routers[k].len <= Cap(k)
      /\ Chain(k) \in Seq(Slots) /\ Len(Chain(k)) = routers[k].len
  BY SliceTypes DEF Slices
<1>3. need \in Nat /\ size \in Nat /\ size >= need
  <2>1. need \in Nat BY <1>1, <1>2
  <2> QED BY <1>2, <2>1, GrowEnough
<1>4. room \in Seq(Slots) /\ Len(room) = size - routers[k].len
  <2> HIDE DEF size
  <2>1. size - routers[k].len \in Nat BY <1>1, <1>2, <1>3
  <2> QED BY <2>1 DEF Slots
<1>5. /\ Chain(k) \o room \in Seq(Slots) /\ Len(Chain(k) \o room) = size
      /\ \A i \in 1 .. routers[k].len : (Chain(k) \o room)[i] = Chain(k)[i]
  <2> HIDE DEF room, size, need
  <2>1. Chain(k) \o room \in Seq(Slots)
        /\ Len(Chain(k) \o room) = Len(Chain(k)) + Len(room)
    BY <1>2, <1>4, ConcatProperties
  <2>2. \A i \in 1 .. Len(Chain(k)) + Len(room) :
           (Chain(k) \o room)[i] =
               IF i <= Len(Chain(k)) THEN Chain(k)[i] ELSE room[i - Len(Chain(k))]
    BY <1>2, <1>4, ConcatProperties
  <2> QED BY <2>1, <2>2, <1>2, <1>3, <1>4
<1>6. /\ array \in Seq(Slots) /\ Len(array) = size
      /\ \A i \in 1 .. size : array[i] =
            IF i \in routers[k].len + 1 .. need
            THEN mws[i - routers[k].len] ELSE (Chain(k) \o room)[i]
  <2> HIDE DEF room, size
  <2> QED BY <1>2, <1>5, WrittenType
<1> HIDE DEF array, room, size
<1>7. /\ heap' = Append(heap, array)
      /\ routers' = [routers EXCEPT ![k].arr = Len(heap) + 1, ![k].len = need]
  BY DEF AppendInCopy, array, room, size
<1>8. heap \in Seq(Seq(Slots)) /\ Len(heap) \in Nat
  BY LenProperties DEF SliceInv, RouterTypeOK, Slots
<1>9. /\ heap' \in Seq(Seq(Slots)) /\ Len(heap') = Len(heap) + 1
      /\ heap'[Len(heap) + 1] = array
      /\ \A a \in 1 .. Len(heap) : heap'[a] = heap[a]
  BY <1>6, <1>7, <1>8, AppendProperties
<1>10. /\ DOMAIN routers' = DOMAIN routers
       /\ \A j \in DOMAIN routers \ {k} : routers'[j] = routers[j]
       /\ routers'[k] = [routers[k] EXCEPT !.arr = Len(heap) + 1, !.len = need]
  BY <1>7
<1>11. routers'[k].arr = Len(heap) + 1 /\ routers'[k].len = need
  BY <1>10, SliceTypes DEF Slices
<1>12. routers' \in Seq(Slices(Len(heap')))
  <2>1. \A j \in DOMAIN routers :
           routers'[j] \in Slices(Len(heap'))
    <3>1. ASSUME NEW j \in DOMAIN routers \ {k}
          PROVE  routers'[j] \in Slices(Len(heap'))
      <4>1. routers[j] \in Slices(Len(heap)) BY SliceTypes
      <4> QED BY <1>8, <1>9, <1>10, <4>1 DEF Slices
    <3>2. routers'[k] \in Slices(Len(heap'))
      <4>1. routers[k] \in Slices(Len(heap)) BY SliceTypes
      <4>2. Len(heap) + 1 \in 0 .. Len(heap') BY <1>8, <1>9
      <4> HIDE DEF need
      <4> QED BY <1>3, <1>10, <4>1, <4>2 DEF Slices
    <3> QED BY <3>1, <3>2
  <2>2. Len(routers) \in Nat /\ DOMAIN routers = 1 .. Len(routers) BY SliceTypes
  <2>3. routers' = [j \in 1 .. Len(routers) |-> routers'[j]] BY <1>7, <2>2
  <2> QED BY <2>1, <2>2, <2>3
<1>13. ASSUME NEW j \in DOMAIN routers \ {k}
       PROVE  routers'[j] = routers[j] /\ Cap(j)' = Cap(j) /\ Chain(j)' = Chain(j)
  <2>1. routers'[j] = routers[j] BY <1>10
  <2>2. routers[j].arr \in 0 .. Len(heap) /\ routers[j].len \in 0 .. Cap(j)
    BY SliceTypes DEF Slices
  <2>3. routers[j].arr # 0 => heap'[routers[j].arr] = heap[routers[j].arr]
    BY <1>8, <1>9, <2>2
  <2>4. Cap(j)' = Cap(j) BY <2>1, <2>3 DEF Cap
  <2>5. Chain(j)' = Chain(j) BY <2>1, <2>2, <2>3 DEF Chain, Cap
  <2> QED BY <2>1, <2>4, <2>5
<1>14. Cap(k)' = size BY <1>6, <1>8, <1>9, <1>11 DEF Cap
<1>15. Chain(k)' = Chain(k) \o mws
  <2>1. Chain(k)' = [i \in 1 .. need |-> array[i]]
    BY <1>9, <1>11 DEF Chain
  <2>2. /\ Chain(k) \o mws \in Seq(Slots)
        /\ Len(Chain(k) \o mws) = need
        /\ \A i \in 1 .. need : (Chain(k) \o mws)[i] =
              IF i <= routers[k].len THEN Chain(k)[i] ELSE mws[i - routers[k].len]
    <3>1. mws \in Seq(Slots) BY DEF Slots
    <3> QED BY <3>1, <1>2, ConcatProperties
  <2>3. \A i \in 1 .. need : array[i] = (Chain(k) \o mws)[i]
    BY <1>1, <1>2, <1>3, <1>5, <1>6, <2>2
  <2>4. Chain(k) \o mws = [i \in 1 .. need |-> (Chain(k) \o mws)[i]]
    BY <2>2, LenProperties
  <2> QED BY <2>1, <2>3, <2>4
<1> QED BY <1>9, <1>10, <1>11, <1>12, <1>13, <1>14, <1>15 DEF size

\* append in place: the array keeps its length, and the slice stays inside it.
LEMMA InPlaceTypes ==
    ASSUME SliceInv, NEW k \in DOMAIN routers, NEW mws \in Seq(Middlewares),
           HasRoom(k, Len(mws)), AppendInPlace(k, mws)
    PROVE  /\ heap' \in Seq(Seq(Slots)) /\ Len(heap') = Len(heap)
           /\ routers' \in Seq(Slices(Len(heap'))) /\ DOMAIN routers' = DOMAIN routers
           /\ \A j \in DOMAIN routers : Cap(j)' = Cap(j) /\ routers'[j].arr = routers[j].arr
           /\ \A j \in DOMAIN routers \ {k} : routers'[j] = routers[j]
           /\ routers'[k].len = routers[k].len + Len(mws)
<1> DEFINE a == routers[k].arr
           array == Written(heap[a], routers[k].len, mws)
<1>1. /\ heap' = [heap EXCEPT ![a] = array]
      /\ routers' = [routers EXCEPT ![k].len = routers[k].len + Len(mws)]
  BY DEF AppendInPlace
<1>2. Len(mws) \in Nat BY LenProperties
<1>3. routers[k].len \in Nat /\ a \in 0 .. Len(heap) BY SliceTypes DEF Slices
<1>4. heap \in Seq(Seq(Slots)) /\ Len(heap) \in Nat /\ DOMAIN heap = 1 .. Len(heap)
  BY LenProperties DEF SliceInv, RouterTypeOK, Slots
<1>5. a # 0 => array \in Seq(Slots) /\ Len(array) = Len(heap[a])
  <2> SUFFICES ASSUME a # 0
               PROVE  array \in Seq(Slots) /\ Len(array) = Len(heap[a])
    OBVIOUS
  <2>1. heap[a] \in Seq(Slots) BY SliceTypes
  <2> HIDE DEF a
  <2> QED BY <1>3, <2>1, WrittenType
<1> HIDE DEF array
<1>6. /\ heap' \in Seq(Seq(Slots)) /\ Len(heap') = Len(heap)
      /\ \A b \in 1 .. Len(heap) : Len(heap'[b]) = Len(heap[b])
  <2>1. CASE a = 0
    <3>1. heap' = heap BY <1>1, <1>4, <2>1
    <3> QED BY <1>4, <3>1
  <2>2. CASE a # 0
    <3>1. a \in 1 .. Len(heap) BY <1>3, <1>4, <2>2
    <3>2. array \in Seq(Slots) BY <1>5, <2>2
    <3>3. heap' \in Seq(Seq(Slots)) /\ Len(heap') = Len(heap)
      BY <1>1, <1>4, <3>1, <3>2, ExceptSeq
    <3>4. \A b \in 1 .. Len(heap) : heap'[b] = IF b = a THEN array ELSE heap[b]
      BY <1>1, <1>4
    <3> QED BY <1>5, <2>2, <3>3, <3>4
  <2> QED BY <2>1, <2>2
<1>7. /\ DOMAIN routers' = DOMAIN routers
      /\ \A j \in DOMAIN routers \ {k} : routers'[j] = routers[j]
      /\ routers'[k] = [routers[k] EXCEPT !.len = routers[k].len + Len(mws)]
  BY <1>1
<1>8. \A j \in DOMAIN routers : routers[j] \in Slices(Len(heap)) BY SliceTypes
<1>9. routers'[k] \in Slices(Len(heap'))
  <2>1. routers[k] \in Slices(Len(heap')) BY <1>6, <1>8
  <2>2. routers[k].len + Len(mws) \in Nat BY <1>2, <1>3
  <2>3. routers'[k] = [routers[k] EXCEPT !.len = routers[k].len + Len(mws)] BY <1>7
  <2> HIDE DEF a
  <2> QED BY <2>1, <2>2, <2>3 DEF Slices
<1>10. routers'[k].len = routers[k].len + Len(mws) BY <1>7, <1>8 DEF Slices
<1>11. \A j \in DOMAIN routers : routers'[j].arr = routers[j].arr
  BY <1>7, <1>8 DEF Slices
<1>12. routers' \in Seq(Slices(Len(heap')))
  <2>1. Len(routers) \in Nat /\ DOMAIN routers = 1 .. Len(routers) BY SliceTypes
  <2>2. routers' = [j \in 1 .. Len(routers) |-> routers'[j]] BY <1>1, <2>1
  <2>3. \A j \in 1 .. Len(routers) : routers'[j] \in Slices(Len(heap'))
    BY <1>6, <1>7, <1>8, <1>9, <2>1
  <2> QED BY <2>1, <2>2, <2>3
<1>13. \A j \in DOMAIN routers : Cap(j)' = Cap(j)
  <2> SUFFICES ASSUME NEW j \in DOMAIN routers PROVE Cap(j)' = Cap(j)
    OBVIOUS
  <2>1. routers[j].arr \in 0 .. Len(heap) BY <1>8 DEF Slices
  <2> QED BY <1>4, <1>6, <1>11, <2>1 DEF Cap
<1> QED BY <1>6, <1>7, <1>10, <1>11, <1>12, <1>13

\* append of nothing changes nothing.
LEMMA InPlaceNothing ==
    ASSUME SliceInv, NEW k \in DOMAIN routers, AppendInPlace(k, << >>)
    PROVE  heap' = heap /\ routers' = routers
<1>1. /\ heap' = [heap EXCEPT ![routers[k].arr] =
                     Written(heap[routers[k].arr], routers[k].len, << >>)]
      /\ routers' = [routers EXCEPT ![k].len = routers[k].len + 0]
  BY DEF AppendInPlace
<1>2. /\ routers[k] \in Slices(Len(heap)) /\ routers[k].len \in Nat
      /\ routers[k].arr # 0 => heap[routers[k].arr] \in Seq(Slots)
      /\ Len(routers) \in Nat /\ DOMAIN routers = 1 .. Len(routers)
      /\ Len(heap) \in Nat /\ DOMAIN heap = 1 .. Len(heap)
  BY SliceTypes DEF Slices
<1>3. heap = [b \in DOMAIN heap |-> heap[b]] /\ routers = [j \in DOMAIN routers |-> routers[j]]
  <2>1. heap \in Seq(Seq(Slots)) /\ routers \in Seq(Slices(Len(heap)))
    BY DEF SliceInv, RouterTypeOK, Slots, Slices
  <2> QED BY <2>1, LenProperties
<1>4. [routers[k] EXCEPT !.len = routers[k].len + 0] = routers[k]
  BY <1>2 DEF Slices
<1>5. routers' = routers BY <1>1, <1>3, <1>4
<1>6. routers[k].arr # 0 =>
         Written(heap[routers[k].arr], routers[k].len, << >>) = heap[routers[k].arr]
  <2> SUFFICES ASSUME routers[k].arr # 0
               PROVE  Written(heap[routers[k].arr], routers[k].len, << >>)
                         = heap[routers[k].arr]
    OBVIOUS
  <2> DEFINE array == heap[routers[k].arr]
  <2>1. array \in Seq(Slots) BY <1>2
  <2> HIDE DEF array
  <2>2. Len(array) \in Nat /\ array = [i \in 1 .. Len(array) |-> array[i]]
    BY <2>1, LenProperties
  <2>3. \A i \in Nat : i \notin routers[k].len + 1 .. routers[k].len + 0 BY <1>2
  <2>4. Len(<< >>) = 0 OBVIOUS
  <2>5. Written(array, routers[k].len, << >>) = [i \in 1 .. Len(array) |-> array[i]]
    BY <2>2, <2>3, <2>4 DEF Written
  <2> QED BY <2>2, <2>5 DEF array
<1>7. heap' = heap
  <2>1. CASE routers[k].arr = 0 BY <1>1, <1>2, <1>3, <2>1
  <2>2. CASE routers[k].arr # 0 BY <1>1, <1>3, <1>6, <2>2
  <2> QED BY <2>1, <2>2
<1> QED BY <1>5, <1>7

-----------------------------------------------------------------------------
(* The calls of a program. *)

LEMMA CallTypes ==
    ASSUME SliceInv, built < Len(This.calls)
    PROVE  /\ built \in Nat /\ built + 1 \in DOMAIN This.calls
           /\ built + 1 \in 0 .. Len(This.calls)
           /\ This.calls[built + 1] \in Calls
<1>1. /\ This.calls \in Seq(Calls) /\ built \in 0 .. Len(This.calls)
  BY ProgramsAssumption DEF SliceInv, RouterTypeOK, This
<1>2. Len(This.calls) \in Nat /\ DOMAIN This.calls = 1 .. Len(This.calls)
  BY <1>1, LenProperties
<1>3. built \in Nat /\ built + 1 \in 1 .. Len(This.calls) BY <1>1, <1>2
<1> QED BY <1>1, <1>2, <1>3, ElementOfSeq

LEMMA CallFields ==
    ASSUME NEW c \in Calls
    PROVE  /\ c.op = "Use" => c.rt \in Nat /\ c.mws \in Seq(Middlewares)
           /\ c.op = "SubRouter" => c.prefix \in Seq(STRING)
           /\ c.op = "Handle" => /\ c.pattern \in Patterns
                                 /\ c.handler \in HandlerNames /\ c.to \in Nat
BY DEF Calls

LEMMA RouteType ==
    ASSUME NEW pattern \in Patterns, NEW h \in HandlerNames, NEW k \in Nat, NEW n \in Nat
    PROVE  RouteTo(pattern, h, k, n) \in Routes
BY DEF RouteTo, Routes, Patterns

LEMMA MapIsSeq ==
    ASSUME NEW S, NEW n \in Nat, NEW f, f = [j \in 1 .. n |-> f[j]],
           \A j \in 1 .. n : f[j] \in S
    PROVE  f \in Seq(S)
OBVIOUS

WithRoute(k, route) == [routers EXCEPT ![k].routes = @ \cup {route}]

\* A new route leaves the slices as they are.
LEMMA RouteEffect ==
    ASSUME SliceInv, NEW k \in DOMAIN routers, NEW route \in Routes
    PROVE  /\ WithRoute(k, route) \in Seq(Slices(Len(heap)))
           /\ DOMAIN WithRoute(k, route) = DOMAIN routers
           /\ Len(WithRoute(k, route)) = Len(routers)
           /\ \A j \in DOMAIN routers :
                 /\ WithRoute(k, route)[j].arr = routers[j].arr
                 /\ WithRoute(k, route)[j].len = routers[j].len
<1> DEFINE after == WithRoute(k, route)
<1>1. Len(routers) \in Nat /\ DOMAIN routers = 1 .. Len(routers) BY SliceTypes
<1>2. \A j \in DOMAIN routers : routers[j] \in Slices(Len(heap)) BY SliceTypes
<1>3. /\ DOMAIN after = DOMAIN routers
      /\ \A j \in DOMAIN routers \ {k} : after[j] = routers[j]
      /\ after[k] = [routers[k] EXCEPT !.routes = routers[k].routes \cup {route}]
  BY DEF WithRoute
<1>4. routers[k].routes \cup {route} \in SUBSET Routes BY <1>2 DEF Slices
<1>5. /\ after[k] \in Slices(Len(heap))
      /\ after[k].arr = routers[k].arr /\ after[k].len = routers[k].len
  <2>1. routers[k] \in Slices(Len(heap)) BY <1>2
  <2> QED BY <1>3, <1>4, <2>1 DEF Slices
<1>6. after = [j \in 1 .. Len(routers) |-> after[j]] BY <1>1 DEF WithRoute
<1> HIDE DEF after
<1>7. after \in Seq(Slices(Len(heap)))
  <2>1. \A j \in 1 .. Len(routers) : after[j] \in Slices(Len(heap))
    BY <1>1, <1>2, <1>3, <1>5
  <2> QED BY <1>1, <1>6, <2>1, MapIsSeq
<1>8. Len(after) = Len(routers) BY <1>1, <1>3, <1>7, LenProperties
<1> QED BY <1>3, <1>5, <1>7, <1>8 DEF after

\* A new router leaves the slices of the others as they are.
LEMMA AppendRouter ==
    ASSUME NEW n \in Nat, NEW rs \in Seq(Slices(n)), NEW rt \in Slices(n)
    PROVE  /\ Append(rs, rt) \in Seq(Slices(n))
           /\ DOMAIN Append(rs, rt) = 1 .. Len(rs) + 1
           /\ \A j \in 1 .. Len(rs) : Append(rs, rt)[j] = rs[j]
           /\ Append(rs, rt)[Len(rs) + 1] = rt
BY AppendProperties, LenProperties

LEMMA SliceUnchanged == SliceInv /\ UNCHANGED routerVars => SliceInv'
BY DEF SliceInv, RouterTypeOK, This, routerVars, Cap

-----------------------------------------------------------------------------
(* What each call does to the slices and to the chains. *)

LEMMA SameSlice ==
    ASSUME NEW j, NEW k, heap' = heap, routers'[j].arr = routers[k].arr,
           routers'[j].len = routers[k].len
    PROVE  Cap(j)' = Cap(k) /\ Chain(j)' = Chain(k)
BY DEF Cap, Chain

LEMMA HandleEffect ==
    ASSUME SliceInv, NEW k \in DOMAIN routers, NEW pattern \in Patterns,
           NEW h \in HandlerNames, NEW to \in Nat, Handle(k, pattern, h, to)
    PROVE  /\ heap' = heap /\ routers' \in Seq(Slices(Len(heap)))
           /\ DOMAIN routers' = DOMAIN routers
           /\ \A j \in DOMAIN routers :
                 routers'[j].arr = routers[j].arr /\ routers'[j].len = routers[j].len
<1> DEFINE route == RouteTo(pattern, h, to, 0)
<1>1. route \in Routes BY RouteType
<1> HIDE DEF route
<1>2. heap' = heap /\ routers' = WithRoute(k, route)
  BY DEF Handle, AddRoute, route, WithRoute
<1> QED BY <1>1, <1>2, RouteEffect

LEMMA NewEffect ==
    ASSUME SliceInv, New
    PROVE  /\ heap' = heap /\ routers' \in Seq(Slices(Len(heap)))
           /\ DOMAIN routers' = 1 .. Len(routers) + 1
           /\ \A j \in DOMAIN routers : routers'[j] = routers[j]
           /\ routers'[Len(routers) + 1] = NewRouter
<1>1. routers \in Seq(Slices(Len(heap))) /\ Len(heap) \in Nat
  BY LenProperties DEF SliceInv, RouterTypeOK, Slices
<1>2. NewRouter \in Slices(Len(heap)) BY <1>1 DEF NewRouter, Slices
<1>3. DOMAIN routers = 1 .. Len(routers) BY <1>1, LenProperties
<1> QED BY <1>1, <1>2, <1>3, AppendRouter DEF New

LEMMA SubRouterEffect ==
    ASSUME SliceInv, NEW k \in DOMAIN routers, NEW prefix \in Seq(STRING),
           SubRouter(k, prefix)
    PROVE  /\ heap' = heap /\ routers' \in Seq(Slices(Len(heap)))
           /\ DOMAIN routers' = 1 .. Len(routers) + 1
           /\ \A j \in DOMAIN routers :
                 routers'[j].arr = routers[j].arr /\ routers'[j].len = routers[j].len
           /\ routers'[Len(routers) + 1] = Inherited(k)
<1> DEFINE route == RouteTo([segs |-> prefix, tree |-> TRUE, method |-> ""],
                            NoHandler, Len(routers) + 1, Len(prefix))
           after == WithRoute(k, route)
<1>1. /\ Len(heap) \in Nat /\ Len(routers) \in Nat /\ DOMAIN routers = 1 .. Len(routers)
      /\ routers[k] \in Slices(Len(heap))
  BY SliceTypes
<1>2. route \in Routes
  <2>1. [segs |-> prefix, tree |-> TRUE, method |-> ""] \in Patterns
    <3>1. "" \in Methods BY DEF Methods
    <3>2. TRUE \in BOOLEAN OBVIOUS
    <3> QED BY <3>1, <3>2, Zenon DEF Patterns
  <2>2. NoHandler \in HandlerNames BY DEF HandlerNames
  <2>3. Len(prefix) \in Nat BY LenProperties
  <2>4. Len(routers) + 1 \in Nat BY <1>1
  <2> QED BY <2>1, <2>2, <2>3, <2>4, RouteType
<1> HIDE DEF route
<1>3. heap' = heap /\ routers' = Append(after, Inherited(k))
  BY DEF SubRouter, route, WithRoute
<1>4. /\ after \in Seq(Slices(Len(heap))) /\ Len(after) = Len(routers)
      /\ \A j \in DOMAIN routers :
            after[j].arr = routers[j].arr /\ after[j].len = routers[j].len
  BY <1>2, RouteEffect
<1>5. Inherited(k) \in Slices(Len(heap)) BY <1>1 DEF Inherited, Slices
<1> HIDE DEF after
<1>6. /\ Append(after, Inherited(k)) \in Seq(Slices(Len(heap)))
      /\ DOMAIN Append(after, Inherited(k)) = 1 .. Len(after) + 1
      /\ \A j \in 1 .. Len(after) : Append(after, Inherited(k))[j] = after[j]
      /\ Append(after, Inherited(k))[Len(after) + 1] = Inherited(k)
  BY <1>1, <1>4, <1>5, AppendRouter
<1> QED BY <1>1, <1>3, <1>4, <1>6

LEMMA SliceNext ==
    ASSUME SliceInv, program' = program, built' \in 0 .. Len(This.calls),
           heap' \in Seq(Seq(Slots)), routers' \in Seq(Slices(Len(heap'))),
           \A k \in DOMAIN routers' : routers'[k].len <= Cap(k)'
    PROVE  SliceInv'
BY DEF SliceInv, RouterTypeOK, This, Slots, Slices

LEMMA UseSlices ==
    ASSUME SliceInv, NEW k \in DOMAIN routers, NEW mws \in Seq(Middlewares),
           Use(k, mws), program' = program, built' \in 0 .. Len(This.calls)
    PROVE  SliceInv'
<1>1. Len(mws) \in Nat BY LenProperties
<1>2. \A j \in DOMAIN routers : routers[j].len \in 0 .. Cap(j) /\ Cap(j) \in Nat
  BY SliceTypes
<1>3. CASE HasRoom(k, Len(mws)) /\ AppendInPlace(k, mws)
  <2>1. routers[k].len + Len(mws) <= Cap(k) BY <1>3 DEF HasRoom
  <2>2. /\ routers'[k].len = routers[k].len + Len(mws)
        /\ \A j \in DOMAIN routers : Cap(j)' = Cap(j)
        /\ \A j \in DOMAIN routers \ {k} : routers'[j] = routers[j]
        /\ DOMAIN routers' = DOMAIN routers
        /\ heap' \in Seq(Seq(Slots)) /\ routers' \in Seq(Slices(Len(heap')))
    BY <1>3, InPlaceTypes
  <2>3. ASSUME NEW j \in DOMAIN routers PROVE routers'[j].len <= Cap(j)'
    <3>1. routers[j].len <= Cap(j) /\ Cap(j)' = Cap(j) BY <1>2, <2>2
    <3>2. CASE j = k BY <2>1, <2>2, <3>1, <3>2
    <3>3. CASE j # k BY <2>2, <3>1, <3>3
    <3> QED BY <3>2, <3>3
  <2> QED BY <2>2, <2>3, SliceNext
<1>4. CASE AppendInCopy(k, mws)
  <2>1. /\ routers'[k].len = routers[k].len + Len(mws)
        /\ Cap(k)' = Grow(Cap(k), routers[k].len + Len(mws))
        /\ \A j \in DOMAIN routers \ {k} : routers'[j] = routers[j] /\ Cap(j)' = Cap(j)
        /\ DOMAIN routers' = DOMAIN routers
        /\ heap' \in Seq(Seq(Slots)) /\ routers' \in Seq(Slices(Len(heap')))
    BY <1>4, CopyEffect
  <2>2. routers[k].len + Len(mws) \in Nat BY <1>1, <1>2
  <2>3. routers'[k].len <= Cap(k)' BY <1>2, <2>1, <2>2, GrowEnough
  <2>4. ASSUME NEW j \in DOMAIN routers PROVE routers'[j].len <= Cap(j)'
    <3>1. CASE j = k BY <2>3, <3>1
    <3>2. CASE j # k
      <4>1. routers[j].len <= Cap(j) BY <1>2
      <4>2. Cap(j)' = Cap(j) /\ routers'[j] = routers[j] BY <2>1, <3>2
      <4> QED BY <4>1, <4>2
    <3> QED BY <3>1, <3>2
  <2> QED BY <2>1, <2>4, SliceNext
<1> QED BY <1>3, <1>4 DEF Use

LEMMA NewSlices ==
    ASSUME SliceInv, New, program' = program, built' \in 0 .. Len(This.calls)
    PROVE  SliceInv'
<1> SUFFICES ASSUME NEW j \in DOMAIN routers' PROVE routers'[j].len <= Cap(j)'
  <2>1. heap \in Seq(Seq(Slots)) BY DEF SliceInv, RouterTypeOK, Slots
  <2> QED BY <2>1, NewEffect, SliceNext
<1>1. CASE j \in DOMAIN routers
  <2>1. routers'[j] = routers[j] /\ heap' = heap BY <1>1, NewEffect
  <2>2. routers[j].len \in 0 .. Cap(j) BY <1>1, SliceTypes
  <2> QED BY <2>1, <2>2, SameSlice
<1>2. CASE j \notin DOMAIN routers
  <2>1. Len(routers) \in Nat /\ DOMAIN routers = 1 .. Len(routers)
    BY LenProperties DEF SliceInv, RouterTypeOK
  <2>2. j = Len(routers) + 1 BY <1>2, <2>1, NewEffect
  <2>3. routers'[j] = NewRouter BY <2>2, NewEffect
  <2> QED BY <2>3 DEF NewRouter, Cap
<1> QED BY <1>1, <1>2

LEMMA SubRouterSlices ==
    ASSUME SliceInv, NEW k \in DOMAIN routers, NEW prefix \in Seq(STRING),
           SubRouter(k, prefix), program' = program, built' \in 0 .. Len(This.calls)
    PROVE  SliceInv'
<1> SUFFICES ASSUME NEW j \in DOMAIN routers' PROVE routers'[j].len <= Cap(j)'
  <2>1. heap \in Seq(Seq(Slots)) BY DEF SliceInv, RouterTypeOK, Slots
  <2> QED BY <2>1, SubRouterEffect, SliceNext
<1>1. \A i \in DOMAIN routers : routers[i].len \in 0 .. Cap(i) BY SliceTypes
<1>2. CASE j \in DOMAIN routers
  <2>1. /\ heap' = heap
        /\ routers'[j].arr = routers[j].arr /\ routers'[j].len = routers[j].len
    BY <1>2, SubRouterEffect
  <2> QED BY <1>1, <1>2, <2>1, SameSlice
<1>3. CASE j \notin DOMAIN routers
  <2>1. Len(routers) \in Nat /\ DOMAIN routers = 1 .. Len(routers)
    BY LenProperties DEF SliceInv, RouterTypeOK
  <2>2. j = Len(routers) + 1 BY <1>3, <2>1, SubRouterEffect
  <2>3. heap' = heap /\ routers'[j] = Inherited(k) BY <2>2, SubRouterEffect
  <2>4. routers'[j].arr = routers[k].arr /\ routers'[j].len = routers[k].len
    BY <2>3 DEF Inherited
  <2> QED BY <1>1, <2>3, <2>4, SameSlice
<1> QED BY <1>2, <1>3

LEMMA HandleSlices ==
    ASSUME SliceInv, NEW k \in DOMAIN routers, NEW pattern \in Patterns,
           NEW h \in HandlerNames, NEW to \in Nat, Handle(k, pattern, h, to),
           program' = program, built' \in 0 .. Len(This.calls)
    PROVE  SliceInv'
<1> SUFFICES ASSUME NEW j \in DOMAIN routers' PROVE routers'[j].len <= Cap(j)'
  <2>1. heap \in Seq(Seq(Slots)) BY DEF SliceInv, RouterTypeOK, Slots
  <2> QED BY <2>1, HandleEffect, SliceNext
<1>1. /\ heap' = heap /\ j \in DOMAIN routers
      /\ routers'[j].arr = routers[j].arr /\ routers'[j].len = routers[j].len
  BY HandleEffect
<1>2. routers[j].len \in 0 .. Cap(j) BY <1>1, SliceTypes
<1> QED BY <1>1, <1>2, SameSlice

\* The call that Build makes.
LEMMA BuildCall ==
    ASSUME SliceInv, Build
    PROVE  \E c \in Calls : c = This.calls[built + 1] /\ Make(c)
BY CallTypes DEF Build

LEMMA SliceStep == ASSUME SliceInv, Build PROVE SliceInv'
<1>1. built' \in 0 .. Len(This.calls) /\ program' = program BY CallTypes DEF Build
<1>2. PICK c \in Calls : Make(c) BY BuildCall
<1>3. CASE c.op = "New" /\ New BY <1>1, <1>3, NewSlices
<1>4. CASE c.op = "Use" /\ Made(c.rt) /\ Use(c.rt, c.mws)
  BY <1>1, <1>4, CallFields, UseSlices DEF Made
<1>5. CASE c.op = "SubRouter" /\ Made(c.rt) /\ SubRouter(c.rt, c.prefix)
  BY <1>1, <1>5, CallFields, SubRouterSlices DEF Made
<1>6. CASE c.op = "Handle" /\ Made(c.rt) /\ Handle(c.rt, c.pattern, c.handler, c.to)
  BY <1>1, <1>6, CallFields, HandleSlices DEF Made
<1> QED BY <1>2, <1>3, <1>4, <1>5, <1>6 DEF Make

-----------------------------------------------------------------------------
(* What a program that is Shallow does to the slices.                       *)

\* The call that gives router k its middleware has been made.
Used(k) == \E i \in UsesOn(k) : i <= built

\* append to the slice of router k must take a new array.
Full(k) == routers[k].len = Cap(k)

\* A slice that is still to be appended to is full, and so is the root's, which its
\* sub-routers share, at every time.
FullInv ==
    /\ 1 \in DOMAIN routers
    /\ Shallow => /\ \A k \in DOMAIN routers : Used(k) \/ Full(k)
                  /\ Full(1)
                  /\ Used(1) \/ routers[1].arr = 0

\* Routers that come later only add to what Shallow asks of the program.
LEMMA ShallowBack ==
    ASSUME program' = program, DOMAIN routers \subseteq DOMAIN routers', Shallow'
    PROVE  Shallow
<1>1. This' = This BY DEF This
<1>2. ASSUME NEW k PROVE UsesOn(k)' = UsesOn(k) /\ SubsOf(k)' = SubsOf(k)
  BY <1>1 DEF UsesOn, SubsOf
<1>3. ASSUME NEW i PROVE Exact(i)' <=> Exact(i) BY <1>1 DEF Exact
<1>4. OneUse
  <2>1. ASSUME NEW k \in DOMAIN routers', NEW i \in UsesOn(k)', NEW j \in UsesOn(k)'
        PROVE  i = j /\ Exact(i)'
    BY DEF Shallow, OneUse
  <2>2. ASSUME NEW k \in DOMAIN routers, NEW i \in UsesOn(k), NEW j \in UsesOn(k)
        PROVE  i = j /\ Exact(i)
    BY <1>2, <1>3, <2>1
  <2> QED BY <2>2 DEF OneUse
<1>5. TwoLevels
  <2>1. ASSUME NEW k \in DOMAIN routers', k # 1 PROVE SubsOf(k)' = {}
    BY <2>1 DEF Shallow, TwoLevels
  <2> QED BY <1>2, <2>1 DEF TwoLevels
<1> QED BY <1>4, <1>5 DEF Shallow

LEMMA UsedKept ==
    ASSUME SliceInv, program' = program, built' = built + 1, NEW k, Used(k)
    PROVE  Used(k)'
<1>1. PICK i \in UsesOn(k) : i <= built BY DEF Used
<1>2. i \in Nat /\ built \in Nat
  <2>1. This.calls \in Seq(Calls) /\ built \in 0 .. Len(This.calls)
    BY ProgramsAssumption DEF SliceInv, RouterTypeOK, This
  <2>2. Len(This.calls) \in Nat /\ DOMAIN This.calls = 1 .. Len(This.calls)
    BY <2>1, LenProperties
  <2> QED BY <1>1, <2>1, <2>2 DEF UsesOn
<1>3. i \in UsesOn(k)' BY <1>1 DEF UsesOn, This
<1>4. i <= built' BY <1>1, <1>2
<1> QED BY <1>3, <1>4 DEF Used

\* The one Use of a router comes when its slice is full and, at the root, empty.
LEMMA UseIsFirst ==
    ASSUME SliceInv, FullInv, Shallow, built < Len(This.calls),
           NEW c, c = This.calls[built + 1], c.op = "Use", c.rt \in DOMAIN routers
    PROVE  /\ Full(c.rt) /\ Grow(0, Len(c.mws)) = Len(c.mws)
           /\ c.rt = 1 => routers[1].arr = 0
           /\ built + 1 \in UsesOn(c.rt)
<1>1. built \in Nat /\ built + 1 \in UsesOn(c.rt) BY CallTypes DEF UsesOn
<1>2. \A i \in UsesOn(c.rt) : i = built + 1 /\ Exact(built + 1)
  BY <1>1 DEF Shallow, OneUse
<1>3. ~Used(c.rt) BY <1>1, <1>2 DEF Used
<1>4. Full(c.rt) /\ (c.rt = 1 => routers[1].arr = 0) BY <1>3 DEF FullInv
<1>5. Grow(0, Len(c.mws)) = Len(c.mws) BY <1>1, <1>2 DEF Exact
<1> QED BY <1>1, <1>4, <1>5

\* append to a full slice takes a new array, unless there is nothing to append.
LEMMA FullIsCopied ==
    ASSUME SliceInv, NEW k \in DOMAIN routers, NEW mws \in Seq(Middlewares), Full(k),
           Use(k, mws)
    PROVE  (heap' = heap /\ routers' = routers) \/ AppendInCopy(k, mws)
<1>1. CASE HasRoom(k, Len(mws)) /\ AppendInPlace(k, mws)
  <2>1. Len(mws) \in Nat /\ routers[k].len \in Nat BY SliceTypes, LenProperties DEF Slices
  <2>2. Len(mws) = 0 BY <1>1, <2>1 DEF HasRoom, Full
  <2>3. mws = << >> BY <2>2, EmptySeq
  <2> QED BY <1>1, <2>3, InPlaceNothing
<1> QED BY <1>1 DEF Use

\* A sub-router is made of the root.
LEMMA SubOfRoot ==
    ASSUME SliceInv, Shallow, built < Len(This.calls),
           NEW c, c = This.calls[built + 1], c.op = "SubRouter", c.rt \in DOMAIN routers
    PROVE  c.rt = 1
<1>1. built + 1 \in SubsOf(c.rt) BY CallTypes DEF SubsOf
<1> QED BY <1>1 DEF Shallow, TwoLevels

\* FullInv after a call that leaves the routers there are and may add a full one.
LEMMA FullNext ==
    ASSUME SliceInv, FullInv, program' = program, built' = built + 1, heap' = heap,
           DOMAIN routers \subseteq DOMAIN routers',
           \A j \in DOMAIN routers :
              routers'[j].arr = routers[j].arr /\ routers'[j].len = routers[j].len,
           Shallow => \A j \in DOMAIN routers' \ DOMAIN routers : Full(j)'
    PROVE  FullInv'
<1> SUFFICES ASSUME Shallow'
             PROVE  /\ \A k \in DOMAIN routers' : Used(k)' \/ Full(k)'
                    /\ Full(1)'
                    /\ Used(1)' \/ routers'[1].arr = 0
  BY DEF FullInv
<1>1. Shallow BY ShallowBack
<1>2. ASSUME NEW j \in DOMAIN routers, Full(j) PROVE Full(j)'
  <2>1. Cap(j)' = Cap(j) BY SameSlice
  <2> QED BY <1>2, <2>1 DEF Full
<1>3. \A j \in DOMAIN routers : Used(j)' \/ Full(j)' BY <1>1, <1>2, UsedKept DEF FullInv
<1>4. Full(1)' BY <1>1, <1>2 DEF FullInv
<1>5. Used(1)' \/ routers'[1].arr = 0 BY <1>1, UsedKept DEF FullInv
<1> QED BY <1>1, <1>3, <1>4, <1>5

LEMMA FullUse ==
    ASSUME SliceInv, FullInv, Build, NEW c \in Calls, c = This.calls[built + 1],
           c.op = "Use", c.rt \in DOMAIN routers, Use(c.rt, c.mws)
    PROVE  FullInv'
<1> DEFINE k == c.rt
<1>1. c.mws \in Seq(Middlewares) /\ Len(c.mws) \in Nat BY CallFields, LenProperties
<1>2. program' = program /\ built' = built + 1 /\ built < Len(This.calls) BY DEF Build
<1>3. /\ routers[k].len \in Nat /\ Cap(k) \in Nat
      /\ 1 \in DOMAIN routers
  BY SliceTypes DEF Slices, FullInv
<1>4. DOMAIN routers' = DOMAIN routers
  <2>1. CASE AppendInPlace(k, c.mws) /\ HasRoom(k, Len(c.mws)) BY <1>1, <2>1, InPlaceTypes
  <2>2. CASE AppendInCopy(k, c.mws) BY <1>1, <2>2, CopyEffect
  <2> QED BY <2>1, <2>2 DEF Use
<1> SUFFICES ASSUME Shallow'
             PROVE  /\ \A j \in DOMAIN routers' : Used(j)' \/ Full(j)'
                    /\ Full(1)'
                    /\ Used(1)' \/ routers'[1].arr = 0
  BY <1>3, <1>4 DEF FullInv
<1>5. Shallow BY <1>2, <1>4, ShallowBack
<1>6. /\ Full(k) /\ Grow(0, Len(c.mws)) = Len(c.mws)
      /\ k = 1 => routers[1].arr = 0
      /\ built + 1 \in UsesOn(k)
  BY <1>2, <1>5, UseIsFirst
<1>7. CASE heap' = heap /\ routers' = routers
  <2>1. FullInv' BY <1>2, <1>7, FullNext
  <2> QED BY <2>1 DEF FullInv
<1>8. CASE AppendInCopy(k, c.mws)
  <2>1. /\ \A j \in DOMAIN routers \ {k} : routers'[j] = routers[j] /\ Cap(j)' = Cap(j)
        /\ routers'[k].len = routers[k].len + Len(c.mws)
        /\ Cap(k)' = Grow(Cap(k), routers[k].len + Len(c.mws))
    BY <1>1, <1>8, CopyEffect
  <2>2. Used(k)'
    <3>1. built + 1 \in UsesOn(k)' BY <1>2, <1>6 DEF UsesOn, This
    <3>2. built + 1 <= built' BY <1>2, CallTypes
    <3> QED BY <3>1, <3>2 DEF Used
  <2>3. \A j \in DOMAIN routers \ {k} : Full(j) => Full(j)' BY <2>1 DEF Full
  <2>4. \A j \in DOMAIN routers : Used(j)' \/ Full(j)'
    BY <1>2, <1>5, <2>2, <2>3, UsedKept DEF FullInv
  <2>5. Full(1)'
    <3>1. CASE k = 1
      <4>1. Cap(k) = 0 BY <1>6, <3>1 DEF Cap
      <4>2. routers[k].len = 0 BY <1>6, <4>1 DEF Full
      <4>3. Cap(k)' = Len(c.mws) /\ routers'[k].len = Len(c.mws)
        BY <1>1, <1>6, <2>1, <4>1, <4>2
      <4> QED BY <3>1, <4>3 DEF Full
    <3>2. CASE k # 1 BY <1>3, <1>5, <2>3, <3>2 DEF FullInv
    <3> QED BY <3>1, <3>2
  <2>6. Used(1)' \/ routers'[1].arr = 0
    <3>1. CASE k = 1 BY <2>2, <3>1
    <3>2. CASE k # 1
      <4>1. routers'[1] = routers[1] BY <1>3, <2>1, <3>2
      <4> QED BY <1>2, <1>5, <4>1, UsedKept DEF FullInv
    <3> QED BY <3>1, <3>2
  <2> QED BY <1>4, <2>4, <2>5, <2>6
<1> QED BY <1>1, <1>6, <1>7, <1>8, FullIsCopied

LEMMA FullStep == ASSUME SliceInv, FullInv, Build PROVE FullInv'
<1>1. program' = program /\ built' = built + 1 /\ built < Len(This.calls) BY DEF Build
<1>2. PICK c \in Calls : c = This.calls[built + 1] /\ Make(c) BY BuildCall
<1>3. Len(routers) \in Nat /\ DOMAIN routers = 1 .. Len(routers)
  BY LenProperties DEF SliceInv, RouterTypeOK
<1>4. CASE c.op = "New" /\ New
  <2>1. ASSUME NEW j \in DOMAIN routers' \ DOMAIN routers PROVE Full(j)'
    <3>1. j = Len(routers) + 1 BY <1>3, <1>4, NewEffect
    <3>2. routers'[j] = NewRouter BY <1>4, <3>1, NewEffect
    <3> QED BY <3>2 DEF Full, Cap, NewRouter
  <2>2. /\ heap' = heap /\ DOMAIN routers \subseteq DOMAIN routers'
        /\ \A j \in DOMAIN routers : routers'[j] = routers[j]
    BY <1>3, <1>4, NewEffect
  <2> QED BY <1>1, <2>1, <2>2, FullNext
<1>5. CASE c.op = "Use" /\ Made(c.rt) /\ Use(c.rt, c.mws)
  BY <1>2, <1>5, FullUse DEF Made
<1>6. CASE c.op = "SubRouter" /\ Made(c.rt) /\ SubRouter(c.rt, c.prefix)
  <2>1. c.rt \in DOMAIN routers /\ c.prefix \in Seq(STRING)
    BY <1>6, CallFields DEF Made
  <2>2. /\ heap' = heap /\ DOMAIN routers' = 1 .. Len(routers) + 1
        /\ \A j \in DOMAIN routers :
              routers'[j].arr = routers[j].arr /\ routers'[j].len = routers[j].len
        /\ routers'[Len(routers) + 1] = Inherited(c.rt)
    BY <1>6, <2>1, SubRouterEffect
  <2>3. ASSUME Shallow, NEW j \in DOMAIN routers' \ DOMAIN routers PROVE Full(j)'
    <3>1. c.rt = 1 BY <1>1, <1>2, <1>6, <2>1, <2>3, SubOfRoot
    <3>2. j = Len(routers) + 1 BY <1>3, <2>2
    <3>3. routers'[j].arr = routers[1].arr /\ routers'[j].len = routers[1].len
      BY <2>2, <3>1, <3>2 DEF Inherited
    <3>4. Cap(j)' = Cap(1) BY <2>2, <3>3, SameSlice
    <3>5. Full(1) BY <2>3 DEF FullInv
    <3> QED BY <3>3, <3>4, <3>5 DEF Full
  <2>4. DOMAIN routers \subseteq DOMAIN routers' BY <1>3, <2>2
  <2> QED BY <1>1, <2>2, <2>3, <2>4, FullNext
<1>7. CASE c.op = "Handle" /\ Made(c.rt) /\ Handle(c.rt, c.pattern, c.handler, c.to)
  <2>1. /\ heap' = heap /\ DOMAIN routers' = DOMAIN routers
        /\ \A j \in DOMAIN routers :
              routers'[j].arr = routers[j].arr /\ routers'[j].len = routers[j].len
    BY <1>7, CallFields, HandleEffect DEF Made
  <2> QED BY <1>1, <2>1, FullNext
<1> QED BY <1>2, <1>4, <1>5, <1>6, <1>7 DEF Make

-----------------------------------------------------------------------------
(* Each call of such a program is a step of ChainBook. *)

LEMMA ChainsSeq ==
    ASSUME SliceInv
    PROVE  Chains \in Seq(Seq(Slots)) /\ Len(Chains) = Len(routers)
<1>1. Len(routers) \in Nat /\ DOMAIN routers = 1 .. Len(routers)
  BY LenProperties DEF SliceInv, RouterTypeOK
<1>2. \A k \in DOMAIN routers : Chain(k) \in Seq(Slots) BY SliceTypes
<1> QED BY <1>1, <1>2 DEF Chains

\* A sequence that is longer by one element.
LEMMA IsAppend ==
    ASSUME NEW S, NEW s \in Seq(S), NEW e \in S, NEW t,
           t = [j \in 1 .. Len(s) + 1 |-> t[j]], t[Len(s) + 1] = e,
           \A j \in 1 .. Len(s) : t[j] = s[j]
    PROVE  t = Append(s, e)
<1> DEFINE u == Append(s, e)
<1>1. Len(s) \in Nat BY LenProperties
<1>2. /\ u \in Seq(S) /\ Len(u) = Len(s) + 1 /\ u[Len(s) + 1] = e
      /\ \A j \in 1 .. Len(s) : u[j] = s[j]
  BY AppendProperties
<1> HIDE DEF u
<1>3. u = [j \in 1 .. Len(s) + 1 |-> u[j]] BY <1>2, LenProperties
<1>4. ASSUME NEW j \in 1 .. Len(s) + 1 PROVE t[j] = u[j]
  <2>1. j \in 1 .. Len(s) \/ j = Len(s) + 1 BY <1>1
  <2> QED BY <1>2, <2>1
<1>5. t = u BY <1>3, <1>4
<1> QED BY <1>5 DEF u

\* The chains after a call that adds router n and leaves the slices there were.
LEMMA ChainsLonger ==
    ASSUME SliceInv, heap' = heap, NEW n, n = Len(routers) + 1, DOMAIN routers' = 1 .. n,
           \A j \in DOMAIN routers :
              routers'[j].arr = routers[j].arr /\ routers'[j].len = routers[j].len,
           Chain(n)' \in Seq(Slots)
    PROVE  Chains' = Append(Chains, Chain(n)')
<1>1. /\ Chains \in Seq(Seq(Slots)) /\ Len(Chains) = Len(routers)
      /\ Len(routers) \in Nat /\ DOMAIN routers = 1 .. Len(routers)
  BY ChainsSeq, LenProperties DEF SliceInv, RouterTypeOK
<1>2. Chains' = [j \in 1 .. n |-> Chain(j)'] BY DEF Chains
<1>3. ASSUME NEW j \in DOMAIN routers PROVE Chain(j)' = Chain(j) BY SameSlice
<1>4. \A j \in 1 .. Len(Chains) : Chains'[j] = Chains[j]
  <2>1. \A j \in 1 .. Len(routers) : Chains[j] = Chain(j) BY <1>1 DEF Chains
  <2> QED BY <1>1, <1>2, <1>3, <2>1
<1>5. Chains'[n] = Chain(n)' /\ Chains' = [j \in 1 .. n |-> Chains'[j]] BY <1>1, <1>2
<1> HIDE DEF Chains
<1> QED BY <1>1, <1>4, <1>5, IsAppend

LEMMA ChainsSame ==
    ASSUME heap' = heap, DOMAIN routers' = DOMAIN routers,
           \A j \in DOMAIN routers :
              routers'[j].arr = routers[j].arr /\ routers'[j].len = routers[j].len
    PROVE  Chains' = Chains
<1>1. ASSUME NEW j \in DOMAIN routers PROVE Chain(j)' = Chain(j) BY SameSlice
<1> QED BY <1>1 DEF Chains

\* What Use adds to a chain is what ChainBook takes from the next chain.
LEMMA AddedIs ==
    ASSUME NEW s \in Seq(Slots), NEW t \in Seq(Slots)
    PROVE  SubSeq(s \o t, Len(s) + 1, Len(s \o t)) = t
<1>1. Len(s) \in Nat /\ Len(t) \in Nat /\ Len(s \o t) = Len(s) + Len(t)
  BY LenProperties, ConcatProperties
<1>2. s \o t \in Seq(Slots)
      /\ \A i \in 1 .. Len(s) + Len(t) :
            (s \o t)[i] = IF i <= Len(s) THEN s[i] ELSE t[i - Len(s)]
  BY ConcatProperties
<1> DEFINE u == SubSeq(s \o t, Len(s) + 1, Len(s \o t))
<1>3. u = [i \in 1 .. Len(t) |-> (s \o t)[Len(s) + i]]
  BY <1>1, <1>2
<1>4. \A i \in 1 .. Len(t) : (s \o t)[Len(s) + i] = t[i]
  BY <1>1, <1>2
<1>5. t = [i \in 1 .. Len(t) |-> t[i]] BY LenProperties
<1> QED BY <1>3, <1>4, <1>5

LEMMA UseIsBooked ==
    ASSUME SliceInv, NEW k \in DOMAIN routers, NEW mws \in Seq(Middlewares), Full(k),
           Use(k, mws)
    PROVE  [Book!Next]_Chains
<1>1. CASE heap' = heap /\ routers' = routers
  BY <1>1, ChainsSame
<1>2. CASE AppendInCopy(k, mws)
  <2>1. /\ DOMAIN routers' = DOMAIN routers
        /\ \A j \in DOMAIN routers \ {k} : Chain(j)' = Chain(j)
        /\ Chain(k)' = Chain(k) \o mws
    BY <1>2, CopyEffect
  <2>2. Chain(k) \in Seq(Slots) /\ mws \in Seq(Slots) BY SliceTypes DEF Slots
  <2>3. /\ k \in DOMAIN Chains /\ k \in DOMAIN Chains'
        /\ Chains[k] = Chain(k) /\ Chains'[k] = Chain(k) \o mws
    BY <2>1 DEF Chains
  <2>4. Chains' = [Chains EXCEPT ![k] = @ \o mws] BY <2>1 DEF Chains
  <2>5. mws = SubSeq(Chains'[k], Len(Chains[k]) + 1, Len(Chains'[k]))
    BY <2>2, <2>3, AddedIs
  <2> HIDE DEF Chains
  <2>6. mws \in Book!Added(k) BY <2>3, <2>5 DEF Book!Added
  <2>7. Book!Use(k, mws) BY <2>4 DEF Book!Use
  <2> QED BY <2>3, <2>6, <2>7 DEF Book!Next, Book!Routers
<1> QED BY <1>1, <1>2, FullIsCopied

LEMMA BookStep == ASSUME SliceInv, FullInv, Shallow, Build PROVE [Book!Next]_Chains
<1>1. program' = program /\ built' = built + 1 /\ built < Len(This.calls) BY DEF Build
<1>2. PICK c \in Calls : c = This.calls[built + 1] /\ Make(c) BY BuildCall
<1>3. Len(routers) \in Nat /\ DOMAIN routers = 1 .. Len(routers)
  BY LenProperties DEF SliceInv, RouterTypeOK
<1> DEFINE n == Len(routers) + 1
<1>4. CASE c.op = "New" /\ New
  <2>1. /\ heap' = heap /\ DOMAIN routers' = 1 .. n
        /\ \A j \in DOMAIN routers : routers'[j] = routers[j]
        /\ routers'[n] = NewRouter
    BY <1>4, NewEffect
  <2> SUFFICES ASSUME NEW m, m = n PROVE Book!New
    BY DEF Book!Next
  <2>2. routers'[m].len = 0 BY <2>1 DEF NewRouter
  <2>3. Chain(m)' = << >> BY <2>2 DEF Chain
  <2>4. Chain(m)' \in Seq(Slots)
    <3>1. << >> \in Seq(Slots) OBVIOUS
    <3> QED BY <2>3, <3>1
  <2>5. Chains' = Append(Chains, Chain(m)') BY <2>1, <2>4, ChainsLonger
  <2> QED BY <2>3, <2>5 DEF Book!New
<1>5. CASE c.op = "Use" /\ Made(c.rt) /\ Use(c.rt, c.mws)
  <2>1. Full(c.rt) BY <1>1, <1>2, <1>5, UseIsFirst DEF Made
  <2> QED BY <1>5, <2>1, CallFields, UseIsBooked DEF Made
<1>6. CASE c.op = "SubRouter" /\ Made(c.rt) /\ SubRouter(c.rt, c.prefix)
  <2> DEFINE k == c.rt
  <2>1. k \in DOMAIN routers /\ c.prefix \in Seq(STRING)
    BY <1>6, CallFields DEF Made
  <2>2. /\ heap' = heap /\ DOMAIN routers' = 1 .. n
        /\ \A j \in DOMAIN routers :
              routers'[j].arr = routers[j].arr /\ routers'[j].len = routers[j].len
        /\ routers'[n] = Inherited(k)
    BY <1>6, <2>1, SubRouterEffect
  <2> SUFFICES ASSUME NEW m, m = n PROVE Book!SubRouter(k)
    BY <2>1 DEF Book!Next, Book!Routers, Chains
  <2>3. routers'[m].arr = routers[k].arr /\ routers'[m].len = routers[k].len
    BY <2>2 DEF Inherited
  <2>4. Chain(m)' = Chain(k) BY <2>2, <2>3, SameSlice
  <2>5. Chain(k) \in Seq(Slots) BY <2>1, SliceTypes
  <2>6. Chains' = Append(Chains, Chain(m)') BY <2>2, <2>4, <2>5, ChainsLonger
  <2>7. Chains[k] = Chain(k) BY <2>1 DEF Chains
  <2> QED BY <2>4, <2>6, <2>7 DEF Book!SubRouter
<1>7. CASE c.op = "Handle" /\ Made(c.rt) /\ Handle(c.rt, c.pattern, c.handler, c.to)
  <2>1. /\ heap' = heap /\ DOMAIN routers' = DOMAIN routers
        /\ \A j \in DOMAIN routers :
              routers'[j].arr = routers[j].arr /\ routers'[j].len = routers[j].len
    BY <1>7, CallFields, HandleEffect DEF Made
  <2> QED BY <2>1, ChainsSame
<1> QED BY <1>2, <1>4, <1>5, <1>6, <1>7 DEF Make

-----------------------------------------------------------------------------
ChainInv == SliceInv /\ FullInv

LEMMA ChainInit == Init => ChainInv
<1> SUFFICES ASSUME Init PROVE ChainInv
  OBVIOUS
<1>1. program \in DOMAIN Programs /\ built = 0 /\ heap = << >> /\ routers = <<NewRouter>>
  BY DEF Init, ServingInit, RouterInit
<1>2. This.calls \in Seq(Calls) BY <1>1, ProgramsAssumption DEF This
<1>3. built \in 0 .. Len(This.calls) BY <1>1, <1>2, LenProperties
<1>4. routers[1] = NewRouter /\ DOMAIN routers = {1} /\ Len(heap) = 0 BY <1>1
<1>5. NewRouter \in Slices(Len(heap)) BY <1>4 DEF NewRouter, Slices
<1>6. routers \in Seq(Slices(Len(heap))) BY <1>1, <1>5
<1>7. heap \in Seq(Seq(Slots)) BY <1>1
<1>8. Cap(1) = 0 /\ routers[1].len = 0 /\ routers[1].arr = 0
  BY <1>4 DEF Cap, NewRouter
<1>9. SliceInv
  BY <1>1, <1>3, <1>4, <1>6, <1>7, <1>8 DEF SliceInv, RouterTypeOK, Slots, Slices
<1>10. FullInv BY <1>4, <1>8 DEF FullInv, Full
<1> QED BY <1>9, <1>10 DEF ChainInv

\* Only the main goroutine, before it serves, builds routers.
LEMMA OnlyBuild == [Next]_vars => Build \/ UNCHANGED routerVars
BY DEF Next, Main, Connect, NoConnection, MissingVariable, BuildRouters, Spawn,
       SelectError, SelectSignal, ShutdownReturns, CloseDB, Exit, Listen, ServeFails,
       Signal, Finished, Accept, ServeRequest, vars, servingVars, Leave, Arrive, Serve,
       Enter, Dispatch, HandlerStep, WriteAnswer, Return, Unwind, Finish

LEMMA FullUnchanged == FullInv /\ UNCHANGED routerVars => FullInv'
<1> SUFFICES ASSUME FullInv, UNCHANGED routerVars PROVE FullInv'
  OBVIOUS
<1>1. program' = program /\ built' = built /\ heap' = heap /\ routers' = routers
  BY DEF routerVars
<1> QED BY <1>1 DEF FullInv, Shallow, OneUse, TwoLevels, UsesOn, SubsOf, Exact, This,
                    Used, Full, Cap

LEMMA ChainStep == ChainInv /\ [Next]_vars => ChainInv'
BY OnlyBuild, SliceStep, FullStep, SliceUnchanged, FullUnchanged DEF ChainInv

\* The routers, their slices and the arrays behind them keep their types.
THEOREM RouterTypes == Spec => []RouterTypeOK
<1>1. ChainInv => RouterTypeOK BY DEF ChainInv, SliceInv
<1> QED BY <1>1, ChainInit, ChainStep, PTL DEF Spec

\* A program of one exact Use for each router and of sub-routers of the root only never
\* changes the chain of a router by what it does to another one, though all slices may
\* share arrays.
THEOREM ShallowIsSafeAlways == Spec => ShallowIsSafe
<1>1. ChainInv /\ [Next]_vars => [Shallow => [Book!Next]_Chains]_routerVars
  BY OnlyBuild, BookStep DEF ChainInv
<1> QED BY <1>1, ChainInit, ChainStep, PTL DEF Spec, ShallowIsSafe
=============================================================================
