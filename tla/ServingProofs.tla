---------------------------- MODULE ServingProofs ----------------------------
(***************************************************************************)
(* Proofs about the requests that a process serves: their types, for every  *)
(* program, and what the services of the repository do with a request, for  *)
(* any number of requests and any inputs.                                   *)
(***************************************************************************)
EXTENDS ServerProofs, WellFoundedInduction

(* What the handlers of the Api answer. *)

\* What WriteHeader is ever given.
Codes ==
    {"200", "201", "204", "302", "400", "401", "404", "405", "409", "413", "500"}

Answers(h) ==
    /\ Len(h.steps) \in Nat /\ DOMAIN h.steps = 1 .. Len(h.steps)
    /\ \A i \in DOMAIN h.steps : h.steps[i] \subseteq Codes
    /\ h.ok \in Codes

\* Handlers of up to four steps.
LEMMA StepsAnswer ==
    ASSUME NEW b \in SUBSET Codes, NEW c \in SUBSET Codes, NEW d \in SUBSET Codes,
           NEW e \in SUBSET Codes, NEW panics, NEW writes, NEW ok \in Codes
    PROVE  /\ Answers(Handler(<< >>, panics, writes, ok))
           /\ Answers(Handler(<<b>>, panics, writes, ok))
           /\ Answers(Handler(<<b, c>>, panics, writes, ok))
           /\ Answers(Handler(<<b, c, d, e>>, panics, writes, ok))
BY DEF Answers, Handler

\* Two handlers may panic, both behind Auth where there is a Recover.
LEMMA HandlerTypes ==
    ASSUME NEW h \in DOMAIN Handlers
    PROVE  /\ Answers(Handlers[h])
           /\ h \in {"health", "upload", "files"} => Handlers[h].panics = {}
<1>1. /\ Bad \subseteq Codes /\ {"409", "500"} \subseteq Codes
      /\ {"404", "500"} \subseteq Codes /\ {"400", "500"} \subseteq Codes
      /\ {"404", "409", "500"} \subseteq Codes /\ {"413", "500"} \subseteq Codes
      /\ {"500"} \subseteq Codes /\ {"404"} \subseteq Codes
      /\ {"401", "404", "500"} \subseteq Codes /\ {"401", "500"} \subseteq Codes
  BY DEF Bad, Codes
<1>2. "200" \in Codes /\ "201" \in Codes /\ "204" \in Codes /\ "302" \in Codes
  BY DEF Codes
<1>3. h \in {"health", "addWord", "deleteWord", "pickWord", "deletePick", "getPicks",
             "deleteTag", "createDefinition", "attachImage", "upload", "files", "login",
             "callback", "refresh"}
  BY DEF Handlers
<1>4. h \in {"health", "upload", "files"} => Handlers[h].panics = {}
  BY DEF Handlers, Handler, HealthHandler, UploadHandler, FilesHandler
<1> HIDE DEF Codes
<1> SUFFICES Answers(Handlers[h])
  BY <1>4
<1>5. CASE h = "health" BY <1>2, <1>5, StepsAnswer DEF Handlers, HealthHandler
<1>6. CASE h = "addWord" BY <1>1, <1>2, <1>6, StepsAnswer DEF Handlers, AddWordHandler
<1>7. CASE h = "deleteWord"
  BY <1>1, <1>2, <1>7, StepsAnswer DEF Handlers, DeleteWordHandler
<1>8. CASE h = "pickWord" BY <1>1, <1>2, <1>8, StepsAnswer DEF Handlers, PickWordHandler
<1>9. CASE h = "deletePick"
  BY <1>1, <1>2, <1>9, StepsAnswer DEF Handlers, DeletePickHandler
<1>10. CASE h = "getPicks" BY <1>1, <1>2, <1>10, StepsAnswer DEF Handlers, GetPicksHandler
<1>11. CASE h = "deleteTag"
  BY <1>1, <1>2, <1>11, StepsAnswer DEF Handlers, DeleteTagHandler
<1>12. CASE h = "createDefinition"
  BY <1>1, <1>2, <1>12, StepsAnswer DEF Handlers, CreateDefinitionHandler
<1>13. CASE h = "attachImage"
  BY <1>1, <1>2, <1>13, StepsAnswer DEF Handlers, AttachImageHandler
<1>14. CASE h = "upload" BY <1>1, <1>2, <1>14, StepsAnswer DEF Handlers, UploadHandler
<1>15. CASE h = "files" BY <1>1, <1>2, <1>15, StepsAnswer DEF Handlers, FilesHandler
<1>16. CASE h = "login" BY <1>1, <1>2, <1>16, StepsAnswer DEF Handlers, LoginHandler
<1>17. CASE h = "callback"
  BY <1>1, <1>2, <1>17, StepsAnswer DEF Handlers, CallbackHandler
<1>18. CASE h = "refresh" BY <1>1, <1>2, <1>18, StepsAnswer DEF Handlers, RefreshHandler
<1> QED
  BY <1>3, <1>5, <1>6, <1>7, <1>8, <1>9, <1>10, <1>11, <1>12, <1>13, <1>14, <1>15,
     <1>16, <1>17, <1>18

-----------------------------------------------------------------------------
(* What the steps of a request do to it. *)

Noted  == Codes \cup {NoStatus}
Frames == [mw : Middlewares, saw : Noted]

\* A request, wherever it is.
Records ==
    [at : Places, in : Sent \cup {NoInput}, path : Seq(STRING),
     rt : Nat, next : Nat \ {0}, frames : Seq(Frames),
     user : STRING \cup {NoUser}, handler : DOMAIN Handlers \cup {NoHandler},
     step : Nat \ {0}, status : Noted \cup {"aborted"}, logs : Seq(Noted),
     implicit : BOOLEAN, late : BOOLEAN, panicked : BOOLEAN]

\* What no middleware, writer or handler changes.
SameWay(w, q) ==
    /\ w.in = q.in /\ w.path = q.path /\ w.rt = q.rt
    /\ w.handler = q.handler /\ w.step = q.step

LEMMA FramesSeq ==
    ASSUME NEW q \in Records
    PROVE  /\ q.frames \in Seq(Frames) /\ Len(q.frames) \in Nat
           /\ DOMAIN q.frames = 1 .. Len(q.frames)
           /\ \A i \in 1 .. Len(q.frames) : q.frames[i] \in Frames
<1>1. q.frames \in Seq(Frames) BY DEF Records
<1> QED BY <1>1, LenProperties

\* A status goes through every writer on the stack; the first one is sent.
LEMMA HeaderWritten ==
    ASSUME NEW q \in Records, NEW s \in Codes, NEW w, w = WriteHeader(q, s)
    PROVE  /\ w \in Records /\ SameWay(w, q)
           /\ w.status = IF q.status = NoStatus THEN s ELSE q.status
           /\ w.late <=> (q.late \/ q.status # NoStatus)
           /\ Len(w.frames) = Len(q.frames)
           /\ \A i \in 1 .. Len(q.frames) :
                 /\ w.frames[i].mw = q.frames[i].mw
                 /\ q.frames[i].mw = "Log" => w.frames[i].saw = s
           /\ w.at = q.at /\ w.next = q.next /\ w.user = q.user
           /\ w.logs = q.logs /\ w.implicit = q.implicit /\ w.panicked = q.panicked
<1> DEFINE fs == [i \in DOMAIN q.frames |-> Seen(q.frames[i], s)]
<1>1. s \in Noted BY DEF Noted
<1>2. ASSUME NEW i \in DOMAIN q.frames
      PROVE  /\ Seen(q.frames[i], s) \in Frames
             /\ Seen(q.frames[i], s).mw = q.frames[i].mw
             /\ q.frames[i].mw = "Log" => Seen(q.frames[i], s).saw = s
  BY <1>1, FramesSeq DEF Seen, Frames
<1>3. fs \in Seq(Frames) /\ Len(fs) = Len(q.frames) BY <1>2, FramesSeq
<1>4. \A i \in 1 .. Len(q.frames) : fs[i] = Seen(q.frames[i], s) BY FramesSeq
<1>5. w = [q EXCEPT !.status = IF q.status = NoStatus THEN s ELSE q.status,
                    !.late = q.late \/ q.status # NoStatus, !.frames = fs]
  BY DEF WriteHeader
<1> HIDE DEF fs
<1>6. w \in Records
  <2>1. (IF q.status = NoStatus THEN s ELSE q.status) \in Noted \cup {"aborted"}
    BY <1>1 DEF Records
  <2>2. (q.late \/ q.status # NoStatus) \in BOOLEAN OBVIOUS
  <2> QED BY <1>3, <1>5, <2>1, <2>2 DEF Records
<1>7. /\ w.status = IF q.status = NoStatus THEN s ELSE q.status
      /\ w.late <=> (q.late \/ q.status # NoStatus)
      /\ w.frames = fs
  BY <1>5 DEF Records
<1>8. /\ w.at = q.at /\ w.next = q.next /\ w.user = q.user /\ SameWay(w, q)
      /\ w.logs = q.logs /\ w.implicit = q.implicit /\ w.panicked = q.panicked
  BY <1>5 DEF Records, SameWay
<1> QED BY <1>2, <1>3, <1>4, <1>6, <1>7, <1>8, FramesSeq

LEMMA Rejected ==
    ASSUME NEW q \in Records, NEW s \in Codes, NEW w, w = Reject(q, s)
    PROVE  /\ w \in Records /\ SameWay(w, q)
           /\ w.status = IF q.status = NoStatus THEN s ELSE q.status
           /\ w.late <=> (q.late \/ q.status # NoStatus)
           /\ Len(w.frames) = Len(q.frames)
           /\ \A i \in 1 .. Len(q.frames) :
                 /\ w.frames[i].mw = q.frames[i].mw
                 /\ q.frames[i].mw = "Log" => w.frames[i].saw = s
           /\ w.at = "return" /\ w.next = q.next /\ w.user = q.user
           /\ w.logs = q.logs /\ w.implicit = q.implicit /\ w.panicked = q.panicked
<1> DEFINE v == WriteHeader(q, s)
<1>1. w = [v EXCEPT !.at = "return"] BY DEF Reject
<1>2. /\ v \in Records /\ SameWay(v, q)
      /\ v.status = IF q.status = NoStatus THEN s ELSE q.status
      /\ v.late <=> (q.late \/ q.status # NoStatus)
      /\ Len(v.frames) = Len(q.frames)
      /\ \A i \in 1 .. Len(q.frames) :
            /\ v.frames[i].mw = q.frames[i].mw
            /\ q.frames[i].mw = "Log" => v.frames[i].saw = s
      /\ v.next = q.next /\ v.user = q.user
      /\ v.logs = q.logs /\ v.implicit = q.implicit /\ v.panicked = q.panicked
  BY HeaderWritten
<1> HIDE DEF v
<1>3. w \in Records /\ w.at = "return" BY <1>1, <1>2 DEF Records, Places
<1>4. /\ SameWay(w, v) /\ w.next = v.next /\ w.user = v.user /\ w.frames = v.frames
      /\ w.status = v.status /\ w.late = v.late
      /\ w.logs = v.logs /\ w.implicit = v.implicit /\ w.panicked = v.panicked
  BY <1>1, <1>2 DEF Records, SameWay
<1> QED BY <1>2, <1>3, <1>4 DEF SameWay

\* A body goes out without a status that Log could see.
LEMMA BodyWritten ==
    ASSUME NEW q \in Records, NEW w, w = [WriteBody(q) EXCEPT !.at = "return"]
    PROVE  /\ w \in Records /\ SameWay(w, q)
           /\ w.status = IF q.status = NoStatus THEN "200" ELSE q.status
           /\ w.implicit <=> (q.implicit \/ q.status = NoStatus)
           /\ w.frames = q.frames
           /\ w.at = "return" /\ w.next = q.next /\ w.user = q.user
           /\ w.logs = q.logs /\ w.late = q.late /\ w.panicked = q.panicked
<1>1. w = [q EXCEPT !.status = IF q.status = NoStatus THEN "200" ELSE q.status,
                    !.implicit = q.implicit \/ q.status = NoStatus, !.at = "return"]
  BY DEF WriteBody
<1>2. (IF q.status = NoStatus THEN "200" ELSE q.status) \in Noted \cup {"aborted"}
  BY DEF Records, Noted, Codes
<1>3. (q.implicit \/ q.status = NoStatus) \in BOOLEAN /\ "return" \in Places
  BY DEF Places
<1>4. w \in Records BY <1>1, <1>2, <1>3 DEF Records
<1> QED BY <1>1, <1>4 DEF Records, SameWay

\* A middleware comes onto the stack.
LEMMA Pushed ==
    ASSUME NEW q \in Records, NEW mw \in Middlewares, NEW w, w = Push(q, mw)
    PROVE  /\ w \in Records /\ SameWay(w, q)
           /\ Len(w.frames) = Len(q.frames) + 1 /\ w.next = q.next + 1
           /\ \A i \in 1 .. Len(q.frames) : w.frames[i] = q.frames[i]
           /\ w.frames[Len(q.frames) + 1].mw = mw
           /\ w.at = q.at /\ w.user = q.user /\ w.status = q.status /\ w.late = q.late
           /\ w.logs = q.logs /\ w.implicit = q.implicit /\ w.panicked = q.panicked
<1> DEFINE frame == [mw |-> mw, saw |-> NoStatus]
           fs == Append(q.frames, frame)
<1>1. frame \in Frames /\ frame.mw = mw BY DEF Frames, Noted
<1> HIDE DEF frame
<1>2. /\ fs \in Seq(Frames) /\ Len(fs) = Len(q.frames) + 1
      /\ \A i \in 1 .. Len(q.frames) : fs[i] = q.frames[i]
      /\ fs[Len(q.frames) + 1] = frame
  BY <1>1, FramesSeq, AppendProperties
<1>3. w = [q EXCEPT !.frames = fs, !.next = q.next + 1] BY DEF Push, frame
<1> HIDE DEF fs
<1>4. q.next + 1 \in Nat \ {0} BY DEF Records
<1>5. w \in Records BY <1>2, <1>3, <1>4 DEF Records
<1>6. w.frames = fs /\ w.next = q.next + 1 BY <1>3 DEF Records
<1>7. /\ SameWay(w, q) /\ w.at = q.at /\ w.user = q.user
      /\ w.status = q.status /\ w.late = q.late
      /\ w.logs = q.logs /\ w.implicit = q.implicit /\ w.panicked = q.panicked
  BY <1>3 DEF Records, SameWay
<1> QED BY <1>1, <1>2, <1>5, <1>6, <1>7

\* The innermost one leaves it.
LEMMA PoppedIs ==
    ASSUME NEW q \in Records, q.frames # << >>, NEW w, w = Popped(q)
    PROVE  /\ w \in Records /\ SameWay(w, q)
           /\ Len(q.frames) \in Nat \ {0} /\ Len(w.frames) = Len(q.frames) - 1
           /\ \A i \in 1 .. Len(w.frames) : w.frames[i] = q.frames[i]
           /\ Last(q.frames) = q.frames[Len(q.frames)] /\ Last(q.frames) \in Frames
           /\ w.at = q.at /\ w.next = q.next /\ w.user = q.user
           /\ w.status = q.status /\ w.late = q.late
           /\ w.logs = q.logs /\ w.implicit = q.implicit /\ w.panicked = q.panicked
<1>1. Len(q.frames) \in Nat \ {0} BY FramesSeq, EmptySeq
<1>2. Last(q.frames) = q.frames[Len(q.frames)] /\ Last(q.frames) \in Frames
  BY <1>1, FramesSeq DEF Last
<1> DEFINE n == Len(q.frames)
           fs == SubSeq(q.frames, 1, n - 1)
<1>3. /\ fs \in Seq(Frames) /\ Len(fs) = n - 1
      /\ \A i \in 1 .. n - 1 : fs[i] = q.frames[i]
  <2>1. 1 \in Int /\ n - 1 \in Int /\ \A i \in 1 .. n - 1 : q.frames[i] \in Frames
    BY <1>1, FramesSeq
  <2> HIDE DEF n
  <2>2. /\ fs \in Seq(Frames)
        /\ Len(fs) = IF 1 <= n - 1 THEN (n - 1) - 1 + 1 ELSE 0
        /\ \A i \in 1 .. (n - 1) - 1 + 1 : fs[i] = q.frames[1 + i - 1]
    BY <2>1, SubSeqProperties
  <2>3. n \in Nat \ {0} BY <1>1 DEF n
  <2>4. ASSUME NEW i \in 1 .. n - 1 PROVE fs[i] = q.frames[i]
    <3>1. i \in 1 .. (n - 1) - 1 + 1 /\ 1 + i - 1 = i BY <2>3
    <3> HIDE DEF fs
    <3> QED BY <2>2, <3>1
  <2> QED BY <2>2, <2>3, <2>4
<1>4. w = [q EXCEPT !.frames = fs] BY DEF Popped, Front
<1> HIDE DEF fs
<1>5. w \in Records /\ w.frames = fs BY <1>3, <1>4 DEF Records
<1>6. /\ SameWay(w, q) /\ w.at = q.at /\ w.next = q.next /\ w.user = q.user
      /\ w.status = q.status /\ w.late = q.late
      /\ w.logs = q.logs /\ w.implicit = q.implicit /\ w.panicked = q.panicked
  BY <1>4 DEF Records, SameWay
<1> QED BY <1>1, <1>2, <1>3, <1>5, <1>6

\* A middleware has returned: the line Log writes has what its writer saw.
Left(q) ==
    [Popped(q) EXCEPT !.logs =
        IF Last(q.frames).mw = "Log" THEN Append(@, Last(q.frames).saw) ELSE @]

LEMMA Returned ==
    ASSUME NEW q \in Records, q.frames # << >>,
           NEW w, w = Left(q)
    PROVE  /\ w \in Records /\ SameWay(w, q)
           /\ Len(q.frames) \in Nat \ {0} /\ Len(w.frames) = Len(q.frames) - 1
           /\ \A i \in 1 .. Len(w.frames) : w.frames[i] = q.frames[i]
           /\ q.frames[Len(q.frames)].mw = "Log" =>
                 w.logs = Append(q.logs, q.frames[Len(q.frames)].saw)
           /\ q.frames[Len(q.frames)].mw # "Log" => w.logs = q.logs
           /\ w.at = q.at /\ w.next = q.next /\ w.user = q.user
           /\ w.status = q.status /\ w.late = q.late
           /\ w.implicit = q.implicit /\ w.panicked = q.panicked
<1> DEFINE v == Popped(q)
<1>1. /\ v \in Records /\ SameWay(v, q)
      /\ Len(q.frames) \in Nat \ {0} /\ Len(v.frames) = Len(q.frames) - 1
      /\ \A i \in 1 .. Len(v.frames) : v.frames[i] = q.frames[i]
      /\ Last(q.frames) = q.frames[Len(q.frames)] /\ Last(q.frames) \in Frames
      /\ v.at = q.at /\ v.next = q.next /\ v.user = q.user
      /\ v.status = q.status /\ v.late = q.late
      /\ v.logs = q.logs /\ v.implicit = q.implicit /\ v.panicked = q.panicked
  BY PoppedIs
<1> DEFINE f == q.frames[Len(q.frames)]
           lines == IF f.mw = "Log" THEN Append(q.logs, f.saw) ELSE q.logs
<1>2. w = [v EXCEPT !.logs = lines] BY <1>1 DEF Left
<1> HIDE DEF v
<1>3. lines \in Seq(Noted)
  <2>1. q.logs \in Seq(Noted) /\ f.saw \in Noted BY <1>1 DEF Records, Frames
  <2> HIDE DEF f
  <2> QED BY <2>1, AppendProperties
<1> HIDE DEF lines
<1>4. w \in Records /\ w.logs = lines BY <1>1, <1>2, <1>3 DEF Records
<1>5. /\ SameWay(w, v) /\ w.at = v.at /\ w.next = v.next /\ w.user = v.user
      /\ w.frames = v.frames /\ w.status = v.status /\ w.late = v.late
      /\ w.implicit = v.implicit /\ w.panicked = v.panicked
  BY <1>1, <1>2 DEF Records, SameWay
<1> QED BY <1>1, <1>4, <1>5 DEF SameWay, lines

-----------------------------------------------------------------------------
(* The mux: of the patterns that match, one is as specific as any. *)

LEMMA LeastNat ==
    ASSUME NEW T \in SUBSET Nat, T # {}
    PROVE  \E n \in T : \A m \in T : ~(m < n)
<1>1. \E n \in T : \A m \in T : ~ (<<m, n>> \in OpToRel(<, Nat))
  BY WFMin, NatLessThanWellFounded
<1> QED BY <1>1 DEF OpToRel

LEMMA MostSpecific ==
    ASSUME NEW path \in Seq(STRING), NEW Y \in SUBSET Routes, Y # {},
           \A y \in Y : Matches(y, path)
    PROVE  \E x \in Y : \A y \in Y : ~MoreSpecific(y, x)
<1> DEFINE Slash(y) == IF y.tree THEN 1 ELSE 0
           Short(y) == 2 * (Len(path) - Len(y.segs)) + Slash(y)
<1>1. Len(path) \in Nat BY LenProperties
<1>2. ASSUME NEW y \in Y
      PROVE  /\ Len(y.segs) \in Nat /\ Len(y.segs) <= Len(path)
             /\ Slash(y) \in {0, 1} /\ (Slash(y) = 1 <=> y.tree)
  <2>1. y.segs \in Seq(STRING) BY DEF Routes
  <2>2. Len(y.segs) \in Nat BY <2>1, LenProperties
  <2>3. Len(y.segs) <= Len(path) BY <1>1, <2>2 DEF Matches
  <2>4. Slash(y) \in {0, 1} /\ (Slash(y) = 1 <=> y.tree) OBVIOUS
  <2> QED BY <2>2, <2>3, <2>4
<1> HIDE DEF Slash
<1>3. ASSUME NEW y \in Y PROVE Short(y) \in Nat
  <2>1. Len(path) - Len(y.segs) \in Nat /\ Slash(y) \in Nat BY <1>1, <1>2
  <2> QED BY <2>1
<1>4. ASSUME NEW x \in Y, NEW y \in Y, MoreSpecific(y, x) PROVE Short(y) < Short(x)
  <2>1. \/ Len(y.segs) > Len(x.segs)
        \/ Len(y.segs) = Len(x.segs) /\ Slash(x) = 1 /\ Slash(y) # 1
    BY <1>2, <1>4 DEF MoreSpecific
  <2>2. /\ Len(x.segs) \in Nat /\ Len(y.segs) \in Nat
        /\ Slash(x) \in {0, 1} /\ Slash(y) \in {0, 1}
    BY <1>2
  <2> QED BY <1>1, <2>1, <2>2
<1> HIDE DEF Short
<1> DEFINE T == {Short(y) : y \in Y}
<1>5. T \in SUBSET Nat /\ T # {} BY <1>3
<1>6. PICK n \in T : \A m \in T : ~(m < n) BY <1>5, LeastNat
<1>7. PICK x \in Y : n = Short(x) BY <1>6
<1> QED BY <1>4, <1>6, <1>7

LEMMA RouteFound ==
    ASSUME SliceInv, NEW k \in DOMAIN routers, NEW path \in Seq(STRING), NEW method,
           Allowed(k, path, method) # {}
    PROVE  Route(k, path, method) \in routers[k].routes
<1> DEFINE Y == Allowed(k, path, method)
<1>1. routers[k].routes \in SUBSET Routes BY SliceTypes DEF Slices
<1>2. /\ Y \subseteq routers[k].routes /\ Y \in SUBSET Routes
      /\ \A y \in Y : Matches(y, path)
  BY <1>1 DEF Allowed, OnPath
<1> HIDE DEF Y
<1>3. \E x \in Y : \A y \in Y : ~MoreSpecific(y, x) BY <1>2, MostSpecific DEF Y
<1>4. Route(k, path, method) = CHOOSE x \in Y : \A y \in Y : ~MoreSpecific(y, x)
  BY DEF Route, Y
<1> QED BY <1>2, <1>3, <1>4

-----------------------------------------------------------------------------
(* Slices hold middleware, and routes lead somewhere. *)

\* No slot of an array that was never written is within a slice.
SlicesHold ==
    \A k \in DOMAIN routers : \A i \in 1 .. routers[k].len : Chain(k)[i] \in Middlewares

\* A route leads to a handler of the Api or to a router there is.
RoutesLead ==
    \A k \in DOMAIN routers : \A route \in routers[k].routes :
        IF route.rt = 0 THEN route.handler \in DOMAIN Handlers
        ELSE route.rt \in DOMAIN routers

LEMMA WithRouteIs ==
    ASSUME SliceInv, NEW k \in DOMAIN routers, NEW route, NEW j \in DOMAIN routers
    PROVE  \A x \in WithRoute(k, route)[j].routes :
              x \in routers[j].routes \/ (j = k /\ x = route)
<1>1. routers[j] \in Slices(Len(heap)) BY SliceTypes
<1>2. CASE j = k
  <2>1. WithRoute(k, route)[j] =
           [routers[j] EXCEPT !.routes = routers[j].routes \cup {route}]
    BY <1>2 DEF WithRoute
  <2> QED BY <1>1, <1>2, <2>1 DEF Slices
<1>3. CASE j # k
  <2>1. WithRoute(k, route)[j] = routers[j] BY <1>3 DEF WithRoute
  <2> QED BY <2>1
<1> QED BY <1>2, <1>3

LEMMA UseRoutes ==
    ASSUME SliceInv, NEW k \in DOMAIN routers, NEW mws \in Seq(Middlewares), Use(k, mws)
    PROVE  /\ DOMAIN routers' = DOMAIN routers
           /\ \A j \in DOMAIN routers : routers'[j].routes = routers[j].routes
<1>1. PICK a, n : routers' = [routers EXCEPT ![k] = [routers[k] EXCEPT !.arr = a, !.len = n]]
  <2>1. routers[k] \in Slices(Len(heap)) BY SliceTypes
  <2>2. CASE AppendInPlace(k, mws)
    <3>1. [routers[k] EXCEPT !.len = routers[k].len + Len(mws)]
             = [routers[k] EXCEPT !.arr = routers[k].arr,
                                  !.len = routers[k].len + Len(mws)]
      BY <2>1 DEF Slices
    <3>2. routers' = [routers EXCEPT ![k] =
                         [routers[k] EXCEPT !.len = routers[k].len + Len(mws)]]
      BY <2>2 DEF AppendInPlace
    <3> QED BY <3>1, <3>2
  <2>3. CASE AppendInCopy(k, mws) BY <2>3 DEF AppendInCopy
  <2> QED BY <2>2, <2>3 DEF Use
<1>2. ASSUME NEW j \in DOMAIN routers PROVE routers'[j].routes = routers[j].routes
  <2>1. routers[j] \in Slices(Len(heap)) BY SliceTypes
  <2> QED BY <1>1, <2>1 DEF Slices
<1> QED BY <1>1, <1>2

LEMMA HandleRoutes ==
    ASSUME SliceInv, NEW k \in DOMAIN routers, NEW pattern, NEW h, NEW to,
           Handle(k, pattern, h, to)
    PROVE  /\ DOMAIN routers' = DOMAIN routers
           /\ \A j \in DOMAIN routers : \A x \in routers'[j].routes :
                 x \in routers[j].routes \/ (j = k /\ x.rt = to /\ x.handler = h)
<1>1. routers' = WithRoute(k, RouteTo(pattern, h, to, 0))
  BY DEF Handle, AddRoute, WithRoute
<1>2. DOMAIN routers' = DOMAIN routers BY <1>1 DEF WithRoute
<1>3. RouteTo(pattern, h, to, 0).rt = to /\ RouteTo(pattern, h, to, 0).handler = h
  BY DEF RouteTo
<1> QED BY <1>1, <1>2, <1>3, WithRouteIs

LEMMA SubRouterRoutes ==
    ASSUME SliceInv, NEW k \in DOMAIN routers, NEW prefix \in Seq(STRING),
           SubRouter(k, prefix)
    PROVE  \A j \in DOMAIN routers' : \A x \in routers'[j].routes :
              \/ j \in DOMAIN routers /\ x \in routers[j].routes
              \/ j = k /\ x.rt = Len(routers) + 1
<1> DEFINE route == RouteTo([segs |-> prefix, tree |-> TRUE, method |-> ""],
                            NoHandler, Len(routers) + 1, Len(prefix))
           after == WithRoute(k, route)
<1>1. route.rt = Len(routers) + 1 BY DEF RouteTo
<1>2. Len(routers) \in Nat /\ DOMAIN routers = 1 .. Len(routers) BY SliceTypes
<1> HIDE DEF route
<1>3. routers' = Append(after, Inherited(k)) BY DEF SubRouter, WithRoute, route
<1>4. Len(after) = Len(routers)
  <2>1. DOMAIN after = DOMAIN routers BY DEF WithRoute
  <2>2. after = [j \in 1 .. Len(routers) |-> after[j]] BY <1>2 DEF WithRoute
  <2> HIDE DEF after
  <2> QED BY <1>2, <2>1, <2>2
<1>5. /\ DOMAIN routers' = 1 .. Len(routers) + 1
      /\ routers'[Len(routers) + 1] = Inherited(k)
  BY SubRouterEffect
<1>6. \A j \in DOMAIN routers : routers'[j] = after[j]
  <2>1. \A j \in 1 .. Len(after) : Append(after, Inherited(k))[j] = after[j]
    <3>1. after = [j \in 1 .. Len(routers) |-> after[j]] BY <1>2 DEF WithRoute
    <3> HIDE DEF after
    <3> QED BY <1>2, <1>4, <3>1
  <2> HIDE DEF after
  <2> QED BY <1>2, <1>3, <1>4, <2>1
<1> SUFFICES ASSUME NEW j \in DOMAIN routers', NEW x \in routers'[j].routes
             PROVE  \/ j \in DOMAIN routers /\ x \in routers[j].routes
                    \/ j = k /\ x.rt = Len(routers) + 1
  OBVIOUS
<1>7. CASE j \in DOMAIN routers
  <2>1. x \in after[j].routes BY <1>6, <1>7
  <2> QED BY <1>1, <1>7, <2>1, WithRouteIs
<1>8. CASE j \notin DOMAIN routers
  <2>1. j = Len(routers) + 1 BY <1>2, <1>5, <1>8
  <2> QED BY <1>5, <2>1 DEF Inherited
<1> QED BY <1>7, <1>8

\* Written over what other slices see, an array still holds middleware.
LEMMA InPlaceHolds ==
    ASSUME SliceInv, SlicesHold, NEW k \in DOMAIN routers,
           NEW mws \in Seq(Middlewares), HasRoom(k, Len(mws)), AppendInPlace(k, mws),
           NEW j \in DOMAIN routers, NEW i \in 1 .. routers'[j].len
    PROVE  heap'[routers'[j].arr][i] \in Middlewares
<1> DEFINE a == routers[k].arr
<1>1. /\ Len(mws) \in Nat /\ \A x \in 1 .. Len(mws) : mws[x] \in Middlewares
  BY LenProperties
<1>2. /\ routers[k].len \in Nat /\ Cap(k) \in Nat /\ a \in 0 .. Len(heap)
      /\ routers[k].len + Len(mws) <= Cap(k)
      /\ Len(heap) \in Nat /\ DOMAIN heap = 1 .. Len(heap)
      /\ a # 0 => heap[a] \in Seq(Slots)
  BY SliceTypes DEF Slices, HasRoom
<1>3. routers[j].arr \in 0 .. Len(heap) /\ routers[j].len \in 0 .. Cap(j)
  BY SliceTypes DEF Slices
<1>4. /\ routers'[j].arr = routers[j].arr /\ routers'[k].len = routers[k].len + Len(mws)
      /\ j # k => routers'[j].len = routers[j].len
  BY InPlaceTypes
<1>5. \A x \in 1 .. routers[j].len : heap[routers[j].arr][x] \in Middlewares
  BY <1>3 DEF SlicesHold, Chain
<1>6. heap' = [heap EXCEPT ![a] = Written(heap[a], routers[k].len, mws)]
  BY DEF AppendInPlace
<1>7. CASE routers[j].arr # a \/ a = 0
  <2>1. heap'[routers[j].arr] = heap[routers[j].arr] BY <1>2, <1>6, <1>7
  <2>2. i \in 1 .. routers[j].len
    <3>1. CASE a = 0 /\ j = k
      <4>1. Cap(k) = 0 BY <3>1 DEF Cap
      <4> QED BY <1>1, <1>2, <1>4, <3>1, <4>1
    <3>2. CASE j # k BY <1>4, <3>2
    <3> QED BY <1>7, <3>1, <3>2
  <2> QED BY <1>4, <1>5, <2>1, <2>2
<1>8. CASE routers[j].arr = a /\ a # 0
  <2> DEFINE old == heap[a]
  <2>1. old \in Seq(Slots) /\ Cap(k) = Len(old) /\ Cap(j) = Len(old)
    BY <1>2, <1>8 DEF Cap
  <2>2. heap'[a] = Written(old, routers[k].len, mws)
    BY <1>2, <1>6, <1>8
  <2>3. i \in 1 .. Len(old)
    <3>1. CASE j = k BY <1>2, <1>4, <2>1, <3>1
    <3>2. CASE j # k BY <1>2, <1>3, <1>4, <2>1, <3>2
    <3> QED BY <3>1, <3>2
  <2>4. heap'[a][i] = IF i \in routers[k].len + 1 .. routers[k].len + Len(mws)
                      THEN mws[i - routers[k].len] ELSE old[i]
    <3> HIDE DEF old
    <3>1. routers[k].len \in Nat BY <1>2
    <3>2. Written(old, routers[k].len, mws)[i] =
             IF i \in routers[k].len + 1 .. routers[k].len + Len(mws)
             THEN mws[i - routers[k].len] ELSE old[i]
      BY <2>1, <2>3, <3>1, WrittenType
    <3> QED BY <2>2, <3>2
  <2>5. CASE i \in routers[k].len + 1 .. routers[k].len + Len(mws)
    <3>1. i - routers[k].len \in 1 .. Len(mws) BY <1>1, <1>2, <2>5
    <3> QED BY <1>1, <1>4, <1>8, <2>4, <2>5, <3>1
  <2>6. CASE i \notin routers[k].len + 1 .. routers[k].len + Len(mws)
    <3>1. i \in 1 .. routers[j].len
      <4>1. CASE j = k BY <1>1, <1>2, <1>4, <2>6, <4>1
      <4>2. CASE j # k BY <1>4, <4>2
      <4> QED BY <4>1, <4>2
    <3> QED BY <1>4, <1>5, <1>8, <2>4, <2>6, <3>1
  <2> QED BY <2>5, <2>6
<1> QED BY <1>7, <1>8

LEMMA UseHolds ==
    ASSUME SliceInv, SlicesHold, NEW k \in DOMAIN routers,
           NEW mws \in Seq(Middlewares), Use(k, mws)
    PROVE  SlicesHold'
<1> SUFFICES ASSUME NEW j \in DOMAIN routers', NEW i \in 1 .. routers'[j].len
             PROVE  Chain(j)'[i] \in Middlewares
  BY DEF SlicesHold
<1>1. j \in DOMAIN routers BY UseRoutes
<1>2. CASE HasRoom(k, Len(mws)) /\ AppendInPlace(k, mws)
  <2>1. heap'[routers'[j].arr][i] \in Middlewares BY <1>1, <1>2, InPlaceHolds
  <2> QED BY <2>1 DEF Chain
<1>3. CASE AppendInCopy(k, mws)
  <2>1. /\ routers'[k].len = routers[k].len + Len(mws)
        /\ Chain(k)' = Chain(k) \o mws
        /\ j # k => routers'[j] = routers[j] /\ Chain(j)' = Chain(j)
    BY <1>1, <1>3, CopyEffect
  <2>2. CASE j # k BY <1>1, <2>1, <2>2 DEF SlicesHold
  <2>3. CASE j = k
    <3>1. /\ Chain(k) \in Seq(Slots) /\ Len(Chain(k)) = routers[k].len
          /\ mws \in Seq(Slots) /\ routers[k].len \in Nat /\ Len(mws) \in Nat
          /\ \A x \in 1 .. Len(mws) : mws[x] \in Middlewares
      <4>1. mws \in Seq(Slots) BY DEF Slots
      <4> QED BY <4>1, SliceTypes, LenProperties DEF Slices
    <3>2. (Chain(k) \o mws)[i] =
             IF i <= routers[k].len THEN Chain(k)[i] ELSE mws[i - routers[k].len]
      BY <2>1, <2>3, <3>1, ConcatProperties
    <3>3. CASE i <= routers[k].len
      <4>1. i \in 1 .. routers[k].len BY <2>3, <3>1, <3>3
      <4> QED BY <2>1, <2>3, <3>2, <3>3, <4>1 DEF SlicesHold
    <3>4. CASE ~(i <= routers[k].len)
      <4>1. i - routers[k].len \in 1 .. Len(mws) BY <2>1, <2>3, <3>1, <3>4
      <4> QED BY <2>1, <2>3, <3>1, <3>2, <3>4, <4>1
    <3> QED BY <3>3, <3>4
  <2> QED BY <2>2, <2>3
<1> QED BY <1>2, <1>3 DEF Use

\* The call of Handle leads to a handler or to a router that is made.
LEMMA HandleLeads ==
    ASSUME SliceInv, built < Len(This.calls), NEW c, c = This.calls[built + 1],
           c.op = "Handle", Given(c.to)
    PROVE  IF c.to = 0 THEN c.handler \in DOMAIN Handlers ELSE c.to \in DOMAIN routers
<1>1. program \in DOMAIN Programs BY DEF SliceInv, RouterTypeOK
<1>2. built + 1 \in DOMAIN This.calls BY CallTypes
<1> QED BY <1>1, <1>2, HandlersAssumption DEF This, Given, Made

RouteInv == SlicesHold /\ RoutesLead

LEMMA RouteInvStep ==
    ASSUME SliceInv, RouteInv, Build
    PROVE  RouteInv' /\ DOMAIN routers \subseteq DOMAIN routers'
<1>1. built < Len(This.calls) BY DEF Build
<1>2. PICK c \in Calls : c = This.calls[built + 1] /\ Make(c) BY BuildCall
<1>3. Len(routers) \in Nat /\ DOMAIN routers = 1 .. Len(routers)
  BY LenProperties DEF SliceInv, RouterTypeOK
<1>4. CASE c.op = "New" /\ New
  <2>1. /\ heap' = heap /\ DOMAIN routers' = 1 .. Len(routers) + 1
        /\ \A j \in DOMAIN routers : routers'[j] = routers[j]
        /\ routers'[Len(routers) + 1] = NewRouter
    BY <1>4, NewEffect
  <2>2. DOMAIN routers \subseteq DOMAIN routers' BY <1>3, <2>1
  <2>3. \A j \in DOMAIN routers' : j \in DOMAIN routers \/ j = Len(routers) + 1
    BY <1>3, <2>1
  <2>4. SlicesHold'
    <3>1. ASSUME NEW j \in DOMAIN routers PROVE Chain(j)' = Chain(j)
      BY <2>1, SameSlice
    <3> QED BY <2>1, <2>3, <3>1 DEF RouteInv, SlicesHold, NewRouter
  <2>5. RoutesLead'
    BY <2>1, <2>2, <2>3 DEF RouteInv, RoutesLead, NewRouter
  <2> QED BY <2>2, <2>4, <2>5 DEF RouteInv
<1>5. CASE c.op = "Use" /\ Made(c.rt) /\ Use(c.rt, c.mws)
  <2>1. c.rt \in DOMAIN routers /\ c.mws \in Seq(Middlewares)
    BY <1>5, CallFields DEF Made
  <2>2. SlicesHold' BY <1>5, <2>1, UseHolds DEF RouteInv
  <2>3. /\ DOMAIN routers' = DOMAIN routers
        /\ \A j \in DOMAIN routers : routers'[j].routes = routers[j].routes
    BY <1>5, <2>1, UseRoutes
  <2>4. RoutesLead' BY <2>3 DEF RouteInv, RoutesLead
  <2> QED BY <2>2, <2>3, <2>4 DEF RouteInv
<1>6. CASE c.op = "SubRouter" /\ Made(c.rt) /\ SubRouter(c.rt, c.prefix)
  <2>1. c.rt \in DOMAIN routers /\ c.prefix \in Seq(STRING)
    BY <1>6, CallFields DEF Made
  <2>2. /\ heap' = heap /\ DOMAIN routers' = 1 .. Len(routers) + 1
        /\ \A j \in DOMAIN routers :
              routers'[j].arr = routers[j].arr /\ routers'[j].len = routers[j].len
        /\ routers'[Len(routers) + 1] = Inherited(c.rt)
    BY <1>6, <2>1, SubRouterEffect
  <2>3. \A j \in DOMAIN routers' : j \in DOMAIN routers \/ j = Len(routers) + 1
    BY <1>3, <2>2
  <2>4. SlicesHold'
    <3>1. ASSUME NEW j \in DOMAIN routers PROVE Chain(j)' = Chain(j)
      BY <2>2, SameSlice
    <3>2. \A n : n = Len(routers) + 1 =>
             routers'[n].arr = routers[c.rt].arr /\ routers'[n].len = routers[c.rt].len
      BY <2>2 DEF Inherited
    <3>3. \A n : n = Len(routers) + 1 => Chain(n)' = Chain(c.rt)
      BY <2>2, <3>2, SameSlice
    <3>4. ASSUME NEW j \in DOMAIN routers', NEW i \in 1 .. routers'[j].len
          PROVE  Chain(j)'[i] \in Middlewares
      <4>1. CASE j \in DOMAIN routers BY <2>2, <3>1, <4>1 DEF RouteInv, SlicesHold
      <4>2. CASE j = Len(routers) + 1
        BY <2>1, <3>2, <3>3, <4>2 DEF RouteInv, SlicesHold
      <4> QED BY <2>3, <4>1, <4>2
    <3> QED BY <3>4 DEF SlicesHold
  <2>5. RoutesLead'
    <3>1. \A j \in DOMAIN routers' : \A x \in routers'[j].routes :
             \/ j \in DOMAIN routers /\ x \in routers[j].routes
             \/ j = c.rt /\ x.rt = Len(routers) + 1
      BY <1>6, <2>1, SubRouterRoutes
    <3>2. Len(routers) + 1 \in DOMAIN routers' /\ Len(routers) + 1 # 0
          /\ DOMAIN routers \subseteq DOMAIN routers'
      BY <1>3, <2>2
    <3> QED BY <3>1, <3>2 DEF RouteInv, RoutesLead
  <2> QED BY <1>3, <2>2, <2>4, <2>5 DEF RouteInv
<1>7. CASE /\ c.op = "Handle" /\ Made(c.rt) /\ Given(c.to)
           /\ Handle(c.rt, c.pattern, c.handler, c.to)
  <2>1. c.rt \in DOMAIN routers BY <1>7 DEF Made
  <2>2. /\ heap' = heap /\ DOMAIN routers' = DOMAIN routers
        /\ \A j \in DOMAIN routers :
              routers'[j].arr = routers[j].arr /\ routers'[j].len = routers[j].len
    BY <1>7, <2>1, CallFields, HandleEffect
  <2>3. SlicesHold'
    <3>1. ASSUME NEW j \in DOMAIN routers PROVE Chain(j)' = Chain(j)
      BY <2>2, SameSlice
    <3> QED BY <2>2, <3>1 DEF RouteInv, SlicesHold
  <2>4. RoutesLead'
    <3>1. IF c.to = 0 THEN c.handler \in DOMAIN Handlers ELSE c.to \in DOMAIN routers
      BY <1>1, <1>2, <1>7, HandleLeads
    <3>2. \A j \in DOMAIN routers : \A x \in routers'[j].routes :
             x \in routers[j].routes \/ (j = c.rt /\ x.rt = c.to /\ x.handler = c.handler)
      BY <1>7, <2>1, HandleRoutes
    <3> QED BY <2>2, <3>1, <3>2 DEF RouteInv, RoutesLead
  <2> QED BY <2>2, <2>3, <2>4 DEF RouteInv
<1> QED BY <1>2, <1>4, <1>5, <1>6, <1>7 DEF Make

LEMMA RouteInvUnchanged == RouteInv /\ UNCHANGED routerVars => RouteInv'
BY DEF RouteInv, SlicesHold, RoutesLead, Chain, routerVars

-----------------------------------------------------------------------------
(* The types of requests, which need the slices and the routes. *)

ReqInv ==
    /\ req \in [Reqs -> Records]
    /\ \A r \in Reqs : /\ req[r].rt \in DOMAIN routers
                       /\ req[r].at = "handler" => req[r].handler \in DOMAIN Handlers

LEMMA UserTypes ==
    ASSUME NEW q \in Records
    PROVE  UserOf(q.in.token) \in STRING \cup {NoUser}
<1>1. q.in \in Sent \cup {NoInput} BY DEF Records
<1>2. CASE q.in \in Sent
  <2>1. q.in.token \in Tokens BY <1>2 DEF Sent
  <2>2. q.in.token.sub \in STRING BY <2>1 DEF Tokens
  <2> QED BY <2>2 DEF UserOf
<1>3. CASE q.in = NoInput
  <2>1. NoInput.token.sub = NoUser BY DEF NoInput, NoUser
  <2> QED BY <1>3, <2>1 DEF UserOf
<1> QED BY <1>1, <1>2, <1>3

\* Auth lets the request pass.
Known(q, user) == [q EXCEPT !.user = user]

LEMMA Authorized ==
    ASSUME NEW q \in Records, NEW mw \in Middlewares, NEW user \in STRING \cup {NoUser},
           NEW w, w = Known(Push(q, mw), user)
    PROVE  /\ w \in Records /\ SameWay(w, q) /\ w.user = user
           /\ Len(w.frames) = Len(q.frames) + 1 /\ w.next = q.next + 1
           /\ \A i \in 1 .. Len(q.frames) : w.frames[i] = q.frames[i]
           /\ w.frames[Len(q.frames) + 1].mw = mw
           /\ w.at = q.at /\ w.status = q.status /\ w.late = q.late
           /\ w.logs = q.logs /\ w.implicit = q.implicit /\ w.panicked = q.panicked
<1> DEFINE v == Push(q, mw)
<1>1. /\ v \in Records /\ SameWay(v, q)
      /\ Len(v.frames) = Len(q.frames) + 1 /\ v.next = q.next + 1
      /\ \A i \in 1 .. Len(q.frames) : v.frames[i] = q.frames[i]
      /\ v.frames[Len(q.frames) + 1].mw = mw
      /\ v.at = q.at /\ v.status = q.status /\ v.late = q.late
      /\ v.logs = q.logs /\ v.implicit = q.implicit /\ v.panicked = q.panicked
  BY Pushed
<1>2. w = [v EXCEPT !.user = user] BY DEF Known
<1> HIDE DEF v
<1>3. w \in Records /\ w.user = user BY <1>1, <1>2 DEF Records
<1>4. /\ SameWay(w, v) /\ w.frames = v.frames /\ w.next = v.next
      /\ w.at = v.at /\ w.status = v.status /\ w.late = v.late
      /\ w.logs = v.logs /\ w.implicit = v.implicit /\ w.panicked = v.panicked
  BY <1>1, <1>2 DEF Records, SameWay
<1> QED BY <1>1, <1>3, <1>4 DEF SameWay

\* The mux leads to a handler, or to a router whose middleware comes first.
LEMMA Followed ==
    ASSUME NEW q \in Records, NEW route \in Routes, NEW w, w = Follow(q, route),
           route.rt = 0 => route.handler \in DOMAIN Handlers
    PROVE  /\ w \in Records
           /\ w.in = q.in /\ w.frames = q.frames /\ w.user = q.user
           /\ w.status = q.status /\ w.logs = q.logs
           /\ w.implicit = q.implicit /\ w.late = q.late /\ w.panicked = q.panicked
           /\ route.rt = 0 => w.at = "handler" /\ w.handler = route.handler /\ w.rt = q.rt
           /\ route.rt # 0 => /\ w.at = q.at /\ w.rt = route.rt /\ w.next = 1
                              /\ w.handler = q.handler
<1>1. CASE route.rt = 0
  <2>1. w = [q EXCEPT !.at = "handler", !.handler = route.handler] BY <1>1 DEF Follow
  <2>2. "handler" \in Places BY DEF Places
  <2> HIDE DEF Handlers
  <2>3. w \in Records BY <1>1, <2>1, <2>2 DEF Records
  <2> QED BY <1>1, <2>1, <2>3 DEF Records
<1>2. CASE route.rt # 0
  <2> DEFINE path == SubSeq(q.path, route.strip + 1, Len(q.path))
  <2>1. path \in Seq(STRING)
    <3>1. q.path \in Seq(STRING) /\ route.strip \in Nat BY DEF Records, Routes
    <3>2. Len(q.path) \in Nat BY <3>1, LenProperties
    <3>3. \A i \in route.strip + 1 .. Len(q.path) : q.path[i] \in STRING
      BY <3>1, <3>2
    <3>4. route.strip + 1 \in Int /\ Len(q.path) \in Int BY <3>1, <3>2
    <3> QED BY <3>3, <3>4, SubSeqProperties
  <2>2. w = [q EXCEPT !.rt = route.rt, !.next = 1, !.path = path] BY <1>2 DEF Follow
  <2> HIDE DEF path
  <2>3. route.rt \in Nat /\ 1 \in Nat \ {0} BY DEF Routes
  <2>4. w \in Records
    <3> DEFINE v == [q EXCEPT !.rt = route.rt, !.next = 1]
    <3>1. v \in Records BY <2>3 DEF Records
    <3>2. w = [v EXCEPT !.path = path] BY <2>2
    <3> HIDE DEF v
    <3> QED BY <2>1, <3>1, <3>2 DEF Records
  <2> QED BY <1>2, <2>2, <2>4 DEF Records
<1> QED BY <1>1, <1>2

\* What the handler's next step is, and whether it panics.
LEMMA Stepped ==
    ASSUME NEW q \in Records
    PROVE  /\ [q EXCEPT !.step = @ + 1] \in Records
           /\ [q EXCEPT !.at = "panic", !.panicked = TRUE] \in Records
           /\ [q EXCEPT !.at = "done", !.status = IF q.at = "panic" THEN "aborted" ELSE @]
                 \in Records
<1>1. "panic" \in Places /\ "done" \in Places BY DEF Places
<1>2. q.step + 1 \in Nat \ {0} BY DEF Records
<1>3. (IF q.at = "panic" THEN "aborted" ELSE q.status) \in Noted \cup {"aborted"}
  BY DEF Records
<1> QED BY <1>1, <1>2, <1>3 DEF Records

LEMMA ArrivedRecord ==
    ASSUME NEW in \in Sent, NEW w,
           w = [at |-> "chain", in |-> in, path |-> in.path, rt |-> 1, next |-> 1,
                frames |-> << >>, user |-> NoUser, handler |-> NoHandler, step |-> 1,
                status |-> NoStatus, logs |-> << >>,
                implicit |-> FALSE, late |-> FALSE, panicked |-> FALSE]
    PROVE  /\ w \in Records /\ w.at = "chain" /\ w.in = in /\ w.rt = 1 /\ w.next = 1
           /\ w.frames = << >> /\ w.user = NoUser /\ w.handler = NoHandler
           /\ w.status = NoStatus /\ w.logs = << >>
           /\ ~w.implicit /\ ~w.late /\ ~w.panicked
<1>1. in.path \in Seq(STRING) BY DEF Sent
<1>2. "chain" \in Places BY DEF Places
<1>3. /\ << >> \in Seq(Frames) /\ << >> \in Seq(Noted)
      /\ NoStatus \in Noted \cup {"aborted"} /\ 1 \in Nat \ {0} /\ 1 \in Nat
      /\ NoUser \in STRING \cup {NoUser} /\ FALSE \in BOOLEAN
      /\ NoHandler \in DOMAIN Handlers \cup {NoHandler}
  BY DEF Noted
<1>4. w \in Records BY <1>1, <1>2, <1>3 DEF Records
<1>5. /\ w.at = "chain" /\ w.in = in /\ w.rt = 1 /\ w.next = 1
      /\ w.frames = << >> /\ w.user = NoUser /\ w.handler = NoHandler
      /\ w.status = NoStatus /\ w.logs = << >>
  OBVIOUS
<1>6. ~w.implicit /\ ~w.late /\ ~w.panicked OBVIOUS
<1> QED BY <1>4, <1>5, <1>6

LEMMA Arrived ==
    ASSUME NEW in \in Sent, NEW w,
           w = [IdleReq EXCEPT !.at = "chain", !.in = in, !.path = in.path]
    PROVE  /\ w \in Records /\ w.at = "chain" /\ w.in = in /\ w.rt = 1 /\ w.next = 1
           /\ w.frames = << >> /\ w.user = NoUser /\ w.handler = NoHandler
           /\ w.status = NoStatus /\ w.logs = << >>
           /\ ~w.implicit /\ ~w.late /\ ~w.panicked
<1>1. w = [at |-> "chain", in |-> in, path |-> in.path, rt |-> 1, next |-> 1,
           frames |-> << >>, user |-> NoUser, handler |-> NoHandler, step |-> 1,
           status |-> NoStatus, logs |-> << >>,
           implicit |-> FALSE, late |-> FALSE, panicked |-> FALSE]
  BY DEF IdleReq
<1> QED BY ONLY <1>1, ArrivedRecord, in \in Sent, Zenon

-----------------------------------------------------------------------------
TypeInv == SliceInv /\ RouteInv /\ ReqInv

\* A request that goes on leaves ReqInv as it is.
LEMMA ReqNext ==
    ASSUME ReqInv, NEW r \in Reqs, NEW w \in Records, w.rt \in DOMAIN routers,
           w.at = "handler" => w.handler \in DOMAIN Handlers,
           req' = [req EXCEPT ![r] = w], routers' = routers
    PROVE  ReqInv'
<1>1. req' \in [Reqs -> Records] BY DEF ReqInv
<1>2. ASSUME NEW x \in Reqs
      PROVE  /\ req'[x].rt \in DOMAIN routers
             /\ req'[x].at = "handler" => req'[x].handler \in DOMAIN Handlers
  <2>1. CASE x = r
    <3>1. req'[x] = w BY <2>1 DEF ReqInv
    <3> QED BY <3>1
  <2>2. CASE x # r
    <3>1. req'[x] = req[x] BY <2>2 DEF ReqInv
    <3> QED BY <3>1 DEF ReqInv
  <2> QED BY <2>1, <2>2
<1> QED BY <1>1, <1>2 DEF ReqInv

\* The middleware that comes next is one.
LEMMA NextMiddleware ==
    ASSUME TypeInv, NEW k \in DOMAIN routers, NEW n \in Nat \ {0}, n <= routers[k].len
    PROVE  Chain(k)[n] \in Middlewares
<1>1. routers[k].len \in Nat BY SliceTypes DEF TypeInv, Slices
<1> QED BY <1>1 DEF TypeInv, RouteInv, SlicesHold

LEMMA EnterTypes ==
    ASSUME TypeInv, NEW r \in Reqs, Enter(r)
    PROVE  ReqInv'
<1> DEFINE q == req[r]
           mw == Chain(q.rt)[q.next]
           user == UserOf(q.in.token)
<1>1. q \in Records /\ q.rt \in DOMAIN routers /\ q.at = "chain"
  BY DEF TypeInv, ReqInv, Enter
<1>2. mw \in Middlewares
  <2>1. q.next \in Nat \ {0} /\ q.next <= routers[q.rt].len BY <1>1 DEF Enter, Records
  <2> QED BY <1>1, <2>1, NextMiddleware
<1>3. user \in STRING \cup {NoUser} BY <1>1, UserTypes
<1>4. PICK w : /\ req' = [req EXCEPT ![r] = w]
               /\ \/ w = Push(q, mw) \/ w = Reject(q, "401")
                  \/ w = Known(Push(q, mw), user)
  BY DEF Enter, Known
<1>5. routers' = routers BY DEF Enter, routerVars
<1> HIDE DEF q, mw, user
<1>6. w \in Records /\ w.rt = q.rt /\ w.at \in {q.at, "return"}
  <2>1. "401" \in Codes BY DEF Codes
  <2>2. CASE w = Push(q, mw) BY <1>1, <1>2, <2>2, Pushed DEF SameWay
  <2>3. CASE w = Reject(q, "401") BY <1>1, <2>1, <2>3, Rejected DEF SameWay
  <2>4. CASE w = Known(Push(q, mw), user)
    BY <1>1, <1>2, <1>3, <2>4, Authorized DEF SameWay
  <2> QED BY <1>4, <2>2, <2>3, <2>4
<1> QED BY <1>1, <1>4, <1>5, <1>6, ReqNext DEF TypeInv

\* The route the mux takes is one of the router's.
LEMMA Dispatched ==
    ASSUME TypeInv, NEW r \in Reqs, Dispatch(r), NEW q, q = req[r]
    PROVE  /\ q \in Records /\ q.at = "chain" /\ q.rt \in DOMAIN routers
           /\ q.next > routers[q.rt].len /\ routers' = routers
           /\ \E w : /\ req' = [req EXCEPT ![r] = w]
                     /\ \/ \E s \in {"404", "405"} : w = Reject(q, s)
                        \/ \E route \in routers[q.rt].routes :
                              /\ route \in Routes
                              /\ IF route.rt = 0 THEN route.handler \in DOMAIN Handlers
                                 ELSE route.rt \in DOMAIN routers
                              /\ w = Follow(q, route)
<1>1. q \in Records /\ q.rt \in DOMAIN routers /\ q.at = "chain"
      /\ q.next > routers[q.rt].len
  BY DEF TypeInv, ReqInv, Dispatch
<1>2. routers' = routers BY DEF Dispatch, routerVars
<1>3. CASE Allowed(q.rt, q.path, q.in.method) # {}
  <2> DEFINE route == Route(q.rt, q.path, q.in.method)
  <2>1. route \in routers[q.rt].routes
    BY <1>1, <1>3, RouteFound DEF TypeInv, Records
  <2>2. route \in Routes BY <1>1, <2>1, SliceTypes DEF TypeInv, Slices
  <2>3. req' = [req EXCEPT ![r] = Follow(q, route)] BY <1>3 DEF Dispatch
  <2>4. IF route.rt = 0 THEN route.handler \in DOMAIN Handlers
        ELSE route.rt \in DOMAIN routers
    BY <1>1, <2>1 DEF TypeInv, RouteInv, RoutesLead
  <2> HIDE DEF route
  <2> QED BY <1>1, <1>2, <2>1, <2>2, <2>3, <2>4
<1>4. CASE Allowed(q.rt, q.path, q.in.method) = {}
  <2>1. \E s \in {"404", "405"} : req' = [req EXCEPT ![r] = Reject(q, s)]
    BY <1>4 DEF Dispatch
  <2> QED BY <1>1, <1>2, <2>1
<1> QED BY <1>3, <1>4

LEMMA DispatchTypes ==
    ASSUME TypeInv, NEW r \in Reqs, Dispatch(r)
    PROVE  ReqInv'
<1>1. PICK q : q = req[r] OBVIOUS
<1>2. /\ q \in Records /\ q.at = "chain" /\ q.rt \in DOMAIN routers
      /\ routers' = routers
  BY <1>1, Dispatched
<1>3. PICK w : /\ req' = [req EXCEPT ![r] = w]
               /\ \/ \E s \in {"404", "405"} : w = Reject(q, s)
                  \/ \E route \in Routes :
                        /\ IF route.rt = 0 THEN route.handler \in DOMAIN Handlers
                           ELSE route.rt \in DOMAIN routers
                        /\ w = Follow(q, route)
  BY <1>1, Dispatched
<1>4. /\ w \in Records /\ w.rt \in DOMAIN routers
      /\ w.at = "handler" => w.handler \in DOMAIN Handlers
  <2>1. CASE \E s \in {"404", "405"} : w = Reject(q, s)
    <3>1. PICK s \in Codes : w = Reject(q, s) BY <2>1 DEF Codes
    <3> QED BY <1>2, <3>1, Rejected DEF SameWay
  <2>2. CASE \E route \in Routes :
                /\ IF route.rt = 0 THEN route.handler \in DOMAIN Handlers
                   ELSE route.rt \in DOMAIN routers
                /\ w = Follow(q, route)
    BY <1>2, <2>2, Followed
  <2> QED BY <1>3, <2>1, <2>2
<1> QED BY <1>2, <1>3, <1>4, ReqNext DEF TypeInv

\* The handler that runs is one of the Api, and a step of it answers a status.
LEMMA HandlerRuns ==
    ASSUME TypeInv, NEW r \in Reqs, req[r].at = "handler"
    PROVE  /\ req[r] \in Records /\ req[r].rt \in DOMAIN routers
           /\ req[r].handler \in DOMAIN Handlers
           /\ Handlers[req[r].handler].ok \in Codes
           /\ req[r].step <= Len(Handlers[req[r].handler].steps) =>
                 Handlers[req[r].handler].steps[req[r].step] \subseteq Codes
<1>1. /\ req[r] \in Records /\ req[r].rt \in DOMAIN routers
      /\ req[r].handler \in DOMAIN Handlers
  BY DEF TypeInv, ReqInv
<1>2. req[r].step \in Nat \ {0} BY <1>1 DEF Records
<1> QED BY <1>1, <1>2, HandlerTypes DEF Answers

LEMMA HandlerTypeStep ==
    ASSUME TypeInv, NEW r \in Reqs, HandlerStep(r) \/ WriteAnswer(r)
    PROVE  ReqInv'
<1>1. PICK q : q = req[r] OBVIOUS
<1>2. /\ q \in Records /\ q.rt \in DOMAIN routers /\ q.handler \in DOMAIN Handlers
      /\ Handlers[q.handler].ok \in Codes
      /\ q.step <= Len(Handlers[q.handler].steps) =>
            Handlers[q.handler].steps[q.step] \subseteq Codes
  BY <1>1, HandlerRuns DEF HandlerStep, WriteAnswer
<1>3. routers' = routers BY DEF HandlerStep, WriteAnswer, routerVars
<1> SUFFICES ASSUME NEW w, req' = [req EXCEPT ![r] = w]
             PROVE  w \in Records /\ w.rt = q.rt /\ w.handler = q.handler
  <2>1. \E w : req' = [req EXCEPT ![r] = w]
    <3>1. CASE HandlerStep(r)
      <4>1. CASE req' = [req EXCEPT ![r].step = @ + 1]
        <5>1. req' = [req EXCEPT ![r] = [q EXCEPT !.step = @ + 1]] BY <1>1, <4>1
        <5> QED BY <5>1
      <4> QED BY <3>1, <4>1 DEF HandlerStep
    <3>2. CASE WriteAnswer(r) BY <3>2 DEF WriteAnswer
    <3> QED BY <3>1, <3>2
  <2> QED BY <1>2, <1>3, <2>1, ReqNext DEF TypeInv
<1>4. req'[r] = w BY DEF TypeInv, ReqInv
<1>5. CASE HandlerStep(r)
  <2>1. CASE w = [q EXCEPT !.step = @ + 1] BY <1>2, <2>1, Stepped DEF Records
  <2>2. CASE \E s \in Handlers[q.handler].steps[q.step] : w = Reject(q, s)
    <3>1. q.step <= Len(Handlers[q.handler].steps) BY <1>1, <1>5 DEF HandlerStep
    <3>2. PICK s \in Codes : w = Reject(q, s) BY <1>2, <2>2, <3>1
    <3> QED BY <1>2, <3>2, Rejected DEF SameWay
  <2>3. CASE w = [q EXCEPT !.at = "panic", !.panicked = TRUE]
    BY <1>2, <2>3, Stepped DEF Records
  <2>4. \/ w = [q EXCEPT !.step = @ + 1]
        \/ \E s \in Handlers[q.handler].steps[q.step] : w = Reject(q, s)
        \/ w = [q EXCEPT !.at = "panic", !.panicked = TRUE]
    BY <1>1, <1>4, <1>5 DEF HandlerStep, TypeInv, ReqInv
  <2> QED BY <2>1, <2>2, <2>3, <2>4
<1>6. CASE WriteAnswer(r)
  <2> DEFINE sent == Reject(q, Handlers[q.handler].ok)
  <2>1. \/ w = sent \/ w = Reject(sent, "500") \/ w = [WriteBody(q) EXCEPT !.at = "return"]
    BY <1>1, <1>4, <1>6 DEF WriteAnswer, TypeInv, ReqInv
  <2>2. sent \in Records /\ SameWay(sent, q) BY <1>2, Rejected
  <2>3. CASE w = sent BY <2>2, <2>3 DEF SameWay
  <2>4. CASE w = Reject(sent, "500")
    <3>1. "500" \in Codes BY DEF Codes
    <3> HIDE DEF sent
    <3>2. w \in Records /\ SameWay(w, sent) BY <2>2, <2>4, <3>1, Rejected
    <3> QED BY <2>2, <3>2 DEF SameWay
  <2>5. CASE w = [WriteBody(q) EXCEPT !.at = "return"]
    BY <1>2, <2>5, BodyWritten DEF SameWay
  <2> QED BY <2>1, <2>3, <2>4, <2>5
<1> QED BY <1>5, <1>6

LEMMA LeavingTypes ==
    ASSUME TypeInv, NEW r \in Reqs, Return(r) \/ Unwind(r) \/ Finish(r)
    PROVE  ReqInv'
<1>1. PICK q : q = req[r] OBVIOUS
<1>2. q \in Records /\ q.rt \in DOMAIN routers BY <1>1 DEF TypeInv, ReqInv
<1>3. q.at \in {"return", "panic"} BY <1>1 DEF Return, Unwind, Finish
<1>4. routers' = routers BY DEF Return, Unwind, Finish, routerVars
<1>5. "500" \in Codes BY DEF Codes
<1>6. CASE Return(r)
  <2>1. PICK w : /\ req' = [req EXCEPT ![r] = w]
                 /\ w = Left(q)
    BY <1>1, <1>6 DEF Return, Left
  <2>2. w \in Records /\ w.rt = q.rt /\ w.at = q.at
    BY <1>1, <1>2, <1>6, <2>1, Returned DEF Return, SameWay
  <2> QED BY <1>2, <1>3, <1>4, <2>1, <2>2, ReqNext DEF TypeInv
<1>7. CASE Unwind(r)
  <2>1. PICK w : /\ req' = [req EXCEPT ![r] = w]
                 /\ w = Reject(Popped(q), "500") \/ w = Popped(q)
    BY <1>1, <1>7 DEF Unwind, Recovered
  <2> DEFINE v == Popped(q)
  <2>2. v \in Records /\ v.rt = q.rt /\ v.at = q.at
    BY <1>1, <1>2, <1>7, PoppedIs DEF Unwind, SameWay
  <2> HIDE DEF v
  <2>3. w = Reject(v, "500") \/ w = v BY <2>1 DEF v
  <2>4. w \in Records /\ w.rt = v.rt /\ w.at \in {v.at, "return"}
    BY <1>5, <2>2, <2>3, Rejected DEF SameWay
  <2> QED BY <1>2, <1>3, <1>4, <2>1, <2>2, <2>4, ReqNext DEF TypeInv
<1>8. CASE Finish(r)
  <2>1. PICK w : /\ req' = [req EXCEPT ![r] = w]
                 /\ w = [q EXCEPT !.at = "done",
                                  !.status = IF q.at = "panic" THEN "aborted" ELSE @]
    BY <1>1, <1>8 DEF Finish
  <2>2. w \in Records /\ w.rt = q.rt /\ w.at = "done" BY <1>2, <2>1, Stepped DEF Records
  <2> QED BY <1>2, <1>4, <2>1, <2>2, ReqNext DEF TypeInv
<1> QED BY <1>6, <1>7, <1>8

LEMMA ServeTypes ==
    ASSUME TypeInv, NEW r \in Reqs, Serve(r)
    PROVE  ReqInv'
BY EnterTypes, DispatchTypes, HandlerTypeStep, LeavingTypes DEF Serve

-----------------------------------------------------------------------------
LEMMA TypeInit == Init => TypeInv
<1> SUFFICES ASSUME Init PROVE TypeInv
  OBVIOUS
<1>1. SliceInv BY ChainInit DEF ChainInv
<1>2. routers = <<NewRouter>> /\ req = [r \in Reqs |-> IdleReq]
  BY DEF Init, ServingInit, RouterInit
<1>3. DOMAIN routers = {1} /\ routers[1].len = 0 /\ routers[1].routes = {}
  BY <1>2 DEF NewRouter
<1>4. RouteInv BY <1>3 DEF RouteInv, SlicesHold, RoutesLead
<1>5. IdleReq \in Records /\ IdleReq.rt = 1 /\ IdleReq.at = "idle"
  <2>1. "idle" \in Places BY DEF Places
  <2>2. /\ << >> \in Seq(Frames) /\ << >> \in Seq(Noted) /\ << >> \in Seq(STRING)
        /\ NoStatus \in Noted \cup {"aborted"} /\ 1 \in Nat \ {0} /\ 1 \in Nat
        /\ NoUser \in STRING \cup {NoUser} /\ FALSE \in BOOLEAN
        /\ NoInput \in Sent \cup {NoInput}
        /\ NoHandler \in DOMAIN Handlers \cup {NoHandler}
    BY DEF Noted
  <2> QED BY <2>1, <2>2 DEF IdleReq, Records
<1>6. ReqInv BY <1>2, <1>3, <1>5 DEF ReqInv
<1> QED BY <1>1, <1>4, <1>6 DEF TypeInv

\* A request changes when it comes, or when it is served; the routers do not change then.
LEMMA OnlyServe ==
    [Next]_vars => \/ req' = req
                   \/ \E r \in Reqs :
                         /\ UNCHANGED routerVars
                         /\ \/ Serve(r)
                            \/ \E in \in Inputs[This.name] : Arrive(r, in)
<1> SUFFICES ASSUME [Next]_vars
             PROVE  \/ req' = req
                    \/ \E r \in Reqs :
                          /\ UNCHANGED routerVars
                          /\ \/ Serve(r)
                             \/ \E in \in Inputs[This.name] : Arrive(r, in)
  OBVIOUS
<1>1. ASSUME NEW r \in Reqs, ServeRequest(r) PROVE UNCHANGED routerVars /\ Serve(r)
  BY <1>1 DEF ServeRequest, Serve, Enter, Dispatch, HandlerStep, WriteAnswer, Return,
              Unwind, Finish
<1>2. ASSUME NEW r \in Reqs, Accept(r)
      PROVE  UNCHANGED routerVars /\ \E in \in Inputs[This.name] : Arrive(r, in)
  BY <1>2 DEF Accept
<1>3. CASE Main \/ Listen \/ ServeFails \/ Signal \/ Finished \/ UNCHANGED vars
  BY <1>3 DEF Main, Connect, NoConnection, MissingVariable, BuildRouters, Spawn,
              SelectError, SelectSignal, ShutdownReturns, CloseDB, Exit, Listen,
              ServeFails, Signal, Finished, vars, servingVars
<1> QED BY <1>1, <1>2, <1>3 DEF Next

LEMMA InputsSent == ASSUME SliceInv PROVE Inputs[This.name] \subseteq Sent
BY InputsAssumption DEF SliceInv, RouterTypeOK, This

LEMMA TypeStep == TypeInv /\ [Next]_vars => TypeInv'
<1> SUFFICES ASSUME TypeInv, [Next]_vars PROVE TypeInv'
  OBVIOUS
<1>1. SliceInv' BY OnlyBuild, SliceStep, SliceUnchanged DEF TypeInv
<1>2. RouteInv' /\ DOMAIN routers \subseteq DOMAIN routers'
  <2>1. CASE Build BY <2>1, RouteInvStep DEF TypeInv
  <2>2. CASE UNCHANGED routerVars BY <2>2, RouteInvUnchanged DEF TypeInv, routerVars
  <2> QED BY <2>1, <2>2, OnlyBuild
<1>3. ReqInv'
  <2>1. CASE req' = req BY <1>2, <2>1 DEF TypeInv, ReqInv
  <2>2. ASSUME NEW r \in Reqs, UNCHANGED routerVars, Serve(r) PROVE ReqInv'
    BY <2>2, ServeTypes
  <2>3. ASSUME NEW r \in Reqs, UNCHANGED routerVars,
               NEW in \in Inputs[This.name], Arrive(r, in)
        PROVE  ReqInv'
    <3>1. PICK w : /\ w = [IdleReq EXCEPT !.at = "chain", !.in = in, !.path = in.path]
                   /\ req' = [req EXCEPT ![r] = w]
      BY <2>3 DEF Arrive
    <3>2. in \in Sent BY InputsSent DEF TypeInv
    <3>3. w \in Records /\ w.at = "chain" /\ w.rt = 1 BY <3>1, <3>2, Arrived
    <3>4. 1 \in DOMAIN routers
      <4>1. req[r].rt \in DOMAIN routers BY DEF TypeInv, ReqInv
      <4> QED BY <4>1, SliceTypes DEF TypeInv
    <3> QED BY <2>3, <3>1, <3>3, <3>4, ReqNext DEF TypeInv, routerVars
  <2> QED BY <2>1, <2>2, <2>3, OnlyServe
<1> QED BY <1>1, <1>2, <1>3 DEF TypeInv

\* The process around them.
ProcInv ==
    /\ dbOpen \in BOOLEAN
    /\ main \in {"start", "build", "select", "shutdown", "deferred", "exited"}
    /\ listener \in {"none", "starting", "open", "closed", "failed"}
    /\ signaled \in BOOLEAN
    /\ exit \in {NoExit, 0, 1, 2}

LEMMA ServeKeeps == ASSUME NEW r, Serve(r) PROVE dbOpen' = dbOpen
BY DEF Serve, Enter, Dispatch, HandlerStep, WriteAnswer, Return, Unwind, Finish

LEMMA ProcStep == SliceInv /\ ProcInv /\ [Next]_vars => ProcInv'
<1> SUFFICES ASSUME SliceInv, ProcInv, [Next]_vars PROVE ProcInv'
  OBVIOUS
<1> USE DEF ProcInv
<1>1. CASE Connect
  <2>1. This.remotes \in BOOLEAN
    BY MainsAssumption DEF SliceInv, RouterTypeOK, This
  <2> QED BY <1>1, <2>1 DEF Connect
<1>2. CASE NoConnection \/ MissingVariable
  BY <1>2 DEF NoConnection, MissingVariable, Leave, servingVars
<1>3. CASE BuildRouters \/ Spawn BY <1>3 DEF BuildRouters, Spawn, procVars, servingVars
<1>4. CASE Listen \/ ServeFails BY <1>4 DEF Listen, ServeFails, servingVars
<1>5. CASE Signal \/ SelectError BY <1>5 DEF Signal, SelectError, Leave, servingVars
<1>6. CASE SelectSignal BY <1>6 DEF SelectSignal, Leave, servingVars
<1>7. CASE ShutdownReturns
  BY <1>7 DEF ShutdownReturns, TimeoutStatus, Leave, servingVars
<1>8. CASE CloseDB \/ Exit BY <1>8 DEF CloseDB, Exit, procVars, servingVars
<1>9. ASSUME NEW r \in Reqs, Accept(r) \/ ServeRequest(r) PROVE ProcInv'
  <2>1. UNCHANGED procVars /\ dbOpen' = dbOpen
    BY <1>9, ServeKeeps DEF Accept, ServeRequest
  <2> QED BY <2>1 DEF procVars
<1>10. CASE UNCHANGED vars BY <1>10 DEF vars, servingVars
<1> QED
  BY <1>1, <1>2, <1>3, <1>4, <1>5, <1>6, <1>7, <1>8, <1>9, <1>10 DEF Next, Main, Finished

\* Whatever a program builds, requests are where a router or a handler is, and the
\* process is in a state there is.
THEOREM TypeCorrect == Spec => []TypeOK
<1>1. Init => TypeInv /\ ProcInv
  <2>1. Init => ProcInv BY DEF Init, ServingInit, ProcInv
  <2> QED BY <2>1, TypeInit
<1>2. TypeInv /\ ProcInv /\ [Next]_vars => TypeInv' /\ ProcInv'
  BY TypeStep, ProcStep DEF TypeInv
<1>3. TypeInv /\ ProcInv => TypeOK
  <2> SUFFICES ASSUME TypeInv, ProcInv PROVE TypeOK
    OBVIOUS
  <2>1. RouterTypeOK /\ SlicesHold BY DEF TypeInv, SliceInv, RouteInv
  <2>2. ASSUME NEW r \in Reqs
        PROVE  /\ req[r].at \in Places /\ req[r].rt \in DOMAIN routers
               /\ req[r].handler \in DOMAIN Handlers \cup {NoHandler}
               /\ \A i \in DOMAIN req[r].frames : req[r].frames[i].mw \in Middlewares
    <3>1. req[r] \in Records /\ req[r].rt \in DOMAIN routers BY DEF TypeInv, ReqInv
    <3>2. \A i \in DOMAIN req[r].frames : req[r].frames[i] \in Frames
      BY <3>1, FramesSeq
    <3>3. req[r].at \in Places /\ req[r].handler \in DOMAIN Handlers \cup {NoHandler}
      BY <3>1 DEF Records
    <3> QED BY <3>1, <3>2, <3>3 DEF Frames
  <2> QED BY <2>1, <2>2 DEF TypeOK, ServingTypeOK, SlicesHold, ProcInv
<1> QED BY <1>1, <1>2, <1>3, PTL DEF Spec

-----------------------------------------------------------------------------
(* The processes with Recover: how their routers come to be. *)

\* A request comes when the routers are built.
BuiltFirst ==
    /\ main \notin {"start", "build"} => listener = "none" \/ built = Len(This.calls)
    /\ main \in {"start", "build"} => listener = "none"
    /\ \A r \in Reqs : req[r].at # "idle" => listener # "none"

LEMMA BuiltFirstInit == Init => BuiltFirst
BY DEF Init, ServingInit, IdleReq, BuiltFirst

LEMMA BuiltFirstStep == TypeInv /\ BuiltFirst /\ [Next]_vars => BuiltFirst'
<1> SUFFICES ASSUME TypeInv, BuiltFirst, [Next]_vars PROVE BuiltFirst'
  OBVIOUS
<1>1. This' = This
  <2>1. program' = program BY OnlyBuild DEF Build, routerVars
  <2> QED BY <2>1 DEF This
<1> USE DEF BuiltFirst
<1>2. CASE Connect \/ NoConnection \/ MissingVariable
  BY <1>1, <1>2 DEF Connect, NoConnection, MissingVariable, Leave, servingVars, routerVars
<1>3. CASE BuildRouters BY <1>3 DEF BuildRouters, procVars
<1>4. CASE Spawn BY <1>1, <1>4 DEF Spawn, servingVars, routerVars
<1>5. CASE Listen \/ ServeFails
  BY <1>1, <1>5 DEF Listen, ServeFails, servingVars, routerVars
<1>6. CASE Signal \/ SelectError
  BY <1>1, <1>6 DEF Signal, SelectError, Leave, servingVars, routerVars
<1>7. CASE SelectSignal BY <1>1, <1>7 DEF SelectSignal, Leave, servingVars, routerVars
<1>8. CASE ShutdownReturns
  BY <1>1, <1>8 DEF ShutdownReturns, Leave, servingVars, routerVars
<1>9. CASE CloseDB \/ Exit
  BY <1>1, <1>9 DEF CloseDB, Exit, procVars, servingVars, routerVars
<1>10. ASSUME NEW r \in Reqs, Accept(r) PROVE BuiltFirst'
  <2>1. /\ UNCHANGED <<program, built, main, listener>> /\ listener = "open"
    BY <1>10 DEF Accept, procVars, routerVars
  <2> QED BY <1>1, <2>1
<1>11. ASSUME NEW r \in Reqs, ServeRequest(r) PROVE BuiltFirst'
  <2>1. UNCHANGED <<program, built, main, listener>>
    BY <1>11 DEF ServeRequest, procVars, routerVars, Serve, Enter, Dispatch, HandlerStep,
                 WriteAnswer, Return, Unwind, Finish
  <2>2. req[r].at # "idle" BY <1>11, ServeRuns DEF ServeRequest, Running
  <2> QED BY <1>1, <2>1, <2>2
<1>12. CASE UNCHANGED vars BY <1>1, <1>12 DEF vars, servingVars, routerVars
<1> QED
  BY <1>2, <1>3, <1>4, <1>5, <1>6, <1>7, <1>8, <1>9, <1>10, <1>11, <1>12
     DEF Next, Main, Finished

\* What a route of router k may lead to.
Mounted(name, k, rt, handler) ==
    \/ k = 1 /\ rt = 0 /\ handler = "health"
    \/ k = 1 /\ rt = 2
    \/ k = 1 /\ rt = 3 /\ name = "image"
    \/ k = 2 /\ rt = 3 /\ name = "words"
    \/ k = 3 /\ rt = 0 /\ name = "image" /\ handler \in {"upload", "files"}
    \/ k = 3 /\ rt = 0 /\ name = "words" /\ handler # "health"

HandleMounts(name, call) ==
    call.op = "Handle" /\ Mounted(name, call.rt, call.to, call.handler)

\* The calls of the two programs, as far as a request may notice.
MountsAs(name, calls) ==
    /\ Len(calls) >= 6
    /\ calls[1] = CallUse(1, <<"Recover", "Log">>)
    /\ calls[4].op = "SubRouter" /\ calls[4].rt = 1
    /\ calls[5] = CallUse(2, <<"Auth">>)
    /\ calls[6].op = "New"
    /\ \A i \in 1 .. Len(calls) : i \notin {1, 4, 5, 6} => HandleMounts(name, calls[i])

LEMMA HandleMounted ==
    ASSUME NEW name, NEW k, NEW method, NEW segs, NEW tree, NEW h, NEW to,
           Mounted(name, k, to, h)
    PROVE  HandleMounts(name, CallHandle(k, method, segs, tree, h, to))
BY DEF HandleMounts, CallHandle

LEMMA LeafMounted ==
    ASSUME NEW name, NEW k, NEW method, NEW segs, NEW h, Mounted(name, k, 0, h)
    PROVE  HandleMounts(name, Leaf(k, method, segs, h))
BY HandleMounted DEF Leaf

LEMMA BelowMounted ==
    ASSUME NEW name, NEW k, NEW segs, NEW to, Mounted(name, k, to, NoHandler)
    PROVE  HandleMounts(name, Below(k, segs, to))
BY HandleMounted, Zenon DEF Below

LEMMA HealthMounted ==
    ASSUME NEW name
    PROVE  \E x, y : /\ Health = <<x, y>>
                     /\ HandleMounts(name, x) /\ HandleMounts(name, y)
<1>1. Mounted(name, 1, 0, "health") BY DEF Mounted
<1>2. /\ HandleMounts(name, Leaf(1, "", <<"healthz">>, "health"))
      /\ HandleMounts(name, Leaf(1, "", <<"readyz">>, "health"))
  BY <1>1, LeafMounted, Zenon
<1> QED BY <1>2, Zenon DEF Health

LEMMA WordsMounts == MountsAs("words", WordsCalls)
<1> DEFINE c == WordsCalls
<1>1. Len(c) = 15 BY DEF WordsCalls, Health, WordsRoutes
<1>2. c[1] = CallUse(1, <<"Recover", "Log">>) BY DEF WordsCalls, Health, WordsRoutes
<1>3. c[4] = CallSub(1, <<"api", "v1">>) BY DEF WordsCalls, Health, WordsRoutes
<1>4. c[5] = CallUse(2, <<"Auth">>) BY DEF WordsCalls, Health, WordsRoutes
<1>5. c[6] = CallNew BY DEF WordsCalls, Health, WordsRoutes
<1>6. c[4].op = "SubRouter" /\ c[4].rt = 1 /\ c[6].op = "New"
  BY <1>3, <1>5 DEF CallSub, CallNew
<1>7. /\ Mounted("words", 3, 0, "addWord") /\ Mounted("words", 3, 0, "deleteWord")
      /\ Mounted("words", 3, 0, "pickWord") /\ Mounted("words", 3, 0, "deletePick")
      /\ Mounted("words", 3, 0, "getPicks") /\ Mounted("words", 3, 0, "deleteTag")
      /\ Mounted("words", 3, 0, "createDefinition")
      /\ Mounted("words", 3, 0, "attachImage") /\ Mounted("words", 2, 3, NoHandler)
  BY DEF Mounted
<1>8. HandleMounts("words", c[2]) /\ HandleMounts("words", c[3])
  <2>1. PICK x, y : /\ Health = <<x, y>>
                    /\ HandleMounts("words", x) /\ HandleMounts("words", y)
    BY HealthMounted
  <2>2. c = <<CallUse(1, <<"Recover", "Log">>), x, y>>
            \o <<CallSub(1, <<"api", "v1">>), CallUse(2, <<"Auth">>)>>
            \o WordsRoutes(3) \o <<Below(2, << >>, 3)>>
    BY <2>1 DEF WordsCalls
  <2>3. c[2] = x /\ c[3] = y BY <2>2 DEF WordsRoutes
  <2> QED BY <2>1, <2>3
<1>9. HandleMounts("words", c[7])
  BY <1>7, LeafMounted DEF WordsCalls, Health, WordsRoutes
<1>10. HandleMounts("words", c[8])
  BY <1>7, LeafMounted DEF WordsCalls, Health, WordsRoutes
<1>11. HandleMounts("words", c[9])
  BY <1>7, LeafMounted DEF WordsCalls, Health, WordsRoutes
<1>12. HandleMounts("words", c[10])
  BY <1>7, LeafMounted DEF WordsCalls, Health, WordsRoutes
<1>13. HandleMounts("words", c[11])
  BY <1>7, LeafMounted DEF WordsCalls, Health, WordsRoutes
<1>14. HandleMounts("words", c[12])
  BY <1>7, LeafMounted DEF WordsCalls, Health, WordsRoutes
<1>15. HandleMounts("words", c[13])
  BY <1>7, LeafMounted DEF WordsCalls, Health, WordsRoutes
<1>16. HandleMounts("words", c[14])
  BY <1>7, LeafMounted DEF WordsCalls, Health, WordsRoutes
<1>17. HandleMounts("words", c[15])
  BY <1>7, BelowMounted DEF WordsCalls, Health, WordsRoutes
<1> HIDE DEF c
<1>18. \A i \in 1 .. 15 : i \notin {1, 4, 5, 6} => HandleMounts("words", c[i])
  BY <1>8, <1>9, <1>10, <1>11, <1>12, <1>13, <1>14, <1>15, <1>16, <1>17
<1> QED BY <1>1, <1>2, <1>4, <1>6, <1>18 DEF MountsAs, c

LEMMA ImageMounts == MountsAs("image", ImageCalls)
<1> DEFINE c == ImageCalls
<1>1. Len(c) = 9 BY DEF ImageCalls, Health, ImageRoutes
<1>2. c[1] = CallUse(1, <<"Recover", "Log">>) BY DEF ImageCalls, Health, ImageRoutes
<1>3. c[4] = CallSub(1, <<"api", "v1">>) BY DEF ImageCalls, Health, ImageRoutes
<1>4. c[5] = CallUse(2, <<"Auth">>) BY DEF ImageCalls, Health, ImageRoutes
<1>5. c[6] = CallNew BY DEF ImageCalls, Health, ImageRoutes
<1>6. c[4].op = "SubRouter" /\ c[4].rt = 1 /\ c[6].op = "New"
  BY <1>3, <1>5 DEF CallSub, CallNew
<1>7. /\ Mounted("image", 3, 0, "upload") /\ Mounted("image", 3, 0, "files")
      /\ Mounted("image", 1, 3, NoHandler)
  BY DEF Mounted
<1>8. HandleMounts("image", c[2]) /\ HandleMounts("image", c[3])
  <2>1. PICK x, y : /\ Health = <<x, y>>
                    /\ HandleMounts("image", x) /\ HandleMounts("image", y)
    BY HealthMounted
  <2>2. c = <<CallUse(1, <<"Recover", "Log">>), x, y>>
            \o <<CallSub(1, <<"api", "v1">>), CallUse(2, <<"Auth">>)>>
            \o ImageRoutes(3) \o <<Below(1, << >>, 3)>>
    BY <2>1 DEF ImageCalls
  <2>3. c[2] = x /\ c[3] = y BY <2>2 DEF ImageRoutes
  <2> QED BY <2>1, <2>3
<1>9. HandleMounts("image", c[7])
  BY <1>7, LeafMounted DEF ImageCalls, Health, ImageRoutes
<1>10. HandleMounts("image", c[8])
  <2>1. HandleMounts("image", CallHandle(3, "GET", << >>, TRUE, "files", 0))
    BY <1>7, HandleMounted, Zenon
  <2>2. PICK z : /\ HandleMounts("image", z)
                 /\ ImageRoutes(3) = <<CallNew, Leaf(3, "POST", <<"upload">>, "upload"), z>>
    BY <2>1, Zenon DEF ImageRoutes
  <2>3. PICK x, y : Health = <<x, y>> BY HealthMounted
  <2>4. c = <<CallUse(1, <<"Recover", "Log">>), x, y>>
            \o <<CallSub(1, <<"api", "v1">>), CallUse(2, <<"Auth">>)>>
            \o ImageRoutes(3) \o <<Below(1, << >>, 3)>>
    BY <2>3 DEF ImageCalls
  <2>5. c[8] = z
    <3> HIDE DEF c
    <3>1. c = <<CallUse(1, <<"Recover", "Log">>), x, y>>
            \o <<CallSub(1, <<"api", "v1">>), CallUse(2, <<"Auth">>)>>
            \o <<CallNew, Leaf(3, "POST", <<"upload">>, "upload"), z>>
            \o <<Below(1, << >>, 3)>>
      BY <2>2, <2>4, Zenon
    <3> QED BY <3>1
  <2> QED BY <2>2, <2>5
<1>11. HandleMounts("image", c[9])
  BY <1>7, BelowMounted DEF ImageCalls, Health, ImageRoutes
<1> HIDE DEF c
<1>12. \A i \in 1 .. 9 : i \notin {1, 4, 5, 6} => HandleMounts("image", c[i])
  BY <1>8, <1>9, <1>10, <1>11
<1> QED BY <1>1, <1>2, <1>4, <1>6, <1>12 DEF MountsAs, c

LEMMA RecoverCalls ==
    ASSUME SliceInv, HasRecover
    PROVE  MountsAs(This.name, This.calls) /\ This.name \in {"words", "image"}
<1>1. program \in DOMAIN Programs BY DEF SliceInv, RouterTypeOK
<1>2. CASE This.name = "words"
  <2>1. This = WordsMain BY <1>1, <1>2, NamesAssumption DEF This
  <2> QED BY <1>2, <2>1, WordsMounts DEF WordsMain
<1>3. CASE This.name = "image"
  <2>1. This = ImageMain BY <1>1, <1>3, NamesAssumption DEF This
  <2> QED BY <1>3, <2>1, ImageMounts DEF ImageMain
<1> QED BY <1>2, <1>3 DEF HasRecover

-----------------------------------------------------------------------------
\* The routers after each call, for all the slices may share: the sub-router's Auth goes
\* to an array of its own, and the routers of the APIs have no middleware.
BuiltAs ==
    /\ DOMAIN routers = 1 .. (IF built < 4 THEN 1 ELSE IF built < 6 THEN 2 ELSE 3)
    /\ built = 0 => routers[1] = NewRouter
    /\ built >= 1 => Chain(1) = <<"Recover", "Log">> /\ Cap(1) = 2
    /\ built = 4 => Chain(2) = <<"Recover", "Log">> /\ Cap(2) = 2
    /\ built >= 5 => Chain(2) = <<"Recover", "Log", "Auth">>
    /\ built >= 6 => Chain(3) = << >>

RoutesAs ==
    \A k \in DOMAIN routers : \A x \in routers[k].routes :
        Mounted(This.name, k, x.rt, x.handler)

WiredInv == HasRecover => BuiltAs /\ RoutesAs

LEMMA WiredInit == Init => WiredInv
<1> SUFFICES ASSUME Init PROVE WiredInv
  OBVIOUS
<1>1. built = 0 /\ routers = <<NewRouter>> BY DEF Init, ServingInit, RouterInit
<1>2. DOMAIN routers = 1 .. 1 /\ routers[1] = NewRouter /\ routers[1].routes = {}
  BY <1>1 DEF NewRouter
<1> QED BY <1>1, <1>2 DEF WiredInv, BuiltAs, RoutesAs

LEMMA SameDomain ==
    ASSUME NEW m \in Nat, NEW n \in Nat, 1 .. m = 1 .. n
    PROVE  m = n
<1>1. m \notin 1 .. n => m = 0 OBVIOUS
<1>2. n \notin 1 .. m => n = 0 OBVIOUS
<1> QED BY <1>1, <1>2

LEMMA LenIs ==
    ASSUME SliceInv, NEW n \in Nat, DOMAIN routers = 1 .. n
    PROVE  Len(routers) = n
<1>1. Len(routers) \in Nat /\ DOMAIN routers = 1 .. Len(routers)
  BY LenProperties DEF SliceInv, RouterTypeOK
<1> QED BY <1>1, SameDomain

\* Without room, append copies.
LEMMA NoRoom ==
    ASSUME SliceInv, NEW k \in DOMAIN routers, NEW mws \in Seq(Middlewares), Use(k, mws),
           routers[k].len = Cap(k), Len(mws) > 0
    PROVE  AppendInCopy(k, mws)
<1>1. Len(mws) \in Nat /\ Cap(k) \in Nat BY SliceTypes, LenProperties
<1>2. ~HasRoom(k, Len(mws)) BY <1>1 DEF HasRoom
<1> QED BY <1>2 DEF Use

LEMMA UseOfRoot ==
    ASSUME SliceInv, DOMAIN routers = 1 .. 1, routers[1] = NewRouter,
           <<"Recover", "Log">> \in Seq(Middlewares), Use(1, <<"Recover", "Log">>)
    PROVE  /\ DOMAIN routers' = 1 .. 1
           /\ Chain(1)' = <<"Recover", "Log">> /\ Cap(1)' = 2
<1>1. 1 \in DOMAIN routers /\ Cap(1) = 0 /\ routers[1].len = 0
  BY DEF Cap, NewRouter
<1>2. PICK mws \in Seq(Middlewares) :
         mws = <<"Recover", "Log">> /\ Len(mws) = 2 /\ Use(1, mws)
  OBVIOUS
<1>3. AppendInCopy(1, mws)
  <2>1. routers[1].len = Cap(1) /\ Len(mws) > 0 BY <1>1, <1>2
  <2> QED BY <1>1, <1>2, <2>1, NoRoom
<1>4. /\ DOMAIN routers' = DOMAIN routers
      /\ Cap(1)' = Grow(Cap(1), routers[1].len + Len(mws))
      /\ Chain(1)' = Chain(1) \o mws
  BY <1>1, <1>3, CopyEffect
<1>5. Cap(1)' = 2 BY <1>1, <1>2, <1>4 DEF Grow, RoundUp
<1>6. Chain(1) = << >> BY <1>1 DEF Chain
<1>7. Chain(1)' = mws BY <1>4, <1>6, ConcatEmptySeq, Zenon
<1> QED BY <1>2, <1>4, <1>5, <1>7

\* Concatenated, the two are the chain.
LEMMA ThreeOf == ASSUME NEW a, NEW b, NEW c PROVE <<a, b>> \o <<c>> = <<a, b, c>>
<1>1. PICK S, s, t, u : s = <<a, b>> /\ t = <<c>> /\ u = <<a, b, c>> /\ S = {a, b, c}
  OBVIOUS
<1>2. s \in Seq(S) /\ t \in Seq(S) /\ u \in Seq(S)
      /\ Len(s) = 2 /\ Len(t) = 1 /\ Len(u) = 3
      /\ s[1] = u[1] /\ s[2] = u[2] /\ t[1] = u[3]
  BY <1>1
<1>3. /\ s \o t \in Seq(S) /\ Len(s \o t) = Len(s) + Len(t)
      /\ \A i \in 1 .. Len(s) + Len(t) :
            (s \o t)[i] = IF i <= Len(s) THEN s[i] ELSE t[i - Len(s)]
  BY ONLY <1>2, ConcatProperties
<1>4. Len(s \o t) = Len(u) /\ \A i \in 1 .. 3 : (s \o t)[i] = u[i]
  BY ONLY <1>2, <1>3
<1>5. s \o t = u BY ONLY <1>2, <1>3, <1>4, SeqEqual
<1> QED BY <1>1, <1>5

LEMMA UseOfSub ==
    ASSUME SliceInv, DOMAIN routers = 1 .. 2,
           Chain(1) = <<"Recover", "Log">>, Cap(1) = 2,
           Chain(2) = <<"Recover", "Log">>, Cap(2) = 2,
           <<"Auth">> \in Seq(Middlewares), Use(2, <<"Auth">>)
    PROVE  /\ DOMAIN routers' = 1 .. 2
           /\ Chain(1)' = <<"Recover", "Log">> /\ Cap(1)' = 2
           /\ Chain(2)' = <<"Recover", "Log", "Auth">>
<1>1. 2 \in DOMAIN routers /\ 1 \in DOMAIN routers \ {2} OBVIOUS
<1>2. routers[2].len = 2
  <2>1. routers[2].len = Len(Chain(2)) BY <1>1, SliceTypes
  <2> QED BY <2>1
<1>3. PICK mws \in Seq(Middlewares) : mws = <<"Auth">> /\ Len(mws) = 1 /\ Use(2, mws)
  OBVIOUS
<1>4. AppendInCopy(2, mws)
  <2>1. routers[2].len = Cap(2) /\ Len(mws) > 0 BY <1>2, <1>3
  <2> QED BY <1>1, <1>3, <2>1, NoRoom
<1>5. /\ DOMAIN routers' = DOMAIN routers
      /\ Chain(1)' = Chain(1) /\ Cap(1)' = Cap(1)
      /\ Chain(2)' = Chain(2) \o mws
  BY <1>1, <1>4, CopyEffect
<1>6. <<"Recover", "Log">> \o <<"Auth">> = <<"Recover", "Log", "Auth">>
  BY ONLY ThreeOf, Zenon
<1>7. Chain(2)' = <<"Recover", "Log", "Auth">> BY <1>3, <1>5, <1>6, Zenon
<1> QED BY <1>5, <1>7

\* Routes after a call: those there were, and one more.
LEMMA RoutesMore ==
    ASSUME program' = program, RoutesAs,
           \A k \in DOMAIN routers' : \A x \in routers'[k].routes :
              \/ k \in DOMAIN routers /\ x \in routers[k].routes
              \/ Mounted(This.name, k, x.rt, x.handler)
    PROVE  RoutesAs'
BY DEF RoutesAs, This

LEMMA WiredStep == ASSUME SliceInv, WiredInv, Build PROVE WiredInv'
<1>1. program' = program /\ This' = This /\ built' = built + 1
      /\ built < Len(This.calls)
  BY DEF Build, This
<1> SUFFICES ASSUME HasRecover PROVE BuiltAs' /\ RoutesAs'
  BY <1>1 DEF WiredInv, HasRecover
<1>2. BuiltAs /\ RoutesAs BY DEF WiredInv
<1>3. PICK c \in Calls : c = This.calls[built + 1] /\ Make(c) BY BuildCall
<1>4. MountsAs(This.name, This.calls) BY RecoverCalls
<1>5. built \in Nat /\ built + 1 \in 1 .. Len(This.calls)
  <2>1. Len(This.calls) \in Nat
    BY ProgramsAssumption, LenProperties DEF SliceInv, RouterTypeOK, This
  <2> QED BY <1>1, <2>1, CallTypes
<1>6. CASE built = 0
  <2>1. c = CallUse(1, <<"Recover", "Log">>) BY <1>3, <1>4, <1>6 DEF MountsAs
  <2>2. c.op = "Use" /\ c.rt = 1 /\ c.mws = <<"Recover", "Log">>
    BY <2>1 DEF CallUse
  <2>3. Use(1, <<"Recover", "Log">>) BY <1>3, <2>2 DEF Make
  <2>4. <<"Recover", "Log">> \in Seq(Middlewares) BY <2>2, CallFields
  <2>5. DOMAIN routers = 1 .. 1 /\ routers[1] = NewRouter BY <1>2, <1>6 DEF BuiltAs
  <2>6. /\ DOMAIN routers' = 1 .. 1 /\ built' = 1
        /\ Chain(1)' = <<"Recover", "Log">> /\ Cap(1)' = 2
    BY <1>1, <1>6, <2>3, <2>4, <2>5, UseOfRoot
  <2>7. BuiltAs' BY <2>6 DEF BuiltAs
  <2>8. \A k \in DOMAIN routers' : k \in DOMAIN routers /\ routers'[k].routes = routers[k].routes
    <3>1. PICK mws \in Seq(Middlewares) : Use(1, mws) BY <2>3, <2>4
    <3>2. 1 \in DOMAIN routers BY <2>5
    <3> QED BY <3>1, <3>2, UseRoutes
  <2> QED BY <1>1, <1>2, <2>7, <2>8, RoutesMore
<1>7. CASE built = 3
  <2>1. c.op = "SubRouter" /\ c.rt = 1 BY <1>3, <1>4, <1>7 DEF MountsAs
  <2>2. SubRouter(1, c.prefix) /\ c.prefix \in Seq(STRING)
    BY <1>3, <2>1, CallFields DEF Make
  <2>3. DOMAIN routers = 1 .. 1 /\ Chain(1) = <<"Recover", "Log">> /\ Cap(1) = 2
    BY <1>2, <1>7 DEF BuiltAs
  <2>4. Len(routers) = 1 BY <2>3, LenIs
  <2>5. /\ heap' = heap /\ DOMAIN routers' = 1 .. 2
        /\ routers'[1].arr = routers[1].arr /\ routers'[1].len = routers[1].len
        /\ routers'[2] = Inherited(1)
    BY <2>2, <2>3, <2>4, SubRouterEffect
  <2>6. routers'[2].arr = routers[1].arr /\ routers'[2].len = routers[1].len
    BY <2>5 DEF Inherited
  <2>7. Chain(1)' = Chain(1) /\ Cap(1)' = Cap(1) /\ Chain(2)' = Chain(1) /\ Cap(2)' = Cap(1)
    BY <2>5, <2>6, SameSlice
  <2>8. BuiltAs' BY <1>1, <1>7, <2>3, <2>5, <2>7 DEF BuiltAs
  <2>9. \A k \in DOMAIN routers' : \A x \in routers'[k].routes :
           \/ k \in DOMAIN routers /\ x \in routers[k].routes
           \/ k = 1 /\ x.rt = 2
    BY <2>2, <2>3, <2>4, SubRouterRoutes
  <2>10. \A k \in DOMAIN routers' : \A x \in routers'[k].routes :
           \/ k \in DOMAIN routers /\ x \in routers[k].routes
           \/ Mounted(This.name, k, x.rt, x.handler)
    BY <2>9 DEF Mounted
  <2> QED BY <1>1, <1>2, <2>8, <2>10, RoutesMore
<1>8. CASE built = 4
  <2>1. c = CallUse(2, <<"Auth">>) BY <1>3, <1>4, <1>8 DEF MountsAs
  <2>2. c.op = "Use" /\ c.rt = 2 /\ c.mws = <<"Auth">> BY <2>1 DEF CallUse
  <2>3. Use(2, <<"Auth">>) BY <1>3, <2>2 DEF Make
  <2>4. <<"Auth">> \in Seq(Middlewares) BY <2>2, CallFields
  <2>5. /\ DOMAIN routers = 1 .. 2 /\ Chain(1) = <<"Recover", "Log">> /\ Cap(1) = 2
        /\ Chain(2) = <<"Recover", "Log">> /\ Cap(2) = 2
    BY <1>2, <1>8 DEF BuiltAs
  <2>6. /\ DOMAIN routers' = 1 .. 2 /\ built' = 5
        /\ Chain(1)' = <<"Recover", "Log">> /\ Cap(1)' = 2
        /\ Chain(2)' = <<"Recover", "Log", "Auth">>
    BY <1>1, <1>8, <2>3, <2>4, <2>5, UseOfSub
  <2>7. BuiltAs' BY <2>6 DEF BuiltAs
  <2>8. \A k \in DOMAIN routers' : k \in DOMAIN routers /\ routers'[k].routes = routers[k].routes
    BY <2>3, <2>4, <2>5, UseRoutes
  <2> QED BY <1>1, <1>2, <2>7, <2>8, RoutesMore
<1>9. CASE built = 5
  <2>1. New BY <1>3, <1>4, <1>9 DEF MountsAs, Make
  <2>2. /\ DOMAIN routers = 1 .. 2 /\ Chain(1) = <<"Recover", "Log">> /\ Cap(1) = 2
        /\ Chain(2) = <<"Recover", "Log", "Auth">>
    BY <1>2, <1>9 DEF BuiltAs
  <2>3. Len(routers) = 2 BY <2>2, LenIs
  <2>4. /\ heap' = heap /\ DOMAIN routers' = 1 .. 3
        /\ routers'[1] = routers[1] /\ routers'[2] = routers[2]
        /\ routers'[3] = NewRouter
    BY <2>1, <2>2, <2>3, NewEffect
  <2>5. Chain(1)' = Chain(1) /\ Cap(1)' = Cap(1) /\ Chain(2)' = Chain(2)
    BY <2>4, SameSlice
  <2>6. Chain(3)' = << >>
    <3>1. routers'[3].len = 0 BY <2>4 DEF NewRouter
    <3> QED BY <3>1 DEF Chain
  <2>7. BuiltAs' BY <1>1, <1>9, <2>2, <2>4, <2>5, <2>6 DEF BuiltAs
  <2>8. \A k \in DOMAIN routers' : \A x \in routers'[k].routes :
           k \in DOMAIN routers /\ x \in routers[k].routes
    <3>1. routers'[3].routes = {} BY <2>4 DEF NewRouter
    <3>2. \A k \in 1 .. 3 : k = 3 \/ k \in 1 .. 2 OBVIOUS
    <3>3. \A k \in 1 .. 2 : routers'[k] = routers[k] BY <2>4
    <3> QED BY <2>2, <2>4, <3>1, <3>2, <3>3
  <2> QED BY <1>1, <1>2, <2>7, <2>8, RoutesMore
<1>10. CASE built \notin {0, 3, 4, 5}
  <2>1. c.op = "Handle" /\ Mounted(This.name, c.rt, c.to, c.handler)
    BY <1>3, <1>4, <1>5, <1>10 DEF MountsAs, HandleMounts
  <2>2. Handle(c.rt, c.pattern, c.handler, c.to) /\ c.rt \in DOMAIN routers
    BY <1>3, <2>1 DEF Make, Made
  <2>3. /\ heap' = heap /\ DOMAIN routers' = DOMAIN routers
        /\ \A j \in DOMAIN routers :
              routers'[j].arr = routers[j].arr /\ routers'[j].len = routers[j].len
    BY <2>1, <2>2, CallFields, HandleEffect
  <2>4. ASSUME NEW j \in DOMAIN routers PROVE Chain(j)' = Chain(j) /\ Cap(j)' = Cap(j)
    BY <2>3, SameSlice
  <2>5. BuiltAs'
    <3>1. CASE built \in {1, 2}
      <4>1. 1 \in DOMAIN routers BY <1>2, <3>1 DEF BuiltAs
      <4>2. Chain(1)' = Chain(1) /\ Cap(1)' = Cap(1) BY <2>4, <4>1
      <4> QED BY <1>1, <1>2, <2>3, <3>1, <4>2 DEF BuiltAs
    <3>2. CASE built >= 6
      <4>1. 1 \in DOMAIN routers /\ 2 \in DOMAIN routers /\ 3 \in DOMAIN routers
        BY <1>2, <1>5, <3>2 DEF BuiltAs
      <4>2. /\ Chain(1)' = Chain(1) /\ Cap(1)' = Cap(1)
            /\ Chain(2)' = Chain(2) /\ Chain(3)' = Chain(3)
        BY <2>4, <4>1
      <4> QED BY <1>1, <1>2, <1>5, <2>3, <3>2, <4>2 DEF BuiltAs
    <3> QED BY <1>5, <1>10, <3>1, <3>2
  <2>6. \A k \in DOMAIN routers' : \A x \in routers'[k].routes :
           \/ k \in DOMAIN routers /\ x \in routers[k].routes
           \/ k = c.rt /\ x.rt = c.to /\ x.handler = c.handler
    BY <2>2, <2>3, HandleRoutes
  <2>7. \A k \in DOMAIN routers' : \A x \in routers'[k].routes :
           \/ k \in DOMAIN routers /\ x \in routers[k].routes
           \/ Mounted(This.name, k, x.rt, x.handler)
    BY <2>1, <2>6
  <2> QED BY <1>1, <1>2, <2>5, <2>7, RoutesMore
<1> QED BY <1>6, <1>7, <1>8, <1>9, <1>10

LEMMA WiredUnchanged == WiredInv /\ UNCHANGED routerVars => WiredInv'
BY DEF WiredInv, HasRecover, BuiltAs, RoutesAs, This, Chain, Cap, routerVars

-----------------------------------------------------------------------------
(* What a request has on its stack, and what it is answered. *)

\* The middleware on the stack of a request: all of it in a handler behind Auth, the
\* first two in one that is not.
Stack == <<"Recover", "Log", "Recover", "Log", "Auth">>

Stacked(q) ==
    /\ Len(q.frames) <= 5
    /\ \A i \in 1 .. Len(q.frames) : q.frames[i].mw = Stack[i]
    /\ q.user \in {NoUser, UserOf(q.in.token)}

\* Nothing has been answered.
Fresh(q) == q.status = NoStatus /\ q.logs = << >> /\ ~q.implicit /\ ~q.late

\* Who has passed the whole stack has passed Auth.
Pure(q) ==
    /\ Fresh(q) /\ ~q.panicked
    /\ Len(q.frames) = 5 => q.user # NoUser

\* What has been logged, and what will be, is what the client was sent.
Logged(q) ==
    /\ \A i \in 1 .. Len(q.frames) :
          q.frames[i].mw = "Log" => q.frames[i].saw = q.status
    /\ \A i \in DOMAIN q.logs : q.logs[i] = q.status
    /\ q.logs # << >> \/ Len(q.frames) >= 2

Answered(q) ==
    /\ q.status # NoStatus
    /\ q.panicked => q.status = "500"
    /\ ~q.implicit /\ ~q.late => Logged(q)

\* How much of the stack a request has when it has come to router k, and to a handler.
Deep(name, q) ==
    \/ q.rt = 1 /\ q.next <= 3 /\ Len(q.frames) = q.next - 1
    \/ q.rt = 2 /\ q.next <= 4 /\ Len(q.frames) = q.next + 1
    \/ q.rt = 3 /\ q.next = 1 /\ name = "words" /\ Len(q.frames) = 5
    \/ q.rt = 3 /\ q.next = 1 /\ name = "image" /\ Len(q.frames) = 2

Behind(name, q) ==
    \/ Len(q.frames) = 5 /\ name # "image" /\ q.handler # "health"
    \/ Len(q.frames) = 2 /\ q.handler = "health"
    \/ Len(q.frames) = 2 /\ name = "image" /\ q.handler \in {"upload", "files"}

Sound(name, q) ==
    /\ Stacked(q)
    /\ q.at \in {"chain", "handler"} => Pure(q)
    /\ q.at = "chain" => Deep(name, q)
    /\ q.at = "handler" => Behind(name, q)
    /\ q.at = "panic" => Fresh(q) /\ Len(q.frames) >= 3
    /\ q.at \in {"return", "done"} => Answered(q)
    /\ q.at = "done" => q.frames = << >>

Answering == HasRecover => \A r \in Reqs : Sound(This.name, req[r])

\* A status that is the first to be written is the answer, and Log sees it.
LEMMA RejectSound ==
    ASSUME NEW name, NEW q \in Records, Stacked(q), Fresh(q), Len(q.frames) \in {2, 4, 5},
           NEW s \in Codes, q.panicked => s = "500", NEW w, w = Reject(q, s)
    PROVE  Sound(name, w)
<1>1. /\ w.in = q.in /\ w.status = s /\ w.late = FALSE /\ w.implicit = FALSE
      /\ Len(w.frames) = Len(q.frames) /\ Len(q.frames) \in Nat
      /\ \A i \in 1 .. Len(q.frames) :
            /\ w.frames[i].mw = q.frames[i].mw
            /\ q.frames[i].mw = "Log" => w.frames[i].saw = s
      /\ w.at = "return" /\ w.user = q.user
      /\ w.logs = q.logs /\ w.panicked = q.panicked
  <2>1. w \in Records BY Rejected
  <2>2. w.late \in BOOLEAN /\ w.implicit \in BOOLEAN BY <2>1 DEF Records
  <2> QED BY <2>2, Rejected, FramesSeq DEF SameWay, Fresh
<1>2. s # NoStatus BY DEF Codes, NoStatus
<1>3. Stacked(w) BY <1>1 DEF Stacked
<1>4. w.logs = << >> /\ DOMAIN w.logs = {} BY <1>1 DEF Fresh
<1>5. Logged(w)
  <2>1. \A n \in {2, 4, 5} : n >= 2 OBVIOUS
  <2>2. Len(w.frames) >= 2 BY <1>1, <2>1
  <2> QED BY <1>1, <1>4, <2>2 DEF Logged
<1> QED BY <1>1, <1>2, <1>3, <1>5 DEF Sound, Answered

\* A middleware comes onto the stack where it belongs.
LEMMA PushSound ==
    ASSUME NEW name, NEW q \in Records, Sound(name, q), q.at = "chain",
           NEW mw, NEW w, SameWay(w, q),
           Len(w.frames) = Len(q.frames) + 1, w.next = q.next + 1,
           \A i \in 1 .. Len(q.frames) : w.frames[i] = q.frames[i],
           w.frames[Len(q.frames) + 1].mw = mw,
           w.at = q.at, w.status = q.status, w.late = q.late,
           w.logs = q.logs, w.implicit = q.implicit, w.panicked = q.panicked,
           \/ q.rt = 1 /\ q.next <= 2 /\ w.user = q.user
           \/ q.rt = 2 /\ q.next <= 2 /\ w.user = q.user
           \/ q.rt = 2 /\ q.next = 3 /\ w.user = UserOf(q.in.token) /\ w.user # NoUser,
           mw = Stack[Len(q.frames) + 1]
    PROVE  Sound(name, w)
<1>1. Len(q.frames) \in Nat /\ q.next \in Nat \ {0} BY FramesSeq DEF Records
<1>2. Stacked(q) /\ Pure(q) /\ Deep(name, q) BY DEF Sound
<1>3. \/ q.rt = 1 /\ Len(q.frames) = q.next - 1
      \/ q.rt = 2 /\ Len(q.frames) = q.next + 1
  BY <1>2 DEF Deep
<1>4. Len(w.frames) <= 5 BY <1>1, <1>3
<1>5. \A i \in 1 .. Len(w.frames) : w.frames[i].mw = Stack[i]
  <2>1. ASSUME NEW i \in 1 .. Len(w.frames) PROVE w.frames[i].mw = Stack[i]
    <3>1. i \in 1 .. Len(q.frames) \/ i = Len(q.frames) + 1 BY <1>1
    <3> QED BY <1>2, <3>1 DEF Stacked
  <2> QED BY <2>1
<1>6. Stacked(w) BY <1>2, <1>4, <1>5 DEF Stacked, SameWay
<1>7. Pure(w) BY <1>1, <1>2, <1>3 DEF Pure, Fresh
<1>8. Deep(name, w) BY <1>1, <1>3 DEF Deep, SameWay
<1> QED BY <1>6, <1>7, <1>8 DEF Sound

-----------------------------------------------------------------------------
(* The routers once they are built. *)

Wired ==
    /\ DOMAIN routers = 1 .. 3
    /\ routers[1].len = 2 /\ Chain(1)[1] = "Recover" /\ Chain(1)[2] = "Log"
    /\ routers[2].len = 3 /\ Chain(2)[1] = "Recover" /\ Chain(2)[2] = "Log"
    /\ Chain(2)[3] = "Auth"
    /\ routers[3].len = 0
    /\ RoutesAs

LEMMA ServedWired ==
    ASSUME TypeInv, BuiltFirst, WiredInv, HasRecover, NEW r \in Reqs, req[r].at # "idle"
    PROVE  Wired /\ This.name \in {"words", "image"}
<1>1. built = Len(This.calls) BY DEF BuiltFirst
<1>2. /\ MountsAs(This.name, This.calls) /\ This.name \in {"words", "image"}
  BY RecoverCalls DEF TypeInv
<1>3. Len(This.calls) \in Nat
  BY ProgramsAssumption, LenProperties DEF TypeInv, SliceInv, RouterTypeOK, This
<1>4. built \in Nat /\ built >= 6 BY <1>1, <1>2, <1>3 DEF MountsAs
<1>5. /\ DOMAIN routers = 1 .. 3 /\ RoutesAs
      /\ Chain(1) = <<"Recover", "Log">> /\ Chain(2) = <<"Recover", "Log", "Auth">>
      /\ Chain(3) = << >>
  BY <1>4 DEF WiredInv, BuiltAs
<1>6. /\ routers[1].len = Len(Chain(1)) /\ routers[2].len = Len(Chain(2))
      /\ routers[3].len = Len(Chain(3))
  BY <1>5, SliceTypes DEF TypeInv
<1>7. routers[1].len = 2 /\ routers[2].len = 3 /\ routers[3].len = 0 BY <1>5, <1>6
<1> QED BY <1>2, <1>5, <1>7 DEF Wired

-----------------------------------------------------------------------------
(* Each step of a request leaves it sound. *)

LEMMA SoundNext ==
    ASSUME ReqInv, Answering, This' = This, NEW r \in Reqs, NEW w,
           req' = [req EXCEPT ![r] = w], HasRecover => Sound(This.name, w)
    PROVE  Answering'
<1> SUFFICES ASSUME HasRecover, NEW x \in Reqs PROVE Sound(This.name, req'[x])
  BY DEF Answering, HasRecover
<1>1. CASE x = r
  <2>1. req'[x] = w BY <1>1 DEF ReqInv
  <2> QED BY <2>1
<1>2. CASE x # r
  <2>1. req'[x] = req[x] BY <1>2 DEF ReqInv
  <2> QED BY <2>1 DEF Answering
<1> QED BY <1>1, <1>2

LEMMA EnterSound ==
    ASSUME TypeInv, Wired, NEW r \in Reqs, Sound(This.name, req[r]), Enter(r)
    PROVE  \E w : req' = [req EXCEPT ![r] = w] /\ Sound(This.name, w)
<1>1. PICK q, name : q = req[r] /\ name = This.name OBVIOUS
<1>2. PICK mw, user : mw = Chain(q.rt)[q.next] /\ user = UserOf(q.in.token) OBVIOUS
<1>3. /\ q \in Records /\ q.rt \in DOMAIN routers /\ q.at = "chain"
      /\ q.next <= routers[q.rt].len
  BY <1>1 DEF TypeInv, ReqInv, Enter
<1>4. PICK w : /\ req' = [req EXCEPT ![r] = w]
               /\ w = IF mw # "Auth" THEN Push(q, mw)
                      ELSE IF user = NoUser THEN Reject(q, "401")
                      ELSE Known(Push(q, mw), user)
  BY <1>1, <1>2 DEF Enter, Known
<1>5. /\ q.next \in Nat \ {0} /\ Len(q.frames) \in Nat
      /\ Stacked(q) /\ Pure(q) /\ Deep(name, q)
  BY <1>1, <1>3, FramesSeq DEF Records, Sound
<1>6. mw \in Middlewares BY <1>2, <1>3, <1>5, NextMiddleware
<1>7. user \in STRING \cup {NoUser} BY <1>2, <1>3, UserTypes
<1>8. \/ q.rt = 1 /\ q.next <= 2 /\ mw = Stack[Len(q.frames) + 1] /\ mw # "Auth"
      \/ q.rt = 2 /\ q.next <= 2 /\ mw = Stack[Len(q.frames) + 1] /\ mw # "Auth"
      \/ /\ q.rt = 2 /\ q.next = 3 /\ mw = Stack[Len(q.frames) + 1] /\ mw = "Auth"
         /\ Len(q.frames) = 4
  <2>1. q.rt \in 1 .. 3 BY <1>3 DEF Wired
  <2>2. CASE q.rt = 1
    <3>1. q.next \in {1, 2} /\ Len(q.frames) = q.next - 1
      BY <1>3, <1>5, <2>2 DEF Wired, Deep
    <3>2. CASE q.next = 1 BY <1>2, <2>2, <3>1, <3>2 DEF Wired, Stack
    <3>3. CASE q.next = 2 BY <1>2, <2>2, <3>1, <3>3 DEF Wired, Stack
    <3> QED BY <3>1, <3>2, <3>3
  <2>3. CASE q.rt = 2
    <3>1. q.next \in {1, 2, 3} /\ Len(q.frames) = q.next + 1
      BY <1>3, <1>5, <2>3 DEF Wired, Deep
    <3>2. CASE q.next = 1 BY <1>2, <2>3, <3>1, <3>2 DEF Wired, Stack
    <3>3. CASE q.next = 2 BY <1>2, <2>3, <3>1, <3>3 DEF Wired, Stack
    <3>4. CASE q.next = 3 BY <1>2, <2>3, <3>1, <3>4 DEF Wired, Stack
    <3> QED BY <3>1, <3>2, <3>3, <3>4
  <2>4. q.rt # 3 BY <1>3, <1>5 DEF Wired
  <2> QED BY <2>1, <2>2, <2>3, <2>4
<1>9. Sound(name, w)
  <2>1. CASE mw # "Auth"
    <3>1. w = Push(q, mw) BY <1>4, <2>1
    <3>2. /\ SameWay(w, q) /\ Len(w.frames) = Len(q.frames) + 1 /\ w.next = q.next + 1
          /\ \A i \in 1 .. Len(q.frames) : w.frames[i] = q.frames[i]
          /\ w.frames[Len(q.frames) + 1].mw = mw
          /\ w.at = q.at /\ w.user = q.user /\ w.status = q.status /\ w.late = q.late
          /\ w.logs = q.logs /\ w.implicit = q.implicit /\ w.panicked = q.panicked
      BY <1>3, <1>6, <3>1, Pushed
    <3> QED BY <1>1, <1>3, <1>8, <2>1, <3>2, PushSound
  <2>2. CASE mw = "Auth" /\ user = NoUser
    <3>1. w = Reject(q, "401") BY <1>4, <2>2
    <3>2. "401" \in Codes BY DEF Codes
    <3>3. Fresh(q) /\ ~q.panicked BY <1>5 DEF Pure
    <3>4. Len(q.frames) \in {2, 4, 5} BY <1>8, <2>2
    <3> QED BY <1>3, <1>5, <3>1, <3>2, <3>3, <3>4, RejectSound
  <2>3. CASE mw = "Auth" /\ user # NoUser
    <3>1. w = Known(Push(q, mw), user) BY <1>4, <2>3
    <3>2. /\ SameWay(w, q) /\ w.user = user
          /\ Len(w.frames) = Len(q.frames) + 1 /\ w.next = q.next + 1
          /\ \A i \in 1 .. Len(q.frames) : w.frames[i] = q.frames[i]
          /\ w.frames[Len(q.frames) + 1].mw = mw
          /\ w.at = q.at /\ w.status = q.status /\ w.late = q.late
          /\ w.logs = q.logs /\ w.implicit = q.implicit /\ w.panicked = q.panicked
      BY <1>3, <1>6, <1>7, <3>1, Authorized
    <3>3. q.rt = 2 /\ q.next = 3 /\ mw = Stack[Len(q.frames) + 1] BY <1>8, <2>3
    <3>4. w.user = UserOf(q.in.token) /\ w.user # NoUser BY <1>2, <2>3, <3>2
    <3>5. Sound(name, q) /\ q.at = "chain" BY <1>1, <1>3
    <3> QED BY <1>3, <3>2, <3>3, <3>4, <3>5, PushSound
  <2> QED BY <2>1, <2>2, <2>3
<1> QED BY <1>1, <1>4, <1>9

LEMMA DispatchSound ==
    ASSUME TypeInv, Wired, This.name \in {"words", "image"},
           NEW r \in Reqs, Sound(This.name, req[r]), Dispatch(r)
    PROVE  \E w : req' = [req EXCEPT ![r] = w] /\ Sound(This.name, w)
<1>1. PICK q, name : q = req[r] /\ name = This.name OBVIOUS
<1>2. /\ q \in Records /\ q.at = "chain" /\ q.rt \in DOMAIN routers
      /\ q.next > routers[q.rt].len
      /\ \E w : /\ req' = [req EXCEPT ![r] = w]
                /\ \/ \E s \in {"404", "405"} : w = Reject(q, s)
                   \/ \E route \in routers[q.rt].routes :
                         /\ route \in Routes
                         /\ IF route.rt = 0 THEN route.handler \in DOMAIN Handlers
                            ELSE route.rt \in DOMAIN routers
                         /\ w = Follow(q, route)
  BY <1>1, Dispatched
<1>3. PICK w : /\ req' = [req EXCEPT ![r] = w]
               /\ \/ \E s \in {"404", "405"} : w = Reject(q, s)
                  \/ \E route \in routers[q.rt].routes :
                        /\ route \in Routes
                        /\ IF route.rt = 0 THEN route.handler \in DOMAIN Handlers
                           ELSE route.rt \in DOMAIN routers
                        /\ w = Follow(q, route)
  BY <1>2
<1>4. /\ q.next \in Nat \ {0} /\ Len(q.frames) \in Nat
      /\ Stacked(q) /\ Pure(q) /\ Deep(name, q)
  BY <1>1, <1>2, FramesSeq DEF Records, Sound
<1>5. \/ q.rt = 1 /\ Len(q.frames) = 2
      \/ q.rt = 2 /\ Len(q.frames) = 5
      \/ q.rt = 3 /\ name = "words" /\ Len(q.frames) = 5
      \/ q.rt = 3 /\ name = "image" /\ Len(q.frames) = 2
  <2>1. q.rt \in 1 .. 3 BY <1>2 DEF Wired
  <2>2. CASE q.rt = 1
    <3>1. q.next = 3 /\ Len(q.frames) = q.next - 1
      BY <1>2, <1>4, <2>2 DEF Wired, Deep
    <3> QED BY <2>2, <3>1
  <2>3. CASE q.rt = 2
    <3>1. q.next = 4 /\ Len(q.frames) = q.next + 1
      BY <1>2, <1>4, <2>3 DEF Wired, Deep
    <3> QED BY <2>3, <3>1
  <2>4. CASE q.rt = 3 BY <1>4, <2>4 DEF Deep
  <2> QED BY <2>1, <2>2, <2>3, <2>4
<1>6. Sound(name, w)
  <2>1. CASE \E s \in {"404", "405"} : w = Reject(q, s)
    <3>1. PICK s \in Codes : w = Reject(q, s) BY <2>1 DEF Codes
    <3>2. Fresh(q) /\ ~q.panicked BY <1>4 DEF Pure
    <3>3. Len(q.frames) \in {2, 4, 5} BY <1>5
    <3> QED BY <1>2, <1>4, <3>1, <3>2, <3>3, RejectSound
  <2>2. ASSUME NEW route \in routers[q.rt].routes, route \in Routes,
               IF route.rt = 0 THEN route.handler \in DOMAIN Handlers
               ELSE route.rt \in DOMAIN routers,
               w = Follow(q, route)
        PROVE  Sound(name, w)
    <3>1. Mounted(name, q.rt, route.rt, route.handler)
      BY <1>1, <1>2, <2>2 DEF Wired, RoutesAs
    <3>2. /\ w.in = q.in /\ w.frames = q.frames /\ w.user = q.user
          /\ w.status = q.status /\ w.logs = q.logs
          /\ w.implicit = q.implicit /\ w.late = q.late /\ w.panicked = q.panicked
          /\ route.rt = 0 => w.at = "handler" /\ w.handler = route.handler /\ w.rt = q.rt
          /\ route.rt # 0 => /\ w.at = q.at /\ w.rt = route.rt /\ w.next = 1
                             /\ w.handler = q.handler
      BY <1>2, <2>2, Followed
    <3>3. Stacked(w) /\ Pure(w) BY <1>4, <3>2 DEF Stacked, Pure, Fresh
    <3>4. CASE route.rt = 0
      <4>1. w.at = "handler" /\ w.handler = route.handler BY <3>2, <3>4
      <4>2. \/ q.rt = 1 /\ route.handler = "health"
            \/ q.rt = 3 /\ name = "image" /\ route.handler \in {"upload", "files"}
            \/ q.rt = 3 /\ name = "words" /\ route.handler # "health"
        BY <3>1, <3>4 DEF Mounted
      <4>3. Behind(name, w) BY <1>5, <3>2, <4>1, <4>2 DEF Behind
      <4> QED BY <3>3, <4>1, <4>3 DEF Sound
    <3>5. CASE route.rt # 0
      <4>1. w.at = "chain" /\ w.rt = route.rt /\ w.next = 1 BY <1>2, <3>2, <3>5
      <4>2. \/ q.rt = 1 /\ route.rt = 2
            \/ q.rt = 1 /\ route.rt = 3 /\ name = "image"
            \/ q.rt = 2 /\ route.rt = 3 /\ name = "words"
        BY <3>1, <3>5 DEF Mounted
      <4>3. Deep(name, w) BY <1>5, <3>2, <4>1, <4>2 DEF Deep
      <4> QED BY <3>3, <4>1, <4>3 DEF Sound
    <3> QED BY <3>4, <3>5
  <2> QED BY <1>3, <2>1, <2>2
<1> QED BY <1>1, <1>3, <1>6

\* A handler that panics is behind Auth, and so behind the Recover of the sub-router.
LEMMA StepSound ==
    ASSUME TypeInv, NEW r \in Reqs, Sound(This.name, req[r]), HandlerStep(r)
    PROVE  \E w : req' = [req EXCEPT ![r] = w] /\ Sound(This.name, w)
<1>1. PICK q, name : q = req[r] /\ name = This.name OBVIOUS
<1>2. /\ q.at = "handler" /\ q \in Records /\ q.handler \in DOMAIN Handlers
      /\ q.step <= Len(Handlers[q.handler].steps)
      /\ Handlers[q.handler].steps[q.step] \subseteq Codes
  BY <1>1, HandlerRuns DEF HandlerStep
<1>3. PICK w : /\ req' = [req EXCEPT ![r] = w]
               /\ \/ w = [q EXCEPT !.step = @ + 1]
                  \/ \E s \in Codes : w = Reject(q, s)
                  \/ /\ w = [q EXCEPT !.at = "panic", !.panicked = TRUE]
                     /\ Handlers[q.handler].panics # {}
  <2>1. CASE req' = [req EXCEPT ![r].step = @ + 1]
    <3>1. req' = [req EXCEPT ![r] = [q EXCEPT !.step = @ + 1]] BY <1>1, <2>1
    <3> QED BY <3>1
  <2>2. CASE \E s \in Handlers[q.handler].steps[q.step] :
                req' = [req EXCEPT ![r] = Reject(q, s)]
    BY <1>2, <2>2
  <2>3. CASE /\ q.step \in Handlers[q.handler].panics
             /\ req' = [req EXCEPT ![r] = [q EXCEPT !.at = "panic", !.panicked = TRUE]]
    BY <2>3
  <2> QED BY <1>1, <2>1, <2>2, <2>3 DEF HandlerStep
<1>4. /\ Len(q.frames) \in Nat /\ Stacked(q) /\ Pure(q) /\ Behind(name, q)
  BY <1>1, <1>2, FramesSeq DEF Sound
<1>5. Sound(name, w)
  <2>1. CASE w = [q EXCEPT !.step = @ + 1]
    <3>1. /\ w.at = q.at /\ w.frames = q.frames /\ w.user = q.user /\ w.in = q.in
          /\ w.status = q.status /\ w.logs = q.logs /\ w.handler = q.handler
          /\ w.implicit = q.implicit /\ w.late = q.late /\ w.panicked = q.panicked
      BY <1>2, <2>1 DEF Records
    <3>2. Stacked(w) /\ Pure(w) /\ Behind(name, w)
      BY <1>4, <3>1 DEF Stacked, Pure, Fresh, Behind
    <3> QED BY <1>2, <3>1, <3>2 DEF Sound
  <2>2. CASE \E s \in Codes : w = Reject(q, s)
    <3>1. PICK s \in Codes : w = Reject(q, s) BY <2>2
    <3>2. Fresh(q) /\ ~q.panicked BY <1>4 DEF Pure
    <3>3. Len(q.frames) \in {2, 4, 5} BY <1>4 DEF Behind
    <3> QED BY <1>2, <1>4, <3>1, <3>2, <3>3, RejectSound
  <2>3. CASE /\ w = [q EXCEPT !.at = "panic", !.panicked = TRUE]
             /\ Handlers[q.handler].panics # {}
    <3>1. /\ w.at = "panic" /\ w.frames = q.frames /\ w.user = q.user /\ w.in = q.in
          /\ w.status = q.status /\ w.logs = q.logs
          /\ w.implicit = q.implicit /\ w.late = q.late
      BY <1>2, <2>3 DEF Records
    <3>2. q.handler \notin {"health", "upload", "files"} BY <1>2, <2>3, HandlerTypes
    <3>3. Len(q.frames) = 5 BY <1>4, <3>2 DEF Behind
    <3>4. Stacked(w) /\ Fresh(w) BY <1>4, <3>1 DEF Stacked, Pure, Fresh
    <3> QED BY <3>1, <3>3, <3>4 DEF Sound
  <2> QED BY <1>3, <2>1, <2>2, <2>3
<1> QED BY <1>1, <1>3, <1>5

LEMMA AnswerSound ==
    ASSUME TypeInv, NEW r \in Reqs, Sound(This.name, req[r]), WriteAnswer(r)
    PROVE  \E w : req' = [req EXCEPT ![r] = w] /\ Sound(This.name, w)
<1>1. PICK q, name : q = req[r] /\ name = This.name OBVIOUS
<1>2. PICK ok \in Codes : ok = Handlers[q.handler].ok
  BY <1>1, HandlerRuns DEF WriteAnswer
<1>3. q.at = "handler" /\ q \in Records BY <1>1, HandlerRuns DEF WriteAnswer
<1>4. PICK w : /\ req' = [req EXCEPT ![r] = w]
               /\ \/ w = Reject(q, ok) \/ w = Reject(Reject(q, ok), "500")
                  \/ w = [WriteBody(q) EXCEPT !.at = "return"]
  BY <1>1, <1>2 DEF WriteAnswer
<1>5. /\ Len(q.frames) \in Nat /\ Stacked(q) /\ Pure(q) /\ Fresh(q) /\ ~q.panicked
      /\ Len(q.frames) \in {2, 4, 5}
  <2>1. Stacked(q) /\ Pure(q) /\ Behind(name, q) BY <1>1, <1>3 DEF Sound
  <2> QED BY <1>3, <2>1, FramesSeq DEF Pure, Behind
<1>6. PICK sent : sent = Reject(q, ok) OBVIOUS
<1>7. sent \in Records /\ Sound(name, sent) /\ sent.at = "return"
      /\ sent.panicked = q.panicked
  BY <1>2, <1>3, <1>5, <1>6, Rejected, RejectSound
<1>8. CASE w = sent BY <1>1, <1>4, <1>7, <1>8
<1>9. CASE w = Reject(sent, "500")
  <2>1. "500" \in Codes BY DEF Codes
  <2>2. /\ w.in = sent.in /\ w.user = sent.user /\ w.at = "return" /\ w.late
        /\ w.status = sent.status /\ w.panicked = sent.panicked
        /\ Len(w.frames) = Len(sent.frames)
        /\ \A i \in 1 .. Len(sent.frames) : w.frames[i].mw = sent.frames[i].mw
    <3>1. sent.status # NoStatus BY <1>7 DEF Sound, Answered
    <3>2. w.late \in BOOLEAN
      <4>1. w \in Records BY <1>7, <1>9, <2>1, Rejected
      <4> QED BY <4>1 DEF Records
    <3> QED BY <1>7, <1>9, <2>1, <3>1, <3>2, Rejected DEF SameWay
  <2>3. Stacked(w) BY <1>7, <2>2 DEF Sound, Stacked
  <2>4. Answered(w) BY <1>5, <1>7, <2>2 DEF Sound, Answered
  <2>5. Sound(name, w) BY <2>2, <2>3, <2>4 DEF Sound
  <2> QED BY <1>1, <1>4, <2>5
<1>10. CASE w = [WriteBody(q) EXCEPT !.at = "return"]
  <2>1. /\ w.in = q.in /\ w.user = q.user /\ w.at = "return" /\ w.implicit
        /\ w.status = "200" /\ w.panicked = q.panicked /\ w.frames = q.frames
    <3>1. /\ w \in Records /\ SameWay(w, q)
          /\ w.status = IF q.status = NoStatus THEN "200" ELSE q.status
          /\ w.implicit <=> (q.implicit \/ q.status = NoStatus)
          /\ w.frames = q.frames /\ w.at = "return" /\ w.user = q.user
          /\ w.panicked = q.panicked
      BY <1>3, <1>10, BodyWritten
    <3>2. w.implicit \in BOOLEAN BY <3>1 DEF Records
    <3> QED BY <1>5, <3>1, <3>2 DEF SameWay, Fresh
  <2>2. Stacked(w) BY <1>5, <2>1 DEF Stacked
  <2>3. Answered(w) BY <1>5, <2>1 DEF Answered, NoStatus
  <2>4. Sound(name, w) BY <2>1, <2>2, <2>3 DEF Sound
  <2> QED BY <1>1, <1>4, <2>4
<1> QED BY <1>4, <1>6, <1>8, <1>9, <1>10

LEMMA ReturnSound ==
    ASSUME TypeInv, NEW r \in Reqs, Sound(This.name, req[r]), Return(r)
    PROVE  \E w : req' = [req EXCEPT ![r] = w] /\ Sound(This.name, w)
<1>1. PICK q, name : q = req[r] /\ name = This.name OBVIOUS
<1>2. q \in Records /\ q.at = "return" /\ q.frames # << >> /\ Sound(name, q)
  BY <1>1 DEF TypeInv, ReqInv, Return
<1>3. PICK w : /\ req' = [req EXCEPT ![r] = w]
               /\ w = Left(q)
  BY <1>1 DEF Return, Left
<1>4. PICK n \in Nat \ {0} : n = Len(q.frames) BY <1>2, <1>3, Returned
<1>5. /\ w \in Records /\ w.in = q.in /\ Len(w.frames) = n - 1
      /\ \A i \in 1 .. Len(w.frames) : w.frames[i] = q.frames[i]
      /\ q.frames[n].mw = "Log" => w.logs = Append(q.logs, q.frames[n].saw)
      /\ q.frames[n].mw # "Log" => w.logs = q.logs
      /\ w.at = q.at /\ w.user = q.user /\ w.status = q.status /\ w.late = q.late
      /\ w.implicit = q.implicit /\ w.panicked = q.panicked
  <2>1. /\ w \in Records /\ SameWay(w, q)
        /\ Len(w.frames) = Len(q.frames) - 1
        /\ \A i \in 1 .. Len(w.frames) : w.frames[i] = q.frames[i]
        /\ q.frames[Len(q.frames)].mw = "Log" =>
              w.logs = Append(q.logs, q.frames[Len(q.frames)].saw)
        /\ q.frames[Len(q.frames)].mw # "Log" => w.logs = q.logs
        /\ w.at = q.at /\ w.user = q.user /\ w.status = q.status /\ w.late = q.late
        /\ w.implicit = q.implicit /\ w.panicked = q.panicked
    BY <1>2, <1>3, Returned
  <2> QED BY <1>4, <2>1 DEF SameWay
<1>6. Stacked(q) /\ Answered(q) BY <1>2 DEF Sound
<1>7. n <= 5 /\ q.frames[n].mw = Stack[n] BY <1>4, <1>6 DEF Stacked
<1>8. Stacked(w)
  <2>1. Len(w.frames) <= 5 BY <1>5, <1>7
  <2>2. ASSUME NEW i \in 1 .. Len(w.frames) PROVE w.frames[i].mw = Stack[i]
    <3>1. i \in 1 .. n BY <1>5
    <3> QED BY <1>4, <1>5, <1>6, <3>1 DEF Stacked
  <2> QED BY <1>5, <1>6, <2>1, <2>2 DEF Stacked
<1>9. ASSUME Logged(q) PROVE Logged(w)
  <2>1. \A i \in 1 .. Len(w.frames) : w.frames[i].mw = "Log" => w.frames[i].saw = w.status
    <3>1. \A i \in 1 .. Len(w.frames) : i \in 1 .. n BY <1>5
    <3> QED BY <1>4, <1>5, <1>9, <3>1 DEF Logged
  <2>2. CASE q.frames[n].mw = "Log"
    <3>1. q.frames[n].saw = q.status BY <1>4, <1>9, <2>2 DEF Logged
    <3>2. q.logs \in Seq(Noted) /\ q.status \in Noted
      <4>1. q.frames[n] \in Frames BY <1>2, <1>4, FramesSeq
      <4> QED BY <1>2, <3>1, <4>1 DEF Records, Frames
    <3>3. w.logs = Append(q.logs, q.status) BY <1>5, <2>2, <3>1
    <3>4. /\ Len(w.logs) = Len(q.logs) + 1 /\ Len(q.logs) \in Nat /\ w.logs \in Seq(Noted)
          /\ \A i \in 1 .. Len(q.logs) : w.logs[i] = q.logs[i]
          /\ w.logs[Len(q.logs) + 1] = q.status
      BY <3>2, <3>3, AppendProperties, LenProperties
    <3>5. DOMAIN w.logs = 1 .. Len(w.logs) /\ DOMAIN q.logs = 1 .. Len(q.logs)
      BY <3>2, <3>4, LenProperties
    <3>6. ASSUME NEW i \in DOMAIN w.logs PROVE w.logs[i] = w.status
      <4>1. i \in 1 .. Len(q.logs) \/ i = Len(q.logs) + 1 BY <3>4, <3>5
      <4> QED BY <1>5, <1>9, <3>4, <3>5, <4>1 DEF Logged
    <3>7. w.logs # << >> BY <3>4, EmptySeq
    <3> QED BY <2>1, <3>6, <3>7 DEF Logged
  <2>3. CASE q.frames[n].mw # "Log"
    <3>1. w.logs = q.logs BY <1>5, <2>3
    <3>2. n # 2 BY <1>7, <2>3 DEF Stack
    <3>3. n >= 2 => Len(w.frames) >= 2 BY <1>5, <3>2
    <3>4. q.logs # << >> \/ n >= 2 BY <1>4, <1>9 DEF Logged
    <3>5. \A i \in DOMAIN w.logs : w.logs[i] = w.status BY <1>5, <1>9, <3>1 DEF Logged
    <3> QED BY <2>1, <3>1, <3>3, <3>4, <3>5 DEF Logged
  <2> QED BY <2>2, <2>3
<1>10. Answered(w) BY <1>5, <1>6, <1>9 DEF Answered
<1>11. Sound(name, w) BY <1>2, <1>5, <1>8, <1>10 DEF Sound
<1> QED BY <1>1, <1>3, <1>11

\* A panic comes as far as the Recover of the sub-router, inside the first Log.
LEMMA UnwindSound ==
    ASSUME TypeInv, NEW r \in Reqs, Sound(This.name, req[r]), Unwind(r)
    PROVE  \E w : req' = [req EXCEPT ![r] = w] /\ Sound(This.name, w)
<1>1. PICK q, name : q = req[r] /\ name = This.name OBVIOUS
<1>2. q \in Records /\ q.at = "panic" /\ q.frames # << >> /\ Sound(name, q)
  BY <1>1 DEF TypeInv, ReqInv, Unwind
<1>3. PICK v : v = Popped(q) OBVIOUS
<1>4. PICK w : /\ req' = [req EXCEPT ![r] = w]
               /\ w = IF Last(q.frames).mw = "Recover" THEN Reject(v, "500") ELSE v
  BY <1>1, <1>3 DEF Unwind, Recovered
<1>5. PICK n \in Nat \ {0} : n = Len(q.frames) BY <1>2, <1>3, PoppedIs
<1>6. /\ v \in Records /\ v.in = q.in /\ Len(v.frames) = n - 1
      /\ \A i \in 1 .. Len(v.frames) : v.frames[i] = q.frames[i]
      /\ Last(q.frames) = q.frames[n]
      /\ v.at = q.at /\ v.user = q.user /\ v.status = q.status /\ v.late = q.late
      /\ v.logs = q.logs /\ v.implicit = q.implicit /\ v.panicked = q.panicked
  BY <1>2, <1>3, <1>5, PoppedIs DEF SameWay
<1>7. Stacked(q) /\ Fresh(q) /\ n >= 3 BY <1>2, <1>5 DEF Sound
<1>8. n \in {3, 4, 5} /\ q.frames[n].mw = Stack[n]
  <2>1. n <= 5 /\ n \in 1 .. n BY <1>5, <1>7 DEF Stacked
  <2>2. n \in {3, 4, 5} BY <1>7, <2>1
  <2> QED BY <1>5, <1>7, <2>1, <2>2 DEF Stacked
<1>9. Stacked(v) /\ Fresh(v)
  <2>1. Len(v.frames) <= 5 BY <1>6, <1>8
  <2>2. ASSUME NEW i \in 1 .. Len(v.frames) PROVE v.frames[i].mw = Stack[i]
    <3>1. i \in 1 .. n BY <1>6
    <3> QED BY <1>5, <1>6, <1>7, <3>1 DEF Stacked
  <2> QED BY <1>6, <1>7, <2>1, <2>2 DEF Stacked, Fresh
<1>10. Sound(name, w)
  <2>1. CASE n = 3
    <3>1. Last(q.frames).mw = "Recover" BY <1>6, <1>8, <2>1 DEF Stack
    <3>2. w = Reject(v, "500") /\ "500" \in Codes BY <1>4, <3>1 DEF Codes
    <3>3. Len(v.frames) \in {2, 4, 5} BY <1>6, <2>1
    <3> QED BY <1>6, <1>9, <3>2, <3>3, RejectSound
  <2>2. CASE n # 3
    <3>1. Last(q.frames).mw # "Recover" /\ Len(v.frames) >= 3
      <4>1. CASE n = 4 BY <1>6, <1>8, <4>1 DEF Stack
      <4>2. CASE n = 5 BY <1>6, <1>8, <4>2 DEF Stack
      <4> QED BY <1>8, <2>2, <4>1, <4>2
    <3>2. w = v BY <1>4, <3>1
    <3> QED BY <1>2, <1>6, <1>9, <3>1, <3>2 DEF Sound
  <2> QED BY <2>1, <2>2
<1> QED BY <1>1, <1>4, <1>10

LEMMA FinishSound ==
    ASSUME TypeInv, NEW r \in Reqs, Sound(This.name, req[r]), Finish(r)
    PROVE  \E w : req' = [req EXCEPT ![r] = w] /\ Sound(This.name, w)
<1>1. PICK q, name : q = req[r] /\ name = This.name OBVIOUS
<1>2. /\ q \in Records /\ q.at \in {"return", "panic"} /\ q.frames = << >>
      /\ Sound(name, q)
  BY <1>1 DEF TypeInv, ReqInv, Finish
<1>3. q.at = "return"
  <2>1. Len(q.frames) = 0 BY <1>2
  <2> QED BY <1>2, <2>1 DEF Sound
<1>4. PICK w : /\ req' = [req EXCEPT ![r] = w]
               /\ w = [q EXCEPT !.at = "done"]
  <2>1. req' = [req EXCEPT ![r] =
                   [q EXCEPT !.at = "done",
                             !.status = IF q.at = "panic" THEN "aborted" ELSE @]]
    BY <1>1 DEF Finish
  <2>2. [q EXCEPT !.at = "done", !.status = q.status] = [q EXCEPT !.at = "done"]
    BY <1>2 DEF Records
  <2> QED BY <1>3, <2>1, <2>2
<1>5. /\ w.at = "done" /\ w.frames = q.frames /\ w.user = q.user /\ w.in = q.in
      /\ w.status = q.status /\ w.logs = q.logs
      /\ w.implicit = q.implicit /\ w.late = q.late /\ w.panicked = q.panicked
  BY <1>2, <1>4 DEF Records
<1>6. Stacked(w) /\ Answered(w)
  BY <1>2, <1>3, <1>5 DEF Sound, Stacked, Answered, Logged
<1>7. Sound(name, w) BY <1>2, <1>5, <1>6 DEF Sound
<1> QED BY <1>1, <1>4, <1>7

LEMMA ArriveSound ==
    ASSUME NEW r \in Reqs, NEW in \in Sent, Arrive(r, in), NEW name
    PROVE  \E w : req' = [req EXCEPT ![r] = w] /\ Sound(name, w)
<1>1. PICK w : /\ req' = [req EXCEPT ![r] = w]
               /\ w = [IdleReq EXCEPT !.at = "chain", !.in = in, !.path = in.path]
  BY DEF Arrive
<1>2. /\ w.at = "chain" /\ w.rt = 1 /\ w.next = 1
      /\ w.frames = << >> /\ w.user = NoUser
      /\ w.status = NoStatus /\ w.logs = << >>
      /\ ~w.implicit /\ ~w.late /\ ~w.panicked
  BY <1>1, Arrived
<1>3. Len(w.frames) = 0 BY <1>2
<1>4. Stacked(w) /\ Pure(w) /\ Deep(name, w) BY <1>2, <1>3 DEF Stacked, Pure, Fresh, Deep
<1>5. Sound(name, w) BY <1>2, <1>4 DEF Sound
<1> QED BY <1>1, <1>5

LEMMA ServeSound ==
    ASSUME TypeInv, Wired, This.name \in {"words", "image"},
           NEW r \in Reqs, Sound(This.name, req[r]), Serve(r)
    PROVE  \E w : req' = [req EXCEPT ![r] = w] /\ Sound(This.name, w)
<1>1. CASE Enter(r) BY <1>1, EnterSound
<1>2. CASE Dispatch(r) BY <1>2, DispatchSound
<1>3. CASE HandlerStep(r) BY <1>3, StepSound
<1>4. CASE WriteAnswer(r) BY <1>4, AnswerSound
<1>5. CASE Return(r) BY <1>5, ReturnSound
<1>6. CASE Unwind(r) BY <1>6, UnwindSound
<1>7. CASE Finish(r) BY <1>7, FinishSound
<1> QED BY <1>1, <1>2, <1>3, <1>4, <1>5, <1>6, <1>7 DEF Serve

-----------------------------------------------------------------------------
AnswerInv == TypeInv /\ BuiltFirst /\ WiredInv /\ Answering

LEMMA AnswerInit == Init => AnswerInv
<1> SUFFICES ASSUME Init PROVE Answering
  BY TypeInit, BuiltFirstInit, WiredInit DEF AnswerInv
<1> SUFFICES ASSUME NEW r \in Reqs PROVE \A name : Sound(name, req[r])
  BY DEF Answering
<1>1. req[r] = IdleReq BY DEF Init, ServingInit
<1>2. /\ IdleReq.at = "idle" /\ IdleReq.frames = << >> /\ IdleReq.user = NoUser
  BY DEF IdleReq
<1>3. Len(IdleReq.frames) = 0 BY <1>2
<1>4. Stacked(IdleReq) BY <1>2, <1>3 DEF Stacked
<1> QED BY <1>1, <1>2, <1>4 DEF Sound

LEMMA AnswerStep == AnswerInv /\ [Next]_vars => AnswerInv'
<1> SUFFICES ASSUME AnswerInv, [Next]_vars PROVE AnswerInv'
  OBVIOUS
<1> USE DEF AnswerInv
<1>1. TypeInv' BY TypeStep
<1>2. BuiltFirst' BY BuiltFirstStep
<1>3. WiredInv' BY OnlyBuild, WiredStep, WiredUnchanged DEF TypeInv
<1>4. This' = This
  <2>1. program' = program BY OnlyBuild DEF Build, routerVars
  <2> QED BY <2>1 DEF This
<1>5. Answering'
  <2>1. CASE req' = req BY <1>4, <2>1 DEF Answering, HasRecover
  <2>2. ASSUME NEW r \in Reqs, Serve(r) PROVE Answering'
    <3>1. CASE HasRecover
      <4>1. req[r].at # "idle" BY <2>2, ServeRuns DEF Running
      <4>2. Wired /\ This.name \in {"words", "image"} BY <3>1, <4>1, ServedWired
      <4>3. Sound(This.name, req[r]) BY <3>1 DEF Answering
      <4>4. PICK w : req' = [req EXCEPT ![r] = w] /\ Sound(This.name, w)
        BY <2>2, <4>2, <4>3, ServeSound
      <4> QED BY <1>4, <4>4, SoundNext DEF TypeInv
    <3>2. CASE ~HasRecover BY <1>4, <3>2 DEF Answering, HasRecover
    <3> QED BY <3>1, <3>2
  <2>3. ASSUME NEW r \in Reqs, NEW in \in Inputs[This.name], Arrive(r, in)
        PROVE  Answering'
    <3>1. in \in Sent BY InputsSent DEF TypeInv
    <3>2. PICK w : req' = [req EXCEPT ![r] = w] /\ Sound(This.name, w)
      BY <2>3, <3>1, ArriveSound
    <3> QED BY <1>4, <3>2, SoundNext DEF TypeInv
  <2> QED BY <2>1, <2>2, <2>3, OnlyServe
<1> QED BY <1>1, <1>2, <1>3, <1>5

LEMMA AnswerAlways == Spec => []AnswerInv
BY AnswerInit, AnswerStep, PTL DEF Spec

\* The handlers of the words API find the user of a token that is signed in their
\* context, for all the ways a request may take through slices, mux and Auth.
THEOREM HandlerHasUserAlways == Spec => []HandlerHasUser
<1>1. AnswerInv => HandlerHasUser
  <2> SUFFICES ASSUME AnswerInv, NEW r \in Reqs, This.name = "words",
                      req[r].at = "handler", req[r].handler # "health"
               PROVE  /\ req[r].user # NoUser
                      /\ req[r].in.token.signed
                      /\ req[r].user = req[r].in.token.sub
    BY DEF HandlerHasUser
  <2>1. Sound(This.name, req[r]) BY DEF AnswerInv, Answering, HasRecover
  <2>2. Behind(This.name, req[r]) /\ Pure(req[r]) /\ Stacked(req[r]) BY <2>1 DEF Sound
  <2>3. Len(req[r].frames) = 5 BY <2>2 DEF Behind
  <2>4. req[r].user = UserOf(req[r].in.token) /\ req[r].user # NoUser
    BY <2>2, <2>3 DEF Pure, Stacked
  <2> QED BY <2>4 DEF UserOf
<1> QED BY <1>1, AnswerAlways, PTL

\* A panic is answered 500: it comes from behind Auth, where the Recover of the sub-router
\* is on the stack, and nothing has been written yet.
THEOREM PanicIsAnsweredAlways == Spec => []PanicIsAnswered
<1>1. AnswerInv => PanicIsAnswered
  BY DEF AnswerInv, Answering, Sound, Answered, PanicIsAnswered
<1> QED BY <1>1, AnswerAlways, PTL

\* Every answer is logged with the status the client was sent, unless the handler wrote
\* no status or a second one: the first Log is never unwound.
THEOREM LogTellsAnswerAlways == Spec => []LogTellsAnswer
<1>1. AnswerInv => LogTellsAnswer
  <2> SUFFICES ASSUME AnswerInv, NEW r \in Reqs, HasRecover, req[r].at = "done",
                      ~req[r].implicit, ~req[r].late
               PROVE  /\ req[r].logs # << >>
                      /\ \A i \in DOMAIN req[r].logs : req[r].logs[i] = req[r].status
    BY DEF LogTellsAnswer
  <2>1. Sound(This.name, req[r]) BY DEF AnswerInv, Answering
  <2>2. Logged(req[r]) /\ req[r].frames = << >> BY <2>1 DEF Sound, Answered
  <2>3. Len(req[r].frames) = 0 BY <2>2
  <2> QED BY <2>2, <2>3 DEF Logged
<1> QED BY <1>1, AnswerAlways, PTL
=============================================================================
