-------------------------------- MODULE Serving --------------------------------
(***************************************************************************)
(* A request on its way through a program: the middleware of each router    *)
(* in turn (pkg/middleware), the handler, and back.  frames is the call     *)
(* stack of middleware, innermost last; a panic unwinds it.                 *)
(***************************************************************************)
EXTENDS Api

CONSTANTS
    Reqs,      \* requests, each served by a goroutine of its own
    Inputs,    \* by program: what clients may send
    KeyKind    \* the Go type of the key given to middleware.Auth

ASSUME KeyKindAssumption == KeyKind \in {"bytes", "string"}

\* What a client sends: net/http has split the path, and Auth reads the token.
Tokens == [alg : STRING, signed : BOOLEAN, sub : STRING]
Sent   == [path : Seq(STRING), method : STRING, token : Tokens]

ASSUME InputsAssumption == \A p \in DOMAIN Programs : Inputs[Programs[p].name] \subseteq Sent

\* A pattern is given to a handler of Api, or to another router.
ASSUME HandlersAssumption ==
    \A p \in DOMAIN Programs : \A i \in DOMAIN Programs[p].calls :
        LET c == Programs[p].calls[i]
        IN  c.op = "Handle" =>
                c.handler \in IF c.to = 0 THEN DOMAIN Handlers ELSE {NoHandler}

VARIABLES
    req,       \* by request: where it is and what it has got so far
    dbOpen     \* the database of the process is open

servingVars == <<routerVars, req, dbOpen>>

NoUser == ""
NoStatus == "0"
NoInput == [path |-> << >>, method |-> "", token |-> [alg |-> "", signed |-> FALSE, sub |-> ""]]

Places == {"idle", "chain", "handler", "return", "panic", "done"}

\* implicit: the status was sent by the first Write.  late: a status was written
\* when one had been sent.  panicked: the handler panicked.
IdleReq ==
    [at |-> "idle", in |-> NoInput, path |-> << >>, rt |-> 1, next |-> 1,
     frames |-> << >>, user |-> NoUser, handler |-> NoHandler, step |-> 1,
     status |-> NoStatus, logs |-> << >>,
     implicit |-> FALSE, late |-> FALSE, panicked |-> FALSE]

\* A slot that was never written (a nil middleware, in Go) is in no slice.
ServingTypeOK ==
    /\ RouterTypeOK
    /\ \A k \in DOMAIN routers : \A i \in 1 .. routers[k].len : Chain(k)[i] \in Middlewares
    /\ dbOpen \in BOOLEAN
    /\ \A r \in Reqs :
          /\ req[r].at \in Places
          /\ req[r].rt \in DOMAIN routers
          /\ req[r].handler \in DOMAIN Handlers \cup {NoHandler}
          /\ \A i \in DOMAIN req[r].frames : req[r].frames[i].mw \in Middlewares

ServingInit ==
    /\ RouterInit
    /\ req = [r \in Reqs |-> IdleReq]
    /\ dbOpen = FALSE

-----------------------------------------------------------------------------
\* Mutant: the first status is the one that is remembered, and "200" until then.
FirstSeen(frame, status) ==
    [frame EXCEPT !.saw = IF @ = NoStatus THEN "200" ELSE @]

\* httpStatusWriter.WriteHeader keeps the last status it was given.
Seen(frame, status) ==
    IF frame.mw = "Log" THEN [frame EXCEPT !.saw = status] ELSE frame

\* WriteHeader through every writer on the stack; net/http sends the first status.
WriteHeader(q, status) ==
    [q EXCEPT !.status = IF @ = NoStatus THEN status ELSE @,
              !.late   = @ \/ q.status # NoStatus,
              !.frames = [i \in DOMAIN @ |-> Seen(@[i], status)]]

\* Write without WriteHeader: net/http sends 200, the writers of Log see no status.
WriteBody(q) ==
    [q EXCEPT !.status = IF @ = NoStatus THEN "200" ELSE @,
              !.implicit = @ \/ q.status = NoStatus]

\* Mutant: any token in the header will do.
SubOf(token) == token.sub

\* jwt.Parse verifies HS256 with a key of type []byte only; sub names the user.
UserOf(token) ==
    IF token.signed /\ token.alg = "HS256" /\ KeyKind = "bytes"
    THEN token.sub ELSE NoUser

\* http.Error or HandleErr, then return.
Reject(q, status) == [WriteHeader(q, status) EXCEPT !.at = "return"]

Push(q, mw) ==
    [q EXCEPT !.frames = Append(@, [mw |-> mw, saw |-> NoStatus]), !.next = @ + 1]

\* The next middleware of the router: Auth refuses or notes the user.
Enter(r) ==
    LET q == req[r]
        mw == Chain(q.rt)[q.next]
        user == UserOf(q.in.token)
    IN  /\ q.at = "chain"
        /\ q.next <= routers[q.rt].len
        /\ req' = [req EXCEPT ![r] =
              IF mw # "Auth" THEN Push(q, mw)
              ELSE IF user = NoUser THEN Reject(q, "401")
              ELSE [Push(q, mw) EXCEPT !.user = user]]
        /\ UNCHANGED <<routerVars, dbOpen>>

\* The mux at the end of the chain: to a handler, to another router, or nowhere.
Follow(q, route) ==
    IF route.rt = 0
    THEN [q EXCEPT !.at = "handler", !.handler = route.handler]
    ELSE [q EXCEPT !.rt = route.rt, !.next = 1,
                   !.path = SubSeq(@, route.strip + 1, Len(@))]

Dispatch(r) ==
    LET q == req[r]
    IN  /\ q.at = "chain"
        /\ q.next > routers[q.rt].len
        /\ req' = [req EXCEPT ![r] =
              IF Allowed(q.rt, q.path, q.in.method) # {}
              THEN Follow(q, Route(q.rt, q.path, q.in.method))
              ELSE Reject(q, IF OnPath(q.rt, q.path) = {} THEN "404" ELSE "405")]
        /\ UNCHANGED <<routerVars, dbOpen>>

\* The last step of a handler calls the service, which in words and auth needs the
\* database, except for the login URL.
NeedsDB(q) ==
    /\ This.remotes
    /\ q.step = Len(Handlers[q.handler].steps)
    /\ q.handler # "login"

\* A step of the handler: it goes on, answers an error and returns, or panics.
HandlerStep(r) ==
    LET q == req[r]
        h == Handlers[q.handler]
    IN  /\ q.at = "handler"
        /\ q.step <= Len(h.steps)
        /\ \/ /\ NeedsDB(q) => dbOpen
              /\ req' = [req EXCEPT ![r].step = @ + 1]
           \/ \E status \in h.steps[q.step] : req' = [req EXCEPT ![r] = Reject(q, status)]
           \/ /\ q.step \in h.panics
              /\ req' = [req EXCEPT ![r] = [q EXCEPT !.at = "panic", !.panicked = TRUE]]
        /\ UNCHANGED <<routerVars, dbOpen>>

\* WriteJSON writes the status before it encodes; when that fails, HandleErr writes
\* another one.
WriteAnswer(r) ==
    LET q == req[r]
        h == Handlers[q.handler]
        sent == Reject(q, h.ok)
    IN  /\ q.at = "handler"
        /\ q.step > Len(h.steps)
        /\ \/ "header" \in h.writes /\ req' = [req EXCEPT ![r] = sent]
           \/ "json" \in h.writes /\ req' = [req EXCEPT ![r] = sent]
           \/ "json" \in h.writes /\ req' = [req EXCEPT ![r] = Reject(sent, "500")]
           \/ /\ "body" \in h.writes
              /\ req' = [req EXCEPT ![r] = [WriteBody(q) EXCEPT !.at = "return"]]
        /\ UNCHANGED <<routerVars, dbOpen>>

\* Mutant: Recover logs the panic and returns.
QuietPop(q) == [q EXCEPT !.frames = Front(@), !.at = "return"]

Popped(q) == [q EXCEPT !.frames = Front(@)]

\* Recover answers 500 through the writers outside it.
Recovered(q) == Reject(Popped(q), "500")

\* A middleware returns: Log writes its line.
Return(r) ==
    LET q == req[r]
        frame == Last(q.frames)
    IN  /\ q.at = "return"
        /\ q.frames # << >>
        /\ req' = [req EXCEPT ![r] =
              [Popped(q) EXCEPT !.logs =
                  IF frame.mw = "Log" THEN Append(@, frame.saw) ELSE @]]
        /\ UNCHANGED <<routerVars, dbOpen>>

\* A panic leaves a middleware: no line is logged, only Recover stops it.
Unwind(r) ==
    LET q == req[r]
    IN  /\ q.at = "panic"
        /\ q.frames # << >>
        /\ req' = [req EXCEPT ![r] =
              IF Last(q.frames).mw = "Recover" THEN Recovered(q) ELSE Popped(q)]
        /\ UNCHANGED <<routerVars, dbOpen>>

\* The root has returned to net/http, or panicked: then the connection is closed.
Finish(r) ==
    LET q == req[r]
    IN  /\ q.at \in {"return", "panic"}
        /\ q.frames = << >>
        /\ req' = [req EXCEPT ![r] =
              [q EXCEPT !.at = "done", !.status = IF q.at = "panic" THEN "aborted" ELSE @]]
        /\ UNCHANGED <<routerVars, dbOpen>>

\* A client sends a request.
Arrive(r, in) ==
    req' = [req EXCEPT ![r] = [IdleReq EXCEPT !.at = "chain", !.in = in, !.path = in.path]]

Serve(r) ==
    \/ Enter(r) \/ Dispatch(r) \/ HandlerStep(r) \/ WriteAnswer(r)
    \/ Return(r) \/ Unwind(r) \/ Finish(r)

Running(r) == req[r].at \notin {"idle", "done"}
=============================================================================
