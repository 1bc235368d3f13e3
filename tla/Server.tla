--------------------------------- MODULE Server ---------------------------------
(***************************************************************************)
(* The process of a service (cmd/main.go of each): run() reads the          *)
(* environment, connects, builds the routers, starts the listening          *)
(* goroutine, waits for a signal or for that goroutine to fail, and shuts    *)
(* down with a timeout; main() turns its error into an exit status.         *)
(* Shutdown and ListenAndServe are modelled by what net/http promises.      *)
(***************************************************************************)
EXTENDS Serving

VARIABLES
    main,      \* where the main goroutine is
    listener,  \* what the listening goroutine has come to
    signaled,  \* the context of signal.NotifyContext is done
    exit       \* the status of the process, or what run() will make it

vars == <<servingVars, main, listener, signaled, exit>>
procVars == <<main, listener, signaled, exit>>

NoExit == 99

ASSUME MainsAssumption ==
    \A p \in DOMAIN Programs :
        Programs[p].remotes \in BOOLEAN /\ Programs[p].closesDB \in BOOLEAN

TypeOK ==
    /\ ServingTypeOK
    /\ main \in {"start", "build", "select", "shutdown", "deferred", "exited"}
    /\ listener \in {"none", "starting", "open", "closed", "failed"}
    /\ signaled \in BOOLEAN
    /\ exit \in {NoExit, 0, 1, 2}

Init ==
    /\ ServingInit
    /\ main = "start"
    /\ listener = "none"
    /\ signaled = FALSE
    /\ exit = NoExit

-----------------------------------------------------------------------------
\* run() returns: its deferred calls come next, then main().
Leave(status) ==
    /\ exit' = status
    /\ main' = "deferred"

\* The database and the identity provider answer; the signal is not looked at here.
Connect ==
    /\ main = "start"
    /\ main' = "build"
    /\ dbOpen' = This.remotes
    /\ UNCHANGED <<routerVars, req, listener, signaled, exit>>

\* They do not: run() returns the error, and what it had opened is closed.
NoConnection ==
    /\ main = "start"
    /\ This.remotes
    /\ Leave(1)
    /\ UNCHANGED <<servingVars, listener, signaled>>

\* FromEnv panics when a required variable is missing.
MissingVariable ==
    /\ main = "start"
    /\ main' = "exited"
    /\ exit' = 2
    /\ UNCHANGED <<servingVars, listener, signaled>>

BuildRouters ==
    /\ main = "build"
    /\ Build
    /\ UNCHANGED <<req, dbOpen, procVars>>

\* go server.ListenAndServe(), then the select.
Spawn ==
    /\ main = "build"
    /\ built = Len(This.calls)
    /\ main' = "select"
    /\ listener' = "starting"
    /\ UNCHANGED <<servingVars, signaled, exit>>

\* ListenAndServe gives up at once when Shutdown was called before it ran.
Listen ==
    /\ listener = "starting"
    /\ IF main = "select"
       THEN listener' \in {"open", "failed"}
       ELSE listener' = "closed"
    /\ UNCHANGED <<servingVars, main, signaled, exit>>

\* Accept fails for good: Serve returns, connections that are open go on.
ServeFails ==
    /\ listener = "open"
    /\ listener' = "failed"
    /\ UNCHANGED <<servingVars, main, signaled, exit>>

Accept(r) ==
    /\ listener = "open"
    /\ main # "exited"
    /\ req[r].at = "idle"
    /\ \E in \in Inputs[This.name] : Arrive(r, in)
    /\ UNCHANGED <<routerVars, dbOpen, procVars>>

ServeRequest(r) ==
    /\ main # "exited"
    /\ Serve(r)
    /\ UNCHANGED procVars

\* SIGINT or SIGTERM; another one changes nothing.
Signal ==
    /\ main # "exited"
    /\ ~signaled
    /\ signaled' = TRUE
    /\ UNCHANGED <<servingVars, main, listener, exit>>

\* case err := <-errCh, which select may choose although the signal is there as well.
SelectError ==
    /\ main = "select"
    /\ listener = "failed"
    /\ Leave(1)
    /\ UNCHANGED <<servingVars, listener, signaled>>

\* Nothing is left that Shutdown would wait for.
Drained == \A r \in Reqs : ~Running(r)

\* case <-ctx.Done(): Shutdown closes the listener and looks for open connections.
SelectSignal ==
    /\ main = "select"
    /\ signaled
    /\ IF Drained THEN Leave(0) ELSE main' = "shutdown" /\ UNCHANGED exit
    /\ listener' = IF listener = "open" THEN "closed" ELSE listener
    /\ UNCHANGED <<servingVars, signaled>>

\* Mutant: the error of Shutdown is logged and dropped.
StatusAlwaysZero == 0

\* Shutdown returns the error of its context when time is up.
TimeoutStatus == 1

\* Mutant: Shutdown with a context that is never done.
WaitForDrained ==
    /\ main = "shutdown" /\ Drained /\ Leave(0)
    /\ UNCHANGED <<servingVars, listener, signaled>>

\* Shutdown polls: it finds everything idle, or its context is done first.
ShutdownReturns ==
    /\ main = "shutdown"
    /\ \/ Drained /\ Leave(0)
       \/ Leave(TimeoutStatus)
    /\ UNCHANGED <<servingVars, listener, signaled>>

\* Mutant: the database is closed when the signal comes, before Shutdown.
CloseDBAtSignal ==
    /\ main \in {"shutdown", "deferred"}
    /\ This.closesDB /\ dbOpen
    /\ dbOpen' = FALSE
    /\ UNCHANGED <<routerVars, req, procVars>>

\* defer db.Close(), in auth: handlers that still run lose their database.
CloseDB ==
    /\ main = "deferred"
    /\ This.closesDB /\ dbOpen
    /\ dbOpen' = FALSE
    /\ UNCHANGED <<routerVars, req, procVars>>

\* main() returns or calls os.Exit(1): every goroutine is gone.
Exit ==
    /\ main = "deferred"
    /\ ~(This.closesDB /\ dbOpen)
    /\ main' = "exited"
    /\ UNCHANGED <<servingVars, listener, signaled, exit>>

Finished == main = "exited" /\ UNCHANGED vars

Main ==
    \/ Connect \/ NoConnection \/ MissingVariable \/ BuildRouters \/ Spawn
    \/ SelectError \/ SelectSignal \/ ShutdownReturns \/ CloseDB \/ Exit

Next ==
    \/ Main \/ Listen \/ ServeFails \/ Signal \/ Finished
    \/ \E r \in Reqs : Accept(r) \/ ServeRequest(r)

Spec == Init /\ [][Next]_vars

\* The main goroutine and the listening one run, connecting takes a limited time and
\* the timer of the shutdown fires.  Handlers need not end.
FairSpec == Spec /\ WF_vars(Main) /\ WF_vars(Listen)
=============================================================================
