------------------------------ MODULE ServerProps ------------------------------
(***************************************************************************)
(* What should be true of the routers a program builds, of the answers and  *)
(* log lines of its requests, and of the way it stops.                      *)
(***************************************************************************)
EXTENDS Server

Chains == [k \in DOMAIN routers |-> Chain(k)]

Book == INSTANCE ChainBook WITH chains <- Chains

\* A program that gives each router its middleware in one call, as many as an array
\* has room for, and makes no sub-router of a sub-router.
UsesOn(k)  == {i \in DOMAIN This.calls :
                  This.calls[i].op = "Use" /\ This.calls[i].rt = k}
SubsOf(k)  == {i \in DOMAIN This.calls :
                  This.calls[i].op = "SubRouter" /\ This.calls[i].rt = k}
Exact(i)   == LET n == Len(This.calls[i].mws) IN Grow(0, n) = n
OneUse     == \A k \in DOMAIN routers : \A i, j \in UsesOn(k) : i = j /\ Exact(i)
TwoLevels  == \A k \in DOMAIN routers : k # 1 => SubsOf(k) = {}
Shallow    == OneUse /\ TwoLevels

\* Such a program never changes the chain of a router by what it does to another one:
\* each step is one of ChainBook.  (SubRouter shares the array of its parent's slice,
\* and append may write into it.)
ShallowIsSafe == [][Shallow => [Book!Next]_Chains]_routerVars

\* A handler of the words API finds in its context the user named in a token that is
\* signed, whatever the order in which slices, mux and Auth bring the request there.
\* (Which handlers act for that user is another matter: GET /picks takes its user_id
\* from the body, api.go:202, and some have no use for one.)
HandlerHasUser ==
    \A r \in Reqs :
        (This.name = "words" /\ req[r].at = "handler" /\ req[r].handler # "health")
            => /\ req[r].user # NoUser
               /\ req[r].in.token.signed
               /\ req[r].user = req[r].in.token.sub

\* The processes of the repository go by their names.
ASSUME NamesAssumption ==
    \A p \in DOMAIN Programs :
        /\ Programs[p].name = "words" => Programs[p] = WordsMain
        /\ Programs[p].name = "image" => Programs[p] = ImageMain

HasRecover == This.name \in {"words", "image"}

\* A handler that panics below Recover is answered 500, never by a closed connection.
PanicIsAnswered ==
    \A r \in Reqs :
        (HasRecover /\ req[r].at = "done" /\ req[r].panicked) => req[r].status = "500"

\* Every answer is logged, and every line of it has the status the client was sent,
\* unless the handler wrote no status or wrote a second one.
LogTellsAnswer ==
    \A r \in Reqs :
        (HasRecover /\ req[r].at = "done" /\ ~req[r].implicit /\ ~req[r].late)
            => /\ req[r].logs # << >>
               /\ \A i \in DOMAIN req[r].logs : req[r].logs[i] = req[r].status

\* A process that exits with 0 has answered every request it accepted, and got there
\* because it was told to stop.
ZeroMeansDrained == (main = "exited" /\ exit = 0) => signaled /\ Drained

\* A request that runs on without the database it was served with is one of a process
\* whose run() has failed: db.Close, which is deferred, never comes while Shutdown
\* waits, nor after one that found everything answered, and main() exits with 1.
ClosedUnderwayIsTold ==
    \A r \in Reqs :
        (Running(r) /\ This.remotes /\ ~dbOpen) => main \in {"deferred", "exited"} /\ exit = 1

\* A process that is told to stop, or cannot listen, exits, though handlers hang.
StopEnds == (signaled \/ listener = "failed") ~> (main = "exited")

\* A request for something mounted, with a token that is signed, names its user and
\* has not expired, reaches a handler: it is not turned away before.
ValidRequestIsHandled ==
    \A r \in Reqs :
        (req[r].at = "done" /\ req[r].in.token.signed /\ req[r].in.token.sub # NoUser)
            => req[r].handler # NoHandler
=============================================================================
