---------------------------------- MODULE Api ----------------------------------
(***************************************************************************)
(* The handlers of the three services (rest/api.go of each) and the calls   *)
(* their main.go builds the routers with.  A handler is a sequence of       *)
(* steps, each of which may answer an error and return, and then the answer *)
(* it writes.  What the steps do to the tables is the business of           *)
(* WordsService, Catalog, Paging and Auth; here a step succeeds or fails.   *)
(***************************************************************************)
EXTENDS Router

\* How an answer is written: WriteHeader; WriteJSON (WriteHeader, then a body whose
\* encoding may fail); or a body alone, for which net/http sends 200 first.
Writes == {"header", "json", "body"}

\* steps: the errors each step may answer; the steps that may panic; the answer.
Handler(steps, panics, writes, ok) ==
    [steps |-> steps, panics |-> panics, writes |-> writes, ok |-> ok]

Bad == {"400"}   \* ReadJSON, idFromRequest, FormFile

HealthHandler == Handler(<< >>, {}, {"header"}, "200")

AddWordHandler    == Handler(<<Bad, {"409", "500"}>>, {}, {"json"}, "201")
DeleteWordHandler == Handler(<<Bad, {"404", "500"}>>, {}, {"header"}, "204")
PickWordHandler   == Handler(<<Bad, {"409", "500"}>>, {}, {"json"}, "201")
DeletePickHandler == Handler(<<Bad, {"404", "500"}>>, {}, {"header"}, "204")

\* A page size of 0 or -1 makes GetUserPicks index out of range.
GetPicksHandler   == Handler(<<Bad, {"400", "500"}>>, {2}, {"json"}, "200")
DeleteTagHandler  == Handler(<<Bad, {"404", "500"}>>, {}, {"header"}, "204")
CreateDefinitionHandler ==
    Handler(<<Bad, {"404", "409", "500"}>>, {}, {"json"}, "201")

\* The image is stored before the id in the path is looked at.
AttachImageHandler ==
    Handler(<<Bad, {"500"}, Bad, {"404", "409", "500"}>>, {}, {"json"}, "201")

UploadHandler == Handler(<<Bad, {"413", "500"}>>, {}, {"json"}, "201")

\* http.FileServer: a file, or the listing of a directory, which writes no status.
FilesHandler == Handler(<<{"404"}>>, {}, {"header", "body"}, "200")

LoginHandler   == Handler(<<{"404", "500"}>>, {}, {"header"}, "302")

\* Exchange panics when Google sends no id_token, Issue without an algorithm.
CallbackHandler == Handler(<<{"401", "404", "500"}>>, {1}, {"json"}, "200")
RefreshHandler  == Handler(<<{"500"}, {"401", "500"}>>, {}, {"json"}, "200")

Handlers ==
    [health |-> HealthHandler, addWord |-> AddWordHandler,
     deleteWord |-> DeleteWordHandler, pickWord |-> PickWordHandler,
     deletePick |-> DeletePickHandler, getPicks |-> GetPicksHandler,
     deleteTag |-> DeleteTagHandler, createDefinition |-> CreateDefinitionHandler,
     attachImage |-> AttachImageHandler, upload |-> UploadHandler,
     files |-> FilesHandler, login |-> LoginHandler,
     callback |-> CallbackHandler, refresh |-> RefreshHandler]

-----------------------------------------------------------------------------
CallUse(k, mws)    == [op |-> "Use", rt |-> k, mws |-> mws]
CallNew            == [op |-> "New"]
CallSub(k, prefix) == [op |-> "SubRouter", rt |-> k, prefix |-> prefix]

CallHandle(k, method, segs, tree, handler, to) ==
    [op |-> "Handle", rt |-> k, handler |-> handler, to |-> to,
     pattern |-> [segs |-> segs, tree |-> tree, method |-> method]]

Leaf(k, method, segs, handler) == CallHandle(k, method, segs, FALSE, handler, 0)
Below(k, segs, to)             == CallHandle(k, "", segs, TRUE, NoHandler, to)

Health == <<Leaf(1, "", <<"healthz">>, "health"), Leaf(1, "", <<"readyz">>, "health")>>

\* mount() of the words API, made as router k.
WordsRoutes(k) ==
    <<CallNew,
      Leaf(k, "PUT", <<"words">>, "addWord"),
      Leaf(k, "DELETE", <<"words", Wild>>, "deleteWord"),
      Leaf(k, "PUT", <<"picks">>, "pickWord"),
      Leaf(k, "DELETE", <<"picks", Wild>>, "deletePick"),
      Leaf(k, "GET", <<"picks">>, "getPicks"),
      Leaf(k, "DELETE", <<"tags">>, "deleteTag"),
      Leaf(k, "PUT", <<"definitions">>, "createDefinition"),
      Leaf(k, "PUT", <<"images", Wild, Wild>>, "attachImage")>>

ImageRoutes(k) ==
    <<CallNew,
      Leaf(k, "POST", <<"upload">>, "upload"),
      CallHandle(k, "GET", << >>, TRUE, "files", 0)>>

AuthRoutes(k) ==
    <<CallNew,
      Leaf(k, "", <<Wild, "login">>, "login"),
      Leaf(k, "", <<Wild, "callback">>, "callback"),
      Leaf(k, "POST", <<"refresh">>, "refresh")>>

WordsCalls ==
    <<CallUse(1, <<"Recover", "Log">>)>> \o Health
    \o <<CallSub(1, <<"api", "v1">>), CallUse(2, <<"Auth">>)>>
    \o WordsRoutes(3) \o <<Below(2, << >>, 3)>>

\* Nothing is mounted on the sub-router: the API is a route of the root.
ImageCalls ==
    <<CallUse(1, <<"Recover", "Log">>)>> \o Health
    \o <<CallSub(1, <<"api", "v1">>), CallUse(2, <<"Auth">>)>>
    \o ImageRoutes(3) \o <<Below(1, << >>, 3)>>

\* A plain mux, no middleware; the API is mounted below a prefix that stays.
AuthCalls == Health \o AuthRoutes(2) \o <<Below(1, <<"api", "v1">>, 2)>>

\* remotes: what run() needs from others before it serves.
\* closesDB: run() closes the database when it returns.
WordsMain == [name |-> "words", calls |-> WordsCalls, remotes |-> TRUE,  closesDB |-> FALSE]
ImageMain == [name |-> "image", calls |-> ImageCalls, remotes |-> FALSE, closesDB |-> FALSE]
AuthMain  == [name |-> "auth",  calls |-> AuthCalls,  remotes |-> TRUE,  closesDB |-> TRUE]
=============================================================================
