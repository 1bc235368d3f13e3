# lexi-go: TLA+ specifications

Specifications, model-checking runs and proofs for the services in `src/`: the
words service, the auth service, the image service and the packages they share.
Paths below are relative to `src/internal/` unless they start with `src/`.

## The system

Clients (a browser, an app) talk HTTP to three services. The words and the auth
service each own a Postgres database; the image service owns a directory. The
words service posts images to the image service. All services are stateless
between requests except for the tag cache of the words service, and may run in
several replicas.

| part | state | operations | interacts with |
|---|---|---|---|
| words store (`services/words/internal/store`) | tables words, definitions, images, user_picks, tags, tags_map; serials | one method per SQL statement, `WithTx` | Postgres, READ COMMITTED |
| tag manager (`service/tags.go`) | id cache per replica | `GetTags`, `GetOrCreateTags` | store, also inside a transaction |
| picks and tags (`service/words.go`) | - | `PickWord`, `AddTags` (transactions); `RemoveTags`, `UnpickWord`, `DeleteWord` (single statements) | tag manager, store |
| paged list (`GetUserPicks`) | cursor kept by the client | two tag lookups and a query, no transaction | tag manager, store |
| catalog (`AddWord`, `CreateDefinition`, `AttachImage`) | - | single statements | store, image service |
| image service (`services/image`) | files | `Upload`, file serving | its directory |
| logins (`services/auth/internal/service`, `oauth`) | a state cookie per browser and provider; tables users, identities | `LoginURL`, `AuthCallback`, `Refresh` | browser, identity provider, Postgres |
| tokens (`token/jwt.go`) | - | `Issue`, `Validate` | - |
| router (`pkg/router`) | middleware slices whose arrays sub-routers share, a mux each | `Use`, `Handle`, `SubRouter` while the program starts; `ServeHTTP` | middleware, the REST APIs |
| middleware, httpx, serr (`pkg`) | status writers and recovers on the stack of a request, the user in its context | `Recover`, `Log`, `Auth`, `WriteJSON`, `HandleErr` | net/http, handlers |
| REST handlers (`rest/api.go` of each service) | - | one per route | the services above |
| processes (`cmd/main.go` of each service) | listener, signal, shutdown timer, exit status | connect, build routers, listen, stop | all of the above |

Hard behaviours: transactions of several statements that interleave and wait for
each other's keys; a cache that is filled from inside transactions and outlives
their rollback; cascading deletes beside running inserts; a walk over pages of
rows that come and go; a login that commits half of its work outside its
transaction; an upload to one service followed by an insert in another; requests
cut off anywhere; replicas that restart; routers that append to slices whose
arrays they share; a panic or a second status on the way out of several layers of
middleware; a signal, a listen error and a timeout that race with requests still
running. `PROJECT.json` lists each hazard at its
line with the properties that cover it.

What makes the parts correct:

- picks and tags: a request takes effect wholly or not at all, in one step, as an
  abstract book of picks does; no row refers to nothing; ids that go stale never
  lead to another tag; every request is answered.
- paged list: what is there during the whole walk is returned once, in order, with
  the tags asked for; the walk makes progress.
- logins: tokens name the user of the account that logged in, one user per
  account, in the browser the login began in; half a registration does not lock
  an account out; a login is in the way of another one only at the same provider.
- catalog: attached images are whole files; ids kept by clients lead to what they
  led to; cascades leave nothing dangling; a stored image is attached, unless the
  client has been told of an error or the definition is gone.
- routers: what is done to one router does not change the chain of another.
- requests: a handler of the words API has the user of a verified token in its
  context; a panic is answered; the log line has the status the client got. (Which
  handlers act for that user is not among them: `GET /picks` takes its `user_id`
  from the body, `words/internal/rest/api.go:202`, and several handlers ignore the
  user.)
- processes: told to stop, they exit; exit status 0 means that every request was
  answered; a request loses its database only in a process that reports a failure.

## Modules

`WordsStore` has the tables. A row carries the transaction that inserted it, so
that "visible" (`Sees`), "wait for it" (`Pending`) and "roll it back" (`Rollback`)
are about the same field. `WordsService` EXTENDS it with the requests: `pc[r]` is
the next SQL statement of request `r`, `have[r]` the tag ids it has resolved
(`tagSet`), `todo[r]` the rows a multi-row INSERT has still to write in the order
Go's map iteration produced, `cache[p]` the tag cache of a replica.

| action | code |
|---|---|
| `Begin` | `WithTx` BEGIN and the cache half of `GetTags` |
| `GetTags` | the SELECT of `GetTags` and `storeToCache(fetched)` |
| `CreateTag` / `ReadTags` | INSERT (a row a step) and SELECT of `CreateTags`, then `storeToCache(created)` before the commit |
| `CreatePick`, `AddTag`, `CheckRefs` | `CreateUserPick`; the rows and then the foreign keys of `AddTags` |
| `Commit` | COMMIT, whose acknowledgement may be lost |
| `RemoveTags`, `UnpickWord`, `DeleteWord` | the single DELETE with its cascade, whose acknowledgement may be lost (`Deleted`) |
| `Cancel`, `DeadlockAbort`, `Evict`, `Restart` | cancelled context or failing statement, from the first one to the last, Postgres' deadlock detector, the cache dropping or not admitting an entry, a replica that dies |

`PickBook` is the abstract specification: picks with the texts of their tags,
changed by one request at a time. `WordsProps` states the properties and the
refinement mapping (`Book`: committed picks with the texts of their committed
tags). `WordsProofs`, `WordsRefProofs` and `WordsBookProofs` have the theorems,
each building on the one before. `MCWords` has the instances.

`Paging` models a client that follows `next_cursor`, in three steps per page
(`GetWithTags`, `GetWithoutTags`, `GetUserPicks`), beside the writes of
`WordsService` reduced to what they commit; `dead` are the tags for which some
replica caches a rolled-back id. A lookup may find such an id, or one of a tag whose
transaction still runs (`Creating`) and may then be rolled back or not (`Lookups`). `seen`, `steady` and `blind` are history the
program does not keep. `PagingProps`, `PagingProofs`, `MCPaging`.

`Auth` models logins: `LoginURL` saves the state (represented by the login) in the
browser's cookie of the provider (`SaveState`), `Callback` compares it, `Exchange` is the provider, then
`getOrCreateUser` statement by statement (`FindIdentity`, `CreateUser`,
`CreateUserIdentity`, `ReadBack`), `Issue`, `Refresh`. The inserts commit on their
own because the code calls them on `s.store`; the transaction around them only
reads and has no state. `AccountBook` is the abstract specification: an account is
entered once, with a user of its own, and logins are told that user; `AuthProps`
maps identities to its entries and tokens to what logins were told. `AuthProps`,
`AuthProofs`, `MCAuth`.

`Catalog` models editors that add a word, define it and attach an image, request
after request with the ids they were answered. Attaching has steps in two
services: `StartUpload` and `CopyImage` in the image service, `SaveImage` and
`AttachImage` in words. `UploadStatus` is the status the image service answers.

| step | how it may end |
|---|---|
| `AddWord`, `CreateDefinition` | 201; 409; 404 of the foreign key; failed with or without the row |
| `StartUpload` | a new file; 400 for a form without an image; 500 when the image service refuses it |
| `CopyImage` | the file is whole, or left half written |
| `SaveImage` | on to the insert; 500 for another status than 200, or for an answer it cannot read; 400 for a `def_id` that is no number, which is looked at only now |
| `AttachImage` | 201; 409; 404; failed with or without the row |
| `Fail` | a statement or call fails without effect, or the request is cut off |
| `Retry` | the editor sends a request again that ended with a 500 or not at all |

"Failed with the row" is an INSERT that was committed before its answer was lost:
sent again, a word or a definition is answered 409, and an image, whose file has a
new name, gets a second row. `CatalogProps`, `CatalogProofs`, `MCCatalog`.

The processes are four modules, each EXTENDS the one before.

- `Router`: routers over Go's slices. A slice is an array in `heap` and a length;
  `append` writes in place when there is room (`AppendInPlace`) and moves to a
  larger array when there is none (`AppendInCopy`, grown as the allocator does).
  A program makes its calls one after the other (`Build`): `New`, `Use`,
  `SubRouter`, `Handle`. `Route` is what `http.ServeMux` does with the patterns.
- `Api`: the handlers of the three services, each as its steps with the errors a
  step may answer, the steps that may panic and the way the answer is written; and
  the calls each `main.go` builds its routers with.
- `Serving`: a request on its way through middleware, mux and handler, and back.
- `Server`: the process around it, with the specification that is checked.

| action | code |
|---|---|
| `Enter` | the next function of the chain in `Router.ServeHTTP`: `Recover`, `Log`, `Auth` up to `next.ServeHTTP` |
| `Dispatch` | `rt.mux.ServeHTTP`: a handler, a sub-router with its own chain, 404 or 405 |
| `HandlerStep`, `WriteAnswer` | a step of a handler, with its error or panic; `WriteHeader`, `WriteJSON` or `Write` |
| `Return`, `Unwind`, `Finish` | a middleware returns (Log writes its line); a panic passes it or is recovered; net/http takes over |
| `Connect`, `NoConnection`, `MissingVariable` | the first part of `run()`: environment, database, provider |
| `BuildRouters`, `Spawn` | the calls to the router; `go server.ListenAndServe()` |
| `Listen`, `ServeFails`, `Accept` | the listening goroutine and its connections |
| `Signal`, `SelectError`, `SelectSignal`, `ShutdownReturns` | `signal.NotifyContext`, the `select`, `Shutdown` with its timeout |
| `CloseDB`, `Exit` | the deferred `db.Close` of auth; `main()` and `os.Exit` |

`ChainBook` is the abstract specification of routers: each has a chain of its own,
`Use` adds to one of them, `SubRouter` copies one. `ServerProps` states the
properties, `ServerProofs` has the theorems about the process and its routers,
`ServingProofs` those about requests, `MCServer` the instance.

The words and the auth database, the pages and the processes are separate
specifications that meet in what they assume of each other: `Paging` takes from
`WordsService` what its requests commit and which dead ids its caches may hold;
`Api` takes from all of them the errors a handler may answer; `Restart` in
`WordsService` is what a process of `Server` that exits does to a replica.

## Runs

| run | checks | distinct states |
|---|---|---|
| WordsTagging | types, no dangling rows, one tag per id, no stray tag, stale ids only after a rollback, real conflicts, implements `PickBook` | 942k |
| WordsDeleting | all the deletes beside transactions that wait for each other: no dangling rows, implements `PickBook`, removed tags are gone as long as nothing was rolled back, every request is answered | 512k |
| WordsNotFound | *violated*: 404 of AddTags means there is no pick | |
| AuthLogins | types, one user per account, verified emails, tokens stay in the browser, a state is refused only for another login at the same provider, implements `AccountBook`, a registered account gets in | 599k |
| AuthRefresh | *violated*: a fresh refresh token works | |
| AuthOrphan | *violated*: a failed login leaves no user behind | |
| PagingWalk | types, nothing missed, order, filters, every round ends | 1,014k |
| PagingEnd | *violated*: a walk that follows the cursor ends | |
| CatalogImages | types, whole images, no dangling rows, no mix-up, stored is attached | 372k |
| CatalogStatus | *violated*: stored is attached, with the status the image service really answers | |
| ServerRuns | types, shallow programs build the chains of `ChainBook`, handlers have their user, panics are answered, the log tells the answer, exit status 0 means drained, a database closed under a request means status 1, a stop ends | 452k |
| ServerWiring | *violated*: a request for a mounted route with a valid token reaches a handler | |

The violated properties state what a comment or a test of the code says;
`findings` in `PROJECT.json` quotes the lines. ServerWiring stands for two of
them: the prefix `auth/cmd/main.go:66` mounts and does not strip, and the key
`words/cmd/main.go:56` gives to `Auth` as a string, with which jwt v5 verifies
nothing.

One disagreement has no run of its own, since it is visible in single statements:
`UnpickWord` (`words.go:216-217`), `DeleteWord` (`:65`) and `RemoveTags`
(`:274-275`) promise 404 for what does not exist, but the store only executes the
DELETE (`postgres.go:197` and its like) and does not look at the number of rows.
They answer success, and the model does.

`RemovedUnlessRolledBack` says how far that comment of `RemoveTags` holds: tags that
were looked up are gone when it answers success, as long as no transaction has been
rolled back. After a rollback a stale id may make the DELETE find nothing.

`StoredIsAttached` is about the answer of the image service: with the file stored, the
request comes to its insert, and the row is there, unless the client is told
otherwise by an error (400, 404, or a failure that says nothing of the row). With 200
the model has all those errors and the property holds; with 201 the request ends as
"unstored" although the file is there.

In CatalogImages the upload is answered with 200, which is what `image/remote.go`
and its test expect; with the 201 of this repository's image service no row of
`images` would ever be written, and CatalogStatus shows that. In the same way
ServerRuns gives `Auth` its key as bytes, as the middleware's tests do, and has
beside the three processes of the repository one more, "alone": auth with its API
at the root, where the tests of the API have it. Otherwise no handler of words or
auth would ever run.

`ShallowIsSafe` says when sharing arrays is harmless: every router gets its
middleware in one `Use` of a size that `append` allocates exactly (1 to 4, 6, 8
...), and only the root has sub-routers. The three services keep to that. A
program that does not can lose middleware: after `Use` of five functions the array
has room for a sixth, and the router and its sub-router, or two sub-routers, that
each add one write to the same place. The code promises nothing here, so this is a hazard and not a finding.

### Bounds

Requests, logins and editors run once, so their number bounds serials and the
length of behaviours.

- Words: three requests, two tags, one or two definitions, two replicas where
  caches matter. Every hazard found needs at most three requests: one that
  creates and is rolled back, one that reads its id, one that creates the row
  again; a deadlock needs two transactions and two rows, and the third request
  makes the pick they tag. Inputs are chosen per run so that conflicts happen:
  the same definition, overlapping tags, a pick id that may or may not exist.
  `r1` and `r2` of WordsTagging run on the same replica and are interchangeable;
  symmetry is used there only, since WordsDeleting checks liveness. `PickIds` is
  1..4, more than three requests can draw.
- Paging: three picks, pages of one and two, two unpicks, tag changes or rollbacks
  of `AddTags` (`MaxPicks`, `MaxEdits`); page sizes 0, -1, -2 as well. A walk then has up to
  three pages, and something can happen between any two. The history of a walk
  restarts with the first page, so endless walks have finitely many states.
- Auth: three logins, two browsers, two registered providers; accounts that share
  a subject across providers, share the empty email, or change their email.
- Catalog: two editors with a word each, three files (two uploads and a retry), one
  deleted word (`MaxDeletes`). A word is met a second time by the editor whose answer
  was lost, and added again after it was deleted. Since every answer may be lost and every
  request sent again, a third editor multiplies the states beyond reach; what editors
  can do to each other (take an id, delete a word under a request, use up a file name)
  takes two, and the theorems hold for any number.
- Server: two requests, with inputs for every kind of handler and for 401, 404 and
  405. Two requests are enough to have one that is done and one that runs when the
  process stops; requests share nothing but routers and database. Scripts, which
  only build routers, are all sequences of up to five of seven calls (`MaxCalls`)
  on up to three routers, and one with sub-routers of a sub-router
  (`ThreeLevels`). Sharing needs a `Use` that leaves room, a `SubRouter` and a
  `Use` on each of the two routers: four calls. Slices stay within the allocator's classes up to 16.

Deadlock is checked in every run: `Finished` is the only way to stop.

### Fairness

- `WordsService.FairSpec`: weak fairness of every statement of a request and of
  the deadlock detector. Goroutines are scheduled, Postgres answers, and
  `deadlock_timeout` fires. Cancel, Evict and Restart have none. An insert that
  waits is not enabled while its key is held; that holders finish, or that a cycle
  is broken, is what `EveryRequestAnswered` shows.
- `Auth.FairSpec`: a callback that has been accepted keeps running. Browsers and
  users have no fairness: a user may never come back.
- `Paging.FairSpec`: the client asks for the next page and the server answers;
  writers have none.
- `Catalog.FairSpec`: requests and uploads that run keep running; editors need not
  go on or try again.
- `Server.FairSpec`: the main and the listening goroutine run, connecting takes a
  limited time, the timer of the shutdown fires. Handlers have none: `StopEnds`
  holds although they hang.

## Proofs

All theorems are about the specifications the runs check, for every value of the
constants that meets the ASSUMEs of the modules: any number of requests,
replicas, tags, logins, editors, pages, and any program. `theorems` in
`PROJECT.json` lists them. Every action of `Next` has a step in the proof of each
part of an invariant; the temporal theorems combine them with PTL.

**Words.** `OneTagPerId` is not inductive: an id in a cache whose row was rolled
back is only safe because the serial has moved past it. `IdsInv` (`WordsProofs`)
adds

- `SerialAhead`: every id in the table, a cache, a request or tags_map is below
  `nextTag`, so a new id is new everywhere;
- `OneClaim`: `OneTagPerId` in the form the steps preserve, the claims of two
  different tags are disjoint;
- `MapIds`, `HaveAsked`, `TodoResolved`: rows of tags_map come from ids that the
  request holds, for tags it asked for, and what it still has to insert it has
  resolved. With `OneClaim` that makes the id of a tags_map row lead back to a tag
  of the request that wrote it, which is `NoStrayTag`.

`RefInv` (`WordsRefProofs`) says that a transaction which has checked its foreign
keys keeps what they refer to alive until it ends, and gives `NoDanglingRows`;
`CacheInv` adds that tags of running and committed transactions are in the table,
and gives `StaleOnlyAfterRollback`. With it `RemovedUnlessRolledBack`
(`WordsBookProofs`) follows: while nothing was rolled back the ids a request holds are
those of its tags (`HaveRight`), so the DELETE names every row that carries one.

`WordsBookProofs` shows that the detailed specification implements `PickBook`.
Four invariants say what the last statement of a request will publish: which
requests write and which delete (`OpInv`), that a request which writes has an id
for each of its tags (`TagInv`), that an uncommitted pick is the one its request
is about to commit (`PickInv`), and that the request's rows of tags_map are of
that pick, one for each of its ids that it has inserted (`MapInv`). With them `Commit` maps to one operation of the book, each delete with
its cascade to one, and everything else, rollbacks, restarts and lost
acknowledgements included, to a stutter. The theorem assumes that `PickIds`, the
ids the book may give a pick, holds every positive number, since the serial has
no bound; TLC's instance has 1..4.

**Logins.** `IdInv` (`AuthProofs`): no two identities share a subject or a user
(`OneRow`), users of callbacks between the two inserts are nobody's yet (`Fresh`),
what a login has found or told is its own account's (`Found`, `Told`), emails
stem from a login that was verified and got past the exchange (`RowVerified`), and a
login beyond the callback is in the browser it began in (`AtHome`). What a cookie
holds is the state of a login begun in that browser at that provider, which gives
`RefusedOnlyForAnother`. With it every step is one of `AccountBook`: a
row of identities that is inserted is an entry of an account that had none, for a
user that is in no other (`Fresh`, and the primary key); `Issue` tells the user of
the login's own entry (`Found`, `OneRow`), once (`Untold`); users without an
identity, refused inserts and cut-off requests are stutters.

**Catalog.** `CatInv` (`CatalogProofs`): serials are ahead of every id in a table
or kept by an editor (`SerialsAhead`), kept ids are the editor's own or gone
(`OwnIds`), a file is answered for only when it is whole (`WholeFile`).

**Pages.** `PageInv` (`PagingProofs`): what has been returned is not after the
cursor (`SeenBehind`); what has been there all the time and is not after the
cursor has been returned (`SteadySeen`); a lookup either resolved the tags asked
for or holds a dead id that selects nothing (`Asked`). That the selected rows can
be put in order is proved from ranks: the cardinality of the ids up to one.

**Processes.** `StopInv` (`ServerProofs`): the listener is open only while the
main goroutine is in its select, and a status of 0 has been decided when nothing
ran, after a signal; no later step can start a request. `OpenInv` adds that the
database is open from `Connect` until `run()` returns and that statuses are those of
processes that have left, which gives `ClosedUnderwayIsTold`. For routers `SliceInv`
keeps the types of slices and arrays, and `FullInv` says of a shallow program that
a slice still to be appended to is full, so that `append` copies; then every step
is one of `ChainBook`.

**Requests.** `ServingProofs` follows a request through middleware, muxes and
handlers, for any number of requests, any inputs and any handlers.

- `TypeInv`: a slice shows no slot of its array that was never written
  (`SlicesHold`), routes lead to a handler or to a router that exists
  (`RoutesLead`), requests are records of the expected shape (`ReqInv`). That the
  mux finds a route whenever one matches is a lemma of its own (`MostSpecific`): the
  preference among the matching patterns is well-founded.
- `BuiltFirst`, `WiredInv`: no request comes before all calls of `main.go` have been
  made, and after each call the routers are as those calls, in that order, leave
  them: the root has Recover and Log in a full array, so that `Use(Auth)` on the
  sub-router moves to an array of its own and only the sub-router has Auth
  (`BuiltAs`), and what the routes lead to (`RoutesAs`) leaves no way to a handler
  of the API but through the sub-router.
- `Answering`: of every request of a program with Recover, `Sound` says that its
  frames are the beginning of Recover, Log, Recover, Log, Auth (`Stacked`), how many
  of them there are at each router and in a handler (`Deep`, `Behind`), that nothing
  has been answered on the way in (`Pure`), and how the answer, the log line and a
  panic relate (`Answered`, `Logged`). A handler that panics has both Recovers
  below it, and the inner one answers 500 before the outer Log writes its line.

`HandlerHasUser`, `PanicIsAnswered` and `LogTellsAnswer` follow from the three.
None of them is inductive: that a handler has a user is a consequence of what
routers looked like before the listener was opened. TLC checked the whole invariant
on the instance of ServerRuns before it was proved. Four assumptions name what is
used of the constants: the types of requests (`InputsAssumption`) and handlers
(`HandlersAssumption`), the shape of programs (`MainsAssumption`), and that the
programs named words and image are those of this repository (`NamesAssumption`);
other programs may have any calls.

Only model-checked: the liveness properties (`EveryRequestAnswered`,
`RegisteredGetsIn`, `EveryRoundEnds`, `StoredIsAttached`, `StopEnds`), since
liveness under fairness is beyond the proof system. Every invariant and every
action property of the passing runs, and every refinement, has a theorem.

## Abstractions

- A DELETE with its cascade is one step, taken when no lock stands in its way; it
  holds no locks while it waits.
- Each row of an INSERT is a step, since each may wait; foreign keys are looked up
  when the statement ends, as Postgres' triggers do.
- ristretto applies `Set` later, or not at all: `StoreToCache` followed at once by
  `Evict` covers that.
- Words, emails, states, texts are model values; an editor stands for the text of
  its definition, a login for its random state.
- Errors that no property tells apart share a status: every unexpected error is
  500. Parsing of JSON and ids, and the 400s it causes, are steps of the handlers in
  `Api`; elsewhere they are left out, except the one that comes after an upload
  (`SaveImage`).
- The service offers `AddTags` but `rest/api.go` mounts no route for it; it is
  modelled as the service defines it.
- Signing, expiry and secrets of tokens are left out; a token is its claims, and
  whether its signature can be verified.
- `http.ServeMux` is modelled by the patterns the services mount; HEAD requests,
  redirects to a cleaned path and hosts are left out, and so are
  `http.ErrAbortHandler` in `Recover`, which no handler panics with, and the panic
  of `SubRouter` on an empty prefix, which no program passes.
- `ListenAndServe` and `Shutdown` are modelled by what net/http promises: the
  listener is closed before connections are waited for, `ListenAndServe` after
  `Shutdown` returns at once, `Shutdown` returns early when its context is done.
- A handler in `Api` succeeds or fails; what its service does to the tables is in
  the modules of the service. Its last step needs the database of the process.

## Not modelled

- The values of the configuration (`config`, `pkg/env` beyond the panic of
  `RequireString`) and the text of log lines: no property depends on them, except
  on the type of the key, which is `KeyKind`.
- The Google OIDC client (`provider/google.go`) beyond what `Exchange` can
  return, and the encoding of tokens (`token/jwt.go`): calls into libraries.
- How the file server maps a path to a file, how images are decoded.
- `words/internal/model`, `fn`, the test helpers: records and maps.
- Helm charts, Dockerfiles, scripts, down migrations. From the charts comes that
  words runs in several replicas, and which prefix the route strips.

## Plan

Done, in this order: WordsStore, WordsService, PickBook and their first proofs;
Auth; Paging; Catalog; Router, ChainBook, Api, Serving and Server; the remaining
proofs of words, auth and catalog; the proofs of paging and of the processes; the
proofs of requests; AccountBook and its proof.

Left:

1. The single-statement operations of `Catalog` over the rows of `WordsStore`, so
   that a deleted word is modelled once for picks and images.
2. An abstract specification of the catalog, words with definitions and whole
   images that appear and go, which `Catalog` implements with its uploads.
