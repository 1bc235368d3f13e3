----------------------------- MODULE WordsService -----------------------------
(***************************************************************************)
(* Picks and tags of the words service (service/words.go, service/tags.go) *)
(* over the tables of WordsStore.  Several replicas run; each keeps the    *)
(* tag cache of its tagManager in memory.  A request is one goroutine in   *)
(* one replica and one database session; its steps are its SQL statements  *)
(* (an INSERT of several rows is one step per row, since each row can wait *)
(* for another transaction), so requests interleave between statements.    *)
(***************************************************************************)
EXTENDS WordsStore, Sequences, SequencesExt

CONSTANTS
    Procs,    \* replicas of the words service
    Host,     \* the replica that serves a request
    Inputs    \* the requests clients may send

Ops == {"PickWord", "AddTags", "RemoveTags", "UnpickWord", "DeleteWord"}

Requests ==
    [op : {"PickWord"}, user : Users, def : Defs, tags : SUBSET Tags]
      \cup [op : {"AddTags", "RemoveTags"}, pick : Nat, tags : SUBSET Tags]
      \cup [op : {"UnpickWord"}, pick : Nat]
      \cup [op : {"DeleteWord"}, word : Words]

ASSUME HostAssumption == Host \in [Txs -> Procs]
ASSUME InputsAssumption == Inputs \subseteq Requests

VARIABLES
    input,   \* the request each goroutine serves
    pc,      \* the statement it executes next
    have,    \* tag ids it has resolved (tagSet), 0: not resolved
    todo,    \* tags whose rows its INSERT has still to write, in map order
    pick,    \* the pick it works on, 0 before PickWord has created it
    resp,    \* the status it answered with
    cache    \* tag ids in each replica's cache, 0: absent

serviceVars == <<input, pc, have, todo, pick, resp, cache>>
vars == <<storeVars, serviceVars>>

PCs == {"begin", "getTags", "createTags", "readTags", "createPick",
        "addTags", "checkRefs", "commit", "delete", "done"}
Statuses == {"none", "ok", "404", "409", "500", "lost"}

TypeOK ==
    /\ StoreTypeOK
    /\ input \in [Txs -> Inputs]
    /\ pc \in [Txs -> PCs]
    /\ have \in [Txs -> [Tags -> Nat]]
    /\ todo \in [Txs -> Seq(Tags)]
    /\ pick \in [Txs -> Nat]
    /\ resp \in [Txs -> Statuses]
    /\ cache \in [Procs -> [Tags -> Nat]]

NoIds == [t \in Tags |-> 0]

Init ==
    /\ StoreInit
    /\ input \in [Txs -> Inputs]
    /\ pc = [r \in Txs |-> "begin"]
    /\ have = [r \in Txs |-> NoIds]
    /\ todo = [r \in Txs |-> << >>]
    /\ pick = [r \in Txs |-> 0]
    /\ resp = [r \in Txs |-> "none"]
    /\ cache = [p \in Procs |-> NoIds]

-----------------------------------------------------------------------------
\* tagSet.Merge and storeToCache: the newer ids win.
Merge(old, new) == [t \in Tags |-> IF new[t] # 0 THEN new[t] ELSE old[t]]

Resolved(ids)   == {t \in Tags : ids[t] # 0}
Missing(r, ids) == {t \in input[r].tags : ids[t] = 0}

\* Mutant: GetTags returns all that is cached, not only what it was asked for.
WholeCache(r) == cache[Host[r]]

\* What tagManager.GetTags finds without asking the database.
CacheLookup(r) ==
    [t \in Tags |-> IF t \in input[r].tags THEN cache[Host[r]][t] ELSE 0]

StoreToCache(r, ids) ==
    cache' = [cache EXCEPT ![Host[r]] = Merge(cache[Host[r]], ids)]

\* The request answers and stops; its locals go out of scope.
Respond(r, status) ==
    /\ pc' = [pc EXCEPT ![r] = "done"]
    /\ resp' = [resp EXCEPT ![r] = status]
    /\ have' = [have EXCEPT ![r] = NoIds]
    /\ todo' = [todo EXCEPT ![r] = << >>]
    /\ pick' = [pick EXCEPT ![r] = 0]

\* The callback of WithTx returned an error: ROLLBACK, then the answer.
Fail(r, status) ==
    /\ Rollback({r})
    /\ Respond(r, status)
    /\ UNCHANGED <<defs, nextTag, nextPick, input, cache>>

Goto(r, label) == pc' = [pc EXCEPT ![r] = label] /\ UNCHANGED resp

\* The INSERT of a set of rows, in the order Go's map iteration gives them.
Insert(r, T, label, next) ==
    \E order \in SetToSeqs(T) :
        /\ todo' = [todo EXCEPT ![r] = order]
        /\ Goto(r, IF T = {} THEN next ELSE label)

\* The tags of the request are resolved to ids: go on with the operation.
UseTags(r, ids) ==
    \/ /\ input[r].op = "PickWord"
       /\ Goto(r, "createPick") /\ UNCHANGED todo
    \/ /\ input[r].op = "AddTags"
       /\ Insert(r, Resolved(ids), "addTags", "checkRefs")
    \/ /\ input[r].op = "RemoveTags"
       /\ Goto(r, "delete") /\ UNCHANGED todo

-----------------------------------------------------------------------------
\* PickWord, AddTags: BEGIN.  All three: GetTags reads the cache.
Begin(r) ==
    /\ pc[r] = "begin"
    /\ input[r].op \in {"PickWord", "AddTags", "RemoveTags"}
    /\ tx' = IF input[r].op = "RemoveTags" THEN tx ELSE [tx EXCEPT ![r] = "open"]
    /\ pick' = IF input[r].op = "PickWord" THEN pick
               ELSE [pick EXCEPT ![r] = input[r].pick]
    /\ LET hits == CacheLookup(r) IN
       /\ have' = [have EXCEPT ![r] = hits]
       /\ IF Missing(r, hits) # {}
          THEN Goto(r, "getTags") /\ UNCHANGED todo
          ELSE UseTags(r, hits)
    /\ UNCHANGED <<defs, tags, nextTag, picks, nextPick, tagsMap, input, cache>>

\* GetTags: SELECT the tags the cache did not hold, and cache what was found.
\* GetOrCreateTags goes on to create the rest; RemoveTags does without them.
GetTags(r) ==
    /\ pc[r] = "getTags"
    /\ LET fetched == SelectTags(r, Missing(r, have[r]))
           ids     == Merge(have[r], fetched)
       IN  /\ StoreToCache(r, fetched)
           /\ have' = [have EXCEPT ![r] = ids]
           /\ IF Missing(r, ids) # {} /\ input[r].op # "RemoveTags"
              THEN Insert(r, Missing(r, ids), "createTags", "readTags")
              ELSE UseTags(r, ids)
    /\ UNCHANGED <<storeVars, input, pick>>

\* CreateTags, the INSERT: one row.
CreateTag(r) ==
    /\ pc[r] = "createTags"
    /\ InsertTag(r, Head(todo[r]))
    /\ todo' = [todo EXCEPT ![r] = Tail(todo[r])]
    /\ Goto(r, IF Len(todo[r]) = 1 THEN "readTags" ELSE "createTags")
    /\ UNCHANGED <<tx, defs, picks, nextPick, tagsMap, input, have, pick, cache>>

\* CreateTags, the SELECT; GetOrCreateTags merges the ids and caches them, still
\* inside the transaction.
ReadTags(r) ==
    /\ pc[r] = "readTags"
    /\ LET created == SelectTags(r, Missing(r, have[r]))
           ids     == Merge(have[r], created)
       IN  /\ StoreToCache(r, created)
           /\ have' = [have EXCEPT ![r] = ids]
           /\ UseTags(r, ids)
    /\ UNCHANGED <<storeVars, input, pick>>

\* CreateUserPick: the unique key (user_id, def_id) first, then the foreign key.
CreatePick(r) ==
    LET u == input[r].user
        d == input[r].def
    IN  /\ pc[r] = "createPick"
        /\ PickHolders(r, u, d) = {}
        /\ nextPick' = nextPick + 1
        /\ IF SamePick(u, d) # {} \/ d \notin defs
           THEN /\ Rollback({r})
                /\ Respond(r, IF SamePick(u, d) # {} THEN "409" ELSE "500")
           ELSE /\ picks' = picks \cup {PickRow(r, u, d)}
                /\ pick' = [pick EXCEPT ![r] = nextPick]
                /\ Insert(r, Resolved(have[r]), "addTags", "checkRefs")
                /\ UNCHANGED <<tx, tags, tagsMap, have>>
        /\ UNCHANGED <<defs, nextTag, input, cache>>

\* store.AddTags: one row of the INSERT.  A tag the pick already carries fails the
\* statement with ErrExists, which the service does not map to a status.
AddTag(r) ==
    LET i == have[r][Head(todo[r])]
    IN  /\ pc[r] = "addTags"
        /\ MapHolders(r, pick[r], i) = {}
        /\ IF SameMap(pick[r], i) # {}
           THEN Fail(r, "500")
           ELSE /\ tagsMap' = tagsMap \cup {[pick |-> pick[r], tag |-> i, by |-> r]}
                /\ todo' = [todo EXCEPT ![r] = Tail(todo[r])]
                /\ Goto(r, IF Len(todo[r]) = 1 THEN "checkRefs" ELSE "addTags")
                /\ UNCHANGED <<tx, defs, tags, nextTag, picks, nextPick,
                               input, have, pick, cache>>

\* store.AddTags: the foreign keys at the end of the statement.  AddTags answers
\* ErrNotFound with 404; PickWord does not expect it.
CheckRefs(r) ==
    /\ pc[r] = "checkRefs"
    /\ IF RefsHold(r)
       THEN /\ tx' = [tx EXCEPT ![r] = "checked"]
            /\ Goto(r, "commit")
            /\ UNCHANGED <<defs, tags, nextTag, picks, nextPick, tagsMap,
                           input, have, todo, pick, cache>>
       ELSE Fail(r, IF input[r].op = "AddTags" THEN "404" ELSE "500")

\* WithTx: COMMIT.  Its acknowledgement can be lost with the connection.
Commit(r) ==
    /\ pc[r] = "commit"
    /\ tx' = [tx EXCEPT ![r] = "committed"]
    /\ \E status \in {"ok", "500"} : Respond(r, status)
    /\ UNCHANGED <<defs, tags, nextTag, picks, nextPick, tagsMap, input, cache>>

\* What is answered to a statement that is its own transaction: as with COMMIT, the
\* acknowledgement can be lost.
Deleted(r) == \E status \in {"ok", "500"} : Respond(r, status)

\* RemoveTags: the DELETE by the ids that were looked up (skipped if there are none).
RemoveTags(r) ==
    /\ pc[r] = "delete"
    /\ DeleteMap(pick[r], {have[r][t] : t \in Resolved(have[r])})
    /\ Deleted(r)
    /\ UNCHANGED <<tx, defs, tags, nextTag, picks, nextPick, input, cache>>

UnpickWord(r) ==
    /\ pc[r] = "begin"
    /\ input[r].op = "UnpickWord"
    /\ DeletePicks({input[r].pick})
    /\ Deleted(r)
    /\ UNCHANGED <<tx, defs, tags, nextTag, nextPick, input, cache>>

DeleteWord(r) ==
    /\ pc[r] = "begin"
    /\ input[r].op = "DeleteWord"
    /\ DeleteWordRow(input[r].word)
    /\ Deleted(r)
    /\ UNCHANGED <<tx, tags, nextTag, nextPick, input, cache>>

-----------------------------------------------------------------------------
\* The client goes away (its context is cancelled) or a statement fails with an
\* error of its own, the first one included: what transaction there is, is rolled back.
Cancel(r) == pc[r] # "done" /\ Fail(r, "500")

\* r waits for b: b holds the key of the row r inserts next.
WaitsFor(r, b) ==
    \/ pc[r] = "createTags" /\ b \in TagHolders(r, Head(todo[r]))
    \/ pc[r] = "createPick" /\ b \in PickHolders(r, input[r].user, input[r].def)
    \/ pc[r] = "addTags" /\ b \in MapHolders(r, pick[r], have[r][Head(todo[r])])

NeverDeadlocked(r) == FALSE \* Mutant: no deadlock detector.
Deadlocked(r) ==
    /\ \E b \in Txs : WaitsFor(r, b)
    /\ \E S \in SUBSET Txs :
          /\ r \in S
          /\ \A s \in S : \E b, c \in S : WaitsFor(s, b) /\ WaitsFor(c, s)

\* The deadlock detector of Postgres makes one transaction of a cycle fail.
DeadlockAbort(r) == Deadlocked(r) /\ Fail(r, "500")

\* The cache drops an entry, or never admitted it.
Evict(p, t) ==
    /\ cache[p][t] # 0
    /\ cache' = [cache EXCEPT ![p][t] = 0]
    /\ UNCHANGED <<storeVars, input, pc, have, todo, pick, resp>>

\* The request has reached its replica, and is not answered yet.
Active(r) == pc[r] \notin {"begin", "done"}

\* A replica stops and starts again: its requests are lost, their transactions
\* rolled back, its cache is empty.
Restart(p) ==
    LET lost == {r \in Txs : Host[r] = p /\ Active(r)}
    IN  /\ lost # {} \/ cache[p] # NoIds
        /\ Rollback(lost)
        /\ pc' = [r \in Txs |-> IF r \in lost THEN "done" ELSE pc[r]]
        /\ resp' = [r \in Txs |-> IF r \in lost THEN "lost" ELSE resp[r]]
        /\ have' = [r \in Txs |-> IF r \in lost THEN NoIds ELSE have[r]]
        /\ todo' = [r \in Txs |-> IF r \in lost THEN << >> ELSE todo[r]]
        /\ pick' = [r \in Txs |-> IF r \in lost THEN 0 ELSE pick[r]]
        /\ cache' = [cache EXCEPT ![p] = NoIds]
        /\ UNCHANGED <<defs, nextTag, nextPick, input>>

\* Every request has been answered.
Finished == (\A r \in Txs : pc[r] = "done") /\ UNCHANGED vars

Step(r) ==
    \/ Begin(r) \/ GetTags(r) \/ CreateTag(r) \/ ReadTags(r) \/ CreatePick(r)
    \/ AddTag(r) \/ CheckRefs(r) \/ Commit(r)
    \/ RemoveTags(r) \/ UnpickWord(r) \/ DeleteWord(r)

Next ==
    \/ \E r \in Txs : Step(r) \/ Cancel(r) \/ DeadlockAbort(r)
    \/ \E p \in Procs : Restart(p) \/ \E t \in Tags : Evict(p, t)
    \/ Finished

Spec == Init /\ [][Next]_vars

\* Goroutines and the deadlock detector keep running.
FairSpec == Spec /\ \A r \in Txs : WF_vars(Step(r)) /\ WF_vars(DeadlockAbort(r))
=============================================================================
