------------------------------ MODULE WordsProps ------------------------------
(***************************************************************************)
(* What picks and tags of the words service must satisfy.                  *)
(***************************************************************************)
EXTENDS WordsService

CONSTANT PickIds    \* the ids user_picks.id may take

\* --- invariants ---------------------------------------------------------

\* What a committed row of tags_map or user_picks refers to is there and
\* committed, although ids travel through caches that outlive rollbacks and
\* deletes cascade beside running transactions.
NoDanglingRows ==
    /\ \A row \in tagsMap : IsCommitted(row.by) =>
          /\ \E p \in picks : p.id = row.pick /\ IsCommitted(p.by)
          /\ \E t \in Tags : tags[t].id = row.tag /\ IsCommitted(tags[t].by)
    /\ \A row \in picks : IsCommitted(row.by) => row.def \in defs

\* Everything that anybody takes for the id of a tag.
Claims(t) == ({tags[t].id} \cup {cache[p][t] : p \in Procs}
                \cup {have[r][t] : r \in Txs}) \ {0}

\* One id is never taken for two tags, in the table, in any cache or in any
\* request: a stale id may lead nowhere, it never leads to another tag.
OneTagPerId == \A t, u \in Tags : Claims(t) \cap Claims(u) # {} => t = u

\* A pick carries only tags that the request which tagged it asked for.
NoStrayTag ==
    \A row \in tagsMap, t \in Tags :
        tags[t].id = row.tag => t \in input[row.by].tags

\* A cached id departs from the table only when some transaction was rolled back
\* after GetOrCreateTags had cached the tags it created.
StaleOnlyAfterRollback ==
    (\A r \in Txs : tx[r] # "aborted") =>
        \A p \in Procs, t \in Tags : cache[p][t] \in {0, tags[t].id}

\* --- action properties --------------------------------------------------

\* The tags a client reads of a pick.
TagsOf(p) ==
    {t \in Tags : \E row \in SameMap(p, tags[t].id) : IsCommitted(row.by)}

Answers(r, status) == resp[r] = "none" /\ resp'[r] = status

\* "user pick already exists" is never said of a pick that is then rolled back.
ConflictIsReal ==
    [][\A r \in Txs : Answers(r, "409") =>
          \E row \in SamePick(input[r].user, input[r].def) : IsCommitted(row.by)]_vars

\* words.go:268, "RemoveTag removes a tag from a user's picked word", holds as long as no
\* transaction has been rolled back: when RemoveTags answers with success, none of the
\* tags whose ids it had looked up is on the pick.  (After a rollback it may have looked
\* up an id that no row has, and deleted nothing.)
RemovedUnlessRolledBack ==
    [][\A r \in Txs :
          /\ Answers(r, "ok") /\ input[r].op = "RemoveTags"
          /\ \A x \in Txs : tx[x] # "aborted"
          => \A t \in TagsOf(input[r].pick)' : have[r][t] = 0]_vars

\* --- refinement ---------------------------------------------------------

\* The book a client reads: committed picks with the texts of their tags.
Book ==
    {[id |-> row.id, user |-> row.user, def |-> row.def, tags |-> TagsOf(row.id)] :
        row \in {p \in picks : IsCommitted(p.by)}}

PB == INSTANCE PickBook WITH book <- Book, meanings <- defs, Ids <- PickIds

\* Whatever the interleaving, the cancelled requests and the stale caches, the
\* picks change as the operations of the book, each in one step.
ImplementsPickBook == PB!Spec

\* --- liveness -----------------------------------------------------------

\* Every request that is sent is answered: statements wait for each other's keys
\* and locks, but not for ever, and a cycle of waiting transactions is broken.
EveryRequestAnswered == \A r \in Txs : <>(resp[r] # "none")

\* --- what the comments of the code say, and the code does not -----------

\* words.go:237, AddTags: "If the pick does not exist, it returns a ServiceError
\* with status code 404."
NotFoundMeansNoPick ==
    [][\A r \in Txs : Answers(r, "404") => ~HasPick(r, pick[r])]_vars
=============================================================================
