------------------------------ MODULE WordsStore ------------------------------
(***************************************************************************)
(* The Postgres tables behind the words service (store/postgres.go and the *)
(* schema in 0000_create_tables.up.sql), as concurrent READ COMMITTED      *)
(* transactions see them.  A row keeps the transaction that inserted it    *)
(* ("by"); it is visible to that transaction at once and to everybody when *)
(* the transaction commits.  A transaction that would duplicate a key of   *)
(* an uncommitted row waits for the transaction that holds it.  Single     *)
(* DELETE statements run outside a transaction in this code and are one    *)
(* step, taken when no lock stands in their way.                           *)
(***************************************************************************)
EXTENDS Naturals, FiniteSets

CONSTANTS
    Txs,      \* one database session per request
    NoTx,     \* "inserted by nobody"
    Tags,     \* tag texts
    Users,
    Words,
    Defs,     \* word definitions that exist at the start
    WordOf    \* the word a definition belongs to

ASSUME NoTxAssumption == NoTx \notin Txs
ASSUME TagsAssumption == IsFiniteSet(Tags)
ASSUME WordOfAssumption == WordOf \in [Defs -> Words]

VARIABLES
    tx,        \* state of each session's transaction
    defs,      \* definitions not yet deleted
    tags,      \* the row of table tags that holds a text, if any
    nextTag,   \* the next value of the serial tags.id
    picks,     \* rows of user_picks
    nextPick,  \* the next value of the serial user_picks.id
    tagsMap    \* rows of tags_map

storeVars == <<tx, defs, tags, nextTag, picks, nextPick, tagsMap>>

\* "checked": the tags_map statement has passed its foreign key triggers, so the
\* transaction holds FOR KEY SHARE locks on the pick and the tags it refers to.
TxStates == {"idle", "open", "checked", "committed", "aborted"}
TagRows  == [id : Nat, by : Txs \cup {NoTx}]
PickRows == [id : Nat, user : Users, def : Defs, by : Txs]
MapRows  == [pick : Nat, tag : Nat, by : Txs]

NoRow == [id |-> 0, by |-> NoTx]

StoreTypeOK ==
    /\ tx \in [Txs -> TxStates]
    /\ defs \subseteq Defs
    /\ tags \in [Tags -> TagRows]
    /\ nextTag \in Nat \ {0}
    /\ picks \subseteq PickRows
    /\ nextPick \in Nat \ {0}
    /\ tagsMap \subseteq MapRows

StoreInit ==
    /\ tx = [x \in Txs |-> "idle"]
    /\ defs = Defs
    /\ tags = [t \in Tags |-> NoRow]
    /\ nextTag = 1
    /\ picks = {}
    /\ nextPick = 1
    /\ tagsMap = {}

-----------------------------------------------------------------------------
Running(x)     == tx[x] \in {"open", "checked"}
IsCommitted(b) == b \in Txs /\ tx[b] = "committed"

\* READ COMMITTED: a statement sees its own transaction's rows and the committed ones.
Sees(x, b) == b = x \/ IsCommitted(b)

\* The row is uncommitted and somebody else's: a conflicting insert waits for it.
Pending(x, b) == b \in Txs /\ b # x /\ Running(b)

\* The id of every tag of T that x sees, 0 for the others.
SelectTags(x, T) ==
    [t \in Tags |-> IF t \in T /\ Sees(x, tags[t].by) THEN tags[t].id ELSE 0]

\* Mutant: ids counted from the rows that are there, not from a serial.
InsertTagByMax(x, t) ==
    LET used == {tags[u].id : u \in Tags}
        free == CHOOSE i \in 1 .. Cardinality(Tags) + 1 : i \notin used
    IN  /\ ~Pending(x, tags[t].by)
        /\ tags' = IF tags[t] = NoRow THEN [tags EXCEPT ![t] = [id |-> free, by |-> x]]
                   ELSE tags
        /\ UNCHANGED nextTag

\* Mutant: ON CONFLICT (tag) DO UPDATE SET id.
UpsertTag(x, t) ==
    /\ ~Pending(x, tags[t].by)
    /\ tags' = [tags EXCEPT ![t] = [id |-> nextTag, by |-> x]]
    /\ nextTag' = nextTag + 1

\* INSERT INTO tags ... ON CONFLICT (tag) DO NOTHING, one row.  The serial is
\* advanced before the conflict is looked for, and never goes back.
InsertTag(x, t) ==
    /\ ~Pending(x, tags[t].by)
    /\ nextTag' = nextTag + 1
    /\ tags' = IF tags[t] = NoRow
               THEN [tags EXCEPT ![t] = [id |-> nextTag, by |-> x]]
               ELSE tags

\* Mutant: the arguments $1 and $2 of the INSERT in the wrong order.
SwappedPickRow(x, u, d) == [id |-> nextPick, user |-> d, def |-> u, by |-> x]

\* The row INSERT INTO user_picks writes.
PickRow(x, u, d) == [id |-> nextPick, user |-> u, def |-> d, by |-> x]

SamePick(u, d) == {row \in picks : row.user = u /\ row.def = d}
SameMap(p, i)  == {row \in tagsMap : row.pick = p /\ row.tag = i}

\* The sessions whose uncommitted row keeps x from inserting one with the same key.
TagHolders(x, t)     == {b \in {tags[t].by} : Pending(x, b)}
NoPickHolders(x, u, d) == {} \* Mutant: no wait for the key (user_id, def_id).
PickHolders(x, u, d) == {b \in {row.by : row \in SamePick(u, d)} : Pending(x, b)}
MapHolders(x, p, i)  == {b \in {row.by : row \in SameMap(p, i)} : Pending(x, b)}

\* The foreign keys of tags_map, looked up when its INSERT ends.
HasPick(x, p) == \E row \in picks : row.id = p /\ Sees(x, row.by)
HasTag(x, i)  == \E t \in Tags : tags[t].id = i /\ Sees(x, tags[t].by)

\* Mutant: tags_map without the foreign key on tag_id.
PickRefsHold(x) == \A row \in tagsMap : row.by = x => HasPick(x, row.pick)

RefsHold(x) ==
    \A row \in tagsMap : row.by = x => HasPick(x, row.pick) /\ HasTag(x, row.tag)

\* Mutant: the transaction is committed although the callback failed.
CommitOnError(X) ==
    /\ tx' = [x \in Txs |-> IF x \in X /\ Running(x) THEN "committed" ELSE tx[x]]
    /\ UNCHANGED <<tags, picks, tagsMap>>

\* ROLLBACK of the sessions X: their rows are gone.  The serials stay.
Rollback(X) ==
    /\ tags' = [t \in Tags |-> IF tags[t].by \in X THEN NoRow ELSE tags[t]]
    /\ picks' = {row \in picks : row.by \notin X}
    /\ tagsMap' = {row \in tagsMap : row.by \notin X}
    /\ tx' = [x \in Txs |-> IF x \in X /\ Running(x) THEN "aborted" ELSE tx[x]]

\* A pick row is locked by the transactions that have tagged it and by its creator.
PickNeverLocked(p) == FALSE \* Mutant: no FOR KEY SHARE lock on the pick.
PickLocked(p) == \E row \in tagsMap : row.pick = p /\ tx[row.by] = "checked"

\* DELETE FROM user_picks WHERE id = p, with the cascade into tags_map.
DeletePicks(P) ==
    LET gone == {row \in picks : row.id \in P /\ IsCommitted(row.by)}
        ids  == {row.id : row \in gone}
    IN  /\ \A p \in ids : ~PickLocked(p)
        /\ picks' = picks \ gone
        /\ tagsMap' = {row \in tagsMap : ~(row.pick \in ids /\ IsCommitted(row.by))}

\* Mutant: a delete that does not wait for uncommitted picks of its definitions.
DeleteWordRowAtOnce(w) ==
    LET gone == {d \in defs : WordOf[d] = w}
    IN  /\ DeletePicks({row.id : row \in {q \in picks : q.def \in gone}})
        /\ defs' = defs \ gone

\* DELETE FROM words WHERE id = w, with the cascade through definitions into
\* user_picks and tags_map.  An uncommitted pick share-locks its definition.
DeleteWordRow(w) ==
    LET gone == {d \in defs : WordOf[d] = w}
    IN  /\ \A row \in picks : row.def \in gone => ~Running(row.by)
        /\ DeletePicks({row.id : row \in {q \in picks : q.def \in gone}})
        /\ defs' = defs \ gone

\* Mutant: tag_id = ALL(I).
DeleteMapAll(p, I) ==
    tagsMap' = {row \in tagsMap :
                   ~(row.pick = p /\ I \subseteq {row.tag} /\ IsCommitted(row.by))}

\* DELETE FROM tags_map WHERE pick_id = p AND tag_id = ANY(I).
DeleteMap(p, I) ==
    tagsMap' = {row \in tagsMap :
                   ~(row.pick = p /\ row.tag \in I /\ IsCommitted(row.by))}
=============================================================================
