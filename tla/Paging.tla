-------------------------------- MODULE Paging --------------------------------
(***************************************************************************)
(* A client that walks through the pages of GET /picks (rest/api.go,       *)
(* service/words.go GetUserPicks, store/postgres.go GetUserPicks) while    *)
(* other requests pick, unpick and tag.  A request for a page is three     *)
(* steps, since it runs outside a transaction: it resolves the tags a pick *)
(* must have, then the tags it must not have, then it asks for the page.   *)
(* The other requests are the ones of WordsService, reduced to what they   *)
(* commit.                                                                 *)
(***************************************************************************)
EXTENDS Integers, FiniteSets, Sequences, SequencesExt

CONSTANTS
    Tags,
    DeadId,     \* a tag id that no row has
    Queries,    \* what the client may ask for
    MaxPicks,   \* bound: picks ever started
    MaxEdits    \* bound: unpicks, changes of tags and AddTags that are rolled back

Ids == 1 .. MaxPicks

ASSUME BoundsAssumption == MaxPicks \in Nat /\ MaxEdits \in Nat
ASSUME DeadIdAssumption == DeadId \notin Tags
ASSUME QueriesAssumption ==
    Queries \subseteq [with : SUBSET Tags, without : SUBSET Tags, size : Int]

VARIABLES
    picks,     \* the user's picks by id: not there yet, uncommitted, live, gone
    known,     \* tags with a row in table tags
    dead,      \* tags for which some replica caches an id that was rolled back
    edits,     \* unpicks, tag changes and rollbacks of AddTags so far
    query,     \* with_tags, without_tags and page_size of the walk
    phase,     \* what the page request does next
    ids,       \* the tag ids the page request has resolved
    page,      \* the picks of the last answer
    cursor,    \* next_cursor of the last answer
    \* history: the picks returned since the walk started or started over, the picks
    \* that have matched all that time, the tags a lookup did not resolve
    seen, steady, blind

client == <<query, phase, ids, page, cursor>>
data == <<picks, known, dead, edits>>
vars == <<data, client, seen, steady, blind>>

\* next_cursor is "" (left out), the encoding of a nil cursor, or of a pick id.
Cursors == [kind : {"none", "null", "id"}, last : {0} \cup Ids]
NoCursor == [kind |-> "none", last |-> 0]

TypeOK ==
    /\ picks \in [Ids -> [state : {"none", "pending", "live", "gone"}, tags : SUBSET Tags]]
    /\ known \subseteq Tags /\ dead \subseteq Tags
    /\ edits \in 0 .. MaxEdits
    /\ query \in Queries
    /\ phase \in {"idle", "withoutTags", "select", "finished"}
    /\ ids \in [with : SUBSET (Tags \cup {DeadId}), without : SUBSET (Tags \cup {DeadId})]
    /\ cursor \in Cursors
    /\ page \in Seq(Ids)
    /\ seen \subseteq Ids
    /\ steady \subseteq Ids
    /\ blind \subseteq Tags

NoIds == [with |-> {}, without |-> {}]

Init ==
    /\ picks = [i \in Ids |-> [state |-> "none", tags |-> {}]]
    /\ known = {} /\ dead = {} /\ edits = 0
    /\ query \in Queries
    /\ phase = "idle"
    /\ ids = NoIds
    /\ page = << >>
    /\ cursor = NoCursor
    /\ seen = {} /\ steady = {} /\ blind = {}

-----------------------------------------------------------------------------
\* Tags that a transaction of a PickWord or an AddTags may just have created: their ids
\* are in the cache of its replica before it commits.
Creating == Tags \ known

\* What tagManager.GetTags may find in the cache of a replica, and then in the table:
\* ids that are dead, or will be when their transaction is rolled back; and ids of rows
\* that are there, or will be when their transaction commits.
Lookups == {[dead |-> D, own |-> (known \cup C) \ D] :
               D \in SUBSET (dead \cup Creating), C \in SUBSET Creating}

\* In the table a tag's id is unique, so the tag stands for it.
Resolve(T, found) ==
    {IF t \in found.dead THEN DeadId ELSE t : t \in T \cap (found.own \cup found.dead)}
Missing(T, found) == T \ (found.own \cup found.dead)
Unresolved(T, found) == T \ found.own

\* Mutant: a pick with any of the tags asked for will do.
MatchesAny(tags, want) ==
    (want.with = {} \/ tags \cap want.with # {}) /\ tags \cap want.without = {}

\* HAVING: all tags of WithTags, none of WithoutTags.
Matches(tags, want) == want.with \subseteq tags /\ tags \cap want.without = {}

\* Mutant: p.id >= $2.
FromCursor(i, last) == i >= last

\* WHERE p.id > $2
AfterCursor(i, last) == i > last

\* The rows of the page query, ordered by id.
SelectPicks(want, last) ==
    LET found == {i \in Ids : /\ picks[i].state = "live"
                              /\ AfterCursor(i, last)
                              /\ Matches(picks[i].tags, want)}
    IN  CHOOSE rows \in SetToSeqs(found) :
            \A j, k \in DOMAIN rows : j < k => rows[j] < rows[k]

\* Mutant: the cursor stays where it was.
CursorStays(rows, n) == [kind |-> "id", last |-> cursor.last]

\* Mutant: the cursor is the first pick of the next page.
CursorOfNext(rows, n) == [kind |-> "id", last |-> rows[n + 1]]

\* The cursor is the last pick of this page.
CursorOfLast(rows, n) == [kind |-> "id", last |-> rows[n]]

\* Mutant: no more pages is the pick id -1.
EncodedMinusOne == [kind |-> "null", last |-> -1]

\* encodeCursor of a nil cursor: json writes null, so the text is never empty.
EncodedNil == [kind |-> "null", last |-> 0]

-----------------------------------------------------------------------------
\* The client asks for the next page; GetTags(WithTags).  If a tag does not exist
\* the answer is empty and has no cursor: the walk is over.  decodeCursor of the
\* encoded nil cursor gives the zero cursor, as does no cursor at all.
GetWithTags ==
    /\ phase = "idle"
    /\ \E found \in Lookups :
          /\ IF Missing(query.with, found) # {}
             THEN /\ phase' = "finished"
                  /\ page' = << >>
                  /\ cursor' = NoCursor
                  /\ UNCHANGED ids
             ELSE /\ phase' = "withoutTags"
                  /\ ids' = [ids EXCEPT !.with = Resolve(query.with, found)]
                  /\ UNCHANGED <<page, cursor>>
          /\ blind' = (IF cursor.last = 0 THEN {} ELSE blind)
                         \cup Unresolved(query.with, found)
    /\ seen' = IF cursor.last = 0 THEN {} ELSE seen
    /\ UNCHANGED <<data, query>>

\* GetTags(WithoutTags): tags that do not exist are left out.
GetWithoutTags ==
    /\ phase = "withoutTags"
    /\ phase' = "select"
    /\ \E found \in Lookups :
          /\ ids' = [ids EXCEPT !.without = Resolve(query.without, found)]
          /\ blind' = blind \cup Unresolved(query.without, found)
    /\ UNCHANGED <<data, query, page, cursor, seen>>

\* store.GetUserPicks: one row more than the page holds is asked for.  A page size
\* below -1 is refused by LIMIT; one of 0 or -1 slices or indexes out of range when
\* a row comes too many.  The client takes an error for the end.
GetUserPicks ==
    LET rows == SelectPicks(ids, cursor.last)
        n    == query.size
    IN  /\ phase = "select"
        /\ \/ /\ n < -1 \/ (n < 1 /\ Len(rows) > n)
              /\ phase' = "finished"
              /\ page' = << >>
              /\ cursor' = NoCursor
           \/ /\ n >= 1 /\ Len(rows) > n
              /\ phase' = "idle"
              /\ cursor' = CursorOfLast(rows, n)
              /\ page' = SubSeq(rows, 1, n)
           \/ /\ n >= 0 /\ Len(rows) <= n
              /\ phase' = "idle"
              /\ cursor' = EncodedNil
              /\ page' = rows
        /\ ids' = NoIds
        /\ seen' = seen \cup ToSet(page')
        /\ UNCHANGED <<data, query, blind>>

-----------------------------------------------------------------------------
\* PickWord: the id is drawn from the serial long before the row is committed ...
StartPick ==
    /\ \E i \in Ids :
          /\ picks[i].state = "none"
          /\ \A j \in Ids : j < i => picks[j].state # "none"
          /\ picks' = [picks EXCEPT ![i].state = "pending"]
    /\ UNCHANGED <<known, dead, edits, client, seen, blind>>

\* ... with the tags of the request, some of which it may have created.
CommitPick(i) ==
    /\ picks[i].state = "pending"
    /\ \E T \in SUBSET Tags :
          /\ picks' = [picks EXCEPT ![i] = [state |-> "live", tags |-> T]]
          /\ known' = known \cup T
    /\ UNCHANGED <<dead, edits, client, seen, blind>>

\* A rollback; the tags it had created stay behind in the cache.
AbortPick(i) ==
    /\ picks[i].state = "pending"
    /\ picks' = [picks EXCEPT ![i].state = "gone"]
    /\ \E T \in SUBSET (Tags \ known) : dead' = dead \cup T
    /\ UNCHANGED <<known, edits, client, seen, blind>>

\* UnpickWord, or the cascade of a deleted word.
Unpick(i) ==
    /\ picks[i].state = "live" /\ edits < MaxEdits
    /\ picks' = [picks EXCEPT ![i] = [state |-> "gone", tags |-> {}]]
    /\ edits' = edits + 1
    /\ UNCHANGED <<known, dead, client, seen, blind>>

AddTag(i, t) ==
    /\ picks[i].state = "live" /\ edits < MaxEdits
    /\ t \notin picks[i].tags
    /\ picks' = [picks EXCEPT ![i].tags = @ \cup {t}]
    /\ known' = known \cup {t}
    /\ edits' = edits + 1
    /\ UNCHANGED <<dead, client, seen, blind>>

\* An AddTags that created the tag is rolled back: the tag stays behind in the cache.
AbortTag(t) ==
    /\ t \notin known \cup dead /\ edits < MaxEdits
    /\ dead' = dead \cup {t}
    /\ edits' = edits + 1
    /\ UNCHANGED <<picks, known, client, seen, blind>>

RemoveTag(i, t) ==
    /\ picks[i].state = "live" /\ edits < MaxEdits
    /\ t \in picks[i].tags
    /\ picks' = [picks EXCEPT ![i].tags = @ \ {t}]
    /\ edits' = edits + 1
    /\ UNCHANGED <<known, dead, client, seen, blind>>

\* The cache drops an entry, or the replica restarts.
Evict(t) ==
    /\ t \in dead
    /\ dead' = dead \ {t}
    /\ UNCHANGED <<picks, known, edits, client, seen, blind>>

Page == GetWithTags \/ GetWithoutTags \/ GetUserPicks

Write ==
    \/ StartPick
    \/ \E i \in Ids : \/ CommitPick(i) \/ AbortPick(i) \/ Unpick(i)
                      \/ \E t \in Tags : AddTag(i, t) \/ RemoveTag(i, t)
    \/ \E t \in Tags : AbortTag(t) \/ Evict(t)

\* History: what has matched the query ever since the first page was asked for.
FirstPage == phase = "idle" /\ phase' # "idle" /\ cursor.last = 0
KeepSteady ==
    steady' = {i \in IF FirstPage THEN Ids ELSE steady :
                  picks'[i].state = "live" /\ Matches(picks'[i].tags, query)}

Finished == phase = "finished" /\ UNCHANGED vars

Next == ((Page \/ Write) /\ KeepSteady) \/ Finished

Spec == Init /\ [][Next]_vars

\* The client follows the cursors, and the server answers.
FairSpec == Spec /\ WF_vars(Page /\ KeepSteady)
=============================================================================
