------------------------------ MODULE PagingProps ------------------------------
(***************************************************************************)
(* What a client may expect that follows next_cursor through its picks.    *)
(***************************************************************************)
EXTENDS Paging

LastPage == phase = "idle" /\ cursor.kind = "null"

\* --- invariants ---------------------------------------------------------

\* A pick that was there, with matching tags, from the first page to the last has
\* been returned, whatever was picked, unpicked and tagged between the pages, unless
\* a lookup trusted a dead id for one of the tags.  (A pick committed between two
\* pages with an id behind the cursor is not.)
NothingMissed ==
    LastPage /\ query.with \cap blind = {} =>
        steady \subseteq seen

\* --- action properties --------------------------------------------------

Answers == phase = "select" /\ phase' # "select"

\* From the first page to the last no pick is returned twice, and ids only go up.
InOrder ==
    [][Answers => \A k \in 1 .. Len(page') :
          /\ \A i \in seen : i < page'[k]
          /\ \A j \in 1 .. k - 1 : page'[j] < page'[k]]_vars

\* What a page returns carries all the tags asked for and none of the excluded ones,
\* except those the lookup did not find or had a dead id for: the lookups and the
\* page are three statements, and tags come into being between them.
FilterHolds ==
    [][Answers => \A k \in 1 .. Len(page') :
          /\ query.with \subseteq picks[page'[k]].tags
          /\ picks[page'[k]].tags \cap query.without \subseteq blind]_vars

\* --- liveness -----------------------------------------------------------

\* The client comes to a last page, again and again.
EveryRoundEnds == []<>(phase = "finished" \/ LastPage)

\* --- what a test says of the program, and the code does not do ------------

\* api.go:180 leaves next_cursor out when it is empty, and api_test.go:216 answers
\* the last page with an empty one: a client that follows the cursor comes to an end.
WalkEnds == <>(phase = "finished")
=============================================================================
