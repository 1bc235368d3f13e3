----------------------------- MODULE PagingProofs -----------------------------
(***************************************************************************)
(* Proofs about Paging, for any number of picks, tags, edits and queries.   *)
(***************************************************************************)
EXTENDS PagingProps, FiniteSetTheorems, SequenceTheorems, TLAPS

Wanted == [with : SUBSET (Tags \cup {DeadId}), without : SUBSET (Tags \cup {DeadId})]

-----------------------------------------------------------------------------
(* Sorting. *)

Sorted(rows) == \A j, k \in DOMAIN rows : j < k => rows[j] < rows[k]

LEMMA FiniteIds ==
    ASSUME NEW S \in SUBSET Ids
    PROVE  IsFiniteSet(S) /\ Cardinality(S) \in Nat /\ \A x \in S : x \in Nat
<1>1. 1 \in Int /\ MaxPicks \in Int BY BoundsAssumption
<1>2. IsFiniteSet(Ids) BY <1>1, FS_Interval DEF Ids
<1>3. IsFiniteSet(S) BY <1>2, FS_Subset
<1>4. Cardinality(S) \in Nat BY <1>3, FS_CardinalityType
<1> QED BY <1>1, <1>3, <1>4 DEF Ids

\* Every set of ids can be put in order: an id comes at its rank.
LEMMA SortedExists ==
    ASSUME NEW S \in SUBSET Ids PROVE \E rows \in SetToSeqs(S) : Sorted(rows)
<1> DEFINE n == Cardinality(S)
           UpTo(x) == {y \in S : y <= x}
           rank == [x \in S |-> Cardinality(UpTo(x))]
<1>1. IsFiniteSet(S) /\ n \in Nat /\ \A x \in S : x \in Nat
  BY FiniteIds
<1>2. ASSUME NEW x \in S
      PROVE  /\ IsFiniteSet(UpTo(x)) /\ Cardinality(UpTo(x)) \in 1 .. n
  <2>1. UpTo(x) \in SUBSET S /\ x \in UpTo(x) BY <1>1
  <2>2. IsFiniteSet(UpTo(x)) /\ Cardinality(UpTo(x)) <= n BY <1>1, <2>1, FS_Subset
  <2>3. Cardinality(UpTo(x)) \in Nat /\ Cardinality(UpTo(x)) # 0
    BY <2>1, <2>2, FS_CardinalityType, FS_EmptySet
  <2> HIDE DEF n, UpTo
  <2> QED BY <1>1, <2>2, <2>3
<1>3. rank \in [S -> 1 .. n] BY <1>2
<1>4. ASSUME NEW x \in S, NEW y \in S, x < y PROVE rank[x] < rank[y]
  <2>1. UpTo(x) \in SUBSET UpTo(y) /\ y \in UpTo(y) /\ y \notin UpTo(x) BY <1>1, <1>4
  <2>2. IsFiniteSet(UpTo(y)) BY <1>2
  <2>3. /\ Cardinality(UpTo(x)) <= Cardinality(UpTo(y))
        /\ Cardinality(UpTo(x)) # Cardinality(UpTo(y))
    BY <2>1, <2>2, FS_Subset
  <2>4. rank[x] = Cardinality(UpTo(x)) /\ rank[y] = Cardinality(UpTo(y)) OBVIOUS
  <2>5. rank[x] \in Nat /\ rank[y] \in Nat BY <1>3
  <2> HIDE DEF rank, UpTo
  <2> QED BY <2>3, <2>4, <2>5
<1> HIDE DEF rank, n
<1>5. rank \in Injection(S, 1 .. n)
  BY <1>1, <1>3, <1>4 DEF Injection, IsInjective
<1>6. IsFiniteSet(1 .. n) /\ Cardinality(1 .. n) = Cardinality(S)
  BY <1>1, FS_Interval DEF n
<1>7. rank \in Surjection(S, 1 .. n) BY <1>5, <1>6, FS_Injection
<1> DEFINE rows == [k \in 1 .. n |-> CHOOSE x \in S : rank[x] = k]
<1>8. \A k \in 1 .. n : rows[k] \in S /\ rank[rows[k]] = k BY <1>7 DEF Surjection
<1>9. rows \in [1 .. n -> S] /\ DOMAIN rows = 1 .. n BY <1>8
<1> HIDE DEF rows
<1>10. \A j, k \in 1 .. n : j # k => rows[j] # rows[k] BY <1>8
<1>11. rows \in SetToSeqs(S) BY <1>9, <1>10 DEF SetToSeqs, n
<1>12. ASSUME NEW j \in 1 .. n, NEW k \in 1 .. n, j < k PROVE rows[j] < rows[k]
  <2>1. rows[j] \in Nat /\ rows[k] \in Nat /\ rows[j] # rows[k] BY <1>1, <1>8, <1>10, <1>12
  <2>2. ~(rows[k] < rows[j])
    <3> SUFFICES ASSUME rows[k] < rows[j] PROVE FALSE OBVIOUS
    <3>1. k < j BY <1>4, <1>8
    <3> QED BY <1>1, <1>12, <3>1
  <2> QED BY <2>1, <2>2
<1> QED BY <1>9, <1>11, <1>12 DEF Sorted

\* The page query returns what it selects, once, in order.
LEMMA Selected ==
    ASSUME NEW want, NEW last, NEW rows, rows = SelectPicks(want, last)
    PROVE  /\ rows \in Seq(Ids) /\ DOMAIN rows = 1 .. Len(rows) /\ Len(rows) \in Nat
           /\ Sorted(rows)
           /\ \A i : (\E k \in DOMAIN rows : rows[k] = i) <=>
                        /\ i \in Ids /\ picks[i].state = "live"
                        /\ AfterCursor(i, last) /\ Matches(picks[i].tags, want)
<1>1. PICK S \in SUBSET Ids :
            S = {i \in Ids : /\ picks[i].state = "live"
                             /\ AfterCursor(i, last)
                             /\ Matches(picks[i].tags, want)}
  OBVIOUS
<1>2. rows = CHOOSE s \in SetToSeqs(S) : Sorted(s) BY <1>1 DEF SelectPicks, Sorted
<1>3. rows \in SetToSeqs(S) /\ Sorted(rows) BY <1>2, SortedExists
<1>4. IsFiniteSet(S) /\ Cardinality(S) \in Nat
  BY FiniteIds
<1>5. PICK n \in Nat : n = Cardinality(S) BY <1>4
<1>6. rows \in [1 .. n -> S] /\ \A i, j \in 1 .. n : i # j => rows[i] # rows[j]
  BY <1>3, <1>5 DEF SetToSeqs
<1>7. rows \in Seq(Ids) /\ Len(rows) = n /\ DOMAIN rows = 1 .. n BY <1>5, <1>6
<1>8. rows \in Surjection(1 .. n, S)
  <2>1. Cardinality(1 .. n) = n BY <1>5, FS_Interval
  <2>2. rows \in Injection(1 .. n, S) BY <1>6 DEF Injection, IsInjective
  <2> QED BY <1>4, <1>5, <2>1, <2>2, FS_Injection
<1>9. \A i : i \in S <=> \E k \in DOMAIN rows : rows[k] = i BY <1>6, <1>7, <1>8 DEF Surjection
<1> QED BY <1>1, <1>3, <1>5, <1>7, <1>9

-----------------------------------------------------------------------------
(* Types. *)

LEMMA QueryTypes ==
    ASSUME TypeOK
    PROVE  query.with \in SUBSET Tags /\ query.without \in SUBSET Tags /\ query.size \in Int
BY QueriesAssumption DEF TypeOK

LEMMA ResolveType ==
    ASSUME NEW T \in SUBSET Tags, NEW found PROVE Resolve(T, found) \in SUBSET (Tags \cup {DeadId})
BY DEF Resolve

LEMMA LookupParts == \A found \in Lookups : found.own \cap found.dead = {}
BY DEF Lookups

LEMMA InitTypes == Init => TypeOK
BY BoundsAssumption DEF Init, TypeOK, NoIds, NoCursor, Cursors

\* The three answers to a page request, over the rows its query selects.
LEMMA PageAnswers ==
    ASSUME TypeOK, GetUserPicks
    PROVE  \E rows : \E n \in Int :
              /\ rows = SelectPicks(ids, cursor.last) /\ n = query.size
              /\ phase = "select" /\ ids' = NoIds /\ UNCHANGED <<data, query, blind>>
              /\ seen' = seen \cup ToSet(page')
              /\ \/ phase' = "finished" /\ page' = << >> /\ cursor' = NoCursor
                 \/ /\ n >= 1 /\ Len(rows) > n /\ phase' = "idle"
                    /\ cursor' = [kind |-> "id", last |-> rows[n]]
                    /\ page' = SubSeq(rows, 1, n)
                 \/ /\ phase' = "idle" /\ cursor' = EncodedNil /\ page' = rows
BY QueryTypes DEF GetUserPicks, CursorOfLast

LEMMA NextTypes == TypeOK /\ [Next]_vars => TypeOK'
<1> SUFFICES ASSUME TypeOK, [Next]_vars PROVE TypeOK' OBVIOUS
<1>1. CASE (Page \/ Write) /\ KeepSteady
  <2>1. steady' \subseteq Ids BY <1>1 DEF KeepSteady, TypeOK
  <2>2. CASE GetWithTags
    <3>1. PICK found \in Lookups :
            /\ \/ phase' = "finished" /\ page' = << >> /\ cursor' = NoCursor /\ ids' = ids
               \/ /\ phase' = "withoutTags"
                  /\ ids' = [ids EXCEPT !.with = Resolve(query.with, found)]
                  /\ UNCHANGED <<page, cursor>>
            /\ blind' \in SUBSET (blind \cup Unresolved(query.with, found))
            /\ seen' \in SUBSET seen /\ UNCHANGED <<data, query>>
      BY <2>2 DEF GetWithTags
    <3>2. Unresolved(query.with, found) \subseteq Tags BY QueryTypes DEF Unresolved
    <3>3. Resolve(query.with, found) \in SUBSET (Tags \cup {DeadId})
      BY QueryTypes, ResolveType
    <3>4. ids' \in Wanted BY <3>1, <3>3 DEF TypeOK, Wanted
    <3>5. /\ phase' \in {"finished", "withoutTags"} /\ page' \in Seq(Ids)
          /\ cursor' \in Cursors
      <4>1. CASE phase' = "finished" /\ page' = << >> /\ cursor' = NoCursor
        BY <4>1 DEF NoCursor, Cursors
      <4>2. CASE phase' = "withoutTags" /\ UNCHANGED <<page, cursor>> BY <4>2 DEF TypeOK
      <4> QED BY <3>1, <4>1, <4>2
    <3>6. blind' \subseteq Tags /\ seen' \subseteq Ids BY <3>1, <3>2 DEF TypeOK
    <3> QED BY <2>1, <3>1, <3>4, <3>5, <3>6 DEF TypeOK, data, Wanted
  <2>3. CASE GetWithoutTags
    <3>1. PICK found \in Lookups :
            /\ phase' = "select"
            /\ ids' = [ids EXCEPT !.without = Resolve(query.without, found)]
            /\ blind' = blind \cup Unresolved(query.without, found)
            /\ UNCHANGED <<data, query, page, cursor, seen>>
      BY <2>3 DEF GetWithoutTags
    <3>2. Unresolved(query.without, found) \subseteq Tags BY QueryTypes DEF Unresolved
    <3>3. Resolve(query.without, found) \in SUBSET (Tags \cup {DeadId})
      BY QueryTypes, ResolveType
    <3> QED BY <2>1, <3>1, <3>2, <3>3 DEF TypeOK, data
  <2>4. CASE GetUserPicks
    <3>1. PICK rows : \E n \in Int :
              /\ rows = SelectPicks(ids, cursor.last) /\ n = query.size
              /\ phase = "select" /\ ids' = NoIds /\ UNCHANGED <<data, query, blind>>
              /\ seen' = seen \cup ToSet(page')
              /\ \/ phase' = "finished" /\ page' = << >> /\ cursor' = NoCursor
                 \/ /\ n >= 1 /\ Len(rows) > n /\ phase' = "idle"
                    /\ cursor' = [kind |-> "id", last |-> rows[n]]
                    /\ page' = SubSeq(rows, 1, n)
                 \/ /\ phase' = "idle" /\ cursor' = EncodedNil /\ page' = rows
      BY <2>4, PageAnswers
    <3>2. PICK n \in Int :
              /\ ids' = NoIds /\ UNCHANGED <<data, query, blind>>
              /\ seen' = seen \cup ToSet(page')
              /\ \/ phase' = "finished" /\ page' = << >> /\ cursor' = NoCursor
                 \/ /\ n >= 1 /\ Len(rows) > n /\ phase' = "idle"
                    /\ cursor' = [kind |-> "id", last |-> rows[n]]
                    /\ page' = SubSeq(rows, 1, n)
                 \/ /\ phase' = "idle" /\ cursor' = EncodedNil /\ page' = rows
      BY <3>1
    <3>3. rows \in Seq(Ids) /\ DOMAIN rows = 1 .. Len(rows) /\ Len(rows) \in Nat
      BY <3>1, Selected
    <3>4. page' \in Seq(Ids) /\ cursor' \in Cursors
      <4>1. CASE n >= 1 /\ Len(rows) > n /\ cursor' = [kind |-> "id", last |-> rows[n]]
                 /\ page' = SubSeq(rows, 1, n)
        <5>1. rows[n] \in Ids /\ \A i \in 1 .. n : rows[i] \in Ids BY <3>3, <4>1
        <5>2. SubSeq(rows, 1, n) \in Seq(Ids) BY <5>1, SubSeqProperties
        <5> QED BY <4>1, <5>1, <5>2 DEF Cursors
      <4>2. CASE page' = << >> /\ cursor' = NoCursor BY <4>2 DEF Cursors, NoCursor
      <4>3. CASE page' = rows /\ cursor' = EncodedNil BY <3>3, <4>3 DEF Cursors, EncodedNil
      <4> QED BY <3>2, <4>1, <4>2, <4>3
    <3>5. ToSet(page') \subseteq Ids BY <3>4 DEF ToSet
    <3>6. phase' \in {"idle", "finished"} BY <3>2
    <3> HIDE <3>1
    <3> QED BY <2>1, <3>2, <3>4, <3>5, <3>6 DEF TypeOK, data, NoIds
  <2>5. CASE Write
    <3>1. /\ picks' \in [Ids -> [state : {"none", "pending", "live", "gone"},
                                 tags : SUBSET Tags]]
          /\ known' \subseteq Tags /\ dead' \subseteq Tags /\ edits' \in 0 .. MaxEdits
      BY <2>5, BoundsAssumption
         DEF Write, StartPick, CommitPick, AbortPick, Unpick, AddTag, RemoveTag,
             AbortTag, Evict, TypeOK
    <3>2. UNCHANGED <<client, seen, blind>>
      BY <2>5 DEF Write, StartPick, CommitPick, AbortPick, Unpick, AddTag, RemoveTag,
                  AbortTag, Evict
    <3> QED BY <2>1, <3>1, <3>2 DEF TypeOK, client
  <2> QED BY <1>1, <2>2, <2>3, <2>4, <2>5 DEF Page
<1>2. CASE UNCHANGED vars BY <1>2 DEF vars, data, client, TypeOK
<1> QED BY <1>1, <1>2 DEF Next, Finished

\* The variables of the walk and of the writers keep their types.
THEOREM TypeCorrect == Spec => []TypeOK
BY InitTypes, NextTypes, PTL DEF Spec

-----------------------------------------------------------------------------
(* The walk. *)

\* A page has been asked for since the walk began, and there is more to come.
Walking == phase \in {"withoutTags", "select"} \/ (phase = "idle" /\ cursor.last # 0)

\* What the lookups have made of the query.  A dead id among the tags a pick must
\* have matches no pick; a tag that must not be there is left out only when it was
\* not found.
Asked ==
    /\ phase \in {"withoutTags", "select"} =>
          /\ ids.with = query.with \/ DeadId \in ids.with
          /\ query.with \cap blind = {} => ids.with = query.with
    /\ phase = "select" =>
          /\ query.without \ ids.without \subseteq blind
          /\ ids.without \subseteq query.without \cup {DeadId}

\* What has been returned is not after the cursor.
SeenBehind == Walking => \A i \in seen : i <= cursor.last

SteadyMatches == \A i \in steady : picks[i].state = "live" /\ Matches(picks[i].tags, query)

\* Up to the cursor, what has been there all the time has been returned.
SteadySeen ==
    query.with \cap blind = {} =>
        /\ Walking => \A i \in steady : i <= cursor.last => i \in seen
        /\ LastPage => steady \subseteq seen

PageInv == TypeOK /\ Asked /\ SeenBehind /\ SteadyMatches /\ SteadySeen

LEMMA InitPages == Init => PageInv
BY InitTypes DEF Init, PageInv, Asked, SeenBehind, SteadyMatches, SteadySeen, Walking,
                 LastPage, NoCursor

LEMMA LookupWith ==
    ASSUME PageInv, TypeOK', GetWithTags, KeepSteady PROVE PageInv'
<1>1. PICK found \in Lookups :
        /\ \/ phase' = "finished"
           \/ /\ phase' = "withoutTags" /\ Missing(query.with, found) = {}
              /\ ids' = [ids EXCEPT !.with = Resolve(query.with, found)] /\ cursor' = cursor
        /\ blind' = (IF cursor.last = 0 THEN {} ELSE blind) \cup Unresolved(query.with, found)
  BY DEF GetWithTags
<1>2. /\ phase = "idle" /\ phase' # "idle" /\ UNCHANGED <<data, query>>
      /\ seen' = IF cursor.last = 0 THEN {} ELSE seen
  BY <1>1 DEF GetWithTags
<1>3. cursor.last \in Nat /\ \A i \in Ids : i \in Nat \ {0}
  BY BoundsAssumption DEF PageInv, TypeOK, Cursors, Ids
<1>4. SteadyMatches' BY <1>2 DEF KeepSteady, SteadyMatches, PageInv
<1>5. CASE phase' = "finished"
  BY <1>4, <1>5 DEF PageInv, Asked, SeenBehind, SteadySeen, Walking, LastPage
<1>6. CASE /\ phase' = "withoutTags" /\ Missing(query.with, found) = {}
           /\ ids' = [ids EXCEPT !.with = Resolve(query.with, found)] /\ cursor' = cursor
  <2>1. ids'.with = Resolve(query.with, found) BY <1>6 DEF PageInv, TypeOK
  <2>2. query.with \subseteq found.own \cup found.dead BY <1>6 DEF Missing
  <2>3. Resolve(query.with, found) = query.with \/ DeadId \in Resolve(query.with, found)
    <3>1. CASE query.with \cap found.dead = {} BY <2>2, <3>1 DEF Resolve
    <3>2. CASE query.with \cap found.dead # {} BY <2>2, <3>2 DEF Resolve
    <3> QED BY <3>1, <3>2
  <2>4. query.with \cap blind' = {} => Resolve(query.with, found) = query.with
    <3> SUFFICES ASSUME query.with \cap blind' = {}
                 PROVE  Resolve(query.with, found) = query.with
      OBVIOUS
    <3>1. query.with \cap found.dead = {} BY <1>1, LookupParts DEF Unresolved
    <3> QED BY <2>2, <3>1 DEF Resolve
  <2>5. Asked' BY <1>2, <1>6, <2>1, <2>3, <2>4 DEF Asked
  <2>6. SeenBehind' BY <1>2, <1>6 DEF SeenBehind, Walking, PageInv
  <2>7. SteadySeen'
    <3> SUFFICES ASSUME query.with \cap blind' = {}, NEW i \in steady', i <= cursor.last
                 PROVE  i \in seen'
      BY <1>2, <1>6 DEF SteadySeen, LastPage
    <3>1. i \in Ids BY DEF TypeOK
    <3>2. cursor.last # 0 BY <1>3, <3>1
    <3>3. i \in steady /\ query.with \cap blind = {} /\ Walking
      BY <1>1, <1>2, <3>2 DEF KeepSteady, FirstPage, Walking
    <3> QED BY <1>2, <3>2, <3>3 DEF PageInv, SteadySeen
  <2> QED BY <1>4, <2>5, <2>6, <2>7 DEF PageInv
<1> QED BY <1>1, <1>5, <1>6

LEMMA LookupWithout ==
    ASSUME PageInv, TypeOK', GetWithoutTags, KeepSteady PROVE PageInv'
<1>1. PICK found \in Lookups :
        /\ ids' = [ids EXCEPT !.without = Resolve(query.without, found)]
        /\ blind' = blind \cup Unresolved(query.without, found)
  BY DEF GetWithoutTags
<1>2. /\ phase = "withoutTags" /\ phase' = "select"
      /\ UNCHANGED <<data, query, page, cursor, seen>>
  BY DEF GetWithoutTags
<1>3. ids'.with = ids.with /\ ids'.without = Resolve(query.without, found)
  BY <1>1 DEF PageInv, TypeOK
<1>4. Asked'
  <2>1. query.without \ Resolve(query.without, found)
           \subseteq Unresolved(query.without, found)
    BY <1>1, LookupParts DEF Resolve, Unresolved
  <2>2. Resolve(query.without, found) \subseteq query.without \cup {DeadId} BY DEF Resolve
  <2> QED BY <1>1, <1>2, <1>3, <2>1, <2>2 DEF Asked, PageInv
<1>5. SeenBehind' BY <1>2 DEF SeenBehind, Walking, PageInv
<1>6. steady' \subseteq steady /\ SteadyMatches'
  BY <1>2 DEF KeepSteady, FirstPage, SteadyMatches
<1>7. SteadySeen' BY <1>1, <1>2, <1>6 DEF SteadySeen, Walking, LastPage, PageInv
<1> QED BY <1>4, <1>5, <1>6, <1>7 DEF PageInv

LEMMA SelectsPage ==
    ASSUME PageInv, TypeOK', GetUserPicks, KeepSteady PROVE PageInv'
<1>1. PICK rows : \E n \in Int :
          /\ rows = SelectPicks(ids, cursor.last) /\ n = query.size
          /\ phase = "select" /\ ids' = NoIds /\ UNCHANGED <<data, query, blind>>
          /\ seen' = seen \cup ToSet(page')
          /\ \/ phase' = "finished" /\ page' = << >> /\ cursor' = NoCursor
             \/ /\ n >= 1 /\ Len(rows) > n /\ phase' = "idle"
                /\ cursor' = [kind |-> "id", last |-> rows[n]]
                /\ page' = SubSeq(rows, 1, n)
             \/ /\ phase' = "idle" /\ cursor' = EncodedNil /\ page' = rows
  BY PageAnswers DEF PageInv
<1>2. PICK n \in Int :
          /\ phase = "select" /\ UNCHANGED <<data, query, blind>>
          /\ seen' = seen \cup ToSet(page')
          /\ \/ phase' = "finished" /\ page' = << >> /\ cursor' = NoCursor
             \/ /\ n >= 1 /\ Len(rows) > n /\ phase' = "idle"
                /\ cursor' = [kind |-> "id", last |-> rows[n]]
                /\ page' = SubSeq(rows, 1, n)
             \/ /\ phase' = "idle" /\ cursor' = EncodedNil /\ page' = rows
  BY <1>1
<1>3. /\ rows \in Seq(Ids) /\ DOMAIN rows = 1 .. Len(rows) /\ Len(rows) \in Nat
      /\ Sorted(rows)
      /\ \A i : (\E k \in DOMAIN rows : rows[k] = i) <=>
                   /\ i \in Ids /\ picks[i].state = "live"
                   /\ AfterCursor(i, cursor.last) /\ Matches(picks[i].tags, ids)
  BY <1>1, Selected
<1>4. cursor.last \in Nat /\ \A i \in Ids : i \in Nat \ {0}
  BY BoundsAssumption DEF PageInv, TypeOK, Cursors, Ids
<1> HIDE <1>1
<1>5. phase' # "select" /\ phase' # "withoutTags" BY <1>2
<1>6. Asked' BY <1>5 DEF Asked
<1>7. steady' \subseteq steady /\ SteadyMatches'
  BY <1>2 DEF KeepSteady, FirstPage, SteadyMatches
\* What is steady and after the cursor is among the rows.
<1>8. ASSUME query.with \cap blind = {}, NEW i \in steady', i \notin seen
      PROVE  \E k \in DOMAIN rows : rows[k] = i
  <2>1. /\ i \in steady /\ i \in Ids /\ picks[i].state = "live"
        /\ Matches(picks[i].tags, query) /\ picks[i].tags \subseteq Tags
    BY <1>7, <1>8 DEF PageInv, SteadyMatches, TypeOK
  <2>2. AfterCursor(i, cursor.last)
    BY <1>2, <1>4, <1>8, <2>1 DEF PageInv, SteadySeen, Walking, AfterCursor
  <2>3. ids.with = query.with /\ ids.without \subseteq query.without \cup {DeadId}
    BY <1>2, <1>8 DEF PageInv, Asked
  <2>4. Matches(picks[i].tags, ids) BY <2>1, <2>3, DeadIdAssumption DEF Matches
  <2> QED BY <1>3, <2>1, <2>2, <2>4
<1>9. CASE phase' = "finished"
  BY <1>6, <1>7, <1>9 DEF PageInv, SeenBehind, SteadySeen, Walking, LastPage
<1>10. CASE phase' = "idle" /\ cursor' = EncodedNil /\ page' = rows
  <2>1. ~Walking' BY <1>10 DEF Walking, EncodedNil
  <2>2. query.with \cap blind = {} => steady' \subseteq seen'
    BY <1>2, <1>8, <1>10 DEF ToSet
  <2> QED BY <1>2, <1>6, <1>7, <2>1, <2>2 DEF PageInv, SeenBehind, SteadySeen
<1>11. CASE /\ n >= 1 /\ Len(rows) > n /\ phase' = "idle"
            /\ cursor' = [kind |-> "id", last |-> rows[n]]
            /\ page' = SubSeq(rows, 1, n)
  <2>1. /\ n \in DOMAIN rows /\ cursor'.last = rows[n] /\ ~LastPage'
        /\ \A k \in DOMAIN rows : rows[k] \in Ids
    BY <1>3, <1>11 DEF LastPage
  <2>2. /\ page' \in Seq(Ids) /\ DOMAIN page' = 1 .. n
        /\ \A k \in 1 .. n : page'[k] = rows[k]
    <3>1. \A k \in 1 .. n : rows[k] \in Ids BY <1>3, <1>11, <2>1
    <3>2. /\ SubSeq(rows, 1, n) \in Seq(Ids) /\ Len(SubSeq(rows, 1, n)) = n
          /\ \A k \in 1 .. n : SubSeq(rows, 1, n)[k] = rows[1 + k - 1]
      BY <1>11, <3>1, SubSeqProperties
    <3> QED BY <1>11, <3>2
  <2>3. ASSUME NEW k \in 1 .. n PROVE rows[k] <= rows[n]
    <3>1. k \in DOMAIN rows /\ rows[k] \in Nat /\ rows[n] \in Nat
      BY <1>3, <1>4, <1>11, <2>1
    <3>2. CASE k = n BY <3>1, <3>2
    <3>3. CASE k < n BY <1>3, <2>1, <3>1, <3>3 DEF Sorted
    <3> QED BY <3>2, <3>3
  <2>4. SeenBehind'
    <3> SUFFICES ASSUME NEW i \in seen' PROVE i <= rows[n] BY <2>1 DEF SeenBehind
    <3>1. CASE i \in seen
      <4>1. i \in Nat /\ i <= cursor.last
        BY <1>2, <1>4, <3>1 DEF PageInv, SeenBehind, Walking, TypeOK
      <4>2. rows[n] \in Nat /\ rows[n] > cursor.last
        BY <1>3, <1>4, <2>1 DEF AfterCursor
      <4> QED BY <1>4, <4>1, <4>2
    <3>2. CASE i \in ToSet(page') BY <2>2, <2>3, <3>2 DEF ToSet
    <3> QED BY <1>2, <3>1, <3>2
  <2>5. SteadySeen'
    <3> SUFFICES ASSUME query.with \cap blind = {}, NEW i \in steady', i <= rows[n]
                 PROVE  i \in seen'
      BY <1>2, <2>1 DEF SteadySeen
    <3>1. CASE i \in seen BY <1>2, <3>1
    <3>2. CASE i \notin seen
      <4>1. PICK k \in DOMAIN rows : rows[k] = i BY <1>8, <3>2
      <4>2. k <= n BY <1>3, <1>4, <2>1, <4>1 DEF Sorted
      <4>3. k \in DOMAIN page' /\ page'[k] = i BY <1>3, <2>2, <4>1, <4>2
      <4> QED BY <1>2, <4>3 DEF ToSet
    <3> QED BY <3>1, <3>2
  <2> QED BY <1>6, <1>7, <2>4, <2>5 DEF PageInv
<1> QED BY <1>2, <1>9, <1>10, <1>11

LEMMA Writes ==
    ASSUME PageInv, TypeOK', Write, KeepSteady PROVE PageInv'
<1>1. UNCHANGED <<client, seen, blind>>
  BY DEF Write, StartPick, CommitPick, AbortPick, Unpick, AddTag, RemoveTag, AbortTag,
         Evict
<1>2. Asked' /\ SeenBehind' BY <1>1 DEF client, PageInv, Asked, SeenBehind, Walking
<1>3. steady' \subseteq steady /\ SteadyMatches'
  BY <1>1 DEF client, KeepSteady, FirstPage, SteadyMatches
<1>4. SteadySeen' BY <1>1, <1>3 DEF client, PageInv, SteadySeen, Walking, LastPage
<1> QED BY <1>2, <1>3, <1>4 DEF PageInv

LEMMA NextPages == PageInv /\ [Next]_vars => PageInv'
<1> SUFFICES ASSUME PageInv, [Next]_vars PROVE PageInv' OBVIOUS
<1>1. TypeOK' BY NextTypes DEF PageInv
<1>2. CASE (Page \/ Write) /\ KeepSteady
  BY <1>1, <1>2, LookupWith, LookupWithout, SelectsPage, Writes DEF Page
<1>3. CASE UNCHANGED vars
  BY <1>3 DEF vars, data, client, PageInv, TypeOK, Asked, SeenBehind, SteadyMatches,
              SteadySeen, Walking, LastPage
<1> QED BY <1>2, <1>3 DEF Next, Finished

LEMMA PageInvariant == Spec => []PageInv
BY InitPages, NextPages, PTL DEF Spec

\* Whatever is picked, unpicked and tagged between the pages, a client that comes to
\* the last page has got every pick that was there and matched all the time, unless
\* a lookup trusted a dead id for a tag it asked for.
THEOREM NothingMissedAlways == Spec => []NothingMissed
<1>1. PageInv => NothingMissed BY DEF PageInv, SteadySeen, NothingMissed
<1> QED BY <1>1, PageInvariant, PTL

-----------------------------------------------------------------------------
(* What a page holds. *)

\* A page is a beginning of the rows its query selects.
LEMMA PageOfRows ==
    ASSUME PageInv, [Next]_vars, Answers, NEW k \in 1 .. Len(page')
    PROVE  /\ page'[k] \in Ids /\ AfterCursor(page'[k], cursor.last)
           /\ Matches(picks[page'[k]].tags, ids)
           /\ \A j \in 1 .. k - 1 : page'[j] < page'[k]
<1>1. GetUserPicks
  <2>1. ~UNCHANGED vars BY DEF Answers, vars, client
  <2>2. ~Write
    BY DEF Answers, client, Write, StartPick, CommitPick, AbortPick, Unpick, AddTag,
           RemoveTag, AbortTag, Evict
  <2>3. ~GetWithTags /\ ~GetWithoutTags BY DEF Answers, GetWithTags, GetWithoutTags
  <2> QED BY <2>1, <2>2, <2>3 DEF Next, Finished, Page
<1>2. PICK rows : \E n \in Int :
          /\ rows = SelectPicks(ids, cursor.last) /\ n = query.size
          /\ phase = "select" /\ ids' = NoIds /\ UNCHANGED <<data, query, blind>>
          /\ seen' = seen \cup ToSet(page')
          /\ \/ phase' = "finished" /\ page' = << >> /\ cursor' = NoCursor
             \/ /\ n >= 1 /\ Len(rows) > n /\ phase' = "idle"
                /\ cursor' = [kind |-> "id", last |-> rows[n]]
                /\ page' = SubSeq(rows, 1, n)
             \/ /\ phase' = "idle" /\ cursor' = EncodedNil /\ page' = rows
  BY <1>1, PageAnswers DEF PageInv
<1>3. /\ rows \in Seq(Ids) /\ DOMAIN rows = 1 .. Len(rows) /\ Len(rows) \in Nat
      /\ Sorted(rows)
      /\ \A i : (\E j \in DOMAIN rows : rows[j] = i) <=>
                   /\ i \in Ids /\ picks[i].state = "live"
                   /\ AfterCursor(i, cursor.last) /\ Matches(picks[i].tags, ids)
  BY <1>2, Selected
<1>4. /\ k \in DOMAIN rows
      /\ \A j \in 1 .. k : page'[j] = rows[j]
  <2>1. PICK n \in Int :
            \/ page' = << >>
            \/ /\ n >= 1 /\ Len(rows) > n
               /\ page' = SubSeq(rows, 1, n)
            \/ page' = rows
    BY <1>2
  <2>2. CASE page' = << >> BY <2>2
  <2>3. CASE n >= 1 /\ Len(rows) > n /\ page' = SubSeq(rows, 1, n)
    <3>1. \A i \in 1 .. n : rows[i] \in Ids BY <1>3, <2>3
    <3>2. /\ Len(SubSeq(rows, 1, n)) = n
          /\ \A i \in 1 .. n : SubSeq(rows, 1, n)[i] = rows[1 + i - 1]
      BY <2>3, <3>1, SubSeqProperties
    <3>3. k \in 1 .. n /\ \A i \in 1 .. n : page'[i] = rows[i] BY <2>3, <3>2
    <3> QED BY <1>3, <2>3, <3>3
  <2>4. CASE page' = rows BY <1>3, <2>4
  <2> QED BY <2>1, <2>2, <2>3, <2>4
<1> HIDE <1>2
<1>5. /\ page'[k] \in Ids /\ AfterCursor(page'[k], cursor.last)
      /\ Matches(picks[page'[k]].tags, ids)
  BY <1>3, <1>4
<1>6. ASSUME NEW j \in 1 .. k - 1 PROVE page'[j] < page'[k]
  <2>1. j \in DOMAIN rows /\ j < k /\ page'[j] = rows[j] /\ page'[k] = rows[k]
    BY <1>3, <1>4
  <2> QED BY <1>3, <1>4, <2>1 DEF Sorted
<1> QED BY <1>5, <1>6

\* No walk returns a pick twice, and it returns them in the order of their ids: the
\* rows of a page are in order and after the cursor, and nothing returned before is.
THEOREM InOrderAlways == Spec => InOrder
<1> DEFINE Ordered == \A k \in 1 .. Len(page') :
                         /\ \A i \in seen : i < page'[k]
                         /\ \A j \in 1 .. k - 1 : page'[j] < page'[k]
<1>1. ASSUME PageInv, [Next]_vars, Answers PROVE Ordered
  <2> SUFFICES ASSUME NEW k \in 1 .. Len(page'), NEW i \in seen PROVE i < page'[k]
    BY <1>1, PageOfRows
  <2>1. page'[k] \in Ids /\ page'[k] > cursor.last
    BY <1>1, PageOfRows DEF AfterCursor
  <2>2. i <= cursor.last BY <1>1 DEF Answers, PageInv, SeenBehind, Walking
  <2>3. i \in Int /\ page'[k] \in Int /\ cursor.last \in Int
    BY <1>1, <2>1 DEF PageInv, TypeOK, Cursors, Ids
  <2> QED BY <2>1, <2>2, <2>3
<1>2. PageInv /\ [Next]_vars => [Answers => Ordered]_vars BY <1>1
<1> QED BY <1>2, PageInvariant, PTL DEF Spec, InOrder

\* A page carries all the tags that were asked for, since a dead id for one of them
\* selects nothing, and an excluded tag only if no lookup found it.
THEOREM FilterHoldsAlways == Spec => FilterHolds
<1> DEFINE Filtered == \A k \in 1 .. Len(page') :
                          /\ query.with \subseteq picks[page'[k]].tags
                          /\ picks[page'[k]].tags \cap query.without \subseteq blind
<1>1. ASSUME PageInv, [Next]_vars, Answers PROVE Filtered
  <2> SUFFICES ASSUME NEW k \in 1 .. Len(page')
               PROVE  /\ query.with \subseteq picks[page'[k]].tags
                      /\ picks[page'[k]].tags \cap query.without \subseteq blind
    OBVIOUS
  <2>1. PICK i \in Ids : i = page'[k] BY <1>1, PageOfRows
  <2>2. ids.with \subseteq picks[i].tags /\ picks[i].tags \cap ids.without = {}
    BY <1>1, <2>1, PageOfRows DEF Matches
  <2>3. picks[i].tags \subseteq Tags BY <1>1 DEF PageInv, TypeOK
  <2>4. /\ ids.with = query.with \/ DeadId \in ids.with
        /\ query.without \ ids.without \subseteq blind
    BY <1>1 DEF Answers, PageInv, Asked
  <2>5. DeadId \notin ids.with BY <2>2, <2>3, DeadIdAssumption
  <2> QED BY <2>1, <2>2, <2>4, <2>5
<1>2. PageInv /\ [Next]_vars => [Answers => Filtered]_vars BY <1>1
<1> QED BY <1>2, PageInvariant, PTL DEF Spec, FilterHolds

=============================================================================
