--------------------------- MODULE WordsBookProofs ---------------------------
(***************************************************************************)
(* Proof that the requests of the words service implement PickBook, for any *)
(* number of requests, replicas, tags and words.  Invariants beside those   *)
(* of WordsRefProofs: which requests write and which delete (OpInv), how    *)
(* tags are resolved (TagInv), whose the uncommitted picks are (PickInv),   *)
(* which rows of tags_map a request has written (MapInv), and that ids      *)
(* looked up are those of the rows until a rollback (HaveRight).            *)
(***************************************************************************)
EXTENDS WordsRefProofs

Base == CacheInv /\ IdsInv

\* The statements from the first row of tags_map to the commit.
Writing == {"addTags", "checkRefs", "commit"}

-----------------------------------------------------------------------------
(* What steps do. *)

\* The requests X end without a commit.
Ends(X) ==
    /\ Rollback(X)
    /\ \A r \in X : tx[r] # "committed" /\ pc'[r] = "done" /\ have'[r] = NoIds
    /\ \A s \in Txs \ X : /\ pc'[s] = pc[s] /\ have'[s] = have[s]
                          /\ todo'[s] = todo[s] /\ pick'[s] = pick[s]
    /\ nextPick' \in {nextPick, nextPick + 1}
    /\ UNCHANGED <<defs, nextTag, input>>

\* The statements that may fail, when they do not.
Picked(r) ==
    LET u == input[r].user
        d == input[r].def
    IN  /\ pc[r] = "createPick"
        /\ SamePick(u, d) = {} /\ d \in defs
        /\ picks' = picks \cup {PickRow(r, u, d)}
        /\ nextPick' = nextPick + 1
        /\ pick' = [pick EXCEPT ![r] = nextPick]
        /\ Insert(r, Resolved(have[r]), "addTags", "checkRefs")
        /\ UNCHANGED <<tx, defs, tags, nextTag, tagsMap, input, have>>

Added(r) ==
    LET i == have[r][Head(todo[r])]
    IN  /\ pc[r] = "addTags"
        /\ SameMap(pick[r], i) = {}
        /\ tagsMap' = tagsMap \cup {[pick |-> pick[r], tag |-> i, by |-> r]}
        /\ todo' = [todo EXCEPT ![r] = Tail(todo[r])]
        /\ Goto(r, IF Len(todo[r]) = 1 THEN "checkRefs" ELSE "addTags")
        /\ UNCHANGED <<tx, defs, tags, nextTag, picks, nextPick, input, have, pick>>

Checked(r) ==
    /\ pc[r] = "checkRefs"
    /\ RefsHold(r)
    /\ tx' = [tx EXCEPT ![r] = "checked"]
    /\ Goto(r, "commit")
    /\ UNCHANGED <<defs, tags, nextTag, picks, nextPick, tagsMap, input, have, todo, pick>>

Deletes(r) == RemoveTags(r) \/ UnpickWord(r) \/ DeleteWord(r)

Moves(r) ==
    \/ Begin(r) \/ GetTags(r) \/ CreateTag(r) \/ ReadTags(r)
    \/ Picked(r) \/ Added(r) \/ Checked(r) \/ Commit(r) \/ Deletes(r)

Rests == UNCHANGED <<storeVars, input, pc, have, todo, pick>>

LEMMA FailEnds ==
    ASSUME Base, NEW r \in Txs, pc[r] # "done", NEW status, Fail(r, status)
    PROVE  Ends({r})
<1>1. tx[r] # "committed" BY ActiveTx DEF Base, CacheInv
<1> QED BY <1>1 DEF Fail, Respond, Ends, Base, IdsInv, TypeInv, TypeOK

LEMMA RestartEnds ==
    ASSUME Base, NEW p \in Procs, Restart(p) PROVE \E X \in SUBSET Txs : Ends(X)
<1> DEFINE lost == {r \in Txs : Host[r] = p /\ Active(r)}
<1>1. \A r \in lost : tx[r] # "committed" BY ActiveTx DEF Active, Base, CacheInv
<1>2. /\ Rollback(lost)
      /\ pc' = [r \in Txs |-> IF r \in lost THEN "done" ELSE pc[r]]
      /\ have' = [r \in Txs |-> IF r \in lost THEN NoIds ELSE have[r]]
      /\ todo' = [r \in Txs |-> IF r \in lost THEN << >> ELSE todo[r]]
      /\ pick' = [r \in Txs |-> IF r \in lost THEN 0 ELSE pick[r]]
      /\ UNCHANGED <<defs, nextTag, nextPick, input>>
  BY DEF Restart
<1>3. lost \in SUBSET Txs OBVIOUS
<1> HIDE DEF lost
<1>4. Ends(lost) BY <1>1, <1>2, <1>3 DEF Ends
<1> QED BY <1>3, <1>4

LEMMA CreatePickKinds ==
    ASSUME Base, NEW r \in Txs, CreatePick(r) PROVE Ends({r}) \/ Picked(r)
<1> DEFINE u == input[r].user
           d == input[r].def
<1>1. CASE SamePick(u, d) # {} \/ d \notin defs
  <2>1. /\ Rollback({r}) /\ nextPick' = nextPick + 1 /\ UNCHANGED <<defs, nextTag, input>>
        /\ pc[r] = "createPick" /\ \E status : Respond(r, status)
    BY <1>1 DEF CreatePick
  <2>2. tx[r] # "committed" BY <2>1, ActiveTx DEF Base, CacheInv
  <2>3. Ends({r}) BY <2>1, <2>2 DEF Respond, Ends, Base, IdsInv, TypeInv, TypeOK
  <2> QED BY <2>3
<1>2. CASE ~(SamePick(u, d) # {} \/ d \notin defs) BY <1>2 DEF CreatePick, Picked
<1> QED BY <1>1, <1>2

\* A step moves one request on, ends some without a commit, or changes nothing here.
LEMMA NextKinds ==
    ASSUME Base, [Next]_vars
    PROVE  \/ \E r \in Txs : Moves(r)
           \/ \E X \in SUBSET Txs : Ends(X)
           \/ Rests
<1>1. ASSUME NEW r \in Txs, Step(r) PROVE Moves(r) \/ \E X \in SUBSET Txs : Ends(X)
  <2>1. CASE AddTag(r)
    <3>1. pc[r] # "done" BY <2>1 DEF AddTag
    <3>2. CASE Fail(r, "500") BY <3>1, <3>2, FailEnds
    <3>3. CASE ~Fail(r, "500") BY <2>1, <3>3 DEF AddTag, Added, Moves
    <3> QED BY <3>2, <3>3
  <2>2. CASE CheckRefs(r)
    <3>1. pc[r] # "done" BY <2>2 DEF CheckRefs
    <3>2. CASE \E status : Fail(r, status) BY <3>1, <3>2, FailEnds
    <3>3. CASE ~\E status : Fail(r, status) BY <2>2, <3>3 DEF CheckRefs, Checked, Moves
    <3> QED BY <3>2, <3>3
  <2>3. CASE CreatePick(r) BY <2>3, CreatePickKinds DEF Moves
  <2> QED BY <1>1, <2>1, <2>2, <2>3 DEF Step, Moves, Deletes
<1>2. ASSUME NEW r \in Txs, Cancel(r) \/ DeadlockAbort(r)
      PROVE  \E X \in SUBSET Txs : Ends(X)
  <2>1. pc[r] # "done" /\ Fail(r, "500")
    BY <1>2 DEF Cancel, DeadlockAbort, Deadlocked, WaitsFor
  <2> QED BY <2>1, FailEnds
<1>3. CASE \E p \in Procs : Restart(p) BY <1>3, RestartEnds
<1>4. CASE \E p \in Procs, t \in Tags : Evict(p, t) BY <1>4 DEF Evict, Rests
<1>5. CASE UNCHANGED vars BY <1>5 DEF vars, serviceVars, Rests
<1> QED BY <1>1, <1>2, <1>3, <1>4, <1>5 DEF Next, Finished

LEMMA BaseStep == Base /\ [Next]_vars => Base'
BY NextCaches, NextIds DEF Base

-----------------------------------------------------------------------------
(* Rows still to insert. *)

LEMMA OrderCovers ==
    ASSUME NEW T \in SUBSET Tags, NEW order \in SetToSeqs(T), NEW t \in T
    PROVE  \E k \in DOMAIN order : order[k] = t
<1> DEFINE n == Cardinality(T)
<1>1. IsFiniteSet(T) BY TagsAssumption, FS_Subset
<1>2. n \in Nat BY <1>1, FS_CardinalityType
<1>3. Cardinality(1 .. n) = n BY <1>2, FS_Interval
<1>4. order \in [1 .. n -> T] /\ \A i, j \in 1 .. n : i # j => order[i] # order[j]
  BY DEF SetToSeqs
<1> HIDE DEF n
<1>5. order \in Injection(1 .. n, T) BY <1>4 DEF Injection, IsInjective
<1>6. order \in Surjection(1 .. n, T) BY <1>1, <1>3, <1>5, FS_Injection DEF n
<1> QED BY <1>4, <1>6 DEF Surjection

LEMMA InsertCovers ==
    ASSUME TypeInv, NEW r \in Txs, NEW T \in SUBSET Tags, NEW label, NEW next,
           Insert(r, T, label, next)
    PROVE  /\ pc'[r] = IF T = {} THEN next ELSE label
           /\ \A t \in T : \E k \in DOMAIN todo'[r] : todo'[r][k] = t
           /\ \A s \in Txs \ {r} : pc'[s] = pc[s] /\ todo'[s] = todo[s]
<1>1. PICK order \in SetToSeqs(T) :
            /\ todo' = [todo EXCEPT ![r] = order]
            /\ pc' = [pc EXCEPT ![r] = IF T = {} THEN next ELSE label]
  BY DEF Insert, Goto
<1>2. todo'[r] = order BY <1>1 DEF TypeInv, TypeOK
<1>3. \A t \in T : \E k \in DOMAIN todo'[r] : todo'[r][k] = t BY <1>2, OrderCovers
<1> QED BY <1>1, <1>3 DEF TypeInv, TypeOK

LEMMA TailCovers ==
    ASSUME NEW s \in Seq(Tags), s # << >>, NEW k \in DOMAIN s, s[k] # Head(s)
    PROVE  Len(s) # 1 /\ \E i \in DOMAIN Tail(s) : Tail(s)[i] = s[k]
<1>1. /\ Head(s) = s[1] /\ Tail(s) \in Seq(Tags) /\ Len(Tail(s)) = Len(s) - 1
      /\ \A i \in 1 .. Len(Tail(s)) : Tail(s)[i] = s[i + 1]
  BY HeadTailProperties, HeadTail
<1>2. DOMAIN s = 1 .. Len(s) /\ Len(s) \in Nat BY LenProperties
<1>3. DOMAIN Tail(s) = 1 .. Len(s) - 1 BY <1>1, LenProperties
<1>4. k # 1 /\ k \in 1 .. Len(s) BY <1>1, <1>2
<1>5. k - 1 \in 1 .. Len(s) - 1 /\ Len(s) # 1 BY <1>2, <1>4
<1>6. Tail(s)[k - 1] = s[k] BY <1>1, <1>2, <1>5
<1> QED BY <1>3, <1>5, <1>6

-----------------------------------------------------------------------------
(* Tags: each tag of a request is resolved before it is used. *)

TagIds == \A t \in Tags : tags[t] # NoRow => tags[t].id # 0

Shown(r, t) == tags[t] # NoRow /\ Sees(r, tags[t].by)

\* What is missing is visible, or a row for it is still to insert.
CreatedFor(r) ==
    pc[r] \in {"createTags", "readTags"} =>
        \A t \in Missing(r, have[r]) :
            \/ Shown(r, t)
            \/ pc[r] = "createTags" /\ \E k \in DOMAIN todo[r] : todo[r][k] = t

ResolvedFor(r) == pc[r] \in {"createPick"} \cup Writing => Missing(r, have[r]) = {}

TagsFor(r) == CreatedFor(r) /\ ResolvedFor(r)

TagInv == TagIds /\ \A r \in Txs : TagsFor(r)

LEMMA ShownKept ==
    ASSUME \A t \in Tags : tags'[t] = tags[t] \/ tags[t] = NoRow,
           \A c \in Txs : tx[c] = "committed" => tx'[c] = "committed"
    PROVE  \A s \in Txs, t \in Tags : Shown(s, t) => Shown(s, t)'
<1> SUFFICES ASSUME NEW s \in Txs, NEW t \in Tags, Shown(s, t) PROVE Shown(s, t)'
  OBVIOUS
<1>1. tags'[t] = tags[t] /\ tags[t] # NoRow BY DEF Shown
<1>2. tags'[t].by = s \/ (tags'[t].by \in Txs /\ tx'[tags'[t].by] = "committed")
  BY <1>1 DEF Shown, Sees, IsCommitted
<1> QED BY <1>1, <1>2 DEF Shown, Sees, IsCommitted

LEMMA ShownAfterEnd ==
    ASSUME NEW X \in SUBSET Txs, Ends(X)
    PROVE  \A s \in Txs \ X, t \in Tags : Shown(s, t) => Shown(s, t)'
<1> SUFFICES ASSUME NEW s \in Txs \ X, NEW t \in Tags, Shown(s, t) PROVE Shown(s, t)'
  OBVIOUS
<1>1. tags[t].by = s \/ (tags[t].by \in Txs /\ tx[tags[t].by] = "committed")
  BY DEF Shown, Sees, IsCommitted
<1>2. tags'[t] = tags[t] BY <1>1 DEF Ends, Rollback
<1>3. tags'[t].by = s \/ (tags'[t].by \in Txs /\ tx'[tags'[t].by] = "committed")
  BY <1>1, <1>2 DEF Ends, Rollback, Running
<1> QED BY <1>2, <1>3 DEF Shown, Sees, IsCommitted

LEMMA MissingTags ==
    ASSUME Base, NEW r \in Txs, pc[r] \notin {"begin", "done"}
    PROVE  input[r].tags \in SUBSET Tags
<1>1. TypeInv BY DEF Base, IdsInv
<1>2. input[r] \in Inputs /\ input[r].op \in TagOps
  BY <1>1 DEF TypeInv, TypeOK, PcOK
<1> QED BY <1>2, RequestTypes

\* A request that stands still while what it sees stays, or that is done.
LEMMA TagsForOther ==
    ASSUME Base, TagInv, NEW s \in Txs, input' = input,
           \/ pc'[s] = "done"
           \/ /\ pc'[s] = pc[s] /\ have'[s] = have[s] /\ todo'[s] = todo[s]
              /\ \A t \in Tags : Shown(s, t) => Shown(s, t)'
    PROVE  TagsFor(s)'
<1>1. CASE pc'[s] = "done" BY <1>1 DEF TagsFor, CreatedFor, ResolvedFor, Writing
<1>2. CASE /\ pc'[s] = pc[s] /\ have'[s] = have[s] /\ todo'[s] = todo[s]
           /\ \A t \in Tags : Shown(s, t) => Shown(s, t)'
  <2>1. CreatedFor(s) /\ ResolvedFor(s) BY DEF TagInv, TagsFor
  <2>2. Missing(s, have[s])' = Missing(s, have[s]) BY <1>2 DEF Missing
  <2>3. ResolvedFor(s)' BY <1>2, <2>1, <2>2 DEF ResolvedFor
  <2>4. CreatedFor(s)'
    <3> SUFFICES ASSUME pc[s] \in {"createTags", "readTags"}, NEW t \in Missing(s, have[s])
                 PROVE  \/ Shown(s, t)'
                        \/ pc[s] = "createTags" /\ \E k \in DOMAIN todo[s] : todo[s][k] = t
      BY <1>2, <2>2 DEF CreatedFor
    <3>1. t \in Tags BY MissingTags DEF Missing
    <3> QED BY <1>2, <2>1, <3>1 DEF CreatedFor
  <2> QED BY <2>3, <2>4 DEF TagsFor
<1> QED BY <1>1, <1>2

\* UseTags comes when every tag is resolved, or for RemoveTags.
LEMMA TagsForUse ==
    ASSUME Base, NEW r \in Txs, NEW ids \in [Tags -> Nat], UseTags(r, ids), input' = input,
           have' = [have EXCEPT ![r] = ids],
           input[r].op # "RemoveTags" => Missing(r, ids) = {}
    PROVE  TagsFor(r)'
<1>1. /\ pc'[r] \in {"createPick", "addTags", "checkRefs", "delete"}
      /\ pc'[r] = "delete" <=> input[r].op = "RemoveTags"
  BY UseTagsPc DEF Base, IdsInv
<1>2. have'[r] = ids BY DEF Base, IdsInv, TypeInv, TypeOK
<1>3. Missing(r, have[r])' = Missing(r, ids) BY <1>2 DEF Missing
<1>4. CreatedFor(r)' BY <1>1 DEF CreatedFor
<1>5. ResolvedFor(r)' BY <1>1, <1>3 DEF ResolvedFor, Writing
<1> QED BY <1>4, <1>5 DEF TagsFor

LEMMA TagBegin == ASSUME Base, TagInv, NEW r \in Txs, Begin(r) PROVE TagsFor(r)'
<1> DEFINE hits == CacheLookup(r)
<1>1. have' = [have EXCEPT ![r] = hits] /\ input' = input BY DEF Begin
<1>2. hits \in [Tags -> Nat]
  BY HostAssumption DEF CacheLookup, Base, IdsInv, TypeInv, TypeOK
<1>3. CASE Missing(r, hits) # {}
  <2>1. pc'[r] = "getTags" BY <1>3 DEF Begin, Goto, Base, IdsInv, TypeInv, TypeOK
  <2> QED BY <2>1 DEF TagsFor, CreatedFor, ResolvedFor, Writing
<1>4. CASE Missing(r, hits) = {}
  <2>1. UseTags(r, hits) BY <1>4 DEF Begin
  <2> HIDE DEF hits
  <2> QED BY <1>1, <1>2, <1>4, <2>1, TagsForUse
<1> QED BY <1>3, <1>4

LEMMA TagGetTags == ASSUME Base, TagInv, NEW r \in Txs, GetTags(r) PROVE TagsFor(r)'
<1> DEFINE ids == Merge(have[r], SelectTags(r, Missing(r, have[r])))
<1>1. have' = [have EXCEPT ![r] = ids] /\ input' = input BY DEF GetTags
<1>2. ids \in [Tags -> Nat]
  BY SelectType, MergeType DEF Base, IdsInv, TypeInv, TypeOK
<1>3. CASE Missing(r, ids) # {} /\ input[r].op # "RemoveTags"
  <2>1. Insert(r, Missing(r, ids), "createTags", "readTags") BY <1>3 DEF GetTags
  <2>2. Missing(r, ids) \in SUBSET Tags
    <3>1. pc[r] = "getTags" BY DEF GetTags
    <3> QED BY <3>1, MissingTags DEF Missing
  <2> HIDE DEF ids
  <2>3. /\ pc'[r] = "createTags"
        /\ \A t \in Missing(r, ids) : \E k \in DOMAIN todo'[r] : todo'[r][k] = t
    BY <1>3, <2>1, <2>2, InsertCovers DEF Base, IdsInv
  <2>4. Missing(r, have[r])' = Missing(r, ids)
    BY <1>1, <1>2 DEF Missing, Base, IdsInv, TypeInv, TypeOK
  <2>5. CreatedFor(r)' BY <2>3, <2>4 DEF CreatedFor
  <2>6. ResolvedFor(r)' BY <2>3 DEF ResolvedFor, Writing
  <2> QED BY <2>5, <2>6 DEF TagsFor
<1>4. CASE ~(Missing(r, ids) # {} /\ input[r].op # "RemoveTags")
  <2>1. UseTags(r, ids) BY <1>4 DEF GetTags
  <2> HIDE DEF ids
  <2> QED BY <1>1, <1>2, <1>4, <2>1, TagsForUse
<1> QED BY <1>3, <1>4

\* Whoever inserts a tag sees it, or the row of a transaction that has committed.
LEMMA TagCreateTag == ASSUME Base, TagInv, NEW r \in Txs, CreateTag(r) PROVE TagsFor(r)'
<1>1. TypeInv BY DEF Base, IdsInv
<1>2. todo[r] \in Seq(Tags) /\ todo[r] # << >> /\ pc[r] = "createTags"
  BY <1>1 DEF CreateTag, TypeInv, TypeOK, TodoOK
<1>3. PICK u \in Tags : u = Head(todo[r]) BY <1>2, HeadTail
<1>4. /\ ~Pending(r, tags[u].by)
      /\ tags' = IF tags[u] = NoRow THEN [tags EXCEPT ![u] = [id |-> nextTag, by |-> r]]
                 ELSE tags
      /\ UNCHANGED <<tx, input, have>> /\ todo' = [todo EXCEPT ![r] = Tail(todo[r])]
      /\ pc' = [pc EXCEPT ![r] = IF Len(todo[r]) = 1 THEN "readTags" ELSE "createTags"]
  BY <1>3 DEF CreateTag, InsertTag, Goto
<1>5. Shown(r, u)'
  <2>1. CASE tags[u] = NoRow
    <3>1. tags'[u] = [id |-> nextTag, by |-> r]
      BY <1>1, <1>3, <1>4, <2>1 DEF TypeInv, TypeOK, StoreTypeOK
    <3>2. tags'[u].by = r /\ tags'[u] # NoRow BY <3>1, NoTxAssumption DEF NoRow
    <3> QED BY <3>2 DEF Shown, Sees
  <2>2. CASE tags[u] # NoRow
    <3>1. /\ tags[u].by \in Txs /\ tx[tags[u].by] \in {"open", "checked", "committed"}
          /\ tags' = tags /\ tx' = tx
      BY <1>3, <1>4, <2>2 DEF Base, CacheInv, TagsLive
    <3>2. tags[u].by = r \/ tx[tags[u].by] = "committed"
      BY <1>4, <3>1 DEF Pending, Running
    <3> QED BY <2>2, <3>1, <3>2 DEF Shown, Sees, IsCommitted
  <2> QED BY <2>1, <2>2
<1>6. \A t \in Tags : Shown(r, t) => Shown(r, t)'
  <2>1. \A t \in Tags : tags'[t] = tags[t] \/ tags[t] = NoRow
    BY <1>1, <1>4 DEF TypeInv, TypeOK, StoreTypeOK
  <2> QED BY <1>4, <2>1, ShownKept
<1>7. Missing(r, have[r])' = Missing(r, have[r]) BY <1>4 DEF Missing
<1>8. /\ pc'[r] = IF Len(todo[r]) = 1 THEN "readTags" ELSE "createTags"
      /\ todo'[r] = Tail(todo[r])
  BY <1>1, <1>4 DEF TypeInv, TypeOK
<1>9. CreatedFor(r)'
  <2> SUFFICES ASSUME NEW t \in Missing(r, have[r])
               PROVE  \/ Shown(r, t)'
                      \/ /\ pc'[r] = "createTags"
                         /\ \E k \in DOMAIN todo'[r] : todo'[r][k] = t
    BY <1>7 DEF CreatedFor
  <2>1. t \in Tags BY <1>2, MissingTags DEF Missing
  <2>2. CASE Shown(r, t) BY <1>6, <2>1, <2>2
  <2>3. CASE t = u BY <1>5, <2>3
  <2>4. CASE ~Shown(r, t) /\ t # u
    <3>1. PICK k \in DOMAIN todo[r] : todo[r][k] = t
      BY <1>2, <2>4 DEF TagInv, TagsFor, CreatedFor
    <3>2. Len(todo[r]) # 1 /\ \E i \in DOMAIN Tail(todo[r]) : Tail(todo[r])[i] = t
      BY <1>2, <1>3, <2>4, <3>1, TailCovers
    <3> QED BY <1>8, <3>2
  <2> QED BY <2>2, <2>3, <2>4
<1>10. ResolvedFor(r)' BY <1>8 DEF ResolvedFor, Writing
<1> QED BY <1>9, <1>10 DEF TagsFor

LEMMA TagReadTags == ASSUME Base, TagInv, NEW r \in Txs, ReadTags(r) PROVE TagsFor(r)'
<1> DEFINE new == SelectTags(r, Missing(r, have[r]))
           ids == Merge(have[r], new)
<1>1. /\ pc[r] = "readTags" /\ have' = [have EXCEPT ![r] = ids] /\ input' = input
      /\ UseTags(r, ids)
  BY DEF ReadTags
<1>2. ids \in [Tags -> Nat]
  BY SelectType, MergeType DEF Base, IdsInv, TypeInv, TypeOK
<1>3. Missing(r, ids) = {}
  <2> SUFFICES ASSUME NEW t \in Missing(r, ids) PROVE FALSE OBVIOUS
  <2>1. t \in input[r].tags /\ t \in Tags BY <1>1, MissingTags DEF Missing
  <2>2. ids[t] = 0 BY DEF Missing
  <2>3. have[r][t] = 0 /\ new[t] = 0 BY <2>1, <2>2 DEF Merge
  <2>4. t \in Missing(r, have[r]) BY <2>1, <2>3 DEF Missing
  <2>5. Shown(r, t) BY <1>1, <2>4 DEF TagInv, TagsFor, CreatedFor
  <2>6. new[t] = tags[t].id /\ tags[t].id # 0
    BY <2>1, <2>4, <2>5 DEF SelectTags, Shown, TagInv, TagIds
  <2> QED BY <2>3, <2>6
<1> HIDE DEF ids
<1> QED BY <1>1, <1>2, <1>3, TagsForUse

LEMMA TagStep == Base /\ TagInv /\ [Next]_vars => TagInv'
<1> SUFFICES ASSUME Base, TagInv, [Next]_vars PROVE TagInv' OBVIOUS
<1>1. TypeInv BY DEF Base, IdsInv
<1>2. ASSUME NEW X \in SUBSET Txs, Ends(X) PROVE TagInv'
  <2>1. TagIds' BY <1>2 DEF TagInv, TagIds, Ends, Rollback
  <2>2. ASSUME NEW s \in Txs PROVE TagsFor(s)'
    <3>1. input' = input BY <1>2 DEF Ends
    <3>2. CASE s \in X BY <1>2, <3>1, <3>2, TagsForOther DEF Ends
    <3>3. CASE s \notin X BY <1>2, <3>1, <3>3, TagsForOther, ShownAfterEnd DEF Ends
    <3> QED BY <3>2, <3>3
  <2> QED BY <2>1, <2>2 DEF TagInv
<1>3. ASSUME NEW r \in Txs, Moves(r) PROVE TagInv'
  <2>1. input' = input
    BY <1>3 DEF Moves, Begin, GetTags, CreateTag, ReadTags, Picked, Added, Checked,
                Commit, Deletes, RemoveTags, UnpickWord, DeleteWord
  <2>2. /\ \A t \in Tags : tags'[t] = tags[t] \/ tags[t] = NoRow
        /\ TagIds'
    <3>1. CASE CreateTag(r)
      BY <1>1, <3>1 DEF CreateTag, InsertTag, TagInv, TagIds, TypeInv, TypeOK, StoreTypeOK
    <3>2. CASE tags' = tags BY <3>2 DEF TagInv, TagIds
    <3> QED
      BY <1>3, <3>1, <3>2
         DEF Moves, Begin, GetTags, ReadTags, Picked, Added, Checked, Commit, Deletes,
             RemoveTags, UnpickWord, DeleteWord, storeVars
  <2>3. /\ \A c \in Txs : tx[c] = "committed" => tx'[c] = "committed"
        /\ \A s \in Txs \ {r} : pc'[s] = pc[s] /\ have'[s] = have[s] /\ todo'[s] = todo[s]
    <3>1. tx' = tx \/ \E state \in {"open", "checked", "committed"} :
                         tx' = [tx EXCEPT ![r] = state] /\ tx[r] # "committed"
      BY <1>3 DEF Moves, Begin, GetTags, ReadTags, CreateTag, Picked, Added, Checked,
                  Commit, Deletes, RemoveTags, UnpickWord, DeleteWord, storeVars,
                  Base, CacheInv, RefInv, InTx
    <3>2. \A c \in Txs : tx[c] = "committed" => tx'[c] = "committed"
      BY <1>1, <3>1 DEF TypeInv, TypeOK, StoreTypeOK
    <3>3. \A s \in Txs \ {r} : pc'[s] = pc[s] /\ have'[s] = have[s] /\ todo'[s] = todo[s]
      BY <1>1, <1>3
         DEF Moves, Begin, GetTags, ReadTags, CreateTag, Picked, Added, Checked, Commit,
             Deletes, RemoveTags, UnpickWord, DeleteWord, Deleted, UseTags, Insert, Goto, Respond,
             TypeInv, TypeOK
    <3> QED BY <3>2, <3>3
  <2>4. \A s \in Txs, t \in Tags : Shown(s, t) => Shown(s, t)' BY <2>2, <2>3, ShownKept
  <2>5. TagsFor(r)'
    <3>1. CASE Begin(r) BY <3>1, TagBegin
    <3>2. CASE GetTags(r) BY <3>2, TagGetTags
    <3>3. CASE CreateTag(r) BY <3>3, TagCreateTag
    <3>4. CASE ReadTags(r) BY <3>4, TagReadTags
    <3>5. CASE Picked(r) \/ Added(r) \/ Checked(r)
      <4>1. /\ pc[r] \in {"createPick"} \cup Writing /\ pc'[r] \in Writing
            /\ have' = have
        <5>1. CASE Picked(r)
          <6>1. pc'[r] \in {"addTags", "checkRefs"} BY <1>1, <5>1, InsertPc DEF Picked
          <6> QED BY <5>1, <6>1 DEF Picked, Writing
        <5>2. CASE Added(r) \/ Checked(r)
          BY <1>1, <5>2 DEF Added, Checked, Goto, Writing, TypeInv, TypeOK
        <5> QED BY <3>5, <5>1, <5>2
      <4>2. Missing(r, have[r])' = Missing(r, have[r]) BY <2>1, <4>1 DEF Missing
      <4> QED BY <4>1, <4>2 DEF TagInv, TagsFor, CreatedFor, ResolvedFor, Writing
    <3>6. CASE Commit(r) \/ Deletes(r)
      <4>1. pc'[r] = "done"
        BY <1>1, <3>6 DEF Commit, Deletes, RemoveTags, UnpickWord, DeleteWord, Deleted, Respond,
                          TypeInv, TypeOK
      <4> QED BY <2>1, <4>1, TagsForOther
    <3> QED BY <1>3, <3>1, <3>2, <3>3, <3>4, <3>5, <3>6 DEF Moves
  <2>6. ASSUME NEW s \in Txs \ {r} PROVE TagsFor(s)'
    BY <2>1, <2>3, <2>4, TagsForOther
  <2> QED BY <2>2, <2>5, <2>6 DEF TagInv
<1>4. CASE Rests
  <2>1. /\ UNCHANGED <<tx, tags, input, pc, have, todo>> BY <1>4 DEF Rests, storeVars
  <2>2. TagIds' BY <2>1 DEF TagInv, TagIds
  <2>3. \A s \in Txs, t \in Tags : Shown(s, t) => Shown(s, t)' BY <2>1, ShownKept
  <2>4. ASSUME NEW s \in Txs PROVE TagsFor(s)' BY <2>1, <2>3, TagsForOther
  <2> QED BY <2>2, <2>4 DEF TagInv
<1> QED BY <1>2, <1>3, <1>4, NextKinds

-----------------------------------------------------------------------------
(* Picks: their keys, and whose the uncommitted ones are. *)

PickKeys ==
    /\ \A p \in picks : p.id # 0 /\ p.id < nextPick
    /\ \A p, q \in picks : p.id = q.id \/ (p.user = q.user /\ p.def = q.def) => p = q

\* An uncommitted pick is the one its request works on.
OwnPicks ==
    \A p \in picks : tx[p.by] # "committed" =>
        /\ pc[p.by] \in Writing /\ input[p.by].op = "PickWord"
        /\ p.id = pick[p.by] /\ p.user = input[p.by].user /\ p.def = input[p.by].def

PickFor(r) ==
    /\ pc[r] \in Writing /\ input[r].op = "PickWord" => \E p \in picks : p.by = r
    /\ pc[r] \notin {"begin", "done"} /\ input[r].op # "PickWord" => pick[r] = input[r].pick

PickInv == PickKeys /\ OwnPicks /\ \A r \in Txs : PickFor(r)

\* A request that is done and has left no uncommitted pick.
PickDone(s) == /\ pc'[s] = "done"
               /\ tx'[s] = "committed" \/ \A p \in picks' : p.by # s

\* A request that goes on with the pick it has, or has not.
PickStays(s) ==
    /\ pc[s] \in Writing => pc'[s] \in Writing /\ pick'[s] = pick[s]
    /\ pc'[s] \in Writing /\ input[s].op = "PickWord" => pc[s] \in Writing
    /\ pc'[s] \notin {"begin", "done"} /\ input[s].op # "PickWord" => pick'[s] = input[s].pick
    /\ tx[s] = "committed" <=> tx'[s] = "committed"
    /\ tx[s] # "committed" => \A p \in picks : p.by = s => p \in picks'

LEMMA PickFrame ==
    ASSUME Base, PickInv, input' = input, picks' \subseteq picks,
           nextPick' \in {nextPick, nextPick + 1},
           \A s \in Txs : PickDone(s) \/ PickStays(s)
    PROVE  PickInv'
<1>1. TypeInv /\ nextPick \in Nat /\ \A p \in picks : p.by \in Txs /\ p.id \in Nat
  BY DEF Base, IdsInv, TypeInv, TypeOK, StoreTypeOK, PickRows
<1>2. PickKeys' BY <1>1 DEF PickInv, PickKeys
<1>3. OwnPicks'
  <2> SUFFICES ASSUME NEW p \in picks', tx'[p.by] # "committed"
               PROVE  /\ pc'[p.by] \in Writing /\ input[p.by].op = "PickWord"
                      /\ p.id = pick'[p.by] /\ p.user = input[p.by].user
                      /\ p.def = input[p.by].def
    BY DEF OwnPicks
  <2>1. p \in picks /\ p.by \in Txs BY <1>1
  <2>2. PickStays(p.by) BY <2>1 DEF PickDone
  <2> QED BY <2>1, <2>2 DEF PickStays, PickInv, OwnPicks
<1>4. ASSUME NEW s \in Txs PROVE PickFor(s)'
  <2>1. CASE PickDone(s) BY <2>1 DEF PickDone, PickFor, Writing
  <2>2. CASE PickStays(s)
    <3>1. ASSUME pc'[s] \in Writing, input[s].op = "PickWord"
          PROVE  \E p \in picks' : p.by = s
      <4>1. pc[s] \in Writing BY <2>2, <3>1 DEF PickStays
      <4>2. PICK p \in picks : p.by = s BY <3>1, <4>1 DEF PickInv, PickFor
      <4>3. tx[s] # "committed" BY <4>1 DEF Writing, Base, CacheInv, RefInv, InTx
      <4> QED BY <2>2, <4>2, <4>3 DEF PickStays
    <3> QED BY <2>2, <3>1 DEF PickFor, PickStays
  <2> QED BY <2>1, <2>2
<1> QED BY <1>2, <1>3, <1>4 DEF PickInv

\* A request that stands still.
LEMMA PickStill ==
    ASSUME PickInv, NEW s \in Txs, pc'[s] = pc[s], pick'[s] = pick[s], tx'[s] = tx[s],
           tx[s] # "committed" => \A p \in picks : p.by = s => p \in picks'
    PROVE  PickStays(s)
BY DEF PickStays, PickInv, PickFor

LEMMA PickEnds ==
    ASSUME Base, PickInv, NEW X \in SUBSET Txs, Ends(X) PROVE PickInv'
<1>1. /\ picks' = {p \in picks : p.by \notin X} /\ input' = input
      /\ \A s \in Txs \ X : tx'[s] = tx[s]
  BY DEF Ends, Rollback, Running
<1>2. ASSUME NEW s \in Txs PROVE PickDone(s) \/ PickStays(s)
  <2>1. CASE s \in X BY <1>1, <2>1 DEF Ends, PickDone
  <2>2. CASE s \notin X BY <1>1, <2>2, PickStill DEF Ends
  <2> QED BY <2>1, <2>2
<1> QED BY <1>1, <1>2, PickFrame DEF Ends

\* The insert has found no pick with its key, and the serial gives a new id.
LEMMA PickPicked ==
    ASSUME Base, Base', PickInv, NEW r \in Txs, Picked(r) PROVE PickInv'
<1> DEFINE u == input[r].user
           d == input[r].def
<1>1. TypeInv /\ TypeInv' BY DEF Base, IdsInv
<1>2. /\ pc[r] = "createPick" /\ SamePick(u, d) = {}
      /\ picks' = picks \cup {PickRow(r, u, d)} /\ nextPick' = nextPick + 1
      /\ pick' = [pick EXCEPT ![r] = nextPick]
      /\ UNCHANGED <<tx, input>>
      /\ pc'[r] \in {"addTags", "checkRefs"} /\ \A s \in Txs \ {r} : pc'[s] = pc[s]
  BY <1>1, InsertPc DEF Picked
<1>3. PickRow(r, u, d) = [id |-> nextPick, user |-> u, def |-> d, by |-> r]
  BY DEF PickRow
<1>4. input[r].op = "PickWord" BY <1>1, <1>2 DEF TypeInv, PcOK
<1>5. nextPick \in Nat \ {0} /\ \A p \in picks : p.by \in Txs /\ p.id \in Nat
  BY <1>1 DEF TypeInv, TypeOK, StoreTypeOK, PickRows
<1>6. pick'[r] = nextPick /\ \A s \in Txs \ {r} : pick'[s] = pick[s]
  BY <1>1, <1>2 DEF TypeInv, TypeOK
<1>7. PickKeys'
  <2>1. \A p \in picks : p.id # nextPick /\ ~(p.user = u /\ p.def = d)
    BY <1>2, <1>5 DEF SamePick, PickInv, PickKeys
  <2>2. \A p \in picks' : p.id # 0 /\ p.id < nextPick'
    BY <1>2, <1>3, <1>5 DEF PickInv, PickKeys
  <2>3. ASSUME NEW p \in picks', NEW q \in picks',
               p.id = q.id \/ (p.user = q.user /\ p.def = q.def)
        PROVE  p = q
    BY <1>2, <1>3, <2>1, <2>3 DEF PickInv, PickKeys
  <2> QED BY <2>2, <2>3 DEF PickKeys
<1>8. OwnPicks'
  <2> SUFFICES ASSUME NEW p \in picks', tx[p.by] # "committed"
               PROVE  /\ pc'[p.by] \in Writing /\ input[p.by].op = "PickWord"
                      /\ p.id = pick'[p.by] /\ p.user = input[p.by].user
                      /\ p.def = input[p.by].def
    BY <1>2 DEF OwnPicks
  <2>1. CASE p = PickRow(r, u, d) BY <1>2, <1>3, <1>4, <1>6, <2>1 DEF Writing
  <2>2. CASE p \in picks
    <3>1. pc[p.by] \in Writing BY <2>2 DEF PickInv, OwnPicks
    <3>2. p.by # r BY <1>2, <3>1 DEF Writing
    <3> QED BY <1>2, <1>5, <1>6, <2>2, <3>2 DEF PickInv, OwnPicks
  <2> QED BY <1>2, <2>1, <2>2
<1>9. ASSUME NEW s \in Txs PROVE PickFor(s)'
  <2>1. CASE s = r BY <1>2, <1>3, <1>4, <2>1 DEF PickFor
  <2>2. CASE s # r BY <1>2, <1>6, <2>2 DEF PickInv, PickFor
  <2> QED BY <2>1, <2>2
<1> QED BY <1>7, <1>8, <1>9 DEF PickInv

LEMMA PickStep == Base /\ PickInv /\ [Next]_vars => PickInv'
<1> SUFFICES ASSUME Base, PickInv, [Next]_vars PROVE PickInv' OBVIOUS
<1>1. TypeInv BY DEF Base, IdsInv
<1>2. ASSUME NEW X \in SUBSET Txs, Ends(X) PROVE PickInv' BY <1>2, PickEnds
<1>3. ASSUME NEW r \in Txs, Picked(r) PROVE PickInv' BY <1>3, BaseStep, PickPicked
<1>4. ASSUME NEW r \in Txs, Moves(r), ~Picked(r) PROVE PickInv'
  <2>1. /\ input' = input /\ picks' \subseteq picks /\ nextPick' = nextPick
        /\ \A p \in picks : p \notin picks' => IsCommitted(p.by)
    BY <1>4 DEF Moves, Begin, GetTags, ReadTags, CreateTag, Added, Checked, Commit,
                Deletes, RemoveTags, UnpickWord, DeleteWord, DeleteWordRow, DeletePicks,
                storeVars
  <2>2. \A s \in Txs \ {r} : pc'[s] = pc[s] /\ pick'[s] = pick[s] /\ tx'[s] = tx[s]
    BY <1>1, <1>4
       DEF Moves, Begin, GetTags, ReadTags, CreateTag, Added, Checked, Commit, Deletes,
           RemoveTags, UnpickWord, DeleteWord, Deleted, UseTags, Insert, Goto, Respond, storeVars,
           TypeInv, TypeOK, StoreTypeOK
  <2>3. ASSUME NEW s \in Txs \ {r} PROVE PickStays(s)
    BY <2>1, <2>2, PickStill DEF IsCommitted
  <2>4. PickDone(r) \/ PickStays(r)
    <3>1. CASE Begin(r)
      <4>1. /\ pc[r] = "begin" /\ tx[r] = "idle" /\ tx'[r] \in {"idle", "open"}
            /\ picks' = picks
        BY <1>1, <3>1 DEF Begin, Base, CacheInv, RefInv, InTx, TypeInv, TypeOK, StoreTypeOK
      <4>2. pc'[r] \in {"getTags", "createPick"} \/ input[r].op # "PickWord"
        BY <1>1, <3>1 DEF Begin, Goto, UseTags, TypeInv, TypeOK
      <4>3. input[r].op # "PickWord" => pick'[r] = input[r].pick
        BY <1>1, <3>1 DEF Begin, TypeInv, TypeOK
      <4> QED BY <4>1, <4>2, <4>3 DEF PickStays, Writing
    <3>2. CASE GetTags(r) \/ ReadTags(r)
      <4>1. /\ pc[r] \in {"getTags", "readTags"} /\ tx' = tx /\ pick' = pick
            /\ picks' = picks
        BY <3>2 DEF GetTags, ReadTags, storeVars
      <4>2. pc'[r] \in {"createTags", "readTags", "createPick"} \/ input[r].op # "PickWord"
        BY <1>1, <3>2, InsertPc DEF GetTags, ReadTags, Goto, UseTags, TypeInv, TypeOK
      <4> QED BY <4>1, <4>2 DEF PickStays, PickInv, PickFor, Writing
    <3>3. CASE CreateTag(r)
      BY <1>1, <3>3 DEF CreateTag, Goto, PickStays, PickInv, PickFor, Writing, TypeInv, TypeOK
    <3>4. CASE Added(r) \/ Checked(r)
      <4>1. /\ pc[r] \in Writing /\ pc'[r] \in Writing /\ pick' = pick /\ picks' = picks
        BY <1>1, <3>4 DEF Added, Checked, Goto, Writing, TypeInv, TypeOK
      <4>2. tx[r] = "open" /\ tx'[r] \in {"open", "checked"}
        BY <1>1, <3>4 DEF Added, Checked, Base, CacheInv, RefInv, InTx,
                          TypeInv, TypeOK, StoreTypeOK
      <4>3. pc[r] \notin {"begin", "done"} BY <4>1 DEF Writing
      <4> QED BY <4>1, <4>2, <4>3 DEF PickStays, PickInv, PickFor
    <3>5. CASE Commit(r)
      BY <1>1, <3>5 DEF Commit, Respond, PickDone, TypeInv, TypeOK, StoreTypeOK
    <3>6. CASE Deletes(r)
      <4>1. /\ pc[r] \in {"begin", "delete"} /\ pc'[r] = "done" /\ tx[r] = "idle"
        BY <1>1, <3>6 DEF Deletes, RemoveTags, UnpickWord, DeleteWord, Deleted, Respond,
                          TypeInv, TypeOK, Base, CacheInv, RefInv, InTx
      <4>2. \A p \in picks : p.by # r BY <4>1 DEF PickInv, OwnPicks, Writing
      <4> QED BY <2>1, <4>1, <4>2 DEF PickDone
    <3> QED BY <1>4, <3>1, <3>2, <3>3, <3>4, <3>5, <3>6 DEF Moves
  <2> QED BY <2>1, <2>3, <2>4, PickFrame
<1>5. CASE Rests
  <2>1. UNCHANGED <<tx, picks, nextPick, input, pc, pick>> BY <1>5 DEF Rests, storeVars
  <2>2. \A s \in Txs : PickStays(s) BY <2>1, PickStill
  <2> QED BY <2>1, <2>2, PickFrame
<1> QED BY <1>2, <1>3, <1>4, <1>5, NextKinds

-----------------------------------------------------------------------------
(* Rows of tags_map: their keys, and which ones a request has written. *)

MapKeys == \A m, n \in tagsMap : m.pick = n.pick /\ m.tag = n.tag => m = n

\* An uncommitted row is of the pick and of a tag its request works on.
OwnRows ==
    \A m \in tagsMap : tx[m.by] # "committed" =>
        /\ pc[m.by] \in Writing /\ m.pick = pick[m.by]
        /\ \E t \in Tags : m.tag # 0 /\ have[m.by][t] = m.tag

ToWrite(r, t) == pc[r] = "addTags" /\ \E k \in DOMAIN todo[r] : todo[r][k] = t

\* A resolved tag has its row, or the row is still to write.
RowsFor(r) ==
    pc[r] \in Writing =>
        \A t \in Tags : have[r][t] # 0 =>
            \/ ToWrite(r, t)
            \/ \E m \in tagsMap : m.by = r /\ m.pick = pick[r] /\ m.tag = have[r][t]

MapInv == MapKeys /\ OwnRows /\ \A r \in Txs : RowsFor(r)

\* A request that does not write, and has left no uncommitted row.
MapNot(s) == /\ pc'[s] \notin Writing
             /\ tx'[s] = "committed" \/ \A m \in tagsMap' : m.by # s

\* A request that begins to write.
MapEnters(s) ==
    /\ pc[s] \notin Writing /\ pc'[s] \in Writing /\ tx[s] # "committed"
    /\ \A t \in Tags : have'[s][t] # 0 => ToWrite(s, t)'

\* A request that does not advance in the rows it writes.
MapStays(s) ==
    /\ pc[s] \in Writing <=> pc'[s] \in Writing
    /\ pc[s] \in Writing => /\ have'[s] = have[s] /\ pick'[s] = pick[s]
                            /\ pc[s] = "addTags" => pc'[s] = "addTags" /\ todo'[s] = todo[s]
    /\ tx[s] = "committed" <=> tx'[s] = "committed"
    /\ tx[s] # "committed" => \A m \in tagsMap : m.by = s => m \in tagsMap'

LEMMA MapFrame ==
    ASSUME Base, MapInv, tagsMap' \subseteq tagsMap,
           \A s \in Txs : MapNot(s) \/ MapEnters(s) \/ MapStays(s)
    PROVE  MapInv'
<1>1. \A m \in tagsMap : m.by \in Txs BY DEF Base, IdsInv, TypeInv, TypeOK, StoreTypeOK, MapRows
<1>2. MapKeys' BY DEF MapInv, MapKeys
<1>3. OwnRows'
  <2> SUFFICES ASSUME NEW m \in tagsMap', tx'[m.by] # "committed"
               PROVE  /\ pc'[m.by] \in Writing /\ m.pick = pick'[m.by]
                      /\ \E t \in Tags : m.tag # 0 /\ have'[m.by][t] = m.tag
    BY DEF OwnRows
  <2>1. m \in tagsMap /\ m.by \in Txs BY <1>1
  <2>2. ~MapNot(m.by) BY DEF MapNot
  <2>3. ~MapEnters(m.by) BY <2>1 DEF MapEnters, MapInv, OwnRows
  <2> QED BY <2>1, <2>2, <2>3 DEF MapStays, MapInv, OwnRows
<1>4. ASSUME NEW s \in Txs PROVE RowsFor(s)'
  <2>1. CASE MapNot(s) BY <2>1 DEF MapNot, RowsFor
  <2>2. CASE MapEnters(s) BY <2>2 DEF MapEnters, RowsFor
  <2>3. CASE MapStays(s) /\ pc[s] \notin Writing BY <2>3 DEF MapStays, RowsFor
  <2>4. CASE MapStays(s) /\ pc[s] \in Writing
    <3>1. tx[s] # "committed" BY <2>4 DEF Writing, Base, CacheInv, RefInv, InTx
    <3> SUFFICES ASSUME NEW t \in Tags, have[s][t] # 0
                 PROVE  \/ ToWrite(s, t)'
                        \/ \E m \in tagsMap' :
                              m.by = s /\ m.pick = pick[s] /\ m.tag = have[s][t]
      BY <2>4 DEF RowsFor, MapStays
    <3>2. CASE ToWrite(s, t) BY <2>4, <3>2 DEF ToWrite, MapStays
    <3>3. CASE ~ToWrite(s, t) BY <2>4, <3>1, <3>3 DEF MapStays, MapInv, RowsFor
    <3> QED BY <3>2, <3>3
  <2> QED BY <2>1, <2>2, <2>3, <2>4
<1> QED BY <1>2, <1>3, <1>4 DEF MapInv

LEMMA MapStill ==
    ASSUME NEW s \in Txs, pc'[s] = pc[s], have'[s] = have[s], todo'[s] = todo[s],
           pick'[s] = pick[s], tx'[s] = tx[s],
           tx[s] # "committed" => \A m \in tagsMap : m.by = s => m \in tagsMap'
    PROVE  MapStays(s)
BY DEF MapStays

LEMMA MapEnds ==
    ASSUME Base, MapInv, NEW X \in SUBSET Txs, Ends(X) PROVE MapInv'
<1>1. /\ tagsMap' = {m \in tagsMap : m.by \notin X}
      /\ \A s \in Txs \ X : tx'[s] = tx[s]
  BY DEF Ends, Rollback, Running
<1>2. ASSUME NEW s \in Txs PROVE MapNot(s) \/ MapEnters(s) \/ MapStays(s)
  <2>1. CASE s \in X BY <1>1, <2>1 DEF Ends, MapNot, Writing
  <2>2. CASE s \notin X BY <1>1, <2>2, MapStill DEF Ends
  <2> QED BY <2>1, <2>2
<1> QED BY <1>1, <1>2, MapFrame

\* Who does not write has no uncommitted row.
LEMMA NoRowsYet ==
    ASSUME MapInv, NEW r \in Txs, pc[r] \notin Writing, tx[r] # "committed"
    PROVE  \A m \in tagsMap : m.by # r
BY DEF MapInv, OwnRows

\* AddTags goes on to write a row for every tag it has resolved.
LEMMA InsertEnters ==
    ASSUME Base, NEW r \in Txs, pc[r] \notin Writing, tx[r] # "committed",
           Insert(r, Resolved(have'[r]), "addTags", "checkRefs")
    PROVE  MapEnters(r)
<1>1. PICK T \in SUBSET Tags : T = Resolved(have'[r]) BY DEF Resolved
<1>2. Insert(r, T, "addTags", "checkRefs") BY <1>1
<1>3. /\ pc'[r] = IF T = {} THEN "checkRefs" ELSE "addTags"
      /\ \A t \in T : \E k \in DOMAIN todo'[r] : todo'[r][k] = t
  BY <1>2, InsertCovers DEF Base, IdsInv
<1>4. \A t \in Tags : have'[r][t] # 0 => t \in T BY <1>1 DEF Resolved
<1> QED BY <1>3, <1>4 DEF MapEnters, ToWrite, Writing

LEMMA UseEnters ==
    ASSUME Base, MapInv, NEW r \in Txs, pc[r] \notin Writing,
           tx[r] # "committed", tx'[r] # "committed", tagsMap' = tagsMap,
           NEW ids \in [Tags -> Nat], UseTags(r, ids), have' = [have EXCEPT ![r] = ids]
    PROVE  MapNot(r) \/ MapEnters(r)
<1>1. have'[r] = ids BY DEF Base, IdsInv, TypeInv, TypeOK
<1>2. CASE Insert(r, Resolved(ids), "addTags", "checkRefs") BY <1>1, <1>2, InsertEnters
<1>3. CASE ~Insert(r, Resolved(ids), "addTags", "checkRefs")
  <2>1. pc'[r] \in {"createPick", "delete"}
    BY <1>3 DEF UseTags, Goto, Base, IdsInv, TypeInv, TypeOK
  <2> QED BY <2>1, NoRowsYet DEF MapNot, Writing
<1> QED BY <1>2, <1>3

\* One more row, whose key no row has.
LEMMA MapAdded ==
    ASSUME Base, MapInv, NEW r \in Txs, Added(r) PROVE MapInv'
<1>1. TypeInv BY DEF Base, IdsInv
<1>2. todo[r] \in Seq(Tags) /\ todo[r] # << >>
  BY <1>1 DEF Added, TypeInv, TypeOK, TodoOK
<1>3. PICK t0 \in Tags : t0 = Head(todo[r]) BY <1>2, HeadTail
<1>4. PICK row : row = [pick |-> pick[r], tag |-> have[r][t0], by |-> r] OBVIOUS
<1>5. /\ pc[r] = "addTags" /\ SameMap(pick[r], have[r][t0]) = {}
      /\ tagsMap' = tagsMap \cup {row}
      /\ todo' = [todo EXCEPT ![r] = Tail(todo[r])]
      /\ pc' = [pc EXCEPT ![r] = IF Len(todo[r]) = 1 THEN "checkRefs" ELSE "addTags"]
      /\ UNCHANGED <<tx, have, pick>>
  BY <1>3, <1>4 DEF Added, Goto
<1>6. have[r][t0] # 0
  <2>1. 1 \in DOMAIN todo[r] /\ todo[r][1] = t0 BY <1>2, <1>3, HeadTail
  <2> QED BY <1>5, <2>1 DEF Base, IdsInv, TodoResolved
<1>7. /\ pc'[r] = IF Len(todo[r]) = 1 THEN "checkRefs" ELSE "addTags"
      /\ todo'[r] = Tail(todo[r])
      /\ \A s \in Txs \ {r} : pc'[s] = pc[s] /\ todo'[s] = todo[s]
  BY <1>1, <1>5 DEF TypeInv, TypeOK
<1>8. \A m \in tagsMap : m.by \in Txs BY <1>1 DEF TypeInv, TypeOK, StoreTypeOK, MapRows
<1>9. MapKeys'
  <2>1. \A m \in tagsMap : ~(m.pick = row.pick /\ m.tag = row.tag)
    BY <1>4, <1>5 DEF SameMap
  <2> QED BY <1>5, <2>1 DEF MapInv, MapKeys
<1>10. OwnRows'
  <2> SUFFICES ASSUME NEW m \in tagsMap', tx'[m.by] # "committed"
               PROVE  /\ pc'[m.by] \in Writing /\ m.pick = pick[m.by]
                      /\ \E t \in Tags : m.tag # 0 /\ have[m.by][t] = m.tag
    BY <1>5 DEF OwnRows
  <2>1. CASE m = row BY <1>4, <1>6, <1>7, <2>1 DEF Writing
  <2>2. CASE m \in tagsMap
    <3>1. /\ pc[m.by] \in Writing /\ m.pick = pick[m.by]
          /\ \E t \in Tags : m.tag # 0 /\ have[m.by][t] = m.tag
      BY <1>5, <2>2 DEF MapInv, OwnRows
    <3>2. pc'[m.by] \in Writing BY <1>7, <1>8, <2>2, <3>1 DEF Writing
    <3> QED BY <3>1, <3>2
  <2> QED BY <1>5, <2>1, <2>2
<1>11. ASSUME NEW s \in Txs PROVE RowsFor(s)'
  <2>1. CASE s # r BY <1>5, <1>7, <2>1 DEF MapInv, RowsFor, ToWrite
  <2>2. CASE s = r
    <3> SUFFICES ASSUME NEW t \in Tags, have[r][t] # 0
                 PROVE  \/ ToWrite(r, t)'
                        \/ \E m \in tagsMap' :
                              m.by = r /\ m.pick = pick[r] /\ m.tag = have[r][t]
      BY <1>5, <2>2 DEF RowsFor
    <3>1. CASE t = t0 BY <1>4, <1>5, <3>1
    <3>2. CASE ~ToWrite(r, t) BY <1>5, <3>2 DEF MapInv, RowsFor, Writing
    <3>3. CASE ToWrite(r, t) /\ t # t0
      <4>1. PICK k \in DOMAIN todo[r] : todo[r][k] = t BY <3>3 DEF ToWrite
      <4>2. Len(todo[r]) # 1 /\ \E i \in DOMAIN Tail(todo[r]) : Tail(todo[r])[i] = t
        BY <1>2, <1>3, <3>3, <4>1, TailCovers
      <4> QED BY <1>7, <4>2 DEF ToWrite
    <3> QED BY <3>1, <3>2, <3>3
  <2> QED BY <2>1, <2>2
<1> QED BY <1>9, <1>10, <1>11 DEF MapInv

LEMMA MapStep == Base /\ MapInv /\ [Next]_vars => MapInv'
<1> SUFFICES ASSUME Base, MapInv, [Next]_vars PROVE MapInv' OBVIOUS
<1>1. TypeInv /\ InTx BY DEF Base, IdsInv, CacheInv, RefInv
<1>2. ASSUME NEW X \in SUBSET Txs, Ends(X) PROVE MapInv' BY <1>2, MapEnds
<1>3. ASSUME NEW r \in Txs, Added(r) PROVE MapInv' BY <1>3, MapAdded
<1>4. ASSUME NEW r \in Txs, Moves(r), ~Added(r) PROVE MapInv'
  <2>1. /\ tagsMap' \subseteq tagsMap
        /\ \A m \in tagsMap : m \notin tagsMap' => IsCommitted(m.by)
    BY <1>4 DEF Moves, Begin, GetTags, ReadTags, CreateTag, Picked, Checked, Commit,
                Deletes, RemoveTags, UnpickWord, DeleteWord, DeleteWordRow, DeletePicks,
                DeleteMap, storeVars
  <2>2. \A s \in Txs \ {r} : /\ pc'[s] = pc[s] /\ have'[s] = have[s] /\ todo'[s] = todo[s]
                             /\ pick'[s] = pick[s] /\ tx'[s] = tx[s]
    BY <1>1, <1>4
       DEF Moves, Begin, GetTags, ReadTags, CreateTag, Picked, Checked, Commit, Deletes,
           RemoveTags, UnpickWord, DeleteWord, Deleted, UseTags, Insert, Goto, Respond, storeVars,
           TypeInv, TypeOK, StoreTypeOK
  <2>3. ASSUME NEW s \in Txs \ {r} PROVE MapStays(s)
    BY <2>1, <2>2, MapStill DEF IsCommitted
  <2>4. MapNot(r) \/ MapEnters(r) \/ MapStays(r)
    <3>1. CASE Begin(r)
      <4>1. PICK ids \in [Tags -> Nat] : ids = CacheLookup(r)
        BY <1>1, HostAssumption DEF CacheLookup, TypeInv, TypeOK
      <4>2. /\ pc[r] \notin Writing /\ tx[r] = "idle" /\ tx'[r] \in {"idle", "open"}
            /\ tagsMap' = tagsMap /\ have' = [have EXCEPT ![r] = ids]
        BY <1>1, <3>1, <4>1 DEF Begin, Writing, InTx, TypeInv, TypeOK, StoreTypeOK
      <4>3. UseTags(r, ids) \/ Goto(r, "getTags") BY <3>1, <4>1 DEF Begin
      <4>4. CASE UseTags(r, ids) BY <4>2, <4>4, UseEnters
      <4>5. CASE Goto(r, "getTags")
        BY <1>1, <4>2, <4>5, NoRowsYet DEF Goto, MapNot, Writing, TypeInv, TypeOK
      <4> QED BY <4>3, <4>4, <4>5
    <3>2. CASE GetTags(r) \/ ReadTags(r)
      <4>1. PICK ids \in [Tags -> Nat] :
                  ids = Merge(have[r], SelectTags(r, Missing(r, have[r])))
        BY <1>1, SelectType, MergeType DEF TypeInv, TypeOK
      <4>2. /\ pc[r] \in {"getTags", "readTags"} /\ tx' = tx
            /\ tagsMap' = tagsMap /\ have' = [have EXCEPT ![r] = ids]
        BY <3>2, <4>1 DEF GetTags, ReadTags, storeVars
      <4>3. pc[r] \notin Writing /\ tx[r] # "committed" BY <1>1, <4>2 DEF Writing, InTx
      <4>4. UseTags(r, ids) \/ \E T : Insert(r, T, "createTags", "readTags")
        BY <3>2, <4>1 DEF GetTags, ReadTags
      <4>5. CASE UseTags(r, ids) BY <4>2, <4>3, <4>5, UseEnters
      <4>6. CASE \E T : Insert(r, T, "createTags", "readTags")
        <5>1. pc'[r] \in {"createTags", "readTags"} BY <1>1, <4>6, InsertPc
        <5> QED BY <4>2, <4>3, <5>1, NoRowsYet DEF MapNot, Writing
      <4> QED BY <4>4, <4>5, <4>6
    <3>3. CASE CreateTag(r)
      <4>1. /\ pc[r] = "createTags" /\ pc'[r] \in {"createTags", "readTags"}
            /\ tagsMap' = tagsMap
        BY <1>1, <3>3 DEF CreateTag, Goto, TypeInv, TypeOK
      <4>2. pc[r] \notin Writing /\ tx[r] # "committed" BY <1>1, <4>1 DEF Writing, InTx
      <4> QED BY <4>1, <4>2, NoRowsYet DEF MapNot, Writing
    <3>4. CASE Picked(r)
      <4>1. pc[r] \notin Writing /\ tx[r] # "committed"
        BY <1>1, <3>4 DEF Picked, Writing, InTx
      <4>2. Insert(r, Resolved(have'[r]), "addTags", "checkRefs") BY <3>4 DEF Picked
      <4> QED BY <4>1, <4>2, InsertEnters
    <3>5. CASE Checked(r)
      BY <1>1, <3>5 DEF Checked, Goto, MapStays, Writing, InTx, TypeInv, TypeOK, StoreTypeOK
    <3>6. CASE Commit(r)
      BY <1>1, <3>6 DEF Commit, Respond, MapNot, Writing, TypeInv, TypeOK, StoreTypeOK
    <3>7. CASE Deletes(r)
      <4>1. /\ pc[r] \in {"begin", "delete"} /\ pc'[r] = "done" /\ tx[r] = "idle"
        BY <1>1, <3>7 DEF Deletes, RemoveTags, UnpickWord, DeleteWord, Deleted, Respond,
                          TypeInv, TypeOK, InTx
      <4>2. \A m \in tagsMap : m.by # r BY <4>1, NoRowsYet DEF Writing
      <4> QED BY <2>1, <4>1, <4>2 DEF MapNot, Writing
    <3> QED BY <1>4, <3>1, <3>2, <3>3, <3>4, <3>5, <3>6, <3>7 DEF Moves
  <2> QED BY <2>1, <2>3, <2>4, MapFrame
<1>5. CASE Rests
  <2>1. UNCHANGED <<tx, tagsMap, pc, have, todo, pick>> BY <1>5 DEF Rests, storeVars
  <2>2. \A s \in Txs : MapStays(s) BY <2>1, MapStill
  <2> QED BY <2>1, <2>2, MapFrame
<1> QED BY <1>2, <1>3, <1>4, <1>5, NextKinds

-----------------------------------------------------------------------------
(* Which requests write and which delete. *)

OpInv ==
    \A r \in Txs : /\ pc[r] = "delete" => input[r].op = "RemoveTags"
                   /\ pc[r] \in Writing => input[r].op # "RemoveTags"

LEMMA OpStep == Base /\ OpInv /\ [Next]_vars => OpInv'
<1> SUFFICES ASSUME Base, OpInv, [Next]_vars PROVE OpInv' OBVIOUS
<1>1. TypeInv /\ InTx BY DEF Base, IdsInv, CacheInv, RefInv
<1>2. ASSUME NEW X \in SUBSET Txs, Ends(X) PROVE OpInv'
  BY <1>2 DEF Ends, OpInv, Writing
<1>3. ASSUME NEW r \in Txs, Moves(r) PROVE OpInv'
  <2>1. input' = input /\ \A s \in Txs \ {r} : pc'[s] = pc[s]
    BY <1>1, <1>3
       DEF Moves, Begin, GetTags, ReadTags, CreateTag, Picked, Added, Checked, Commit,
           Deletes, RemoveTags, UnpickWord, DeleteWord, Deleted, UseTags, Insert, Goto, Respond,
           TypeInv, TypeOK
  <2>2. /\ pc'[r] = "delete" => input[r].op = "RemoveTags"
        /\ pc'[r] \in Writing => input[r].op # "RemoveTags"
    <3>1. ASSUME NEW ids, UseTags(r, ids)
          PROVE  /\ pc'[r] = "delete" => input[r].op = "RemoveTags"
                 /\ pc'[r] \in Writing => input[r].op # "RemoveTags"
      BY <1>1, <3>1, UseTagsPc DEF Writing
    <3>2. CASE Begin(r)
      BY <1>1, <3>1, <3>2 DEF Begin, Goto, Writing, TypeInv, TypeOK
    <3>3. CASE GetTags(r) \/ ReadTags(r)
      <4>1. (\E ids : UseTags(r, ids)) \/ \E T : Insert(r, T, "createTags", "readTags")
        BY <3>3 DEF GetTags, ReadTags
      <4>2. CASE \E T : Insert(r, T, "createTags", "readTags")
        <5>1. pc'[r] \in {"createTags", "readTags"} BY <1>1, <4>2, InsertPc
        <5> QED BY <5>1 DEF Writing
      <4> QED BY <3>1, <4>1, <4>2
    <3>4. CASE CreateTag(r) \/ Commit(r) \/ Deletes(r)
      <4>1. pc'[r] \in {"createTags", "readTags", "done"}
        BY <1>1, <3>4 DEF CreateTag, Goto, Commit, Deletes, RemoveTags, UnpickWord,
                          DeleteWord, Deleted, Respond, TypeInv, TypeOK
      <4> QED BY <4>1 DEF Writing
    <3>5. CASE Picked(r)
      <4>1. pc'[r] \in {"addTags", "checkRefs"} BY <1>1, <3>5, InsertPc DEF Picked
      <4>2. input[r].op = "PickWord" BY <1>1, <3>5 DEF Picked, TypeInv, PcOK
      <4> QED BY <4>1, <4>2
    <3>6. CASE Added(r) \/ Checked(r)
      BY <1>1, <3>6 DEF Added, Checked, Goto, InTx, Writing, TypeInv, TypeOK
    <3> QED BY <1>3, <3>2, <3>3, <3>4, <3>5, <3>6 DEF Moves
  <2> QED BY <2>1, <2>2 DEF OpInv
<1>4. CASE Rests BY <1>4 DEF Rests, OpInv
<1> QED BY <1>2, <1>3, <1>4, NextKinds

-----------------------------------------------------------------------------
(* All of it, in every state. *)

BookInv == Base /\ OpInv /\ TagInv /\ PickInv /\ MapInv

LEMMA BookInit == Init => BookInv
<1> SUFFICES ASSUME Init PROVE BookInv OBVIOUS
<1>1. Base BY CacheInit, InitIds DEF Base
<1>2. /\ pc = [r \in Txs |-> "begin"] /\ tx = [r \in Txs |-> "idle"]
      /\ tags = [t \in Tags |-> NoRow] /\ picks = {} /\ tagsMap = {}
  BY DEF Init, StoreInit
<1>3. OpInv BY <1>2 DEF OpInv, Writing
<1>4. TagInv BY <1>2 DEF TagInv, TagIds, TagsFor, CreatedFor, ResolvedFor, Writing
<1>5. PickInv BY <1>2 DEF PickInv, PickKeys, OwnPicks, PickFor, Writing
<1>6. MapInv BY <1>2 DEF MapInv, MapKeys, OwnRows, RowsFor, Writing
<1> QED BY <1>1, <1>3, <1>4, <1>5, <1>6 DEF BookInv

LEMMA BookStep == BookInv /\ [Next]_vars => BookInv'
BY BaseStep, OpStep, TagStep, PickStep, MapStep DEF BookInv

LEMMA BookInvariant == Spec => []BookInv
BY BookInit, BookStep, PTL DEF Spec

-----------------------------------------------------------------------------
(* Conflicts. *)

\* PickWord answers "user pick already exists" only when a committed pick of the
\* user and the definition is there.
LEMMA ConflictStep ==
    ASSUME BookInv, [Next]_vars, NEW r \in Txs, Answers(r, "409")
    PROVE  \E row \in SamePick(input[r].user, input[r].def) : IsCommitted(row.by)
<1>1. TypeInv BY DEF BookInv, Base, IdsInv
<1>2. resp[r] = "none" /\ resp'[r] = "409" BY DEF Answers
<1>3. CreatePick(r) /\ SamePick(input[r].user, input[r].def) # {}
  <2>1. ASSUME NEW s \in Txs, Step(s)
        PROVE  CreatePick(r) /\ SamePick(input[r].user, input[r].def) # {}
    <3>1. s = r
      BY <1>1, <1>2, <2>1
         DEF Step, Begin, GetTags, ReadTags, CreateTag, CreatePick, AddTag, CheckRefs, Commit,
             RemoveTags, UnpickWord, DeleteWord, Deleted, UseTags, Insert, Goto, Respond, Fail,
             TypeInv, TypeOK
    <3>2. ~(Begin(r) \/ GetTags(r) \/ ReadTags(r) \/ CreateTag(r))
      BY <1>1, <1>2 DEF Begin, GetTags, ReadTags, CreateTag, UseTags, Insert, Goto
    <3>3. ~(AddTag(r) \/ CheckRefs(r) \/ Commit(r) \/ RemoveTags(r) \/ UnpickWord(r)
              \/ DeleteWord(r))
      BY <1>1, <1>2 DEF AddTag, CheckRefs, Commit, RemoveTags, UnpickWord, DeleteWord, Deleted,
                        Goto, Respond, Fail, TypeInv, TypeOK
    <3>4. CreatePick(r) BY <2>1, <3>1, <3>2, <3>3 DEF Step
    <3>5. SamePick(input[r].user, input[r].def) # {}
      BY <1>1, <1>2, <3>4 DEF CreatePick, Insert, Goto, Respond, TypeInv, TypeOK
    <3> QED BY <3>4, <3>5
  <2>2. ASSUME NEW s \in Txs, Cancel(s) \/ DeadlockAbort(s) PROVE FALSE
    BY <1>1, <1>2, <2>2 DEF Cancel, DeadlockAbort, Fail, Respond, TypeInv, TypeOK
  <2>3. ASSUME NEW p \in Procs, Restart(p) PROVE FALSE
    <3> DEFINE lost == {s \in Txs : Host[s] = p /\ Active(s)}
    <3>1. resp' = [s \in Txs |-> IF s \in lost THEN "lost" ELSE resp[s]]
      BY <2>3 DEF Restart
    <3> HIDE DEF lost
    <3> QED BY <1>2, <3>1
  <2>4. ~(\E p \in Procs, t \in Tags : Evict(p, t)) BY <1>2 DEF Evict
  <2>5. ~UNCHANGED vars BY <1>2 DEF vars, serviceVars
  <2> QED BY <2>1, <2>2, <2>3, <2>4, <2>5 DEF Next, Finished
<1>4. PICK row \in SamePick(input[r].user, input[r].def) : TRUE BY <1>3
<1>5. row \in picks /\ row.by \in Txs
  BY <1>1, <1>4 DEF SamePick, TypeInv, TypeOK, StoreTypeOK, PickRows
<1>6. PickHolders(r, input[r].user, input[r].def) = {} /\ pc[r] = "createPick"
  BY <1>3 DEF CreatePick
<1>7. ~Pending(r, row.by) BY <1>4, <1>6 DEF PickHolders
<1>8. Running(row.by) \/ IsCommitted(row.by)
  BY <1>5 DEF BookInv, Base, CacheInv, RefInv, PicksLive
<1>9. row.by # r
  <2>1. tx[r] # "committed" BY <1>6 DEF BookInv, Base, CacheInv, RefInv, InTx
  <2> QED BY <1>5, <1>6, <2>1 DEF BookInv, PickInv, OwnPicks, Writing
<1> QED BY <1>4, <1>5, <1>7, <1>8, <1>9 DEF Pending

THEOREM ConflictIsRealAlways == Spec => ConflictIsReal
<1>1. BookInv /\ [Next]_vars =>
        [\A r \in Txs : Answers(r, "409") =>
            \E row \in SamePick(input[r].user, input[r].def) : IsCommitted(row.by)]_vars
  BY ConflictStep
<1> QED BY <1>1, BookInvariant, PTL DEF Spec, ConflictIsReal
-----------------------------------------------------------------------------
(* What RemoveTags removes. *)

\* As long as no transaction has been rolled back, the ids a request has looked up
\* are those of the rows.
HaveRight ==
    (\A x \in Txs : tx[x] # "aborted") =>
        \A r \in Txs, t \in Tags : have[r][t] \in {0, tags[t].id}

\* A step that rolls nothing back takes ids from rows and from caches.
LEMMA HaveKept ==
    ASSUME Base, HaveRight,
           \A c \in Txs : tx[c] = "aborted" => tx'[c] = "aborted",
           \A t \in Tags : tags'[t] = tags[t] \/ tags[t] = NoRow,
           \A r \in Txs, t \in Tags :
              have'[r][t] \in {0, have[r][t], tags[t].id} \cup {cache[p][t] : p \in Procs}
    PROVE  HaveRight'
<1> SUFFICES ASSUME \A c \in Txs : tx'[c] # "aborted", NEW r \in Txs, NEW t \in Tags
             PROVE  have'[r][t] \in {0, tags'[t].id}
  BY DEF HaveRight
<1>1. \A c \in Txs : tx[c] # "aborted" OBVIOUS
<1>2. have'[r][t] \in {0, tags[t].id}
  BY <1>1 DEF HaveRight, Base, CacheInv, StaleOnlyAfterRollback
<1>3. tags[t] = NoRow => tags[t].id = 0 BY DEF NoRow
<1> QED BY <1>2, <1>3

LEMMA HaveEnds ==
    ASSUME Base, HaveRight, NEW X \in SUBSET Txs, Ends(X)
    PROVE  HaveRight'
<1>1. /\ \A c \in Txs : tx'[c] = IF c \in X /\ Running(c) THEN "aborted" ELSE tx[c]
      /\ \A t \in Tags : tags'[t] = IF tags[t].by \in X THEN NoRow ELSE tags[t]
  BY DEF Ends, Rollback
<1>2. CASE \E c \in X : Running(c)
  <2>1. \E c \in Txs : tx'[c] = "aborted" BY <1>1, <1>2
  <2> QED BY <2>1 DEF HaveRight
<1>3. CASE \A c \in X : ~Running(c)
  <2>1. \A c \in Txs : tx'[c] = tx[c] BY <1>1, <1>3
  <2>2. \A t \in Tags : tags'[t] = tags[t]
    BY <1>1, <1>3 DEF Ends, Running, Base, CacheInv, TagsLive
  <2>3. \A r \in Txs, t \in Tags : have'[r][t] \in {0, have[r][t]} BY DEF Ends, NoIds
  <2> QED BY <2>1, <2>2, <2>3, HaveKept
<1> QED BY <1>2, <1>3

LEMMA HaveMoves == ASSUME Base, HaveRight, NEW r \in Txs, Moves(r) PROVE HaveRight'
<1>1. TypeInv /\ InTx BY DEF Base, IdsInv, CacheInv, RefInv
<1>2. \A c \in Txs : tx[c] = "aborted" => tx'[c] = "aborted"
  <2>1. tx' = tx \/ \E state \in {"open", "checked", "committed"} :
                       tx' = [tx EXCEPT ![r] = state] /\ tx[r] # "aborted"
    BY <1>1 DEF Moves, Begin, GetTags, ReadTags, CreateTag, Picked, Added, Checked,
                Commit, Deletes, RemoveTags, UnpickWord, DeleteWord, storeVars, InTx
  <2> QED BY <1>1, <2>1 DEF TypeInv, TypeOK, StoreTypeOK
<1>3. \A t \in Tags : tags'[t] = tags[t] \/ tags[t] = NoRow
  <2>1. CASE CreateTag(r)
    BY <1>1, <2>1 DEF CreateTag, InsertTag, TypeInv, TypeOK, StoreTypeOK
  <2>2. CASE tags' = tags BY <2>2
  <2> QED
    BY <2>1, <2>2 DEF Moves, Begin, GetTags, ReadTags, Picked, Added, Checked, Commit,
                      Deletes, RemoveTags, UnpickWord, DeleteWord, storeVars
<1>4. PICK Cached : Cached = [t \in Tags |-> {cache[p][t] : p \in Procs}] OBVIOUS
<1>5. ASSUME NEW s \in Txs, NEW t \in Tags
      PROVE  have'[s][t] \in {0, have[s][t], tags[t].id} \cup Cached[t]
  <2>1. CASE Begin(r)
    <3>1. PICK ids : /\ ids = CacheLookup(r)
                     /\ have' = [have EXCEPT ![r] = ids]
      BY <2>1 DEF Begin
    <3>2. ids[t] = 0 \/ ids[t] = cache[Host[r]][t] BY <3>1 DEF CacheLookup
    <3>3. ids[t] \in {0} \cup Cached[t] BY <1>4, <3>2, HostAssumption
    <3> QED BY <1>1, <3>1, <3>3 DEF TypeInv, TypeOK
  <2>2. CASE GetTags(r) \/ ReadTags(r)
    <3>1. PICK new : /\ new = SelectTags(r, Missing(r, have[r]))
                     /\ have' = [have EXCEPT ![r] = Merge(have[r], new)]
      BY <2>2 DEF GetTags, ReadTags
    <3>2. new[t] \in {0, tags[t].id} BY <3>1 DEF SelectTags
    <3>3. Merge(have[r], new)[t] \in {have[r][t], new[t]} BY DEF Merge
    <3> QED BY <1>1, <3>1, <3>2, <3>3 DEF TypeInv, TypeOK
  <2>3. CASE have' = have BY <2>3
  <2>4. CASE Commit(r) \/ Deletes(r)
    <3>1. have' = [have EXCEPT ![r] = NoIds]
      BY <2>4 DEF Commit, Deletes, RemoveTags, UnpickWord, DeleteWord, Deleted, Respond
    <3> QED BY <1>1, <3>1 DEF NoIds, TypeInv, TypeOK
  <2> QED BY <2>1, <2>2, <2>3, <2>4 DEF Moves, CreateTag, Picked, Added, Checked
<1> QED BY <1>2, <1>3, <1>4, <1>5, HaveKept

LEMMA HaveStep == Base /\ HaveRight /\ [Next]_vars => HaveRight'
<1> SUFFICES ASSUME Base, HaveRight, [Next]_vars PROVE HaveRight' OBVIOUS
<1>1. CASE Rests BY <1>1 DEF Rests, HaveRight, storeVars
<1> QED BY <1>1, NextKinds, HaveEnds, HaveMoves

\* Only RemoveTags itself answers a RemoveTags request with success.
LEMMA RemovedBy ==
    ASSUME BookInv, [Next]_vars, NEW r \in Txs, Answers(r, "ok"), input[r].op = "RemoveTags"
    PROVE  RemoveTags(r)
<1>1. TypeInv BY DEF BookInv, Base, IdsInv
<1>2. resp[r] = "none" /\ resp'[r] = "ok" BY DEF Answers
<1>3. ASSUME NEW s \in Txs, Step(s) PROVE RemoveTags(r)
  <2>1. s = r
    BY <1>1, <1>2, <1>3
       DEF Step, Begin, GetTags, ReadTags, CreateTag, CreatePick, AddTag, CheckRefs, Commit,
           RemoveTags, UnpickWord, DeleteWord, Deleted, UseTags, Insert, Goto, Respond,
           Fail, TypeInv, TypeOK
  <2>2. ~(Begin(r) \/ GetTags(r) \/ ReadTags(r) \/ CreateTag(r))
    BY <1>1, <1>2 DEF Begin, GetTags, ReadTags, CreateTag, UseTags, Insert, Goto
  <2>3. ~(CreatePick(r) \/ AddTag(r) \/ CheckRefs(r))
    BY <1>1, <1>2 DEF CreatePick, AddTag, CheckRefs, Insert, Goto, Respond, Fail,
                      TypeInv, TypeOK
  <2>4. ~Commit(r) BY DEF Commit, BookInv, OpInv, Writing
  <2>5. ~(UnpickWord(r) \/ DeleteWord(r)) BY DEF UnpickWord, DeleteWord
  <2> QED BY <1>3, <2>1, <2>2, <2>3, <2>4, <2>5 DEF Step
<1>4. ASSUME NEW s \in Txs, Cancel(s) \/ DeadlockAbort(s) PROVE FALSE
  BY <1>1, <1>2, <1>4 DEF Cancel, DeadlockAbort, Fail, Respond, TypeInv, TypeOK
<1>5. ASSUME NEW p \in Procs, Restart(p) PROVE FALSE
  <2> DEFINE lost == {s \in Txs : Host[s] = p /\ Active(s)}
  <2>1. resp' = [s \in Txs |-> IF s \in lost THEN "lost" ELSE resp[s]] BY <1>5 DEF Restart
  <2> HIDE DEF lost
  <2> QED BY <1>2, <2>1
<1>6. ~(\E p \in Procs, t \in Tags : Evict(p, t)) BY <1>2 DEF Evict
<1>7. ~UNCHANGED vars BY <1>2 DEF vars, serviceVars
<1> QED BY <1>3, <1>4, <1>5, <1>6, <1>7 DEF Next, Finished

LEMMA RemovedStep ==
    ASSUME BookInv, HaveRight, [Next]_vars, NEW r \in Txs,
           Answers(r, "ok"), input[r].op = "RemoveTags",
           \A x \in Txs : tx[x] # "aborted",
           NEW t \in Tags, t \in TagsOf(input[r].pick)'
    PROVE  have[r][t] = 0
<1>1. RemoveTags(r) BY RemovedBy
<1>2. PICK i0, gone : i0 = pick[r] /\ gone = {have[r][u] : u \in Resolved(have[r])} OBVIOUS
<1>3. /\ pc[r] = "delete" /\ UNCHANGED <<tx, tags, input>>
      /\ tagsMap' = {m \in tagsMap : ~(m.pick = i0 /\ m.tag \in gone /\ IsCommitted(m.by))}
  BY <1>1, <1>2 DEF RemoveTags, DeleteMap
<1>4. i0 = input[r].pick BY <1>2, <1>3 DEF BookInv, PickInv, PickFor
<1>5. PICK m \in tagsMap' : m.pick = i0 /\ m.tag = tags[t].id /\ IsCommitted(m.by)
  BY <1>3, <1>4 DEF TagsOf, SameMap, IsCommitted
<1>6. tags[t].id \notin gone BY <1>3, <1>5
<1>7. have[r][t] \in {0, tags[t].id} BY DEF HaveRight
<1> QED BY <1>2, <1>6, <1>7 DEF Resolved

\* As long as no transaction has been rolled back, RemoveTags that answers with success
\* has left none of the tags it looked up on the pick, whichever requests wrote tags,
\* picks and caches meanwhile.
THEOREM RemovedUnlessRolledBackAlways == Spec => RemovedUnlessRolledBack
<1>1. Init => HaveRight BY DEF Init, HaveRight, NoIds
<1>2. BookInv /\ HaveRight /\ [Next]_vars => HaveRight' BY HaveStep DEF BookInv
<1>3. BookInv /\ HaveRight /\ [Next]_vars =>
        [\A r \in Txs :
            /\ Answers(r, "ok") /\ input[r].op = "RemoveTags"
            /\ \A x \in Txs : tx[x] # "aborted"
            => \A t \in TagsOf(input[r].pick)' : have[r][t] = 0]_vars
  <2>1. \A i : TagsOf(i)' \subseteq Tags BY DEF TagsOf
  <2> QED BY <2>1, RemovedStep
<1> QED BY <1>1, <1>2, <1>3, BookInvariant, PTL DEF Spec, RemovedUnlessRolledBack

-----------------------------------------------------------------------------
(* The book in the tables. *)

Entry(p) == [id |-> p.id, user |-> p.user, def |-> p.def, tags |-> TagsOf(p.id)]

Committed == {p \in picks : IsCommitted(p.by)}

LEMMA BookEntries == Book = {Entry(p) : p \in Committed}
BY DEF Book, Entry, Committed

\* A committed row of tags_map stands for one text.
LEMMA TextOf ==
    ASSUME Base, NEW m \in tagsMap, tx[m.by] \in {"checked", "committed"}
    PROVE  /\ m.tag # 0 /\ m.tag \in Nat
           /\ \E u \in Tags : tags[u].id = m.tag /\ Sees(m.by, tags[u].by)
           /\ \A t, u \in Tags : Claimed(t, m.tag) /\ Claimed(u, m.tag) => t = u
<1>1. m.tag \in Nat BY DEF Base, IdsInv, TypeInv, TypeOK, StoreTypeOK, MapRows
<1>2. m.tag # 0 BY DEF Base, IdsInv, MapIds
<1>3. RefersTo(m) BY DEF Base, CacheInv, RefInv, RefsThere
<1> QED BY <1>1, <1>2, <1>3 DEF RefersTo, Base, IdsInv, OneClaim

\* Tags that are committed stay.
LEMMA TagsStay ==
    ASSUME Base, [Next]_vars
    PROVE  \A t \in Tags : IsCommitted(tags[t].by) => tags'[t] = tags[t]
<1>1. TypeInv BY DEF Base, IdsInv
<1>2. ASSUME NEW X \in SUBSET Txs, Ends(X)
      PROVE  \A t \in Tags : IsCommitted(tags[t].by) => tags'[t] = tags[t]
  BY <1>2 DEF Ends, Rollback, IsCommitted
<1>3. ASSUME NEW r \in Txs, Moves(r)
      PROVE  \A t \in Tags : IsCommitted(tags[t].by) => tags'[t] = tags[t]
  <2>1. CASE CreateTag(r)
    BY <1>1, <2>1, NoTxAssumption
       DEF CreateTag, InsertTag, NoRow, IsCommitted, TypeInv, TypeOK, StoreTypeOK
  <2>2. CASE tags' = tags BY <2>2
  <2> QED
    BY <1>3, <2>1, <2>2 DEF Moves, Begin, GetTags, ReadTags, Picked, Added, Checked, Commit,
                            Deletes, RemoveTags, UnpickWord, DeleteWord, storeVars
<1>4. CASE Rests BY <1>4 DEF Rests, storeVars
<1> QED BY <1>2, <1>3, <1>4, NextKinds

\* A pick whose committed rows of tags_map stay keeps its texts.
LEMMA TextsStay ==
    ASSUME Base, Base', [Next]_vars, NEW i,
           \A m \in tagsMap : m.pick = i /\ IsCommitted(m.by) =>
                                 m \in tagsMap' /\ tx'[m.by] = "committed",
           \A m \in tagsMap' : m.pick = i /\ m.by \in Txs /\ tx'[m.by] = "committed" =>
                                 m \in tagsMap /\ IsCommitted(m.by)
    PROVE  TagsOf(i)' = TagsOf(i)
<1>1. ASSUME NEW t \in TagsOf(i) PROVE t \in TagsOf(i)'
  <2>1. PICK m \in tagsMap : m.pick = i /\ m.tag = tags[t].id /\ IsCommitted(m.by)
    BY DEF TagsOf, SameMap
  <2>2. t \in Tags BY DEF TagsOf
  <2>3. PICK u \in Tags : tags[u].id = m.tag /\ Sees(m.by, tags[u].by)
    BY <2>1, TextOf DEF IsCommitted
  <2>4. u = t
    <3>1. m.tag # 0 BY <2>1, TextOf DEF IsCommitted
    <3>2. Claimed(t, m.tag) /\ Claimed(u, m.tag) BY <2>1, <2>3, <3>1 DEF Claimed
    <3> QED BY <2>1, <2>2, <3>2, TextOf DEF IsCommitted
  <2>5. tags'[t] = tags[t] BY <2>1, <2>2, <2>3, <2>4, TagsStay DEF Sees
  <2>6. m \in tagsMap' /\ tx'[m.by] = "committed" /\ m.by \in Txs
    BY <2>1 DEF IsCommitted
  <2> QED BY <2>1, <2>2, <2>5, <2>6 DEF TagsOf, SameMap, IsCommitted
<1>2. ASSUME NEW t \in TagsOf(i)' PROVE t \in TagsOf(i)
  <2>1. PICK m \in tagsMap' : /\ m.pick = i /\ m.tag = tags'[t].id
                              /\ m.by \in Txs /\ tx'[m.by] = "committed"
    BY <1>2 DEF TagsOf, SameMap, IsCommitted
  <2>2. t \in Tags BY <1>2 DEF TagsOf
  <2>3. m \in tagsMap /\ IsCommitted(m.by) BY <2>1
  <2>4. PICK u \in Tags : tags[u].id = m.tag /\ Sees(m.by, tags[u].by)
    BY <2>3, TextOf DEF IsCommitted
  <2>5. tags'[u] = tags[u] BY <2>3, <2>4, TagsStay DEF Sees
  <2>6. u = t
    <3>1. m.tag # 0 /\ m.tag \in Nat BY <2>3, TextOf DEF IsCommitted
    <3>2. Claimed(t, m.tag)' /\ Claimed(u, m.tag)'
      BY <2>1, <2>4, <2>5, <3>1 DEF Claimed
    <3>3. OneClaim' BY DEF Base, IdsInv
    <3> QED BY <2>2, <3>1, <3>2, <3>3 DEF OneClaim
  <2> QED BY <2>1, <2>2, <2>3, <2>4, <2>6 DEF TagsOf, SameMap
<1> QED BY <1>1, <1>2

\* A step that commits and deletes nothing does not show in the book.
LEMMA BookStays ==
    ASSUME Base, Base', [Next]_vars,
           \A p \in picks : IsCommitted(p.by) => p \in picks' /\ tx'[p.by] = "committed",
           \A p \in picks' : p.by \in Txs /\ tx'[p.by] = "committed" =>
                                p \in picks /\ IsCommitted(p.by),
           \A m \in tagsMap : IsCommitted(m.by) => m \in tagsMap' /\ tx'[m.by] = "committed",
           \A m \in tagsMap' : m.by \in Txs /\ tx'[m.by] = "committed" =>
                                  m \in tagsMap /\ IsCommitted(m.by)
    PROVE  Book' = Book
<1>1. \A i : TagsOf(i)' = TagsOf(i) BY TextsStay
<1>2. Committed' = Committed BY DEF Committed, IsCommitted
<1>3. Book' = {[id |-> p.id, user |-> p.user, def |-> p.def, tags |-> TagsOf(p.id)] :
                  p \in Committed}
  BY <1>1, <1>2 DEF Book, Committed
<1> QED BY <1>3 DEF Book, Committed

-----------------------------------------------------------------------------
(* Every step, in the book. *)

LEMMA QuietSteps ==
    ASSUME BookInv, BookInv', [Next]_vars,
           \/ \E X \in SUBSET Txs : Ends(X)
           \/ \E r \in Txs : Moves(r) /\ ~Commit(r) /\ ~Deletes(r)
           \/ Rests
    PROVE  UNCHANGED <<Book, defs>>
<1>1. TypeInv /\ InTx /\ Base /\ Base'
  BY DEF BookInv, Base, IdsInv, CacheInv, RefInv
<1>2. ASSUME NEW X \in SUBSET Txs, Ends(X) PROVE UNCHANGED <<Book, defs>>
  <2>1. /\ picks' = {p \in picks : p.by \notin X} /\ tagsMap' = {m \in tagsMap : m.by \notin X}
        /\ \A s \in Txs : tx'[s] = "committed" <=> tx[s] = "committed"
        /\ \A s \in X : tx[s] # "committed"
        /\ defs' = defs
    BY <1>2 DEF Ends, Rollback
  <2>2. Book' = Book BY <1>1, <2>1, BookStays DEF IsCommitted
  <2> QED BY <2>1, <2>2
<1>3. ASSUME NEW r \in Txs, Moves(r), ~Commit(r), ~Deletes(r)
      PROVE  UNCHANGED <<Book, defs>>
  <2>1. /\ \A s \in Txs : tx'[s] = "committed" <=> tx[s] = "committed"
        /\ tx[r] # "committed"
    BY <1>1, <1>3 DEF Moves, Begin, GetTags, ReadTags, CreateTag, Picked, Added, Checked,
                      storeVars, InTx, TypeInv, TypeOK, StoreTypeOK
  <2>2. /\ picks \subseteq picks' /\ \A p \in picks' : p \in picks \/ p.by = r
        /\ tagsMap \subseteq tagsMap' /\ \A m \in tagsMap' : m \in tagsMap \/ m.by = r
        /\ defs' = defs
    BY <1>3 DEF Moves, Begin, GetTags, ReadTags, CreateTag, Picked, Added, Checked,
                storeVars, PickRow
  <2>3. Book' = Book BY <1>1, <2>1, <2>2, BookStays DEF IsCommitted
  <2> QED BY <2>2, <2>3
<1>4. CASE Rests
  <2>1. UNCHANGED <<tx, picks, tagsMap, defs>> BY <1>4 DEF Rests, storeVars
  <2>2. Book' = Book BY <1>1, <2>1, BookStays DEF IsCommitted
  <2> QED BY <2>1, <2>2
<1> QED BY <1>2, <1>3, <1>4
\* The rows a transaction commits give its pick the tags it was asked for.
LEMMA CommitTags ==
    ASSUME BookInv, BookInv', [Next]_vars, NEW r \in Txs, Commit(r), NEW i0, i0 = pick[r]
    PROVE  /\ TagsOf(i0)' = TagsOf(i0) \cup input[r].tags
           /\ \A i : i # i0 => TagsOf(i)' = TagsOf(i)
           /\ \A t \in input[r].tags :
                 \E m \in tagsMap : m.by = r /\ m.pick = i0 /\ m.tag = tags[t].id
<1>1. TypeInv /\ Base /\ Base' BY DEF BookInv, Base, IdsInv
<1>2. /\ pc[r] = "commit" /\ UNCHANGED <<tags, picks, tagsMap, input>>
      /\ tx' = [tx EXCEPT ![r] = "committed"] /\ tx[r] = "checked"
  BY <1>1 DEF Commit, Base, CacheInv, RefInv, InTx
<1>3. tx'[r] = "committed" /\ \A s \in Txs \ {r} : tx'[s] = tx[s]
  BY <1>1, <1>2 DEF TypeInv, TypeOK, StoreTypeOK
<1>5. \A m \in tagsMap : m.by = r => m.pick = i0 /\ \E t \in Tags : have[r][t] = m.tag
  BY <1>2 DEF BookInv, MapInv, OwnRows
<1>6. ASSUME NEW i, i # i0 PROVE TagsOf(i)' = TagsOf(i)
  BY <1>1, <1>2, <1>3, <1>5, <1>6, TextsStay DEF IsCommitted
<1>7. \A t \in input[r].tags :
        \E m \in tagsMap : m.by = r /\ m.pick = i0 /\ m.tag = tags[t].id
  <2> SUFFICES ASSUME NEW t \in input[r].tags
               PROVE  \E m \in tagsMap : m.by = r /\ m.pick = i0 /\ m.tag = tags[t].id
    OBVIOUS
  <2>1. t \in Tags BY <1>1, <1>2, MissingTags
  <2>2. have[r][t] # 0
    BY <1>2, <2>1 DEF BookInv, TagInv, TagsFor, ResolvedFor, Writing, Missing
  <2>3. PICK m \in tagsMap : m.by = r /\ m.pick = i0 /\ m.tag = have[r][t]
    BY <1>2, <2>1, <2>2 DEF BookInv, MapInv, RowsFor, ToWrite, Writing
  <2>4. PICK u \in Tags : tags[u].id = m.tag BY <1>1, <1>2, <2>3, TextOf
  <2>5. Claimed(t, m.tag) /\ Claimed(u, m.tag) BY <2>2, <2>3, <2>4 DEF Claimed
  <2>6. u = t BY <1>1, <1>2, <2>1, <2>3, <2>5, TextOf
  <2> QED BY <2>3, <2>4, <2>6
<1>8. ASSUME NEW t \in Tags
      PROVE  t \in TagsOf(i0)' <=> t \in TagsOf(i0) \/ t \in input[r].tags
  <2>1. t \in TagsOf(i0)' <=> \E m \in tagsMap : /\ m.pick = i0 /\ m.tag = tags[t].id
                                                 /\ m.by = r \/ IsCommitted(m.by)
    BY <1>2, <1>3 DEF TagsOf, SameMap, IsCommitted
  <2>2. t \in TagsOf(i0) <=> \E m \in tagsMap : /\ m.pick = i0 /\ m.tag = tags[t].id
                                                /\ IsCommitted(m.by)
    BY DEF TagsOf, SameMap
  <2>3. ASSUME NEW m \in tagsMap, m.by = r, m.tag = tags[t].id
        PROVE  t \in input[r].tags
    <3>1. PICK u \in Tags : have[r][u] = m.tag BY <1>5, <2>3
    <3>2. m.tag # 0 BY <1>1, <1>2, <2>3, TextOf
    <3>3. Claimed(t, m.tag) /\ Claimed(u, m.tag) BY <2>3, <3>1, <3>2 DEF Claimed
    <3>4. t = u BY <1>1, <1>2, <2>3, <3>3, TextOf
    <3> QED BY <3>1, <3>2, <3>4 DEF BookInv, Base, IdsInv, HaveAsked
  <2> QED BY <1>7, <2>1, <2>2, <2>3
<1>9. input[r].tags \subseteq Tags BY <1>1, <1>2, MissingTags
<1>10. TagsOf(i0)' = TagsOf(i0) \cup input[r].tags
  <2>1. TagsOf(i0)' \subseteq Tags /\ TagsOf(i0) \subseteq Tags BY DEF TagsOf
  <2> QED BY <1>8, <1>9, <2>1
<1> QED BY <1>6, <1>7, <1>10

LEMMA CommitPick ==
    ASSUME BookInv, BookInv', [Next]_vars, Nat \ {0} \subseteq PickIds,
           NEW r \in Txs, Commit(r), input[r].op = "PickWord"
    PROVE  PB!Pick(input[r])
<1>1. TypeInv /\ Base /\ Base' BY DEF BookInv, Base, IdsInv
<1>2. /\ pc[r] = "commit" /\ UNCHANGED <<defs, tags, picks, tagsMap, input>>
      /\ tx' = [tx EXCEPT ![r] = "committed"] /\ tx[r] = "checked"
  BY <1>1 DEF Commit, Base, CacheInv, RefInv, InTx
<1>3. tx'[r] = "committed" /\ \A s \in Txs \ {r} : tx'[s] = tx[s]
  BY <1>1, <1>2 DEF TypeInv, TypeOK, StoreTypeOK
<1>4. PICK p0 \in picks : p0.by = r BY <1>2 DEF BookInv, PickInv, PickFor, Writing
<1>5. p0.id = pick[r] /\ p0.user = input[r].user /\ p0.def = input[r].def
  BY <1>2, <1>4 DEF BookInv, PickInv, OwnPicks
<1>6. /\ \A p \in picks : p.id = p0.id => p = p0
      /\ \A p \in picks : p.user = p0.user /\ p.def = p0.def => p = p0
      /\ \A p \in picks : p.by = r => p = p0
  BY <1>2, <1>4, <1>5 DEF BookInv, PickInv, PickKeys, OwnPicks
<1>7. \A p \in Committed : p \in picks /\ p # p0 /\ p.id # p0.id
  BY <1>2, <1>4, <1>6 DEF Committed, IsCommitted
<1>8. Committed' = Committed \cup {p0}
  BY <1>2, <1>3, <1>4, <1>6 DEF Committed, IsCommitted
<1>9. PICK i0 : i0 = p0.id OBVIOUS
\* Nobody else's row refers to a pick that is not committed.
<1>10. TagsOf(i0) = {}
  <2> SUFFICES ASSUME NEW m \in tagsMap, m.pick = i0, IsCommitted(m.by) PROVE FALSE
    BY DEF TagsOf, SameMap
  <2>1. RefersTo(m) BY <1>1 DEF IsCommitted, Base, CacheInv, RefInv, RefsThere
  <2>2. PICK p \in picks : p.id = m.pick /\ Sees(m.by, p.by) BY <2>1 DEF RefersTo
  <2>3. p = p0 BY <1>6, <1>9, <2>2
  <2> QED BY <1>2, <1>4, <2>2, <2>3 DEF Sees, IsCommitted
<1>11. /\ TagsOf(i0)' = input[r].tags
       /\ \A i : i # i0 => TagsOf(i)' = TagsOf(i)
  <2>1. i0 = pick[r] BY <1>5, <1>9
  <2>2. /\ TagsOf(i0)' = TagsOf(i0) \cup input[r].tags
        /\ \A i : i # i0 => TagsOf(i)' = TagsOf(i)
    BY <2>1, CommitTags
  <2> QED BY <1>10, <2>2
<1> DEFINE new == [id |-> i0, user |-> input[r].user, def |-> input[r].def,
                   tags |-> input[r].tags]
<1>12. Book' = Book \cup {new}
  <2>1. Book' = {[id |-> p.id, user |-> p.user, def |-> p.def, tags |-> TagsOf(p.id)'] :
                    p \in Committed \cup {p0}}
    BY <1>8 DEF Book, Committed
  <2>2. Book = {[id |-> p.id, user |-> p.user, def |-> p.def, tags |-> TagsOf(p.id)] :
                   p \in Committed}
    BY DEF Book, Committed
  <2> QED BY <1>5, <1>7, <1>9, <1>11, <2>1, <2>2
<1>13. ~ \E k \in Book : k.id = i0 \/ (k.user = input[r].user /\ k.def = input[r].def)
  BY <1>5, <1>6, <1>7, <1>9 DEF Book, Committed
<1>14. input[r].def \in defs
  BY <1>4, <1>5 DEF BookInv, Base, CacheInv, RefInv, PicksHaveDefs
<1>15. i0 \in PickIds
  <2>1. p0.id \in Nat BY <1>1, <1>4 DEF TypeInv, TypeOK, StoreTypeOK, PickRows
  <2>2. p0.id # 0 BY <1>4 DEF BookInv, PickInv, PickKeys
  <2> QED BY <1>9, <2>1, <2>2
<1> HIDE DEF new
<1>16. new = [id |-> i0, user |-> input[r].user, def |-> input[r].def,
              tags |-> input[r].tags]
  BY DEF new
<1> QED BY <1>2, <1>12, <1>13, <1>14, <1>15, <1>16 DEF PB!Pick

LEMMA CommitAddTags ==
    ASSUME BookInv, BookInv', [Next]_vars,
           NEW r \in Txs, Commit(r), input[r].op # "PickWord"
    PROVE  PB!Tag(input[r]) \/ UNCHANGED <<Book, defs>>
<1>1. TypeInv /\ Base /\ Base' BY DEF BookInv, Base, IdsInv
<1>2. /\ pc[r] = "commit" /\ UNCHANGED <<defs, tags, picks, tagsMap, input>>
      /\ tx' = [tx EXCEPT ![r] = "committed"] /\ tx[r] = "checked"
  BY <1>1 DEF Commit, Base, CacheInv, RefInv, InTx
<1>3. tx'[r] = "committed" /\ \A s \in Txs \ {r} : tx'[s] = tx[s]
  BY <1>1, <1>2 DEF TypeInv, TypeOK, StoreTypeOK
<1>4. input[r].op = "AddTags"
  BY <1>1, <1>2 DEF BookInv, OpInv, Writing, TypeInv, PcOK, TagOps
<1>5. \A p \in picks : p.by # r BY <1>2, <1>4 DEF BookInv, PickInv, OwnPicks
<1>6. Committed' = Committed BY <1>2, <1>3, <1>5 DEF Committed, IsCommitted
<1>7. PICK i0 : i0 = pick[r] OBVIOUS
<1>8. i0 = input[r].pick BY <1>2, <1>4, <1>7 DEF BookInv, PickInv, PickFor
<1>9. /\ TagsOf(i0)' = TagsOf(i0) \cup input[r].tags
      /\ \A i : i # i0 => TagsOf(i)' = TagsOf(i)
      /\ \A t \in input[r].tags :
            \E m \in tagsMap : m.by = r /\ m.pick = i0 /\ m.tag = tags[t].id
  BY <1>7, CommitTags
<1>10. Book' = {[id |-> p.id, user |-> p.user, def |-> p.def, tags |-> TagsOf(p.id)'] :
                   p \in Committed}
  BY <1>6 DEF Book, Committed
<1>11. Book = {[id |-> p.id, user |-> p.user, def |-> p.def, tags |-> TagsOf(p.id)] :
                  p \in Committed}
  BY DEF Book, Committed
<1>12. CASE input[r].tags = {}
  <2>1. \A i : TagsOf(i)' = TagsOf(i) BY <1>9, <1>12
  <2> QED BY <1>2, <1>10, <1>11, <2>1
<1>13. CASE input[r].tags # {}
  <2>1. PICK p0 \in picks : p0.id = i0 /\ IsCommitted(p0.by)
    <3>1. PICK m \in tagsMap : m.by = r /\ m.pick = i0 BY <1>9, <1>13
    <3>2. RefersTo(m) BY <1>2, <3>1 DEF BookInv, Base, CacheInv, RefInv, RefsThere
    <3> QED BY <1>5, <3>1, <3>2 DEF RefersTo, Sees
  <2>2. \A p \in Committed : p.id = i0 => p = p0
    BY <2>1 DEF Committed, BookInv, PickInv, PickKeys
  <2>3. p0 \in Committed BY <2>1 DEF Committed
  \* A tag the pick already carries would have been a conflict in tags_map.
  <2>4. TagsOf(i0) \cap input[r].tags = {}
    <3> SUFFICES ASSUME NEW t \in TagsOf(i0), t \in input[r].tags PROVE FALSE OBVIOUS
    <3>1. PICK m \in tagsMap : m.pick = i0 /\ m.tag = tags[t].id /\ IsCommitted(m.by)
      BY DEF TagsOf, SameMap
    <3>2. PICK n \in tagsMap : n.by = r /\ n.pick = i0 /\ n.tag = tags[t].id BY <1>9
    <3>3. m = n BY <3>1, <3>2 DEF BookInv, MapInv, MapKeys
    <3> QED BY <1>2, <3>1, <3>2, <3>3 DEF IsCommitted
  <2>5. PICK k : k = [id |-> p0.id, user |-> p0.user, def |-> p0.def, tags |-> TagsOf(p0.id)]
    OBVIOUS
  <2>6. k \in Book /\ k.id = i0 /\ k.tags = TagsOf(i0) BY <1>11, <2>1, <2>3, <2>5
  <2>7. PICK new : new = [k EXCEPT !.tags = @ \cup input[r].tags] OBVIOUS
  <2>8. new = [id |-> p0.id, user |-> p0.user, def |-> p0.def, tags |-> TagsOf(p0.id)']
    BY <1>9, <2>1, <2>5, <2>7
  <2>9. Book' = (Book \ {k}) \cup {new}
    <3>1. \A p \in Committed : p # p0 => TagsOf(p.id)' = TagsOf(p.id) BY <1>9, <2>2
    <3>2. ASSUME NEW e \in Book' PROVE e \in (Book \ {k}) \cup {new}
      <4>1. PICK p \in Committed :
              e = [id |-> p.id, user |-> p.user, def |-> p.def, tags |-> TagsOf(p.id)']
        BY <1>10, <3>2
      <4>2. CASE p = p0 BY <2>8, <4>1, <4>2
      <4>3. CASE p # p0
        <5>1. e \in Book BY <1>11, <3>1, <4>1, <4>3
        <5>2. e.id # k.id BY <2>1, <2>2, <2>6, <4>1, <4>3
        <5> QED BY <5>1, <5>2
      <4> QED BY <4>2, <4>3
    <3>3. ASSUME NEW e \in (Book \ {k}) \cup {new} PROVE e \in Book'
      <4>1. CASE e = new BY <1>10, <2>3, <2>8, <4>1
      <4>2. CASE e \in Book \ {k}
        <5>1. PICK p \in Committed :
                e = [id |-> p.id, user |-> p.user, def |-> p.def, tags |-> TagsOf(p.id)]
          BY <1>11, <4>2
        <5>2. p # p0 BY <2>5, <4>2, <5>1
        <5>3. e = [id |-> p.id, user |-> p.user, def |-> p.def, tags |-> TagsOf(p.id)']
          BY <3>1, <5>1, <5>2
        <5> QED BY <1>10, <5>3
      <4> QED BY <3>3, <4>1, <4>2
    <3> QED BY <3>2, <3>3
  <2> QED BY <1>2, <1>4, <1>8, <2>4, <2>6, <2>7, <2>9 DEF PB!Tag
<1> QED BY <1>12, <1>13

LEMMA RemovesTags ==
    ASSUME BookInv, NEW r \in Txs, RemoveTags(r)
    PROVE  PB!Untag(input[r]) \/ UNCHANGED <<Book, defs>>
<1>1. TypeInv /\ Base BY DEF BookInv, Base, IdsInv
<1>2. PICK i0, gone : i0 = pick[r] /\ gone = {have[r][t] : t \in Resolved(have[r])} OBVIOUS
<1>3. /\ pc[r] = "delete" /\ UNCHANGED <<tx, defs, tags, picks, input>>
      /\ tagsMap' = {m \in tagsMap : ~(m.pick = i0 /\ m.tag \in gone /\ IsCommitted(m.by))}
  BY <1>2 DEF RemoveTags, DeleteMap
<1>4. input[r].op = "RemoveTags" BY <1>3 DEF BookInv, OpInv
<1>5. i0 = input[r].pick BY <1>2, <1>3, <1>4 DEF BookInv, PickInv, PickFor
<1>6. PICK T : T = {t \in input[r].tags : tags[t].id \in gone /\ tags[t].id # 0} OBVIOUS
<1>7. ASSUME NEW i, i # i0 PROVE TagsOf(i)' = TagsOf(i)
  BY <1>3, <1>7 DEF TagsOf, SameMap, IsCommitted
<1>8. TagsOf(i0)' = TagsOf(i0) \ T
  <2>1. ASSUME NEW t \in Tags PROVE t \in TagsOf(i0)' <=> t \in TagsOf(i0) /\ t \notin T
    <3>1. t \in TagsOf(i0)' <=> /\ t \in TagsOf(i0) /\ tags[t].id \notin gone
      BY <1>3 DEF TagsOf, SameMap, IsCommitted
    <3>2. ASSUME t \in TagsOf(i0), tags[t].id \in gone PROVE t \in T
      <4>1. PICK m \in tagsMap : m.tag = tags[t].id /\ IsCommitted(m.by)
        BY <3>2 DEF TagsOf, SameMap
      <4>2. m.tag # 0 BY <1>1, <4>1, TextOf DEF IsCommitted
      <4>3. PICK u \in Tags : have[r][u] = m.tag BY <1>2, <3>2, <4>1 DEF Resolved
      <4>4. Claimed(t, m.tag) /\ Claimed(u, m.tag) BY <4>1, <4>2, <4>3 DEF Claimed
      <4>5. t = u BY <1>1, <4>1, <4>4, TextOf DEF IsCommitted
      <4>6. t \in input[r].tags BY <4>2, <4>3, <4>5 DEF BookInv, Base, IdsInv, HaveAsked
      <4> QED BY <1>6, <3>2, <4>1, <4>2, <4>6
    <3> QED BY <1>6, <3>1, <3>2
  <2>2. TagsOf(i0)' \subseteq Tags /\ TagsOf(i0) \subseteq Tags BY DEF TagsOf
  <2> QED BY <2>1, <2>2
<1>9. Book' = {[id |-> p.id, user |-> p.user, def |-> p.def, tags |-> TagsOf(p.id)'] :
                  p \in Committed}
  BY <1>3 DEF Book, Committed, IsCommitted
<1>10. Book = {[id |-> p.id, user |-> p.user, def |-> p.def, tags |-> TagsOf(p.id)] :
                  p \in Committed}
  BY DEF Book, Committed
<1>11. CASE \A p \in Committed : p.id # i0
  <2>1. \A p \in Committed : TagsOf(p.id)' = TagsOf(p.id) BY <1>7, <1>11
  <2> QED BY <1>3, <1>9, <1>10, <2>1
<1>12. ASSUME NEW p0 \in Committed, p0.id = i0 PROVE PB!Untag(input[r])
  <2>1. \A p \in Committed : p.id = i0 => p = p0
    BY <1>12 DEF Committed, BookInv, PickInv, PickKeys
  <2>2. PICK k : k = [id |-> p0.id, user |-> p0.user, def |-> p0.def, tags |-> TagsOf(p0.id)]
    OBVIOUS
  <2>3. k \in Book /\ k.id = i0 BY <1>10, <1>12, <2>2
  <2>4. PICK new : new = [k EXCEPT !.tags = @ \ T] OBVIOUS
  <2>5. new = [id |-> p0.id, user |-> p0.user, def |-> p0.def, tags |-> TagsOf(p0.id)']
    BY <1>8, <1>12, <2>2, <2>4
  <2>6. \A p \in Committed : p # p0 => TagsOf(p.id)' = TagsOf(p.id) BY <1>7, <2>1
  <2>7. ASSUME NEW e \in Book' PROVE e \in (Book \ {k}) \cup {new}
    <3>1. PICK p \in Committed :
            e = [id |-> p.id, user |-> p.user, def |-> p.def, tags |-> TagsOf(p.id)']
      BY <1>9, <2>7
    <3>2. CASE p = p0 BY <2>5, <3>1, <3>2
    <3>3. CASE p # p0
      <4>1. e \in Book BY <1>10, <2>6, <3>1, <3>3
      <4>2. e.id # k.id BY <2>1, <2>3, <3>1, <3>3
      <4> QED BY <4>1, <4>2
    <3> QED BY <3>2, <3>3
  <2>8. ASSUME NEW e \in (Book \ {k}) \cup {new} PROVE e \in Book'
    <3>1. CASE e = new BY <1>9, <1>12, <2>5, <3>1
    <3>2. CASE e \in Book \ {k}
      <4>1. PICK p \in Committed :
              e = [id |-> p.id, user |-> p.user, def |-> p.def, tags |-> TagsOf(p.id)]
        BY <1>10, <3>2
      <4>2. p # p0 BY <2>2, <3>2, <4>1
      <4>3. e = [id |-> p.id, user |-> p.user, def |-> p.def, tags |-> TagsOf(p.id)']
        BY <2>6, <4>1, <4>2
      <4> QED BY <1>9, <4>3
    <3> QED BY <2>8, <3>1, <3>2
  <2>9. Book' = (Book \ {k}) \cup {new} BY <2>7, <2>8
  <2>10. T \in SUBSET input[r].tags BY <1>6
  <2> QED BY <1>3, <1>4, <1>5, <2>3, <2>4, <2>9, <2>10 DEF PB!Untag
<1> QED BY <1>11, <1>12

\* What a delete of picks takes from the book, with the cascade into tags_map.
LEMMA DeletedPicks ==
    ASSUME NEW P, DeletePicks(P), UNCHANGED <<tx, tags>>
    PROVE  Book' = {k \in Book : k.id \notin P}
<1> DEFINE ids == {p.id : p \in {q \in picks : q.id \in P /\ IsCommitted(q.by)}}
<1>1. /\ picks' = picks \ {p \in picks : p.id \in P /\ IsCommitted(p.by)}
      /\ tagsMap' = {m \in tagsMap : ~(m.pick \in ids /\ IsCommitted(m.by))}
  BY DEF DeletePicks
<1>2. Committed' = {p \in Committed : p.id \notin P}
  BY <1>1 DEF Committed, IsCommitted
<1>3. ASSUME NEW i, i \notin P PROVE TagsOf(i)' = TagsOf(i)
  <2>1. i \notin ids BY <1>3
  <2> HIDE DEF ids
  <2> QED BY <1>1, <2>1 DEF TagsOf, SameMap, IsCommitted
<1>4. Book' = {[id |-> p.id, user |-> p.user, def |-> p.def, tags |-> TagsOf(p.id)'] :
                  p \in {q \in Committed : q.id \notin P}}
  BY <1>2 DEF Book, Committed
<1>5. Book' = {[id |-> p.id, user |-> p.user, def |-> p.def, tags |-> TagsOf(p.id)] :
                  p \in {q \in Committed : q.id \notin P}}
  BY <1>3, <1>4
<1> QED BY <1>5 DEF Book, Committed

LEMMA Unpicks ==
    ASSUME BookInv, NEW r \in Txs, UnpickWord(r) PROVE PB!Unpick(input[r])
<1>1. Book' = {k \in Book : k.id \notin {input[r].pick}} BY DeletedPicks DEF UnpickWord
<1> QED BY <1>1 DEF UnpickWord, PB!Unpick

LEMMA DeletesWord ==
    ASSUME BookInv, NEW r \in Txs, DeleteWord(r) PROVE PB!DeleteWord(input[r])
<1>1. PICK w, gone : w = input[r].word /\ gone = {d \in defs : WordOf[d] = w} OBVIOUS
<1>2. PICK P : P = {p.id : p \in {q \in picks : q.def \in gone}} OBVIOUS
<1>3. DeletePicks(P) /\ defs' = defs \ gone /\ UNCHANGED <<tx, tags>>
  BY <1>1, <1>2 DEF DeleteWord, DeleteWordRow
<1>4. Book' = {k \in Book : k.id \notin P} BY <1>3, DeletedPicks
<1>5. ASSUME NEW k \in Book PROVE k.id \notin P <=> WordOf[k.def] # w
  <2>1. PICK p \in picks : k.id = p.id /\ k.def = p.def BY DEF Book
  <2>2. p.def \in defs BY DEF BookInv, Base, CacheInv, RefInv, PicksHaveDefs
  <2>3. \A q \in picks : q.id = p.id => q = p BY DEF BookInv, PickInv, PickKeys
  <2> QED BY <1>1, <1>2, <2>1, <2>2, <2>3
<1>6. Book' = {k \in Book : WordOf[k.def] # w} BY <1>4, <1>5
<1>7. defs' = {d \in defs : WordOf[d] # w} BY <1>1, <1>3
<1>8. input[r].op = "DeleteWord" BY DEF DeleteWord
<1> QED BY <1>1, <1>6, <1>7, <1>8 DEF PB!DeleteWord

LEMMA BookSimulation ==
    ASSUME BookInv, BookInv', [Next]_vars, Nat \ {0} \subseteq PickIds
    PROVE  [PB!Next]_PB!bookVars
<1>1. Base /\ TypeInv BY DEF BookInv, Base, IdsInv
<1>2. UNCHANGED <<Book, defs>> \/ \E r \in Txs : Commit(r) \/ Deletes(r)
  BY <1>1, NextKinds, QuietSteps
<1>3. CASE UNCHANGED <<Book, defs>> BY <1>3 DEF PB!bookVars
<1>4. ASSUME NEW r \in Txs, Commit(r) \/ Deletes(r)
      PROVE  PB!Next \/ UNCHANGED <<Book, defs>>
  <2>1. input[r] \in Inputs BY <1>1 DEF TypeInv, TypeOK
  <2>2. CASE Commit(r) BY <2>1, <2>2, CommitPick, CommitAddTags DEF PB!Next
  <2>3. CASE RemoveTags(r) BY <2>1, <2>3, RemovesTags DEF PB!Next
  <2>4. CASE UnpickWord(r) BY <2>1, <2>4, Unpicks DEF PB!Next
  <2>5. CASE DeleteWord(r) BY <2>1, <2>5, DeletesWord DEF PB!Next
  <2> QED BY <1>4, <2>2, <2>3, <2>4, <2>5 DEF Deletes
<1> QED BY <1>2, <1>3, <1>4 DEF PB!bookVars

\* The requests of the words service, interleaved, rolled back and with stale
\* caches, change the picks as the operations of PickBook do, each in one step.
\* The serial of user_picks may give any positive id.
THEOREM ImplementsPickBookAlways ==
    ASSUME Nat \ {0} \subseteq PickIds PROVE Spec => ImplementsPickBook
<1>1. Init => PB!Init
  <2> SUFFICES ASSUME Init PROVE PB!Init OBVIOUS
  <2>1. picks = {} /\ defs = Defs BY DEF Init, StoreInit
  <2> QED BY <2>1 DEF PB!Init, Book
<1>2. BookInv /\ BookInv' /\ [Next]_vars => [PB!Next]_PB!bookVars BY BookSimulation
<1> QED BY <1>1, <1>2, BookInvariant, PTL DEF Spec, ImplementsPickBook, PB!Spec
=============================================================================
