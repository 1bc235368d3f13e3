----------------------------- MODULE WordsProofs -----------------------------
(***************************************************************************)
(* Proofs about WordsService, for any number of tags, users, definitions,  *)
(* replicas and requests.                                                  *)
(***************************************************************************)
EXTENDS WordsProps, FiniteSetTheorems, SequenceTheorems, TLAPS

TagOps == {"PickWord", "AddTags", "RemoveTags"}

\* A request is past "begin" only if it deals with tags.
PcOK ==
    \A r \in Txs : /\ pc[r] \notin {"begin", "done"} => input[r].op \in TagOps
                   /\ pc[r] = "createPick" => input[r].op = "PickWord"

\* A row is left to write whenever an INSERT is under way.
TodoOK ==
    \A r \in Txs : pc[r] \in {"createTags", "addTags"} => todo[r] # << >>

TypeInv == TypeOK /\ PcOK /\ TodoOK

-----------------------------------------------------------------------------
(* Data. *)

LEMMA OrderType ==
    ASSUME NEW T \in SUBSET Tags, NEW order \in SetToSeqs(T)
    PROVE  /\ order \in Seq(Tags)
           /\ T # {} => order # << >>
           /\ \A i \in DOMAIN order : order[i] \in T
<1>1. IsFiniteSet(T) BY TagsAssumption, FS_Subset
<1>2. Cardinality(T) \in Nat BY <1>1, FS_CardinalityType
<1>3. order \in [1 .. Cardinality(T) -> T] BY DEF SetToSeqs
<1>4. order \in Seq(T) BY <1>2, <1>3
<1>5. T # {} => Cardinality(T) # 0 BY <1>1, FS_EmptySet
<1>6. Len(order) = Cardinality(T) BY <1>2, <1>3
<1> QED BY <1>2, <1>3, <1>4, <1>5, <1>6

LEMMA HeadTail ==
    ASSUME NEW s \in Seq(Tags), s # << >>
    PROVE  /\ Head(s) \in Tags
           /\ Tail(s) \in Seq(Tags)
           /\ Len(s) # 1 => Tail(s) # << >>
           /\ 1 \in DOMAIN s /\ Head(s) = s[1]
           /\ \A i \in DOMAIN Tail(s) : i + 1 \in DOMAIN s /\ Tail(s)[i] = s[i + 1]
<1>1. /\ Head(s) \in Tags /\ Tail(s) \in Seq(Tags) /\ Len(Tail(s)) = Len(s) - 1
      /\ \A i \in 1 .. Len(Tail(s)) : Tail(s)[i] = s[i + 1]
  BY HeadTailProperties
<1>2. Len(s) \in Nat /\ Len(s) # 0 /\ DOMAIN s = 1 .. Len(s) BY EmptySeq, LenProperties
<1>3. Len(s) # 1 => Tail(s) # << >>
  <2>1. Len(<< >>) = 0 OBVIOUS
  <2> QED BY <1>1, <1>2, <2>1
<1>4. DOMAIN Tail(s) = 1 .. Len(s) - 1 BY <1>1, LenProperties
<1> QED BY <1>1, <1>2, <1>3, <1>4

LEMMA RequestTypes ==
    ASSUME NEW i \in Inputs
    PROVE  /\ i.op \in Ops
           /\ i.op \in TagOps => i.tags \in SUBSET Tags
           /\ i.op = "PickWord" => i.user \in Users /\ i.def \in Defs
           /\ i.op \in {"AddTags", "RemoveTags", "UnpickWord"} => i.pick \in Nat
BY InputsAssumption DEF Requests, Ops, TagOps

LEMMA MergeType ==
    ASSUME NEW old \in [Tags -> Nat], NEW new \in [Tags -> Nat]
    PROVE  Merge(old, new) \in [Tags -> Nat]
BY DEF Merge

LEMMA SelectType ==
    ASSUME StoreTypeOK, NEW x, NEW T
    PROVE  SelectTags(x, T) \in [Tags -> Nat]
BY DEF SelectTags, StoreTypeOK, TagRows

-----------------------------------------------------------------------------
(* The building blocks of the actions keep the types. *)

LEMMA GotoTypes ==
    ASSUME TypeInv, NEW r \in Txs, NEW label \in PCs, Goto(r, label),
           input' = input,
           label \notin {"begin", "done"} => input[r].op \in TagOps,
           label = "createPick" => input[r].op = "PickWord"
    PROVE  /\ pc' \in [Txs -> PCs]
           /\ resp' \in [Txs -> Statuses]
           /\ PcOK'
           /\ pc'[r] = label
           /\ \A s \in Txs \ {r} : pc'[s] = pc[s]
BY DEF Goto, TypeInv, TypeOK, PcOK

LEMMA InsertTypes ==
    ASSUME TypeInv, NEW r \in Txs, NEW T \in SUBSET Tags,
           NEW label \in PCs, NEW next \in PCs \ {"createTags", "addTags"},
           Insert(r, T, label, next), input' = input,
           input[r].op \in TagOps, "createPick" \notin {label, next}
    PROVE  /\ pc' \in [Txs -> PCs]
           /\ resp' \in [Txs -> Statuses]
           /\ todo' \in [Txs -> Seq(Tags)]
           /\ PcOK' /\ TodoOK'
<1>1. PICK order \in SetToSeqs(T) :
            /\ todo' = [todo EXCEPT ![r] = order]
            /\ Goto(r, IF T = {} THEN next ELSE label)
  BY DEF Insert
<1>2. order \in Seq(Tags) /\ (T # {} => order # << >>) BY OrderType
<1>3. /\ pc' \in [Txs -> PCs] /\ resp' \in [Txs -> Statuses] /\ PcOK'
      /\ pc'[r] = (IF T = {} THEN next ELSE label)
      /\ \A s \in Txs \ {r} : pc'[s] = pc[s]
  BY <1>1, GotoTypes
<1>4. todo' \in [Txs -> Seq(Tags)] BY <1>1, <1>2 DEF TypeInv, TypeOK
<1>5. TodoOK' BY <1>1, <1>2, <1>3 DEF TypeInv, TypeOK, TodoOK
<1> QED BY <1>3, <1>4, <1>5

LEMMA UseTagsTypes ==
    ASSUME TypeInv, NEW r \in Txs, NEW ids \in [Tags -> Nat],
           UseTags(r, ids), input' = input
    PROVE  /\ pc' \in [Txs -> PCs]
           /\ resp' \in [Txs -> Statuses]
           /\ todo' \in [Txs -> Seq(Tags)]
           /\ PcOK' /\ TodoOK'
<1>1. CASE input[r].op = "PickWord" /\ Goto(r, "createPick") /\ UNCHANGED todo
  <2>1. "createPick" \in PCs /\ input[r].op \in TagOps BY <1>1 DEF PCs, TagOps
  <2>2. /\ pc' \in [Txs -> PCs] /\ resp' \in [Txs -> Statuses] /\ PcOK'
        /\ pc'[r] = "createPick" /\ \A s \in Txs \ {r} : pc'[s] = pc[s]
    BY <1>1, <2>1, GotoTypes
  <2> QED BY <1>1, <2>2 DEF TypeInv, TypeOK, TodoOK
<1>2. CASE /\ input[r].op = "AddTags"
           /\ Insert(r, Resolved(ids), "addTags", "checkRefs")
  <2>1. Resolved(ids) \in SUBSET Tags BY DEF Resolved
  <2>2. "addTags" \in PCs /\ "checkRefs" \in PCs \ {"createTags", "addTags"}
    BY DEF PCs
  <2>3. input[r].op \in TagOps BY <1>2 DEF TagOps
  <2> QED BY <1>2, <2>1, <2>2, <2>3, InsertTypes
<1>3. CASE input[r].op = "RemoveTags" /\ Goto(r, "delete") /\ UNCHANGED todo
  <2>1. "delete" \in PCs /\ input[r].op \in TagOps BY <1>3 DEF PCs, TagOps
  <2>2. /\ pc' \in [Txs -> PCs] /\ resp' \in [Txs -> Statuses] /\ PcOK'
        /\ pc'[r] = "delete" /\ \A s \in Txs \ {r} : pc'[s] = pc[s]
    BY <1>3, <2>1, GotoTypes
  <2> QED BY <1>3, <2>2 DEF TypeInv, TypeOK, TodoOK
<1> QED BY <1>1, <1>2, <1>3 DEF UseTags

LEMMA RespondTypes ==
    ASSUME TypeInv, NEW r \in Txs, NEW status \in Statuses, Respond(r, status),
           input' = input
    PROVE  /\ pc' \in [Txs -> PCs]
           /\ resp' \in [Txs -> Statuses]
           /\ have' \in [Txs -> [Tags -> Nat]]
           /\ todo' \in [Txs -> Seq(Tags)]
           /\ pick' \in [Txs -> Nat]
           /\ PcOK' /\ TodoOK'
<1>1. "done" \in PCs /\ NoIds \in [Tags -> Nat] /\ << >> \in Seq(Tags)
  BY DEF PCs, NoIds
<1>2. /\ pc' \in [Txs -> PCs] /\ resp' \in [Txs -> Statuses]
      /\ have' \in [Txs -> [Tags -> Nat]] /\ todo' \in [Txs -> Seq(Tags)]
      /\ pick' \in [Txs -> Nat]
  BY <1>1 DEF Respond, TypeInv, TypeOK
<1>3. PcOK' BY DEF Respond, TypeInv, TypeOK, PcOK
<1>4. TodoOK' BY DEF Respond, TypeInv, TypeOK, TodoOK
<1> QED BY <1>2, <1>3, <1>4

LEMMA RollbackTypes ==
    ASSUME StoreTypeOK, NEW X, Rollback(X), UNCHANGED <<defs, nextTag, nextPick>>
    PROVE  StoreTypeOK'
<1>1. NoRow \in TagRows BY DEF NoRow, TagRows
<1>2. tags' \in [Tags -> TagRows] BY <1>1 DEF Rollback, StoreTypeOK
<1>3. tx' \in [Txs -> TxStates] BY DEF Rollback, StoreTypeOK, TxStates
<1>4. picks' \subseteq PickRows /\ tagsMap' \subseteq MapRows
  BY DEF Rollback, StoreTypeOK
<1> QED BY <1>2, <1>3, <1>4 DEF StoreTypeOK

LEMMA FailTypes ==
    ASSUME TypeInv, NEW r \in Txs, NEW status \in Statuses, Fail(r, status)
    PROVE  TypeInv'
<1>1. StoreTypeOK' BY RollbackTypes DEF Fail, TypeInv, TypeOK
<1>2. input' = input /\ cache' = cache /\ Respond(r, status) BY DEF Fail
<1> QED BY <1>1, <1>2, RespondTypes DEF TypeInv, TypeOK

LEMMA DeletePicksTypes ==
    ASSUME StoreTypeOK, NEW P, DeletePicks(P)
    PROVE  picks' \subseteq PickRows /\ tagsMap' \subseteq MapRows
BY DEF StoreTypeOK, DeletePicks

-----------------------------------------------------------------------------
(* Every action keeps the types. *)

LEMMA BeginTypes == ASSUME TypeInv, NEW r \in Txs, Begin(r) PROVE TypeInv'
<1> DEFINE hits == CacheLookup(r)
<1>1. input[r] \in Inputs /\ input[r].op \in TagOps
  BY DEF Begin, TypeInv, TypeOK, TagOps
<1>2. input[r].tags \in SUBSET Tags BY <1>1, RequestTypes
<1>3. hits \in [Tags -> Nat]
  BY HostAssumption DEF CacheLookup, TypeInv, TypeOK
<1>4. tx' \in [Txs -> TxStates]
  BY DEF Begin, TypeInv, TypeOK, StoreTypeOK, TxStates
<1>5. pick' \in [Txs -> Nat]
  BY <1>1, RequestTypes DEF Begin, TypeInv, TypeOK, TagOps
<1>6. have' \in [Txs -> [Tags -> Nat]] BY <1>3 DEF Begin, TypeInv, TypeOK
<1>7. /\ pc' \in [Txs -> PCs] /\ resp' \in [Txs -> Statuses]
      /\ todo' \in [Txs -> Seq(Tags)] /\ PcOK' /\ TodoOK'
  <2>1. input' = input BY DEF Begin
  <2>2. CASE Missing(r, hits) # {}
    <3>1. Goto(r, "getTags") /\ todo' = todo BY <2>2 DEF Begin
    <3>2. "getTags" \in PCs BY DEF PCs
    <3> QED BY <1>1, <2>1, <3>1, <3>2, GotoTypes DEF TypeInv, TypeOK, TodoOK
  <2>3. CASE Missing(r, hits) = {}
    <3>1. UseTags(r, hits) BY <2>3 DEF Begin
    <3> HIDE DEF hits
    <3> QED BY <1>3, <2>1, <3>1, UseTagsTypes
  <2> QED BY <2>2, <2>3
<1>8. UNCHANGED <<defs, tags, nextTag, picks, nextPick, tagsMap, input, cache>>
  BY DEF Begin
<1>9. StoreTypeOK' BY <1>4, <1>8 DEF TypeInv, TypeOK, StoreTypeOK
<1> QED BY <1>5, <1>6, <1>7, <1>8, <1>9 DEF TypeInv, TypeOK

LEMMA StoreToCacheTypes ==
    ASSUME TypeInv, NEW r \in Txs, NEW ids \in [Tags -> Nat], StoreToCache(r, ids)
    PROVE  cache' \in [Procs -> [Tags -> Nat]]
<1>1. Host[r] \in Procs BY HostAssumption
<1>2. cache[Host[r]] \in [Tags -> Nat] BY <1>1 DEF TypeInv, TypeOK
<1>3. Merge(cache[Host[r]], ids) \in [Tags -> Nat] BY <1>2, MergeType
<1> QED BY <1>1, <1>3 DEF StoreToCache, TypeInv, TypeOK

LEMMA GetTagsTypes == ASSUME TypeInv, NEW r \in Txs, GetTags(r) PROVE TypeInv'
<1> DEFINE fetched == SelectTags(r, Missing(r, have[r]))
           ids     == Merge(have[r], fetched)
<1>1. input[r] \in Inputs /\ input[r].op \in TagOps
  BY DEF GetTags, TypeInv, TypeOK, PcOK
<1>2. input[r].tags \in SUBSET Tags BY <1>1, RequestTypes
<1>3. fetched \in [Tags -> Nat] BY SelectType DEF TypeInv, TypeOK
<1>4. ids \in [Tags -> Nat]
  <2> HIDE DEF fetched
  <2> QED BY <1>3, MergeType DEF TypeInv, TypeOK
<1>5. /\ StoreToCache(r, fetched) /\ have' = [have EXCEPT ![r] = ids]
      /\ UNCHANGED <<storeVars, input, pick>>
  BY DEF GetTags
<1>6. cache' \in [Procs -> [Tags -> Nat]]
  <2> HIDE DEF fetched
  <2> QED BY <1>3, <1>5, StoreToCacheTypes
<1>7. have' \in [Txs -> [Tags -> Nat]] BY <1>4, <1>5 DEF TypeInv, TypeOK
<1>8. /\ pc' \in [Txs -> PCs] /\ resp' \in [Txs -> Statuses]
      /\ todo' \in [Txs -> Seq(Tags)] /\ PcOK' /\ TodoOK'
  <2>1. input' = input BY DEF GetTags
  <2>2. CASE Missing(r, ids) # {} /\ input[r].op # "RemoveTags"
    <3>1. Insert(r, Missing(r, ids), "createTags", "readTags") BY <2>2 DEF GetTags
    <3>2. Missing(r, ids) \in SUBSET Tags BY <1>2 DEF Missing
    <3>3. "createTags" \in PCs /\ "readTags" \in PCs \ {"createTags", "addTags"}
      BY DEF PCs
    <3> HIDE DEF ids
    <3> QED BY <1>1, <2>1, <3>1, <3>2, <3>3, InsertTypes
  <2>3. CASE ~(Missing(r, ids) # {} /\ input[r].op # "RemoveTags")
    <3>1. UseTags(r, ids) BY <2>3 DEF GetTags
    <3> HIDE DEF ids
    <3> QED BY <1>4, <2>1, <3>1, UseTagsTypes
  <2> QED BY <2>2, <2>3
<1> QED BY <1>5, <1>6, <1>7, <1>8 DEF TypeInv, TypeOK, StoreTypeOK, storeVars

LEMMA CreateTagTypes == ASSUME TypeInv, NEW r \in Txs, CreateTag(r) PROVE TypeInv'
<1>1. todo[r] \in Seq(Tags) /\ todo[r] # << >> /\ input[r].op \in TagOps
  BY DEF CreateTag, TypeInv, TypeOK, TodoOK, PcOK
<1>2. /\ Head(todo[r]) \in Tags /\ Tail(todo[r]) \in Seq(Tags)
      /\ Len(todo[r]) # 1 => Tail(todo[r]) # << >>
  BY <1>1, HeadTail
<1>3. tags' \in [Tags -> TagRows] /\ nextTag' \in Nat \ {0}
  BY <1>2 DEF CreateTag, InsertTag, TypeInv, TypeOK, StoreTypeOK, TagRows
<1>4. StoreTypeOK' BY <1>3 DEF CreateTag, TypeInv, TypeOK, StoreTypeOK
<1>5. todo' \in [Txs -> Seq(Tags)] BY <1>2 DEF CreateTag, TypeInv, TypeOK
<1>6. PICK label \in {"readTags", "createTags"} :
            Goto(r, label) /\ (label = "createTags" => Len(todo[r]) # 1)
  BY DEF CreateTag
<1>7. label \in PCs BY DEF PCs
<1>8. input' = input BY DEF CreateTag
<1>9. /\ pc' \in [Txs -> PCs] /\ resp' \in [Txs -> Statuses] /\ PcOK'
      /\ pc'[r] = label /\ \A s \in Txs \ {r} : pc'[s] = pc[s]
  BY <1>1, <1>6, <1>7, <1>8, GotoTypes
<1>10. TodoOK'
  BY <1>2, <1>6, <1>9 DEF CreateTag, TypeInv, TypeOK, TodoOK
<1> QED BY <1>4, <1>5, <1>9, <1>10 DEF CreateTag, TypeInv, TypeOK

LEMMA ReadTagsTypes == ASSUME TypeInv, NEW r \in Txs, ReadTags(r) PROVE TypeInv'
<1> DEFINE created == SelectTags(r, Missing(r, have[r]))
           ids     == Merge(have[r], created)
<1>1. created \in [Tags -> Nat] BY SelectType DEF TypeInv, TypeOK
<1>2. ids \in [Tags -> Nat]
  <2> HIDE DEF created
  <2> QED BY <1>1, MergeType DEF TypeInv, TypeOK
<1>3. /\ StoreToCache(r, created) /\ have' = [have EXCEPT ![r] = ids]
      /\ UseTags(r, ids) /\ UNCHANGED <<storeVars, input, pick>>
  BY DEF ReadTags
<1>4. cache' \in [Procs -> [Tags -> Nat]]
  <2> HIDE DEF created
  <2> QED BY <1>1, <1>3, StoreToCacheTypes
<1>5. have' \in [Txs -> [Tags -> Nat]] BY <1>2, <1>3 DEF TypeInv, TypeOK
<1>6. /\ pc' \in [Txs -> PCs] /\ resp' \in [Txs -> Statuses]
      /\ todo' \in [Txs -> Seq(Tags)] /\ PcOK' /\ TodoOK'
  <2> HIDE DEF ids
  <2> QED BY <1>2, <1>3, UseTagsTypes
<1> QED BY <1>3, <1>4, <1>5, <1>6 DEF TypeInv, TypeOK, StoreTypeOK, storeVars

LEMMA CreatePickTypes == ASSUME TypeInv, NEW r \in Txs, CreatePick(r) PROVE TypeInv'
<1> DEFINE u == input[r].user
           d == input[r].def
<1>1. input[r] \in Inputs /\ input[r].op = "PickWord" /\ input[r].op \in TagOps
  BY DEF CreatePick, TypeInv, TypeOK, PcOK, TagOps
<1>2. u \in Users /\ d \in Defs BY <1>1, RequestTypes
<1>3. nextPick' \in Nat \ {0} /\ UNCHANGED <<defs, nextTag, input, cache>>
  BY DEF CreatePick, TypeInv, TypeOK, StoreTypeOK
<1>4. CASE SamePick(u, d) # {} \/ d \notin defs
  <2>1. PICK status \in {"409", "500"} : Rollback({r}) /\ Respond(r, status)
    BY <1>4 DEF CreatePick
  <2>2. status \in Statuses BY DEF Statuses
  <2>3. NoRow \in TagRows BY DEF NoRow, TagRows
  <2>4. StoreTypeOK'
    BY <1>3, <2>1, <2>3 DEF Rollback, TypeInv, TypeOK, StoreTypeOK, TxStates
  <2> QED BY <1>3, <2>1, <2>2, <2>4, RespondTypes DEF TypeInv, TypeOK
<1>5. CASE ~(SamePick(u, d) # {} \/ d \notin defs)
  <2>1. /\ picks' = picks \cup {PickRow(r, u, d)}
        /\ pick' = [pick EXCEPT ![r] = nextPick]
        /\ Insert(r, Resolved(have[r]), "addTags", "checkRefs")
        /\ UNCHANGED <<tx, tags, tagsMap, have>>
    BY <1>5 DEF CreatePick
  <2>2. PickRow(r, u, d) \in PickRows
    BY <1>2 DEF PickRow, PickRows, TypeInv, TypeOK, StoreTypeOK
  <2>3. StoreTypeOK' BY <1>3, <2>1, <2>2 DEF TypeInv, TypeOK, StoreTypeOK
  <2>4. pick' \in [Txs -> Nat] BY <2>1 DEF TypeInv, TypeOK, StoreTypeOK
  <2>5. Resolved(have[r]) \in SUBSET Tags BY DEF Resolved
  <2>6. "addTags" \in PCs /\ "checkRefs" \in PCs \ {"createTags", "addTags"}
    BY DEF PCs
  <2>7. /\ pc' \in [Txs -> PCs] /\ resp' \in [Txs -> Statuses]
        /\ todo' \in [Txs -> Seq(Tags)] /\ PcOK' /\ TodoOK'
    BY <1>1, <1>3, <2>1, <2>5, <2>6, InsertTypes
  <2> QED BY <1>3, <2>1, <2>3, <2>4, <2>7 DEF TypeInv, TypeOK
<1> QED BY <1>4, <1>5

LEMMA AddTagTypes == ASSUME TypeInv, NEW r \in Txs, AddTag(r) PROVE TypeInv'
<1> DEFINE i == have[r][Head(todo[r])]
<1>1. todo[r] \in Seq(Tags) /\ todo[r] # << >> /\ input[r].op \in TagOps
  BY DEF AddTag, TypeInv, TypeOK, TodoOK, PcOK
<1>2. /\ Head(todo[r]) \in Tags /\ Tail(todo[r]) \in Seq(Tags)
      /\ Len(todo[r]) # 1 => Tail(todo[r]) # << >>
  BY <1>1, HeadTail
<1>3. i \in Nat /\ pick[r] \in Nat BY <1>2 DEF TypeInv, TypeOK
<1>4. CASE SameMap(pick[r], i) # {}
  <2>1. "500" \in Statuses BY DEF Statuses
  <2> QED BY <1>4, <2>1, FailTypes DEF AddTag
<1>5. CASE SameMap(pick[r], i) = {}
  <2>1. /\ tagsMap' = tagsMap \cup {[pick |-> pick[r], tag |-> i, by |-> r]}
        /\ todo' = [todo EXCEPT ![r] = Tail(todo[r])]
        /\ Goto(r, IF Len(todo[r]) = 1 THEN "checkRefs" ELSE "addTags")
        /\ UNCHANGED <<tx, defs, tags, nextTag, picks, nextPick,
                       input, have, pick, cache>>
    BY <1>5 DEF AddTag
  <2>2. StoreTypeOK' BY <1>3, <2>1 DEF TypeInv, TypeOK, StoreTypeOK, MapRows
  <2>3. todo' \in [Txs -> Seq(Tags)] BY <1>2, <2>1 DEF TypeInv, TypeOK
  <2>4. PICK label \in {"checkRefs", "addTags"} :
              Goto(r, label) /\ (label = "addTags" => Len(todo[r]) # 1)
    BY <2>1
  <2>5. label \in PCs BY DEF PCs
  <2>6. /\ pc' \in [Txs -> PCs] /\ resp' \in [Txs -> Statuses] /\ PcOK'
        /\ pc'[r] = label /\ \A s \in Txs \ {r} : pc'[s] = pc[s]
    BY <1>1, <2>1, <2>4, <2>5, GotoTypes
  <2>7. TodoOK' BY <1>2, <2>1, <2>4, <2>6 DEF TypeInv, TypeOK, TodoOK
  <2> QED BY <2>1, <2>2, <2>3, <2>6, <2>7 DEF TypeInv, TypeOK
<1> QED BY <1>4, <1>5

LEMMA CheckRefsTypes == ASSUME TypeInv, NEW r \in Txs, CheckRefs(r) PROVE TypeInv'
<1>1. input[r].op \in TagOps BY DEF CheckRefs, TypeInv, PcOK
<1>2. CASE RefsHold(r)
  <2>1. /\ tx' = [tx EXCEPT ![r] = "checked"] /\ Goto(r, "commit")
        /\ UNCHANGED <<defs, tags, nextTag, picks, nextPick, tagsMap,
                       input, have, todo, pick, cache>>
    BY <1>2 DEF CheckRefs
  <2>2. StoreTypeOK' BY <2>1 DEF TypeInv, TypeOK, StoreTypeOK, TxStates
  <2>3. "commit" \in PCs BY DEF PCs
  <2>4. /\ pc' \in [Txs -> PCs] /\ resp' \in [Txs -> Statuses] /\ PcOK'
        /\ pc'[r] = "commit" /\ \A s \in Txs \ {r} : pc'[s] = pc[s]
    BY <1>1, <2>1, <2>3, GotoTypes
  <2>5. TodoOK' BY <2>1, <2>4 DEF TypeInv, TypeOK, TodoOK
  <2> QED BY <2>1, <2>2, <2>4, <2>5 DEF TypeInv, TypeOK
<1>3. CASE ~RefsHold(r)
  <2>1. PICK status \in {"404", "500"} : Fail(r, status) BY <1>3 DEF CheckRefs
  <2>2. status \in Statuses BY DEF Statuses
  <2> QED BY <2>1, <2>2, FailTypes
<1> QED BY <1>2, <1>3

LEMMA CommitTypes == ASSUME TypeInv, NEW r \in Txs, Commit(r) PROVE TypeInv'
<1>1. PICK status \in {"ok", "500"} : Respond(r, status) BY DEF Commit
<1>2. status \in Statuses BY DEF Statuses
<1>3. StoreTypeOK' BY DEF Commit, TypeInv, TypeOK, StoreTypeOK, TxStates
<1>4. input' = input /\ cache' = cache BY DEF Commit
<1> QED BY <1>1, <1>2, <1>3, <1>4, RespondTypes DEF TypeInv, TypeOK

LEMMA DeleteTypes ==
    ASSUME TypeInv, NEW r \in Txs,
           RemoveTags(r) \/ UnpickWord(r) \/ DeleteWord(r)
    PROVE  TypeInv'
<1>1. PICK status \in {"ok", "500"} : Respond(r, status)
  BY DEF RemoveTags, UnpickWord, DeleteWord, Deleted
<1>a. status \in Statuses BY DEF Statuses
<1>2. UNCHANGED <<tx, tags, nextTag, nextPick, input, cache>>
  BY DEF RemoveTags, UnpickWord, DeleteWord
<1>3. picks' \subseteq PickRows /\ tagsMap' \subseteq MapRows /\ defs' \subseteq Defs
  <2>1. CASE RemoveTags(r)
    BY <2>1 DEF RemoveTags, DeleteMap, TypeInv, TypeOK, StoreTypeOK
  <2>2. CASE UnpickWord(r)
    BY <2>2, DeletePicksTypes DEF UnpickWord, TypeInv, TypeOK, StoreTypeOK
  <2>3. CASE DeleteWord(r)
    <3>1. defs' \subseteq Defs
      BY <2>3 DEF DeleteWord, DeleteWordRow, TypeInv, TypeOK, StoreTypeOK
    <3>2. PICK P : DeletePicks(P) BY <2>3 DEF DeleteWord, DeleteWordRow
    <3> QED BY <3>1, <3>2, DeletePicksTypes DEF TypeInv, TypeOK
  <2> QED BY <2>1, <2>2, <2>3
<1>4. StoreTypeOK' BY <1>2, <1>3 DEF TypeInv, TypeOK, StoreTypeOK
<1> QED BY <1>1, <1>a, <1>2, <1>4, RespondTypes DEF TypeInv, TypeOK

LEMMA EvictTypes ==
    ASSUME TypeInv, NEW p \in Procs, NEW t \in Tags, Evict(p, t) PROVE TypeInv'
<1>1. cache' \in [Procs -> [Tags -> Nat]] BY DEF Evict, TypeInv, TypeOK
<1>2. UNCHANGED <<storeVars, input, pc, have, todo, pick, resp>> BY DEF Evict
<1> QED BY <1>1, <1>2
        DEF TypeInv, TypeOK, StoreTypeOK, storeVars, PcOK, TodoOK

LEMMA RestartTypes == ASSUME TypeInv, NEW p \in Procs, Restart(p) PROVE TypeInv'
<1>1. PICK lost \in SUBSET Txs :
        /\ Rollback(lost)
        /\ pc' = [r \in Txs |-> IF r \in lost THEN "done" ELSE pc[r]]
        /\ resp' = [r \in Txs |-> IF r \in lost THEN "lost" ELSE resp[r]]
        /\ have' = [r \in Txs |-> IF r \in lost THEN NoIds ELSE have[r]]
        /\ todo' = [r \in Txs |-> IF r \in lost THEN << >> ELSE todo[r]]
        /\ pick' = [r \in Txs |-> IF r \in lost THEN 0 ELSE pick[r]]
        /\ cache' = [cache EXCEPT ![p] = NoIds]
        /\ UNCHANGED <<defs, nextTag, nextPick, input>>
  BY DEF Restart
<1>2. StoreTypeOK' BY <1>1, RollbackTypes DEF TypeInv, TypeOK
<1>3. NoIds \in [Tags -> Nat] /\ << >> \in Seq(Tags) BY DEF NoIds
<1>4. /\ pc' \in [Txs -> PCs] /\ resp' \in [Txs -> Statuses]
      /\ pick' \in [Txs -> Nat] /\ input' \in [Txs -> Inputs]
  BY <1>1 DEF TypeInv, TypeOK, PCs, Statuses
<1>5. /\ have' \in [Txs -> [Tags -> Nat]] /\ todo' \in [Txs -> Seq(Tags)]
      /\ cache' \in [Procs -> [Tags -> Nat]]
  BY <1>1, <1>3 DEF TypeInv, TypeOK
<1>6. PcOK' BY <1>1 DEF TypeInv, TypeOK, PcOK
<1>7. TodoOK' BY <1>1 DEF TypeInv, TypeOK, TodoOK
<1> QED BY <1>2, <1>4, <1>5, <1>6, <1>7 DEF TypeInv, TypeOK

LEMMA InitTypes == Init => TypeInv
<1> SUFFICES ASSUME Init PROVE TypeInv OBVIOUS
<1>1. NoRow \in TagRows /\ NoIds \in [Tags -> Nat] /\ << >> \in Seq(Tags)
  BY DEF NoRow, TagRows, NoIds
<1>2. StoreTypeOK BY <1>1 DEF Init, StoreInit, StoreTypeOK, TxStates
<1>3. /\ input \in [Txs -> Inputs] /\ pc \in [Txs -> PCs]
      /\ pick \in [Txs -> Nat] /\ resp \in [Txs -> Statuses]
  BY DEF Init, PCs, Statuses
<1>4. /\ have \in [Txs -> [Tags -> Nat]] /\ todo \in [Txs -> Seq(Tags)]
      /\ cache \in [Procs -> [Tags -> Nat]]
  BY <1>1 DEF Init
<1>5. PcOK /\ TodoOK BY DEF Init, PcOK, TodoOK
<1> QED BY <1>2, <1>3, <1>4, <1>5 DEF TypeInv, TypeOK

LEMMA NextTypes == TypeInv /\ [Next]_vars => TypeInv'
<1> SUFFICES ASSUME TypeInv, [Next]_vars PROVE TypeInv' OBVIOUS
<1>1. CASE \E r \in Txs : Step(r)
  <2>1. PICK r \in Txs : Step(r) BY <1>1
  <2> QED BY <2>1, BeginTypes, GetTagsTypes, CreateTagTypes, ReadTagsTypes,
             CreatePickTypes, AddTagTypes, CheckRefsTypes, CommitTypes, DeleteTypes
          DEF Step
<1>2. CASE \E r \in Txs : Cancel(r) \/ DeadlockAbort(r)
  <2>1. "500" \in Statuses BY DEF Statuses
  <2> QED BY <1>2, <2>1, FailTypes DEF Cancel, DeadlockAbort
<1>3. CASE \E p \in Procs : Restart(p) \/ \E t \in Tags : Evict(p, t)
  BY <1>3, RestartTypes, EvictTypes
<1>4. CASE UNCHANGED vars
  BY <1>4 DEF vars, storeVars, serviceVars, TypeInv, TypeOK, StoreTypeOK, PcOK, TodoOK
<1> QED BY <1>1, <1>2, <1>3, <1>4 DEF Next, Finished

\* Every variable keeps its type, a row is left to write whenever an INSERT is under
\* way, and only requests that deal with tags get past their first statement.
THEOREM TypeCorrect == Spec => []TypeOK
<1>1. Spec => []TypeInv BY InitTypes, NextTypes, PTL DEF Spec
<1>2. TypeInv => TypeOK BY DEF TypeInv
<1> QED BY <1>1, <1>2, PTL

-----------------------------------------------------------------------------
(* Ids of tags. *)

\* Somebody takes i for the id of t: the table, a cache or a request.
Claimed(t, i) ==
    /\ i # 0
    /\ \/ tags[t].id = i
       \/ \E p \in Procs : cache[p][t] = i
       \/ \E r \in Txs : have[r][t] = i

OneClaim    == \A t, u \in Tags, i \in Nat : Claimed(t, i) /\ Claimed(u, i) => t = u
SerialAhead == \A t \in Tags, i \in Nat : Claimed(t, i) => i < nextTag

\* A row of tags_map has an id the serial has given out.
MapIds == \A row \in tagsMap : row.tag # 0 /\ row.tag < nextTag

\* A request resolves only the tags it was sent.
HaveAsked ==
    \A r \in Txs, t \in Tags : have[r][t] # 0 => t \in input[r].tags

\* The rows of tags_map still to write are those of resolved tags.
TodoResolved ==
    \A r \in Txs : pc[r] = "addTags" =>
        \A k \in DOMAIN todo[r] : have[r][todo[r][k]] # 0

IdsInv ==
    /\ TypeInv
    /\ OneClaim /\ SerialAhead /\ MapIds /\ HaveAsked /\ TodoResolved
    /\ NoStrayTag

LEMMA OneClaimIsOneTagPerId ==
    ASSUME TypeInv, OneClaim PROVE OneTagPerId
<1> SUFFICES ASSUME NEW t \in Tags, NEW u \in Tags, NEW i \in Claims(t) \cap Claims(u)
             PROVE  t = u
  BY DEF OneTagPerId
<1>1. Claimed(t, i) /\ Claimed(u, i) BY DEF Claims, Claimed
<1>2. i \in Nat BY DEF Claims, TypeInv, TypeOK, StoreTypeOK, TagRows
<1> QED BY <1>1, <1>2 DEF OneClaim

\* Every step but the two that write rows: nobody learns an id from nowhere.
LEMMA NoNewIds ==
    ASSUME IdsInv, TypeInv', input' = input, nextTag' = nextTag,
           tagsMap' \subseteq tagsMap,
           \A t \in Tags : tags'[t] \in {tags[t], NoRow},
           \A t \in Tags, i \in Nat : Claimed(t, i)' => Claimed(t, i),
           HaveAsked', TodoResolved'
    PROVE  IdsInv'
<1>1. OneClaim' BY DEF IdsInv, OneClaim
<1>2. SerialAhead' BY DEF IdsInv, SerialAhead
<1>3. MapIds' BY DEF IdsInv, MapIds
<1>4. NoStrayTag' BY DEF IdsInv, NoStrayTag, MapIds, NoRow
<1> QED BY <1>1, <1>2, <1>3, <1>4 DEF IdsInv

\* The claims of a step that leaves the table alone: the ids it stores in a cache
\* or in a request were claimed before.
LEMMA StoredClaims ==
    ASSUME TypeInv, NEW r \in Txs,
           NEW ids \in [Tags -> Nat], NEW cached \in [Tags -> Nat],
           have' = [have EXCEPT ![r] = ids],
           cache' = [cache EXCEPT ![Host[r]] = cached],
           \A t \in Tags : tags'[t] = tags[t],
           \A t \in Tags : ids[t] # 0 => Claimed(t, ids[t]),
           \A t \in Tags : cached[t] # 0 => Claimed(t, cached[t])
    PROVE  \A t \in Tags, i \in Nat : Claimed(t, i)' => Claimed(t, i)
<1> SUFFICES ASSUME NEW t \in Tags, NEW i \in Nat, Claimed(t, i)' PROVE Claimed(t, i)
  OBVIOUS
<1>1. CASE tags'[t].id = i BY <1>1 DEF Claimed
<1>2. CASE \E p \in Procs : cache'[p][t] = i
  <2>1. PICK p \in Procs : cache'[p][t] = i BY <1>2
  <2>2. CASE p = Host[r] BY <2>1, <2>2 DEF Claimed, TypeInv, TypeOK
  <2>3. CASE p # Host[r] BY <2>1, <2>3 DEF Claimed, TypeInv, TypeOK
  <2> QED BY <2>2, <2>3
<1>3. CASE \E x \in Txs : have'[x][t] = i
  <2>1. PICK x \in Txs : have'[x][t] = i BY <1>3
  <2>2. CASE x = r BY <2>1, <2>2 DEF Claimed, TypeInv, TypeOK
  <2>3. CASE x # r BY <2>1, <2>3 DEF Claimed, TypeInv, TypeOK
  <2> QED BY <2>2, <2>3
<1> QED BY <1>1, <1>2, <1>3 DEF Claimed

LEMMA MergedIds ==
    ASSUME TypeInv, NEW r \in Txs, NEW old \in [Tags -> Nat],
           \A t \in Tags : old[t] # 0 => Claimed(t, old[t])
    PROVE  LET new == SelectTags(r, Missing(r, have[r])) IN
           /\ new \in [Tags -> Nat] /\ Merge(old, new) \in [Tags -> Nat]
           /\ \A t \in Tags : new[t] # 0 => t \in input[r].tags
           /\ \A t \in Tags :
                 Merge(old, new)[t] # 0 => Claimed(t, Merge(old, new)[t])
<1> DEFINE new == SelectTags(r, Missing(r, have[r]))
<1>1. new \in [Tags -> Nat] BY SelectType DEF TypeInv, TypeOK
<1>2. \A t \in Tags : new[t] # 0 => new[t] = tags[t].id /\ t \in input[r].tags
  BY DEF SelectTags, Missing
<1>3. \A t \in Tags : new[t] # 0 => Claimed(t, new[t]) BY <1>2 DEF Claimed
<1> HIDE DEF new
<1>4. Merge(old, new) \in [Tags -> Nat] BY <1>1, MergeType
<1>5. \A t \in Tags : Merge(old, new)[t] \in {old[t], new[t]}
                     /\ (new[t] = 0 => Merge(old, new)[t] = old[t])
  BY DEF Merge
<1>6. \A t \in Tags : Merge(old, new)[t] # 0 => Claimed(t, Merge(old, new)[t])
  BY <1>3, <1>5
<1> QED BY <1>1, <1>2, <1>4, <1>6 DEF new

LEMMA UseTagsResolved ==
    ASSUME IdsInv, NEW r \in Txs, NEW ids \in [Tags -> Nat], UseTags(r, ids),
           have' = [have EXCEPT ![r] = ids]
    PROVE  TodoResolved'
<1>1. \A s \in Txs \ {r} : pc'[s] = pc[s] /\ todo'[s] = todo[s] /\ have'[s] = have[s]
  BY DEF UseTags, Goto, Insert, IdsInv, TypeInv, TypeOK
<1>2. have'[r] = ids BY DEF IdsInv, TypeInv, TypeOK
<1>3. ASSUME pc'[r] = "addTags", NEW k \in DOMAIN todo'[r] PROVE ids[todo'[r][k]] # 0
  <2>1. Insert(r, Resolved(ids), "addTags", "checkRefs")
    BY <1>3 DEF UseTags, Goto, IdsInv, TypeInv, TypeOK
  <2>2. PICK order \in SetToSeqs(Resolved(ids)) : todo' = [todo EXCEPT ![r] = order]
    BY <2>1 DEF Insert
  <2>3. todo'[r] = order BY <2>2 DEF IdsInv, TypeInv, TypeOK
  <2>4. Resolved(ids) \in SUBSET Tags BY DEF Resolved
  <2>5. order[k] \in Resolved(ids) BY <1>3, <2>3, <2>4, OrderType
  <2> QED BY <2>3, <2>5 DEF Resolved
<1> QED BY <1>1, <1>2, <1>3 DEF IdsInv, TodoResolved

LEMMA BeginIds == ASSUME IdsInv, NEW r \in Txs, Begin(r) PROVE IdsInv'
<1> DEFINE hits == CacheLookup(r)
<1>1. TypeInv' BY BeginTypes DEF IdsInv
<1>2. /\ have' = [have EXCEPT ![r] = hits]
      /\ UNCHANGED <<tags, nextTag, tagsMap, input, cache>>
  BY DEF Begin
<1>3. hits \in [Tags -> Nat]
  BY HostAssumption DEF CacheLookup, IdsInv, TypeInv, TypeOK
<1>4. \A t \in Tags : hits[t] # 0 => t \in input[r].tags /\ hits[t] = cache[Host[r]][t]
  BY DEF CacheLookup
<1>5. Host[r] \in Procs BY HostAssumption
<1>6. \A t \in Tags : hits[t] # 0 => Claimed(t, hits[t]) BY <1>4, <1>5 DEF Claimed
<1> HIDE DEF hits
<1>7. \A t \in Tags, i \in Nat : Claimed(t, i)' => Claimed(t, i)
  <2>1. cache[Host[r]] \in [Tags -> Nat] BY <1>5 DEF IdsInv, TypeInv, TypeOK
  <2>2. \A t \in Tags : cache[Host[r]][t] # 0 => Claimed(t, cache[Host[r]][t])
    BY <1>5 DEF Claimed
  <2>3. cache' = [cache EXCEPT ![Host[r]] = cache[Host[r]]]
    BY <1>2, <1>5 DEF IdsInv, TypeInv, TypeOK
  <2> QED BY <1>2, <1>3, <1>6, <2>1, <2>2, <2>3, StoredClaims DEF IdsInv
<1>8. HaveAsked' BY <1>2, <1>3, <1>4 DEF IdsInv, HaveAsked, TypeInv, TypeOK
<1>9. TodoResolved'
  <2>1. CASE UseTags(r, hits) BY <1>2, <1>3, <2>1, UseTagsResolved
  <2>2. CASE Goto(r, "getTags") /\ UNCHANGED todo
    BY <1>2, <2>2 DEF Goto, IdsInv, TypeInv, TypeOK, TodoResolved
  <2> QED BY <2>1, <2>2 DEF Begin, hits
<1> QED BY <1>1, <1>2, <1>7, <1>8, <1>9, NoNewIds

\* GetTags and ReadTags: what they select is cached and merged.
LEMMA LookupIds ==
    ASSUME IdsInv, NEW r \in Txs, GetTags(r) \/ ReadTags(r) PROVE IdsInv'
<1> DEFINE new    == SelectTags(r, Missing(r, have[r]))
           ids    == Merge(have[r], new)
           cached == Merge(cache[Host[r]], new)
<1>1. TypeInv' BY GetTagsTypes, ReadTagsTypes DEF IdsInv
<1>2. /\ have' = [have EXCEPT ![r] = ids]
      /\ cache' = [cache EXCEPT ![Host[r]] = cached]
      /\ UNCHANGED <<tags, nextTag, tagsMap, input>>
  BY DEF GetTags, ReadTags, StoreToCache, storeVars
<1>3. Host[r] \in Procs BY HostAssumption
<1>4. /\ ids \in [Tags -> Nat]
      /\ \A t \in Tags : new[t] # 0 => t \in input[r].tags
      /\ \A t \in Tags : ids[t] # 0 => Claimed(t, ids[t])
  <2>1. \A t \in Tags : have[r][t] # 0 => Claimed(t, have[r][t]) BY DEF Claimed
  <2>2. have[r] \in [Tags -> Nat] BY DEF IdsInv, TypeInv, TypeOK
  <2> QED BY <2>1, <2>2, MergedIds DEF IdsInv
<1>5. /\ cached \in [Tags -> Nat]
      /\ \A t \in Tags : cached[t] # 0 => Claimed(t, cached[t])
  <2>1. \A t \in Tags : cache[Host[r]][t] # 0 => Claimed(t, cache[Host[r]][t])
    BY <1>3 DEF Claimed
  <2>2. cache[Host[r]] \in [Tags -> Nat] BY <1>3 DEF IdsInv, TypeInv, TypeOK
  <2> QED BY <2>1, <2>2, MergedIds DEF IdsInv
<1>6. \A t \in Tags : ids[t] # 0 => t \in input[r].tags
  BY <1>4 DEF Merge, IdsInv, HaveAsked
<1> HIDE DEF ids, cached
<1>7. \A t \in Tags, i \in Nat : Claimed(t, i)' => Claimed(t, i)
  BY <1>2, <1>4, <1>5, StoredClaims DEF IdsInv
<1>8. HaveAsked' BY <1>2, <1>4, <1>6 DEF IdsInv, HaveAsked, TypeInv, TypeOK
<1>9. TodoResolved'
  <2>1. CASE UseTags(r, ids) BY <1>2, <1>4, <2>1, UseTagsResolved
  <2>2. CASE Insert(r, Missing(r, ids), "createTags", "readTags")
    BY <1>2, <2>2 DEF Insert, Goto, IdsInv, TypeInv, TypeOK, TodoResolved
  <2> QED BY <2>1, <2>2 DEF GetTags, ReadTags, ids
<1> QED BY <1>1, <1>2, <1>7, <1>8, <1>9, NoNewIds

\* The one step that creates an id: the serial is ahead of all claims.
LEMMA CreateTagIds == ASSUME IdsInv, NEW r \in Txs, CreateTag(r) PROVE IdsInv'
<1> DEFINE new == Head(todo[r])
<1>1. TypeInv' BY CreateTagTypes DEF IdsInv
<1>2. /\ nextTag' = nextTag + 1
      /\ \/ tags' = [tags EXCEPT ![new] = [id |-> nextTag, by |-> r]]
         \/ tags' = tags
      /\ UNCHANGED <<tagsMap, input, have, cache>>
  BY DEF CreateTag, InsertTag
<1>3. nextTag \in Nat \ {0} BY DEF IdsInv, TypeInv, TypeOK, StoreTypeOK
<1>4. \A t \in Tags, i \in Nat :
          Claimed(t, i)' => Claimed(t, i) \/ (t = new /\ i = nextTag)
  <2> SUFFICES ASSUME NEW t \in Tags, NEW i \in Nat, Claimed(t, i)'
               PROVE  Claimed(t, i) \/ (t = new /\ i = nextTag)
    OBVIOUS
  <2>1. CASE tags'[t].id = i
    BY <1>2, <2>1 DEF Claimed, IdsInv, TypeInv, TypeOK, StoreTypeOK
  <2>2. CASE tags'[t].id # i BY <1>2, <2>2 DEF Claimed
  <2> QED BY <2>1, <2>2
<1>5. SerialAhead' BY <1>2, <1>3, <1>4 DEF IdsInv, SerialAhead
<1>6. OneClaim' BY <1>3, <1>4 DEF IdsInv, OneClaim, SerialAhead
<1>7. MapIds' BY <1>2, <1>3 DEF IdsInv, MapIds, TypeInv, TypeOK, StoreTypeOK, MapRows
<1>8. HaveAsked' BY <1>2 DEF IdsInv, HaveAsked
<1>9. TodoResolved'
  <2>1. \A s \in Txs : pc'[s] = "addTags" =>
            pc[s] = "addTags" /\ todo'[s] = todo[s] /\ have'[s] = have[s]
    BY DEF CreateTag, Goto, IdsInv, TypeInv, TypeOK
  <2> QED BY <2>1 DEF IdsInv, TodoResolved
<1>10. NoStrayTag'
  <2> SUFFICES ASSUME NEW row \in tagsMap, NEW t \in Tags, tags'[t].id = row.tag
               PROVE  t \in input[row.by].tags
    BY <1>2 DEF NoStrayTag
  <2>1. row.tag < nextTag /\ row.tag \in Nat
    BY DEF IdsInv, MapIds, TypeInv, TypeOK, StoreTypeOK, MapRows
  <2>2. tags'[t] = tags[t] \/ tags'[t].id = nextTag
    BY <1>2 DEF IdsInv, TypeInv, TypeOK, StoreTypeOK
  <2>3. tags'[t].id # nextTag BY <1>3, <2>1
  <2> QED BY <2>2, <2>3 DEF IdsInv, NoStrayTag
<1> QED BY <1>1, <1>5, <1>6, <1>7, <1>8, <1>9, <1>10 DEF IdsInv

\* Steps that forget: the request answers, or is lost with its replica.
LEMMA ForgetfulIds ==
    ASSUME IdsInv, TypeInv', NEW lost \in SUBSET Txs,
           UNCHANGED <<nextTag, input>>, tagsMap' \subseteq tagsMap,
           \A t \in Tags : tags'[t] \in {tags[t], NoRow},
           \A p \in Procs, t \in Tags : cache'[p][t] \in {cache[p][t], 0},
           \A r \in lost : pc'[r] = "done" /\ have'[r] = NoIds,
           \A r \in Txs \ lost :
               /\ pc'[r] = "addTags" => pc[r] = "addTags" /\ todo'[r] = todo[r]
               /\ have'[r] = have[r]
    PROVE  IdsInv'
<1>1. \A t \in Tags, r \in Txs : have'[r][t] \in {have[r][t], 0} BY DEF NoIds
<1>2. \A t \in Tags, i \in Nat : Claimed(t, i)' => Claimed(t, i)
  <2> SUFFICES ASSUME NEW t \in Tags, NEW i \in Nat, Claimed(t, i)'
               PROVE  Claimed(t, i)
    OBVIOUS
  <2>1. i # 0 BY DEF Claimed
  <2>2. CASE tags'[t].id = i BY <2>1, <2>2 DEF Claimed, NoRow
  <2>3. CASE \E p \in Procs : cache'[p][t] = i BY <2>1, <2>3 DEF Claimed
  <2>4. CASE \E r \in Txs : have'[r][t] = i BY <1>1, <2>1, <2>4 DEF Claimed
  <2> QED BY <2>2, <2>3, <2>4 DEF Claimed
<1>3. HaveAsked' BY <1>1 DEF IdsInv, HaveAsked
<1>4. TodoResolved' BY DEF IdsInv, TodoResolved
<1> QED BY <1>2, <1>3, <1>4, NoNewIds

\* Steps that touch no id, or only drop one from a cache.
LEMMA QuietIds ==
    ASSUME IdsInv, TypeInv',
           UNCHANGED <<tags, nextTag, tagsMap, input, have, todo>>,
           \A p \in Procs, t \in Tags : cache'[p][t] \in {cache[p][t], 0},
           \A r \in Txs : pc'[r] = "addTags" => pc[r] = "addTags"
    PROVE  IdsInv'
<1>1. \A t \in Tags, i \in Nat : Claimed(t, i)' => Claimed(t, i) BY DEF Claimed
<1>2. HaveAsked' /\ TodoResolved' BY DEF IdsInv, HaveAsked, TodoResolved
<1> QED BY <1>1, <1>2, NoNewIds

LEMMA FailIds ==
    ASSUME IdsInv, NEW r \in Txs, NEW status \in Statuses, Fail(r, status)
    PROVE  IdsInv'
<1>1. TypeInv' BY FailTypes DEF IdsInv
<1>2. UNCHANGED <<nextTag, input, cache>> BY DEF Fail
<1>3. tagsMap' \subseteq tagsMap /\ \A t \in Tags : tags'[t] \in {tags[t], NoRow}
  BY DEF Fail, Rollback
<1>4. /\ pc'[r] = "done" /\ have'[r] = NoIds
      /\ \A s \in Txs \ {r} : pc'[s] = pc[s] /\ have'[s] = have[s] /\ todo'[s] = todo[s]
  BY DEF Fail, Respond, IdsInv, TypeInv, TypeOK
<1>5. {r} \in SUBSET Txs OBVIOUS
<1> QED BY <1>1, <1>2, <1>3, <1>4, <1>5, ForgetfulIds

LEMMA CreatePickIds == ASSUME IdsInv, NEW r \in Txs, CreatePick(r) PROVE IdsInv'
<1> DEFINE u == input[r].user
           d == input[r].def
<1>1. TypeInv' BY CreatePickTypes DEF IdsInv
<1>2. UNCHANGED <<nextTag, input, cache>> BY DEF CreatePick
<1>3. CASE SamePick(u, d) # {} \/ d \notin defs
  <2>1. Rollback({r}) /\ \E status \in Statuses : Respond(r, status)
    BY <1>3 DEF CreatePick, Statuses
  <2>2. tagsMap' \subseteq tagsMap /\ \A t \in Tags : tags'[t] \in {tags[t], NoRow}
    BY <2>1 DEF Rollback
  <2>3. /\ pc'[r] = "done" /\ have'[r] = NoIds
        /\ \A s \in Txs \ {r} : pc'[s] = pc[s] /\ have'[s] = have[s] /\ todo'[s] = todo[s]
    BY <2>1 DEF Respond, IdsInv, TypeInv, TypeOK
  <2>4. {r} \in SUBSET Txs OBVIOUS
  <2> QED BY <1>1, <1>2, <2>2, <2>3, <2>4, ForgetfulIds
<1>4. CASE ~(SamePick(u, d) # {} \/ d \notin defs)
  <2>1. /\ Insert(r, Resolved(have[r]), "addTags", "checkRefs")
        /\ UNCHANGED <<tags, tagsMap, have>>
    BY <1>4 DEF CreatePick
  <2>2. PICK order \in SetToSeqs(Resolved(have[r])) :
              /\ todo' = [todo EXCEPT ![r] = order]
              /\ \A s \in Txs \ {r} : pc'[s] = pc[s]
    BY <2>1 DEF Insert, Goto, IdsInv, TypeInv, TypeOK
  <2>3. Resolved(have[r]) \in SUBSET Tags BY DEF Resolved
  <2>4. todo'[r] = order /\ \A s \in Txs \ {r} : todo'[s] = todo[s]
    BY <2>2 DEF IdsInv, TypeInv, TypeOK
  <2>5. \A k \in DOMAIN order : have[r][order[k]] # 0
    BY <2>3, OrderType DEF Resolved
  <2>6. TodoResolved' BY <2>1, <2>2, <2>4, <2>5 DEF IdsInv, TodoResolved
  <2>7. HaveAsked' BY <1>2, <2>1 DEF IdsInv, HaveAsked
  <2>8. \A t \in Tags, i \in Nat : Claimed(t, i)' => Claimed(t, i)
    BY <1>2, <2>1 DEF Claimed
  <2> QED BY <1>1, <1>2, <2>1, <2>6, <2>7, <2>8, NoNewIds
<1> QED BY <1>3, <1>4

\* The step that ties an id to a pick: the id is that of a tag asked for, and by
\* OneClaim of no other tag, now or when the table changes.
LEMMA AddTagIds == ASSUME IdsInv, NEW r \in Txs, AddTag(r) PROVE IdsInv'
<1> DEFINE t0 == Head(todo[r])
           i  == have[r][t0]
<1>1. TypeInv' BY AddTagTypes DEF IdsInv
<1>2. todo[r] \in Seq(Tags) /\ todo[r] # << >> /\ pc[r] = "addTags"
  BY DEF AddTag, IdsInv, TypeInv, TypeOK, TodoOK
<1>3. CASE SameMap(pick[r], i) # {}
  <2>1. "500" \in Statuses BY DEF Statuses
  <2> QED BY <1>3, <2>1, FailIds DEF AddTag
<1>4. CASE SameMap(pick[r], i) = {}
  <2>1. /\ tagsMap' = tagsMap \cup {[pick |-> pick[r], tag |-> i, by |-> r]}
        /\ todo' = [todo EXCEPT ![r] = Tail(todo[r])]
        /\ Goto(r, IF Len(todo[r]) = 1 THEN "checkRefs" ELSE "addTags")
        /\ UNCHANGED <<tags, nextTag, input, have, cache>>
    BY <1>4 DEF AddTag
  <2>2. t0 \in Tags /\ i # 0 /\ i \in Nat
    BY <1>2, HeadTail DEF IdsInv, TypeInv, TypeOK, TodoResolved
  <2>3. Claimed(t0, i) /\ t0 \in input[r].tags
    BY <2>2 DEF Claimed, IdsInv, HaveAsked
  <2>4. OneClaim' /\ SerialAhead' /\ HaveAsked'
    BY <2>1 DEF IdsInv, OneClaim, SerialAhead, HaveAsked, Claimed
  <2>5. MapIds' BY <2>1, <2>2, <2>3 DEF IdsInv, MapIds, SerialAhead
  <2>6. TodoResolved'
    <3>1. \A k \in DOMAIN Tail(todo[r]) :
              k + 1 \in DOMAIN todo[r] /\ Tail(todo[r])[k] = todo[r][k + 1]
      BY <1>2, HeadTail
    <3>2. \A k \in DOMAIN Tail(todo[r]) : have[r][Tail(todo[r])[k]] # 0
      BY <1>2, <3>1 DEF IdsInv, TodoResolved
    <3>3. todo'[r] = Tail(todo[r]) BY <2>1 DEF IdsInv, TypeInv, TypeOK
    <3>4. \A s \in Txs \ {r} : pc'[s] = pc[s] /\ todo'[s] = todo[s]
      BY <2>1 DEF Goto, IdsInv, TypeInv, TypeOK
    <3>5. have' = have BY <2>1
    <3> SUFFICES ASSUME NEW s \in Txs, pc'[s] = "addTags", NEW k \in DOMAIN todo'[s]
                 PROVE  have[s][todo'[s][k]] # 0
      BY <3>5 DEF TodoResolved
    <3>6. CASE s = r BY <3>2, <3>3, <3>6
    <3>7. CASE s # r BY <3>4, <3>7 DEF IdsInv, TodoResolved
    <3> QED BY <3>6, <3>7
  <2>7. NoStrayTag'
    <3> SUFFICES ASSUME NEW row \in tagsMap', NEW t \in Tags, tags[t].id = row.tag
                 PROVE  t \in input[row.by].tags
      BY <2>1 DEF NoStrayTag
    <3>1. CASE row \in tagsMap BY <3>1 DEF IdsInv, NoStrayTag
    <3>2. CASE row = [pick |-> pick[r], tag |-> i, by |-> r]
      <4>1. Claimed(t, i) BY <2>2, <3>2 DEF Claimed
      <4> QED BY <2>2, <2>3, <3>2, <4>1 DEF IdsInv, OneClaim
    <3> QED BY <2>1, <3>1, <3>2
  <2> QED BY <1>1, <2>4, <2>5, <2>6, <2>7 DEF IdsInv
<1> QED BY <1>3, <1>4

LEMMA CheckRefsIds == ASSUME IdsInv, NEW r \in Txs, CheckRefs(r) PROVE IdsInv'
<1>1. CASE RefsHold(r)
  <2>1. TypeInv' BY CheckRefsTypes DEF IdsInv
  <2>2. Goto(r, "commit") /\ UNCHANGED <<tags, nextTag, tagsMap, input, have, todo, cache>>
    BY <1>1 DEF CheckRefs
  <2>3. \A s \in Txs : pc'[s] = "addTags" => pc[s] = "addTags"
    BY <2>2 DEF Goto, IdsInv, TypeInv, TypeOK
  <2> QED BY <2>1, <2>2, <2>3, QuietIds
<1>2. CASE ~RefsHold(r)
  <2>1. PICK status \in {"404", "500"} : Fail(r, status) BY <1>2 DEF CheckRefs
  <2>2. status \in Statuses BY DEF Statuses
  <2> QED BY <2>1, <2>2, FailIds
<1> QED BY <1>1, <1>2

\* COMMIT and the single DELETE statements.
LEMMA AnswerIds ==
    ASSUME IdsInv, NEW r \in Txs,
           Commit(r) \/ RemoveTags(r) \/ UnpickWord(r) \/ DeleteWord(r)
    PROVE  IdsInv'
<1>1. TypeInv' BY CommitTypes, DeleteTypes DEF IdsInv
<1>2. UNCHANGED <<tags, nextTag, input, cache>>
  BY DEF Commit, RemoveTags, UnpickWord, DeleteWord
<1>3. tagsMap' \subseteq tagsMap
  BY DEF Commit, RemoveTags, UnpickWord, DeleteWord, DeleteMap, DeletePicks, DeleteWordRow
<1>4. PICK status : Respond(r, status)
  BY DEF Commit, RemoveTags, UnpickWord, DeleteWord, Deleted
<1>5. /\ pc'[r] = "done" /\ have'[r] = NoIds
      /\ \A s \in Txs \ {r} : pc'[s] = pc[s] /\ have'[s] = have[s] /\ todo'[s] = todo[s]
  BY <1>4 DEF Respond, IdsInv, TypeInv, TypeOK
<1>6. {r} \in SUBSET Txs OBVIOUS
<1> QED BY <1>1, <1>2, <1>3, <1>5, <1>6, ForgetfulIds

LEMMA EvictIds ==
    ASSUME IdsInv, NEW p \in Procs, NEW t \in Tags, Evict(p, t) PROVE IdsInv'
<1>1. TypeInv' BY EvictTypes DEF IdsInv
<1>2. UNCHANGED <<tags, nextTag, tagsMap, input, pc, have, todo>>
  BY DEF Evict, storeVars
<1>3. \A q \in Procs, u \in Tags : cache'[q][u] \in {cache[q][u], 0}
  BY DEF Evict, IdsInv, TypeInv, TypeOK
<1> QED BY <1>1, <1>2, <1>3, QuietIds

LEMMA RestartIds == ASSUME IdsInv, NEW p \in Procs, Restart(p) PROVE IdsInv'
<1> DEFINE lost == {r \in Txs : Host[r] = p /\ Active(r)}
<1>1. TypeInv' BY RestartTypes DEF IdsInv
<1>2. UNCHANGED <<nextTag, input>> BY DEF Restart
<1>3. tagsMap' \subseteq tagsMap /\ \A t \in Tags : tags'[t] \in {tags[t], NoRow}
  BY DEF Restart, Rollback
<1>4. \A q \in Procs, t \in Tags : cache'[q][t] \in {cache[q][t], 0}
  BY DEF Restart, NoIds, IdsInv, TypeInv, TypeOK
<1>5. /\ \A r \in lost : pc'[r] = "done" /\ have'[r] = NoIds
      /\ \A r \in Txs \ lost : pc'[r] = pc[r] /\ have'[r] = have[r] /\ todo'[r] = todo[r]
  BY DEF Restart
<1>6. lost \in SUBSET Txs OBVIOUS
<1> HIDE DEF lost
<1> QED BY <1>1, <1>2, <1>3, <1>4, <1>5, <1>6, ForgetfulIds

LEMMA InitIds == Init => IdsInv
<1> SUFFICES ASSUME Init PROVE IdsInv OBVIOUS
<1>1. TypeInv BY InitTypes
<1>2. \A t \in Tags, i \in Nat : ~Claimed(t, i)
  BY DEF Init, StoreInit, NoRow, NoIds, Claimed
<1>3. OneClaim /\ SerialAhead BY <1>2 DEF OneClaim, SerialAhead
<1>4. MapIds /\ NoStrayTag BY DEF Init, StoreInit, MapIds, NoStrayTag
<1>5. HaveAsked /\ TodoResolved BY DEF Init, NoIds, HaveAsked, TodoResolved
<1> QED BY <1>1, <1>3, <1>4, <1>5 DEF IdsInv

LEMMA NextIds == IdsInv /\ [Next]_vars => IdsInv'
<1> SUFFICES ASSUME IdsInv, [Next]_vars PROVE IdsInv' OBVIOUS
<1>1. CASE \E r \in Txs : Step(r)
  <2>1. PICK r \in Txs : Step(r) BY <1>1
  <2> QED BY <2>1, BeginIds, LookupIds, CreateTagIds, CreatePickIds, AddTagIds,
             CheckRefsIds, AnswerIds
          DEF Step
<1>2. CASE \E r \in Txs : Cancel(r) \/ DeadlockAbort(r)
  <2>1. "500" \in Statuses BY DEF Statuses
  <2> QED BY <1>2, <2>1, FailIds DEF Cancel, DeadlockAbort
<1>3. CASE \E p \in Procs : Restart(p) \/ \E t \in Tags : Evict(p, t)
  BY <1>3, RestartIds, EvictIds
<1>4. CASE UNCHANGED vars
  <2>1. TypeInv' BY <1>4, NextTypes DEF IdsInv
  <2>2. UNCHANGED <<tags, nextTag, tagsMap, input, pc, have, todo, cache>>
    BY <1>4 DEF vars, storeVars, serviceVars
  <2> QED BY <2>1, <2>2, QuietIds
<1> QED BY <1>1, <1>2, <1>3, <1>4 DEF Next, Finished

LEMMA IdsInvariant == Spec => []IdsInv
BY InitIds, NextIds, PTL DEF Spec

\* However transactions are rolled back and caches outlive them, one id is never
\* taken for two tags, by the table, by a replica's cache or by a request.
THEOREM OneTagPerIdAlways == Spec => []OneTagPerId
<1>1. IdsInv => OneTagPerId BY OneClaimIsOneTagPerId DEF IdsInv
<1> QED BY <1>1, IdsInvariant, PTL

\* A pick carries only tags the request that tagged it asked for.
THEOREM NoStrayTagAlways == Spec => []NoStrayTag
<1>1. IdsInv => NoStrayTag BY DEF IdsInv
<1> QED BY <1>1, IdsInvariant, PTL
=============================================================================
