---------------------------- MODULE WordsRefProofs ----------------------------
(***************************************************************************)
(* Proofs that committed rows of the words service refer to committed rows, *)
(* and that caches are right until a transaction is rolled back, for any   *)
(* number of requests, replicas, tags and words.                           *)
(***************************************************************************)
EXTENDS WordsProofs

\* The transaction a request has, by its next statement.
InTx ==
    \A r \in Txs :
        /\ pc[r] \in {"begin", "delete"} => tx[r] = "idle"
        /\ pc[r] = "getTags" =>
              tx[r] = IF input[r].op = "RemoveTags" THEN "idle" ELSE "open"
        /\ pc[r] \in {"createTags", "readTags", "createPick", "addTags", "checkRefs"} =>
              tx[r] = "open" /\ input[r].op # "RemoveTags"
        /\ pc[r] = "commit" => tx[r] = "checked"

\* A pick is there as long as the transaction that made it was not rolled back.
PicksLive == \A row \in picks : Running(row.by) \/ IsCommitted(row.by)

\* No pick, committed or not, is of a definition that was deleted.
PicksHaveDefs == \A row \in picks : row.def \in defs

RefersTo(row) ==
    /\ \E p \in picks : p.id = row.pick /\ Sees(row.by, p.by)
    /\ \E t \in Tags : tags[t].id = row.tag /\ Sees(row.by, tags[t].by)

\* What a transaction has checked stays, until it commits and after.
RefsThere == \A row \in tagsMap : tx[row.by] \in {"checked", "committed"} => RefersTo(row)

RefInv == TypeInv /\ InTx /\ PicksLive /\ PicksHaveDefs /\ RefsThere

LEMMA RefsMeanNoDangling == RefInv => NoDanglingRows
<1> SUFFICES ASSUME RefInv PROVE NoDanglingRows
  OBVIOUS
<1>1. ASSUME NEW row \in tagsMap, IsCommitted(row.by)
      PROVE  /\ \E p \in picks : p.id = row.pick /\ IsCommitted(p.by)
             /\ \E t \in Tags : tags[t].id = row.tag /\ IsCommitted(tags[t].by)
  <2>1. RefersTo(row) BY <1>1 DEF RefInv, RefsThere, IsCommitted
  <2> QED BY <1>1, <2>1 DEF RefersTo, Sees
<1>2. \A row \in picks : row.def \in defs BY DEF RefInv, PicksHaveDefs
<1> QED BY <1>1, <1>2 DEF NoDanglingRows

LEMMA RefInit == Init => RefInv
BY InitTypes DEF Init, StoreInit, RefInv, InTx, PicksLive, PicksHaveDefs, RefsThere

-----------------------------------------------------------------------------
(* Parts of steps. *)

\* The statement after the tags are resolved.
LEMMA UseTagsPc ==
    ASSUME TypeInv, NEW r \in Txs, NEW ids, UseTags(r, ids)
    PROVE  /\ pc'[r] \in {"createPick", "addTags", "checkRefs", "delete"}
           /\ pc'[r] = "delete" <=> input[r].op = "RemoveTags"
           /\ \A s \in Txs \ {r} : pc'[s] = pc[s]
BY DEF UseTags, Insert, Goto, TypeInv, TypeOK

LEMMA InsertPc ==
    ASSUME TypeInv, NEW r \in Txs, NEW T, NEW label, NEW next, Insert(r, T, label, next)
    PROVE  pc'[r] \in {label, next} /\ \A s \in Txs \ {r} : pc'[s] = pc[s]
BY DEF Insert, Goto, TypeInv, TypeOK

\* Only who has not answered yet is rolled back.
LEMMA ActiveTx ==
    ASSUME RefInv, NEW r \in Txs, pc[r] # "done"
    PROVE  tx[r] \in {"idle", "open", "checked"}
BY DEF RefInv, InTx, TypeInv, TypeOK, PCs

\* The rows, when neither tables nor transactions change.
LEMMA RowsKept ==
    ASSUME RefInv, UNCHANGED <<tx, defs, tags, picks, tagsMap>>
    PROVE  PicksLive' /\ PicksHaveDefs' /\ RefsThere'
BY DEF RefInv, PicksLive, PicksHaveDefs, RefsThere, RefersTo, Running, IsCommitted, Sees

\* The rows of transactions that end without commit go; nobody else refers to them.
LEMMA RollbackRefs ==
    ASSUME RefInv, TypeInv', NEW X \in SUBSET Txs, Rollback(X), UNCHANGED <<defs, input>>,
           \A r \in X : tx[r] # "committed",
           \A r \in X : pc'[r] = "done",
           \A r \in Txs \ X : pc'[r] = pc[r]
    PROVE  RefInv'
<1>1. \A r \in Txs : tx'[r] = IF r \in X /\ Running(r) THEN "aborted" ELSE tx[r]
  BY DEF Rollback
<1>2. InTx' BY <1>1 DEF RefInv, InTx
<1>3. \A b \in Txs : b \notin X => tx'[b] = tx[b] BY <1>1
<1>4. PicksLive'
  <2>1. \A row \in picks' : row \in picks /\ row.by \notin X /\ row.by \in Txs
    BY DEF Rollback, RefInv, TypeInv, TypeOK, StoreTypeOK, PickRows
  <2> QED BY <1>3, <2>1 DEF RefInv, PicksLive, Running, IsCommitted
<1>5. PicksHaveDefs' BY DEF Rollback, RefInv, PicksHaveDefs
<1>6. RefsThere'
  <2> SUFFICES ASSUME NEW row \in tagsMap', tx'[row.by] \in {"checked", "committed"}
               PROVE  RefersTo(row)'
    BY DEF RefsThere
  <2>1. row \in tagsMap /\ row.by \in Txs /\ row.by \notin X
    BY DEF Rollback, RefInv, TypeInv, TypeOK, StoreTypeOK, MapRows
  <2>2. RefersTo(row) BY <1>3, <2>1 DEF RefInv, RefsThere
  <2>3. \A c : Sees(row.by, c) => /\ c \notin X
                                  /\ c = row.by \/ (c \in Txs /\ tx'[c] = "committed")
    BY <1>3, <2>1 DEF Sees, IsCommitted
  <2>4. \E p \in picks' : /\ p.id = row.pick
                          /\ p.by = row.by \/ (p.by \in Txs /\ tx'[p.by] = "committed")
    <3>1. PICK p \in picks : p.id = row.pick /\ Sees(row.by, p.by) BY <2>2 DEF RefersTo
    <3>2. p \in picks' BY <2>3, <3>1 DEF Rollback
    <3> QED BY <2>3, <3>1, <3>2
  <2>5. \E t \in Tags : /\ tags'[t].id = row.tag
                        /\ \/ tags'[t].by = row.by
                           \/ tags'[t].by \in Txs /\ tx'[tags'[t].by] = "committed"
    <3>1. PICK t \in Tags : tags[t].id = row.tag /\ Sees(row.by, tags[t].by)
      BY <2>2 DEF RefersTo
    <3>2. tags'[t] = tags[t] BY <2>3, <3>1 DEF Rollback
    <3>3. \/ tags'[t].by = row.by
          \/ tags'[t].by \in Txs /\ tx'[tags'[t].by] = "committed"
      BY <2>3, <3>1, <3>2
    <3> QED BY <3>1, <3>2, <3>3
  <2> QED BY <2>4, <2>5 DEF RefersTo, Sees, IsCommitted
<1> QED BY <1>2, <1>4, <1>5, <1>6 DEF RefInv

LEMMA FailRefs ==
    ASSUME RefInv, NEW r \in Txs, pc[r] # "done", NEW status \in Statuses, Fail(r, status)
    PROVE  RefInv'
<1>1. TypeInv' BY FailTypes DEF RefInv
<1>2. /\ Rollback({r}) /\ UNCHANGED <<defs, input>>
      /\ pc'[r] = "done" /\ \A s \in Txs \ {r} : pc'[s] = pc[s]
  BY DEF Fail, Respond, RefInv, TypeInv, TypeOK
<1>3. tx[r] # "committed" BY ActiveTx
<1> QED BY <1>1, <1>2, <1>3, RollbackRefs

\* A DELETE takes committed picks, with the rows that refer to them; a checked
\* transaction locks those it refers to.
LEMMA DeleteRefs ==
    ASSUME RefInv, NEW P, DeletePicks(P), UNCHANGED <<tx, tags>>
    PROVE  PicksLive' /\ RefsThere' /\ picks' \subseteq picks
<1> DEFINE gone == {row \in picks : row.id \in P /\ IsCommitted(row.by)}
           ids  == {row.id : row \in gone}
<1>1. /\ \A p \in ids : ~PickLocked(p)
      /\ picks' = picks \ gone
      /\ tagsMap' = {row \in tagsMap : ~(row.pick \in ids /\ IsCommitted(row.by))}
  BY DEF DeletePicks
<1>2. PicksLive' BY <1>1 DEF RefInv, PicksLive, Running, IsCommitted
<1>3. RefsThere'
  <2> SUFFICES ASSUME NEW row \in tagsMap', tx'[row.by] \in {"checked", "committed"}
               PROVE  RefersTo(row)'
    BY DEF RefsThere
  <2>1. row \in tagsMap /\ row.by \in Txs
    BY <1>1 DEF RefInv, TypeInv, TypeOK, StoreTypeOK, MapRows
  <2>2. RefersTo(row) BY <2>1 DEF RefInv, RefsThere
  <2>3. row.pick \notin ids BY <1>1, <2>1 DEF PickLocked, IsCommitted
  <2>4. PICK p \in picks : p.id = row.pick /\ Sees(row.by, p.by) BY <2>2 DEF RefersTo
  <2>5. p \in picks' BY <1>1, <2>3, <2>4
  <2> QED BY <2>2, <2>4, <2>5 DEF RefersTo, Sees, IsCommitted
<1> QED BY <1>1, <1>2, <1>3

\* What is there stays there, and what is committed stays committed.
LEMMA RefersKept ==
    ASSUME picks \subseteq picks',
           \A t \in Tags : tags'[t] = tags[t] \/ tags[t].by = NoTx,
           \A c \in Txs : tx[c] = "committed" => tx'[c] = "committed",
           NEW row, row.by \in Txs, RefersTo(row)
    PROVE  RefersTo(row)'
<1>1. PICK p \in picks : p.id = row.pick /\ Sees(row.by, p.by) BY DEF RefersTo
<1>2. PICK t \in Tags : tags[t].id = row.tag /\ Sees(row.by, tags[t].by) BY DEF RefersTo
<1>3. tags'[t] = tags[t] BY <1>2, NoTxAssumption DEF Sees, IsCommitted
<1>4. /\ p \in picks' /\ p.id = row.pick
      /\ p.by = row.by \/ (p.by \in Txs /\ tx'[p.by] = "committed")
  BY <1>1 DEF Sees, IsCommitted
<1>5. /\ tags'[t].id = row.tag
      /\ \/ tags'[t].by = row.by
         \/ tags'[t].by \in Txs /\ tx'[tags'[t].by] = "committed"
  BY <1>2, <1>3 DEF Sees, IsCommitted
<1> QED BY <1>4, <1>5 DEF RefersTo, Sees, IsCommitted

-----------------------------------------------------------------------------
(* Every action. *)

LEMMA BeginRefs == ASSUME RefInv, NEW r \in Txs, Begin(r) PROVE RefInv'
<1>1. TypeInv' BY BeginTypes DEF RefInv
<1>2. /\ UNCHANGED <<defs, tags, picks, tagsMap, input>>
      /\ pc[r] = "begin" /\ tx[r] = "idle"
      /\ tx' = IF input[r].op = "RemoveTags" THEN tx ELSE [tx EXCEPT ![r] = "open"]
  BY DEF Begin, RefInv, InTx
<1>3. /\ pc'[r] \in {"getTags", "createPick", "addTags", "checkRefs", "delete"}
      /\ pc'[r] = "delete" => input[r].op = "RemoveTags"
      /\ pc'[r] \notin {"getTags", "delete"} => input[r].op # "RemoveTags"
      /\ \A s \in Txs \ {r} : pc'[s] = pc[s]
  BY UseTagsPc DEF Begin, Goto, RefInv, TypeInv, TypeOK
<1>4. InTx' BY <1>2, <1>3 DEF RefInv, InTx, TypeInv, TypeOK, StoreTypeOK
<1>5. \A c \in Txs : tx'[c] = tx[c] \/ (tx[c] = "idle" /\ tx'[c] = "open")
  BY <1>2 DEF RefInv, TypeInv, TypeOK, StoreTypeOK
<1>6. PicksLive'
  BY <1>2, <1>5 DEF RefInv, PicksLive, Running, IsCommitted,
                    TypeInv, TypeOK, StoreTypeOK, PickRows
<1>7. PicksHaveDefs' BY <1>2 DEF RefInv, PicksHaveDefs
<1>8. RefsThere'
  <2> SUFFICES ASSUME NEW row \in tagsMap, tx'[row.by] \in {"checked", "committed"}
               PROVE  RefersTo(row)'
    BY <1>2 DEF RefsThere
  <2>1. row.by \in Txs BY DEF RefInv, TypeInv, TypeOK, StoreTypeOK, MapRows
  <2>2. RefersTo(row) BY <1>5, <2>1 DEF RefInv, RefsThere
  <2> QED BY <1>2, <1>5, <2>1, <2>2, RefersKept
<1> QED BY <1>1, <1>4, <1>6, <1>7, <1>8 DEF RefInv

LEMMA LookupRefs ==
    ASSUME RefInv, NEW r \in Txs, GetTags(r) \/ ReadTags(r) PROVE RefInv'
<1>1. TypeInv' BY GetTagsTypes, ReadTagsTypes DEF RefInv
<1>2. UNCHANGED <<tx, defs, tags, picks, tagsMap, input>>
  BY DEF GetTags, ReadTags, storeVars
<1>3. /\ pc[r] \in {"getTags", "readTags"}
      /\ \/ \E ids : UseTags(r, ids)
         \/ /\ input[r].op # "RemoveTags"
            /\ \E T : Insert(r, T, "createTags", "readTags")
  BY DEF GetTags, ReadTags
<1>4. /\ \/ /\ pc'[r] \in {"createPick", "addTags", "checkRefs", "delete"}
            /\ pc'[r] = "delete" <=> input[r].op = "RemoveTags"
         \/ pc'[r] \in {"createTags", "readTags"} /\ input[r].op # "RemoveTags"
      /\ \A s \in Txs \ {r} : pc'[s] = pc[s]
  BY <1>3, UseTagsPc, InsertPc DEF RefInv
<1>5. InTx' BY <1>2, <1>3, <1>4 DEF RefInv, InTx
<1> QED BY <1>1, <1>2, <1>5, RowsKept DEF RefInv

LEMMA CreateTagRefs == ASSUME RefInv, NEW r \in Txs, CreateTag(r) PROVE RefInv'
<1>1. TypeInv' BY CreateTagTypes DEF RefInv
<1>2. /\ UNCHANGED <<tx, defs, picks, tagsMap, input>>
      /\ \A t \in Tags : tags'[t] = tags[t] \/ tags[t].by = NoTx
  BY DEF CreateTag, InsertTag, NoRow, RefInv, TypeInv, TypeOK, StoreTypeOK
<1>3. /\ pc[r] = "createTags" /\ pc'[r] \in {"createTags", "readTags"}
      /\ \A s \in Txs \ {r} : pc'[s] = pc[s]
  BY DEF CreateTag, Goto, RefInv, TypeInv, TypeOK
<1>4. InTx' BY <1>2, <1>3 DEF RefInv, InTx
<1>5. PicksLive' /\ PicksHaveDefs'
  BY <1>2 DEF RefInv, PicksLive, PicksHaveDefs, Running, IsCommitted
<1>6. RefsThere'
  <2> SUFFICES ASSUME NEW row \in tagsMap, tx'[row.by] \in {"checked", "committed"}
               PROVE  RefersTo(row)'
    BY <1>2 DEF RefsThere
  <2>1. row.by \in Txs BY DEF RefInv, TypeInv, TypeOK, StoreTypeOK, MapRows
  <2>2. RefersTo(row) BY <1>2 DEF RefInv, RefsThere
  <2> QED BY <1>2, <2>1, <2>2, RefersKept
<1> QED BY <1>1, <1>4, <1>5, <1>6 DEF RefInv

LEMMA CreatePickRefs == ASSUME RefInv, NEW r \in Txs, CreatePick(r) PROVE RefInv'
<1> DEFINE u == input[r].user
           d == input[r].def
<1>1. TypeInv' BY CreatePickTypes DEF RefInv
<1>2. UNCHANGED <<defs, input>> /\ tx[r] = "open" BY DEF CreatePick, RefInv, InTx
<1>3. CASE SamePick(u, d) # {} \/ d \notin defs
  <2>1. Rollback({r}) /\ pc' = [pc EXCEPT ![r] = "done"]
    BY <1>3 DEF CreatePick, Respond
  <2>2. pc'[r] = "done" /\ \A s \in Txs \ {r} : pc'[s] = pc[s]
    BY <2>1 DEF RefInv, TypeInv, TypeOK
  <2> QED BY <1>1, <1>2, <2>1, <2>2, RollbackRefs
<1>4. CASE ~(SamePick(u, d) # {} \/ d \notin defs)
  <2>1. /\ picks' = picks \cup {PickRow(r, u, d)} /\ d \in defs
        /\ Insert(r, Resolved(have[r]), "addTags", "checkRefs")
        /\ UNCHANGED <<tx, tags, tagsMap>>
    BY <1>4 DEF CreatePick
  <2>2. pc'[r] \in {"addTags", "checkRefs"} /\ \A s \in Txs \ {r} : pc'[s] = pc[s]
    BY <2>1, InsertPc DEF RefInv
  <2>3. InTx' BY <1>2, <2>1, <2>2 DEF CreatePick, RefInv, InTx
  <2>4. PickRow(r, u, d).by = r /\ PickRow(r, u, d).def = d BY DEF PickRow
  <2>5. PicksLive' BY <1>2, <2>1, <2>4 DEF RefInv, PicksLive, Running, IsCommitted
  <2>6. PicksHaveDefs' BY <1>2, <2>1, <2>4 DEF RefInv, PicksHaveDefs
  <2>7. RefsThere'
    <3> SUFFICES ASSUME NEW row \in tagsMap, tx'[row.by] \in {"checked", "committed"}
                 PROVE  RefersTo(row)'
      BY <2>1 DEF RefsThere
    <3>1. row.by \in Txs BY DEF RefInv, TypeInv, TypeOK, StoreTypeOK, MapRows
    <3>2. RefersTo(row) BY <2>1 DEF RefInv, RefsThere
    <3> QED BY <2>1, <3>1, <3>2, RefersKept
  <2> QED BY <1>1, <2>3, <2>5, <2>6, <2>7 DEF RefInv
<1> QED BY <1>3, <1>4

LEMMA AddTagRefs == ASSUME RefInv, NEW r \in Txs, AddTag(r) PROVE RefInv'
<1> DEFINE i == have[r][Head(todo[r])]
<1>1. TypeInv' BY AddTagTypes DEF RefInv
<1>2. pc[r] = "addTags" /\ tx[r] = "open" BY DEF AddTag, RefInv, InTx
<1>3. CASE SameMap(pick[r], i) # {}
  <2>1. Fail(r, "500") BY <1>3 DEF AddTag
  <2>2. "500" \in Statuses /\ pc[r] # "done" BY <1>2 DEF Statuses
  <2> QED BY <2>1, <2>2, FailRefs
<1>4. CASE SameMap(pick[r], i) = {}
  <2>1. /\ tagsMap' = tagsMap \cup {[pick |-> pick[r], tag |-> i, by |-> r]}
        /\ pc' = [pc EXCEPT ![r] = IF Len(todo[r]) = 1 THEN "checkRefs" ELSE "addTags"]
        /\ UNCHANGED <<tx, defs, tags, picks, input>>
    BY <1>4 DEF AddTag, Goto
  <2>2. InTx' BY <1>2, <2>1 DEF RefInv, InTx, TypeInv, TypeOK
  <2>3. PicksLive' /\ PicksHaveDefs'
    BY <2>1 DEF RefInv, PicksLive, PicksHaveDefs, Running, IsCommitted
  <2>4. RefsThere'
    <3> SUFFICES ASSUME NEW row \in tagsMap', tx'[row.by] \in {"checked", "committed"}
                 PROVE  RefersTo(row)'
      BY DEF RefsThere
    <3>1. row \in tagsMap BY <1>2, <2>1
    <3>2. row.by \in Txs BY <3>1 DEF RefInv, TypeInv, TypeOK, StoreTypeOK, MapRows
    <3>3. RefersTo(row) BY <2>1, <3>1 DEF RefInv, RefsThere
    <3> QED BY <2>1, <3>2, <3>3, RefersKept
  <2> QED BY <1>1, <2>2, <2>3, <2>4 DEF RefInv
<1> QED BY <1>3, <1>4

\* RefsHold is RefersTo for the rows of the transaction that ends its statement.
LEMMA CheckRefsRefs == ASSUME RefInv, NEW r \in Txs, CheckRefs(r) PROVE RefInv'
<1>1. TypeInv' BY CheckRefsTypes DEF RefInv
<1>2. pc[r] = "checkRefs" /\ tx[r] = "open" BY DEF CheckRefs, RefInv, InTx
<1>3. CASE ~RefsHold(r)
  <2>1. PICK status \in {"404", "500"} : Fail(r, status) BY <1>3 DEF CheckRefs
  <2>2. status \in Statuses /\ pc[r] # "done" BY <1>2 DEF Statuses
  <2> QED BY <2>1, <2>2, FailRefs
<1>4. CASE RefsHold(r)
  <2>1. /\ tx' = [tx EXCEPT ![r] = "checked"] /\ pc' = [pc EXCEPT ![r] = "commit"]
        /\ UNCHANGED <<defs, tags, picks, tagsMap, input>>
    BY <1>4 DEF CheckRefs, Goto
  <2>2. tx'[r] = "checked" /\ \A c \in Txs \ {r} : tx'[c] = tx[c]
    BY <2>1 DEF RefInv, TypeInv, TypeOK, StoreTypeOK
  <2>3. InTx' BY <2>1, <2>2 DEF RefInv, InTx, TypeInv, TypeOK
  <2>4. PicksLive'
    BY <2>1, <2>2, <1>2 DEF RefInv, PicksLive, Running, IsCommitted,
                            TypeInv, TypeOK, StoreTypeOK, PickRows
  <2>5. PicksHaveDefs' BY <2>1 DEF RefInv, PicksHaveDefs
  <2>6. RefsThere'
    <3> SUFFICES ASSUME NEW row \in tagsMap, tx'[row.by] \in {"checked", "committed"}
                 PROVE  RefersTo(row)'
      BY <2>1 DEF RefsThere
    <3>1. row.by \in Txs BY DEF RefInv, TypeInv, TypeOK, StoreTypeOK, MapRows
    <3>2. RefersTo(row)
      <4>1. CASE row.by = r BY <1>4, <4>1 DEF RefsHold, HasPick, HasTag, RefersTo
      <4>2. CASE row.by # r BY <2>2, <3>1, <4>2 DEF RefInv, RefsThere
      <4> QED BY <4>1, <4>2
    <3>3. \A c \in Txs : tx[c] = "committed" => tx'[c] = "committed" BY <1>2, <2>2
    <3> QED BY <2>1, <3>1, <3>2, <3>3, RefersKept
  <2> QED BY <1>1, <2>3, <2>4, <2>5, <2>6 DEF RefInv
<1> QED BY <1>3, <1>4

LEMMA CommitRefs == ASSUME RefInv, NEW r \in Txs, Commit(r) PROVE RefInv'
<1>1. TypeInv' BY CommitTypes DEF RefInv
<1>2. /\ tx' = [tx EXCEPT ![r] = "committed"] /\ pc' = [pc EXCEPT ![r] = "done"]
      /\ UNCHANGED <<defs, tags, picks, tagsMap, input>>
      /\ tx[r] = "checked"
  BY DEF Commit, Respond, RefInv, InTx
<1>3. tx'[r] = "committed" /\ \A c \in Txs \ {r} : tx'[c] = tx[c]
  BY <1>2 DEF RefInv, TypeInv, TypeOK, StoreTypeOK
<1>4. InTx' BY <1>2, <1>3 DEF RefInv, InTx, TypeInv, TypeOK
<1>5. PicksLive'
  BY <1>2, <1>3 DEF RefInv, PicksLive, Running, IsCommitted,
                    TypeInv, TypeOK, StoreTypeOK, PickRows
<1>6. PicksHaveDefs' BY <1>2 DEF RefInv, PicksHaveDefs
<1>7. RefsThere'
  <2> SUFFICES ASSUME NEW row \in tagsMap, tx'[row.by] \in {"checked", "committed"}
               PROVE  RefersTo(row)'
    BY <1>2 DEF RefsThere
  <2>1. row.by \in Txs BY DEF RefInv, TypeInv, TypeOK, StoreTypeOK, MapRows
  <2>2. RefersTo(row) BY <1>2, <1>3, <2>1 DEF RefInv, RefsThere
  <2> QED BY <1>2, <1>3, <2>1, <2>2, RefersKept
<1> QED BY <1>1, <1>4, <1>5, <1>6, <1>7 DEF RefInv

LEMMA DeletingRefs ==
    ASSUME RefInv, NEW r \in Txs,
           RemoveTags(r) \/ UnpickWord(r) \/ DeleteWord(r)
    PROVE  RefInv'
<1>1. TypeInv' BY DeleteTypes DEF RefInv
<1>2. UNCHANGED <<tx, tags, input>> /\ pc' = [pc EXCEPT ![r] = "done"]
  BY DEF RemoveTags, UnpickWord, DeleteWord, Deleted, Respond
<1>3. InTx' BY <1>2 DEF RefInv, InTx, TypeInv, TypeOK
<1>4. CASE RemoveTags(r)
  <2>1. UNCHANGED <<picks, defs>> /\ tagsMap' \subseteq tagsMap
    BY <1>4 DEF RemoveTags, DeleteMap
  <2>2. PicksLive' /\ PicksHaveDefs'
    BY <1>2, <2>1 DEF RefInv, PicksLive, PicksHaveDefs, Running, IsCommitted
  <2>3. RefsThere'
    BY <1>2, <2>1 DEF RefInv, RefsThere, RefersTo, Sees, IsCommitted
  <2> QED BY <1>1, <1>3, <2>2, <2>3 DEF RefInv
<1>5. CASE UnpickWord(r)
  <2>1. DeletePicks({input[r].pick}) /\ defs' = defs BY <1>5 DEF UnpickWord
  <2>2. PicksLive' /\ RefsThere' /\ picks' \subseteq picks BY <1>2, <2>1, DeleteRefs
  <2>3. PicksHaveDefs' BY <2>1, <2>2 DEF RefInv, PicksHaveDefs
  <2> QED BY <1>1, <1>3, <2>2, <2>3 DEF RefInv
<1>6. CASE DeleteWord(r)
  <2> DEFINE gone == {d \in defs : WordOf[d] = input[r].word}
             P    == {row.id : row \in {q \in picks : q.def \in gone}}
  <2>1. /\ \A row \in picks : row.def \in gone => ~Running(row.by)
        /\ DeletePicks(P) /\ defs' = defs \ gone
    BY <1>6 DEF DeleteWord, DeleteWordRow
  <2>2. PicksLive' /\ RefsThere' /\ picks' \subseteq picks
    <3> HIDE DEF P, gone
    <3> QED BY <1>2, <2>1, DeleteRefs
  <2>3. PicksHaveDefs'
    <3> SUFFICES ASSUME NEW row \in picks' PROVE row.def \in defs \ gone
      BY <2>1 DEF PicksHaveDefs
    <3>1. row \in picks /\ row.def \in defs BY <2>2 DEF RefInv, PicksHaveDefs
    <3>2. ASSUME row.def \in gone PROVE FALSE
      <4>1. IsCommitted(row.by) BY <2>1, <3>1, <3>2 DEF RefInv, PicksLive
      <4>2. row.id \in P BY <3>1, <3>2
      <4> HIDE DEF P
      <4> QED BY <2>1, <3>1, <4>1, <4>2 DEF DeletePicks
    <3> QED BY <3>1, <3>2
  <2> QED BY <1>1, <1>3, <2>2, <2>3 DEF RefInv
<1> QED BY <1>4, <1>5, <1>6

LEMMA RestartRefs == ASSUME RefInv, NEW p \in Procs, Restart(p) PROVE RefInv'
<1>1. TypeInv' BY RestartTypes DEF RefInv
<1> DEFINE lost == {r \in Txs : Host[r] = p /\ Active(r)}
<1>2. /\ Rollback(lost) /\ UNCHANGED <<defs, input>>
      /\ pc' = [r \in Txs |-> IF r \in lost THEN "done" ELSE pc[r]]
  BY DEF Restart
<1>3. lost \in SUBSET Txs /\ \A r \in lost : tx[r] # "committed"
  BY ActiveTx DEF Active
<1> HIDE DEF lost
<1> QED BY <1>1, <1>2, <1>3, RollbackRefs

LEMMA IdleRefs ==
    ASSUME RefInv, TypeInv', UNCHANGED <<tx, defs, tags, picks, tagsMap, input, pc>>
    PROVE  RefInv'
BY RowsKept DEF RefInv, InTx

LEMMA NextRefs == RefInv /\ [Next]_vars => RefInv'
<1> SUFFICES ASSUME RefInv, [Next]_vars PROVE RefInv' OBVIOUS
<1>1. CASE \E r \in Txs : Step(r)
  <2>1. PICK r \in Txs : Step(r) BY <1>1
  <2> QED BY <2>1, BeginRefs, LookupRefs, CreateTagRefs, CreatePickRefs, AddTagRefs,
             CheckRefsRefs, CommitRefs, DeletingRefs
          DEF Step
<1>2. CASE \E r \in Txs : Cancel(r) \/ DeadlockAbort(r)
  <2>1. PICK r \in Txs : Cancel(r) \/ DeadlockAbort(r) BY <1>2
  <2>2. pc[r] # "done" /\ Fail(r, "500")
    BY <2>1 DEF Cancel, DeadlockAbort, Deadlocked, WaitsFor
  <2>3. "500" \in Statuses BY DEF Statuses
  <2> QED BY <2>2, <2>3, FailRefs
<1>3. CASE \E p \in Procs : Restart(p)
  BY <1>3, RestartRefs
<1>4. CASE \E p \in Procs, t \in Tags : Evict(p, t)
  <2>1. TypeInv' BY <1>4, EvictTypes DEF RefInv
  <2> QED BY <1>4, <2>1, IdleRefs DEF Evict, storeVars
<1>5. CASE UNCHANGED vars
  <2>1. TypeInv' BY <1>5, NextTypes DEF RefInv
  <2> QED BY <1>5, <2>1, IdleRefs DEF vars, storeVars, serviceVars
<1> QED BY <1>1, <1>2, <1>3, <1>4, <1>5 DEF Next, Finished

\* A committed row of tags_map refers to a committed pick and a committed tag, and a
\* committed pick to a definition that is there, whatever ids stale caches handed out
\* and whichever deletes, rollbacks and restarts came between.
THEOREM NoDanglingRowsAlways == Spec => []NoDanglingRows
<1>1. Spec => []RefInv BY RefInit, NextRefs, PTL DEF Spec
<1> QED BY <1>1, RefsMeanNoDangling, PTL

-----------------------------------------------------------------------------
(* What the caches hold. *)

\* A tag is there as long as the transaction that made it was not rolled back.
TagsLive ==
    \A t \in Tags :
        tags[t] # NoRow => /\ tags[t].by \in Txs
                           /\ tx[tags[t].by] \in {"open", "checked", "committed"}

CacheInv == RefInv /\ TagsLive /\ StaleOnlyAfterRollback

LEMMA CacheInit == Init => CacheInv
BY RefInit DEF Init, StoreInit, CacheInv, TagsLive, StaleOnlyAfterRollback, NoIds, NoRow

\* A step that rolls nothing back and leaves the tags alone caches what it reads.
LEMMA CacheKept ==
    ASSUME CacheInv, tags' = tags,
           \A c \in Txs : Running(c) \/ tx[c] = "committed" =>
                             tx'[c] \in {"open", "checked", "committed"},
           \A c \in Txs : tx[c] = "aborted" => tx'[c] = "aborted",
           \A p \in Procs, t \in Tags : cache'[p][t] \in {0, cache[p][t], tags[t].id}
    PROVE  TagsLive' /\ StaleOnlyAfterRollback'
<1>1. TagsLive' BY DEF CacheInv, TagsLive, Running
<1>2. StaleOnlyAfterRollback'
  BY DEF CacheInv, StaleOnlyAfterRollback
<1> QED BY <1>1, <1>2

\* A rollback that takes no row is the end of a request without a transaction;
\* any other leaves an aborted one.
LEMMA CacheRollback ==
    ASSUME CacheInv, NEW X \in SUBSET Txs, Rollback(X),
           \A r \in X : tx[r] # "committed",
           \A p \in Procs, t \in Tags : cache'[p][t] \in {0, cache[p][t]}
    PROVE  TagsLive' /\ StaleOnlyAfterRollback'
<1>1. \A r \in Txs : tx'[r] = IF r \in X /\ Running(r) THEN "aborted" ELSE tx[r]
  BY DEF Rollback
<1>2. \A t \in Tags : tags'[t] = IF tags[t].by \in X THEN NoRow ELSE tags[t]
  BY DEF Rollback
<1>3. TagsLive' BY <1>1, <1>2 DEF CacheInv, TagsLive
<1>4. CASE \E r \in X : Running(r)
  <2>1. \E r \in Txs : tx'[r] = "aborted" BY <1>1, <1>4
  <2> QED BY <1>3, <2>1 DEF StaleOnlyAfterRollback
<1>5. CASE \A r \in X : ~Running(r)
  <2>1. \A r \in Txs : tx'[r] = tx[r] BY <1>1, <1>5
  <2>2. \A t \in Tags : tags'[t] = tags[t]
    BY <1>2, <1>5 DEF CacheInv, TagsLive, Running
  <2>3. StaleOnlyAfterRollback' BY <2>1, <2>2 DEF CacheInv, StaleOnlyAfterRollback
  <2> QED BY <1>3, <2>3
<1> QED BY <1>4, <1>5

LEMMA CacheFail ==
    ASSUME CacheInv, NEW r \in Txs, pc[r] # "done", NEW status \in Statuses, Fail(r, status)
    PROVE  CacheInv'
<1>1. Rollback({r}) /\ cache' = cache BY DEF Fail
<1>2. tx[r] # "committed" BY ActiveTx DEF CacheInv
<1>3. RefInv' BY FailRefs DEF CacheInv
<1>4. TagsLive' /\ StaleOnlyAfterRollback' BY <1>1, <1>2, CacheRollback
<1> QED BY <1>3, <1>4 DEF CacheInv

LEMMA StepCaches == ASSUME CacheInv, NEW r \in Txs, Step(r) PROVE CacheInv'
<1>1. RefInv' BY NextRefs DEF CacheInv, Next
<1>2. CASE Begin(r) \/ Commit(r)
  <2>1. /\ tags' = tags /\ cache' = cache
        /\ \/ tx' = tx
           \/ tx[r] = "idle" /\ tx' = [tx EXCEPT ![r] = "open"]
           \/ tx[r] = "checked" /\ tx' = [tx EXCEPT ![r] = "committed"]
    BY <1>2 DEF Begin, Commit, CacheInv, RefInv, InTx
  <2>2. \A c \in Txs : /\ Running(c) \/ tx[c] = "committed" =>
                             tx'[c] \in {"open", "checked", "committed"}
                       /\ tx[c] = "aborted" => tx'[c] = "aborted"
    BY <2>1 DEF Running, CacheInv, RefInv, TypeInv, TypeOK, StoreTypeOK
  <2> QED BY <1>1, <2>1, <2>2, CacheKept DEF CacheInv
<1>3. CASE GetTags(r) \/ ReadTags(r)
  <2> DEFINE new == SelectTags(r, Missing(r, have[r]))
  <2>1. /\ tags' = tags /\ tx' = tx
        /\ cache' = [cache EXCEPT ![Host[r]] = Merge(cache[Host[r]], new)]
    BY <1>3 DEF GetTags, ReadTags, StoreToCache, storeVars
  <2>2. \A t \in Tags : new[t] \in {0, tags[t].id} BY DEF SelectTags
  <2> HIDE DEF new
  <2>3. \A p \in Procs, t \in Tags : cache'[p][t] \in {0, cache[p][t], tags[t].id}
    BY <2>1, <2>2 DEF Merge, CacheInv, RefInv, TypeInv, TypeOK
  <2> QED BY <1>1, <2>1, <2>3, CacheKept DEF CacheInv, Running
<1>4. CASE CreateTag(r)
  <2> DEFINE u == Head(todo[r])
  <2>1. /\ tx' = tx /\ cache' = cache /\ tx[r] = "open"
        /\ tags' = IF tags[u] = NoRow THEN [tags EXCEPT ![u] = [id |-> nextTag, by |-> r]]
                   ELSE tags
    BY <1>4 DEF CreateTag, InsertTag, CacheInv, RefInv, InTx
  <2>2. \A t \in Tags :
            \/ tags'[t] = tags[t]
            \/ tags[t] = NoRow /\ tags'[t].by = r
    BY <2>1 DEF CacheInv, RefInv, TypeInv, TypeOK, StoreTypeOK
  <2>3. TagsLive' BY <2>1, <2>2 DEF CacheInv, TagsLive
  <2>4. StaleOnlyAfterRollback'
    BY <2>1, <2>2 DEF CacheInv, StaleOnlyAfterRollback, NoRow
  <2> QED BY <1>1, <2>3, <2>4 DEF CacheInv
<1>5. CASE CreatePick(r)
  <2>1. CASE Rollback({r})
    <3>1. tx[r] # "committed" /\ cache' = cache
      BY <1>5 DEF CreatePick, CacheInv, RefInv, InTx
    <3> QED BY <1>1, <2>1, <3>1, CacheRollback DEF CacheInv
  <2>2. CASE UNCHANGED <<tx, tags, cache>>
    BY <1>1, <2>2, CacheKept DEF CacheInv, Running
  <2> QED BY <1>5, <2>1, <2>2 DEF CreatePick
<1>6. CASE AddTag(r)
  <2>1. CASE Fail(r, "500")
    <3>1. "500" \in Statuses /\ pc[r] # "done" BY <1>6 DEF AddTag, Statuses
    <3> QED BY <2>1, <3>1, CacheFail
  <2>2. CASE UNCHANGED <<tx, tags, cache>>
    BY <1>1, <2>2, CacheKept DEF CacheInv, Running
  <2> QED BY <1>6, <2>1, <2>2 DEF AddTag
<1>7. CASE CheckRefs(r)
  <2>1. CASE \E status \in {"404", "500"} : Fail(r, status)
    <3>1. {"404", "500"} \subseteq Statuses /\ pc[r] # "done"
      BY <1>7 DEF CheckRefs, Statuses
    <3> QED BY <2>1, <3>1, CacheFail
  <2>2. CASE tx' = [tx EXCEPT ![r] = "checked"] /\ UNCHANGED <<tags, cache>>
    <3>1. tx[r] = "open" BY <1>7 DEF CheckRefs, CacheInv, RefInv, InTx
    <3>2. \A c \in Txs : /\ Running(c) \/ tx[c] = "committed" =>
                               tx'[c] \in {"open", "checked", "committed"}
                         /\ tx[c] = "aborted" => tx'[c] = "aborted"
      BY <2>2, <3>1 DEF Running, CacheInv, RefInv, TypeInv, TypeOK, StoreTypeOK
    <3> QED BY <1>1, <2>2, <3>2, CacheKept DEF CacheInv
  <2> QED BY <1>7, <2>1, <2>2 DEF CheckRefs
<1>8. CASE RemoveTags(r) \/ UnpickWord(r) \/ DeleteWord(r)
  <2>1. UNCHANGED <<tx, tags, cache>> BY <1>8 DEF RemoveTags, UnpickWord, DeleteWord
  <2> QED BY <1>1, <2>1, CacheKept DEF CacheInv, Running
<1> QED BY <1>2, <1>3, <1>4, <1>5, <1>6, <1>7, <1>8 DEF Step

LEMMA NextCaches == CacheInv /\ [Next]_vars => CacheInv'
<1> SUFFICES ASSUME CacheInv, [Next]_vars PROVE CacheInv' OBVIOUS
<1>1. RefInv' BY NextRefs DEF CacheInv
<1>2. CASE \E r \in Txs : Step(r) BY <1>2, StepCaches
<1>3. CASE \E r \in Txs : Cancel(r) \/ DeadlockAbort(r)
  <2>1. PICK r \in Txs : Cancel(r) \/ DeadlockAbort(r) BY <1>3
  <2>2. pc[r] # "done" /\ Fail(r, "500")
    BY <2>1 DEF Cancel, DeadlockAbort, Deadlocked, WaitsFor
  <2>3. "500" \in Statuses BY DEF Statuses
  <2> QED BY <2>2, <2>3, CacheFail
<1>4. CASE \E p \in Procs : Restart(p)
  <2>1. PICK p \in Procs : Restart(p) BY <1>4
  <2> DEFINE lost == {r \in Txs : Host[r] = p /\ Active(r)}
  <2>2. Rollback(lost) /\ cache' = [cache EXCEPT ![p] = NoIds] BY <2>1 DEF Restart
  <2>3. lost \in SUBSET Txs /\ \A r \in lost : tx[r] # "committed"
    BY ActiveTx DEF Active, CacheInv
  <2>4. \A q \in Procs, t \in Tags : cache'[q][t] \in {0, cache[q][t]}
    BY <2>2 DEF NoIds, CacheInv, RefInv, TypeInv, TypeOK
  <2> HIDE DEF lost
  <2> QED BY <1>1, <2>2, <2>3, <2>4, CacheRollback DEF CacheInv
<1>5. CASE \E p \in Procs, t \in Tags : Evict(p, t)
  <2>1. PICK p \in Procs, t \in Tags : Evict(p, t) BY <1>5
  <2>2. /\ cache' = [cache EXCEPT ![p][t] = 0] /\ tags' = tags /\ tx' = tx
    BY <2>1 DEF Evict, storeVars
  <2>3. \A q \in Procs, v \in Tags : cache'[q][v] \in {0, cache[q][v]}
    BY <2>2 DEF CacheInv, RefInv, TypeInv, TypeOK
  <2> QED BY <1>1, <2>2, <2>3, CacheKept DEF CacheInv, Running
<1>6. CASE UNCHANGED vars
  <2>1. UNCHANGED <<tx, tags, cache>> BY <1>6 DEF vars, storeVars, serviceVars
  <2> QED BY <1>1, <2>1, CacheKept DEF CacheInv, Running
<1> QED BY <1>2, <1>3, <1>4, <1>5, <1>6 DEF Next, Finished

\* As long as no transaction has been rolled back, a cached id is the id of its tag:
\* caching the ids of rows that are not committed yet is the only way to a stale one.
THEOREM StaleOnlyAfterRollbackAlways == Spec => []StaleOnlyAfterRollback
<1>1. Spec => []CacheInv BY CacheInit, NextCaches, PTL DEF Spec
<1>2. CacheInv => StaleOnlyAfterRollback BY DEF CacheInv
<1> QED BY <1>1, <1>2, PTL
=============================================================================
