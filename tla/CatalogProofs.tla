----------------------------- MODULE CatalogProofs -----------------------------
(***************************************************************************)
(* Proofs about words, definitions and images, for any number of editors    *)
(* and files and any number of deleted words.                              *)
(***************************************************************************)
EXTENDS CatalogProps, TLAPS

\* The serials are ahead of every id in a table or kept by an editor.
SerialsAhead ==
    /\ \A w \in words : w.id # 0 /\ w.id < nextWord
    /\ \A d \in defs : d.id # 0 /\ d.id < nextDef /\ d.word < nextWord
    /\ \A i \in images : i.def < nextDef
    /\ \A e \in Editors : word[e] < nextWord /\ def[e] < nextDef

\* What an editor's ids lead to, if anything, is its own.
OwnIds ==
    \A e \in Editors :
        /\ \A w \in words : w.id = word[e] => w.lemma = Lemma[e]
        /\ \A d \in defs : d.id = def[e] => d.text = e

\* A request past SaveImage holds a file that is whole.
WholeFile ==
    \A e \in Editors :
        /\ pc[e] \in {"uploading", "insert"} => file[e] \in Files
        /\ pc[e] = "insert" => upload[file[e]] = "stored"

CatInv ==
    /\ TypeOK
    /\ SerialsAhead /\ OwnIds /\ WholeFile
    /\ AttachedImagesAreWhole /\ NothingDangles /\ NoMixUp

\* A step of one request and no other.
LEMMA AnswerTypes ==
    ASSUME TypeOK, NEW e \in Editors, NEW status \in Answers,
           NEW next \in {"addWord", "createDef", "attach", "uploading", "insert", "done"},
           Answer(e, status, next)
    PROVE  /\ resp' \in [Editors -> Answers]
           /\ pc' \in [Editors -> {"addWord", "createDef", "attach", "uploading",
                                   "insert", "done"}]
           /\ pc'[e] = next /\ \A x \in Editors \ {e} : pc'[x] = pc[x]
BY DEF Answer, TypeOK

LEMMA AllAnswers ==
    Answers = {"none", "201", "400", "404", "409", "failed", "unstored"}
BY DEF Answers, Unsettled

LEMMA CatInit == Init => CatInv
BY FilesAssumption, DeletesAssumption, AllAnswers
   DEF Init, CatInv, TypeOK, SerialsAhead, OwnIds, WholeFile, AttachedImagesAreWhole,
       NothingDangles, NoMixUp

-----------------------------------------------------------------------------
LEMMA AddWordStep == ASSUME CatInv, NEW e \in Editors, AddWord(e) PROVE CatInv'
<1>1. Lemma[e] \in Lemmas BY DEF Lemmas
<1>2. /\ nextWord' = nextWord + 1
      /\ UNCHANGED <<defs, nextDef, images, upload, deletes, def, file>>
  BY DEF AddWord
<1>3. CASE \E row \in words : row.lemma = Lemma[e]
  <2>1. Answer(e, "409", "done") /\ UNCHANGED <<words, word>> BY <1>3 DEF AddWord
  <2>2. TypeOK' BY <1>2, <2>1, AnswerTypes, AllAnswers DEF CatInv, TypeOK
  <2>3. SerialsAhead' BY <1>2, <2>1 DEF CatInv, SerialsAhead, TypeOK, WordRows, DefRows
  <2>4. OwnIds' BY <1>2, <2>1 DEF CatInv, OwnIds
  <2>5. WholeFile' BY <1>2, <2>1, AnswerTypes, AllAnswers DEF CatInv, WholeFile
  <2> QED BY <1>2, <2>1, <2>2, <2>3, <2>4, <2>5
          DEF CatInv, AttachedImagesAreWhole, NothingDangles, NoMixUp, HasWord, HasDef
<1>4. CASE ~\E row \in words : row.lemma = Lemma[e]
  <2> DEFINE new == [id |-> nextWord, lemma |-> Lemma[e]]
  <2>1. PICK status \in AfterInsert :
          IF status = "201"
          THEN Answer(e, status, "createDef") /\ word' = [word EXCEPT ![e] = nextWord]
          ELSE Answer(e, status, "done") /\ UNCHANGED word
    BY <1>4 DEF AddWord, NewWordId
  <2>2. words' = words \cup {new} BY <1>4 DEF AddWord, NewWordId
  <2>3. new \in WordRows /\ new.id = nextWord /\ new.lemma = Lemma[e]
    BY <1>1 DEF CatInv, TypeOK, WordRows
  <2> HIDE DEF new
  <2>4. nextWord \in Nat /\ nextWord # 0 BY DEF CatInv, TypeOK
  <2>5. PICK next \in {"createDef", "done"} : Answer(e, status, next)
    BY <2>1
  <2>6. status \in Answers BY AllAnswers DEF AfterInsert
  <2>7. /\ word' \in [Editors -> Nat]
        /\ \A x \in Editors : word'[x] = word[x] \/ (x = e /\ word'[x] = nextWord)
    BY <2>1, <2>4 DEF CatInv, TypeOK
  <2>8. TypeOK' BY <1>2, <2>2, <2>3, <2>4, <2>5, <2>6, <2>7, AnswerTypes DEF CatInv, TypeOK
  <2>9. SerialsAhead'
    <3>1. \A x \in Editors : word'[x] < nextWord' /\ def'[x] < nextDef'
      BY <1>2, <2>4, <2>7 DEF CatInv, SerialsAhead, TypeOK
    <3>2. \A w \in words' : w.id # 0 /\ w.id < nextWord'
      BY <1>2, <2>2, <2>3, <2>4 DEF CatInv, SerialsAhead, TypeOK, WordRows
    <3>3. \A d \in defs' : d.id # 0 /\ d.id < nextDef' /\ d.word < nextWord'
      BY <1>2, <2>4 DEF CatInv, SerialsAhead, TypeOK, DefRows
    <3> QED BY <1>2, <3>1, <3>2, <3>3 DEF CatInv, SerialsAhead
  <2>10. OwnIds'
    <3>1. \A w \in words : w.id # nextWord
      BY <2>4 DEF CatInv, SerialsAhead, TypeOK, WordRows
    <3>2. \A x \in Editors : word[x] # nextWord
      BY <2>4 DEF CatInv, SerialsAhead, TypeOK
    <3> QED BY <1>2, <2>2, <2>3, <2>7, <3>1, <3>2 DEF CatInv, OwnIds
  <2>11. WholeFile' BY <1>2, <2>5, <2>6, AnswerTypes DEF CatInv, WholeFile
  <2>12. NoMixUp'
    <3>1. \A d \in defs : d.word # nextWord
      BY <2>4 DEF CatInv, SerialsAhead, TypeOK, DefRows
    <3> QED BY <1>2, <2>2, <2>3, <3>1 DEF CatInv, NoMixUp
  <2>13. NothingDangles' BY <1>2, <2>2 DEF CatInv, NothingDangles, HasWord, HasDef
  <2> QED BY <1>2, <2>8, <2>9, <2>10, <2>11, <2>12, <2>13 DEF CatInv, AttachedImagesAreWhole
<1> QED BY <1>3, <1>4

LEMMA CreateDefinitionStep ==
    ASSUME CatInv, NEW e \in Editors, CreateDefinition(e) PROVE CatInv'
<1>1. /\ pc[e] = "createDef" /\ nextDef' = nextDef + 1
      /\ UNCHANGED <<words, nextWord, images, upload, deletes, file>>
  BY DEF CreateDefinition
<1>2. /\ nextDef \in Nat /\ nextDef # 0 /\ nextWord \in Nat /\ nextWord # 0
      /\ word[e] \in Nat /\ word[e] < nextWord
  BY DEF CatInv, TypeOK, SerialsAhead
<1>3. CASE ~(HasWord(word[e]) /\ ~Defined(word[e], e))
  <2>1. /\ UNCHANGED <<defs, def>> /\ word' = [word EXCEPT ![e] = 0]
        /\ Answer(e, IF HasWord(word[e]) THEN "409" ELSE "404", "done")
    BY <1>3 DEF CreateDefinition
  <2>2. PICK status \in {"409", "404"} : Answer(e, status, "done") BY <2>1
  <2>3. status \in Answers BY AllAnswers
  <2>4. \A x \in Editors : word'[x] = word[x] \/ word'[x] = 0
    BY <2>1 DEF CatInv, TypeOK
  <2>5. TypeOK' BY <1>1, <2>1, <2>2, <2>3, AnswerTypes DEF CatInv, TypeOK
  <2>6. SerialsAhead'
    BY <1>1, <1>2, <2>1, <2>4 DEF CatInv, SerialsAhead, TypeOK, DefRows, ImageRows
  <2>7. OwnIds' BY <1>1, <2>1, <2>4 DEF CatInv, OwnIds, SerialsAhead
  <2>8. WholeFile' BY <1>1, <2>2, <2>3, AnswerTypes DEF CatInv, WholeFile
  <2> QED BY <1>1, <2>1, <2>5, <2>6, <2>7, <2>8
          DEF CatInv, AttachedImagesAreWhole, NothingDangles, NoMixUp, HasWord, HasDef
<1>4. CASE HasWord(word[e]) /\ ~Defined(word[e], e)
  <2> DEFINE new == DefRow(word[e], e)
  <2>1. PICK status \in AfterInsert :
          IF status = "201"
          THEN /\ Answer(e, status, "attach")
               /\ word' = [word EXCEPT ![e] = 0]
               /\ def' = [def EXCEPT ![e] = nextDef]
          ELSE Answer(e, status, "done") /\ UNCHANGED <<word, def>>
    BY <1>4 DEF CreateDefinition
  <2>2. defs' = defs \cup {new} BY <1>4 DEF CreateDefinition
  <2>3. /\ new \in DefRows
        /\ new.id = nextDef /\ new.word = word[e] /\ new.text = e
    BY <1>2 DEF DefRow, DefRows
  <2> HIDE DEF new
  <2>4. PICK next \in {"attach", "done"} : Answer(e, status, next) BY <2>1
  <2>5. status \in Answers BY AllAnswers DEF AfterInsert
  <2>6. /\ def' \in [Editors -> Nat] /\ word' \in [Editors -> Nat]
        /\ \A x \in Editors : /\ word'[x] = word[x] \/ word'[x] = 0
                              /\ def'[x] = def[x] \/ (x = e /\ def'[x] = nextDef)
    BY <1>2, <2>1 DEF CatInv, TypeOK
  <2>7. TypeOK' BY <1>1, <1>2, <2>2, <2>3, <2>4, <2>5, <2>6, AnswerTypes DEF CatInv, TypeOK
  <2>8. SerialsAhead'
    <3>1. \A x \in Editors : word'[x] < nextWord'
      BY <1>1, <1>2, <2>6 DEF CatInv, SerialsAhead
    <3>2. \A x \in Editors : def'[x] < nextDef'
      BY <1>1, <1>2, <2>6 DEF CatInv, SerialsAhead, TypeOK
    <3>3. \A d \in defs' : d.id # 0 /\ d.id < nextDef' /\ d.word < nextWord'
      BY <1>1, <1>2, <2>2, <2>3 DEF CatInv, SerialsAhead, TypeOK, DefRows
    <3>4. \A i \in images' : i.def < nextDef'
      BY <1>1, <1>2 DEF CatInv, SerialsAhead, TypeOK, ImageRows
    <3> QED BY <1>1, <3>1, <3>2, <3>3, <3>4 DEF CatInv, SerialsAhead
  <2>9. OwnIds'
    <3>1. \A d \in defs : d.id # nextDef BY <1>2 DEF CatInv, SerialsAhead, TypeOK, DefRows
    <3>2. \A x \in Editors : def[x] # nextDef BY <1>2 DEF CatInv, SerialsAhead, TypeOK
    <3>3. \A x \in Editors, w \in words' : w.id = word'[x] => w.lemma = Lemma[x]
      BY <1>1, <2>6 DEF CatInv, OwnIds, SerialsAhead
    <3>4. \A x \in Editors, d \in defs' : d.id = def'[x] => d.text = x
      BY <2>2, <2>3, <2>6, <3>1, <3>2 DEF CatInv, OwnIds
    <3> QED BY <3>3, <3>4 DEF OwnIds
  <2>10. WholeFile' BY <1>1, <2>4, <2>5, AnswerTypes DEF CatInv, WholeFile
  <2>11. NothingDangles'
    BY <1>1, <1>4, <2>2, <2>3 DEF CatInv, NothingDangles, HasWord, HasDef
  <2>12. NoMixUp'
    <3>1. \A i \in images : i.def # nextDef
      BY <1>2 DEF CatInv, SerialsAhead, TypeOK, ImageRows
    <3>2. \A w \in words : w.id = word[e] => w.lemma = Lemma[e] BY DEF CatInv, OwnIds
    <3> QED BY <1>1, <2>2, <2>3, <3>1, <3>2 DEF CatInv, NoMixUp
  <2> QED BY <1>1, <2>7, <2>8, <2>9, <2>10, <2>11, <2>12 DEF CatInv, AttachedImagesAreWhole
<1> QED BY <1>3, <1>4

LEMMA DeleteWordStep == ASSUME CatInv, NEW x \in Nat, DeleteWord(x) PROVE CatInv'
<1>1. /\ words' = {row \in words : row.id # x}
      /\ defs' = {row \in defs : row.word # x}
      /\ images' = {row \in images : \A d \in defs : d.id = row.def => d.word # x}
      /\ deletes < MaxDeletes /\ deletes' = deletes + 1
      /\ UNCHANGED <<nextWord, nextDef, upload, pc, word, def, file, resp>>
  BY DEF DeleteWord, Cascade, locals
<1>2. TypeOK' BY <1>1, DeletesAssumption DEF CatInv, TypeOK
<1>3. SerialsAhead' BY <1>1 DEF CatInv, SerialsAhead
<1>4. OwnIds' BY <1>1 DEF CatInv, OwnIds
<1>5. WholeFile' BY <1>1 DEF CatInv, WholeFile
<1>6. AttachedImagesAreWhole' BY <1>1 DEF CatInv, AttachedImagesAreWhole
<1>7. NothingDangles' BY <1>1 DEF CatInv, NothingDangles, HasWord, HasDef
<1>8. NoMixUp' BY <1>1 DEF CatInv, NoMixUp
<1> QED BY <1>2, <1>3, <1>4, <1>5, <1>6, <1>7, <1>8 DEF CatInv

\* A step that only uploads, and never touches a file that is whole.
LEMMA UploadKeeps ==
    ASSUME CatInv, UNCHANGED <<tables, word, def>>,
           upload' \in [Files -> {"none", "copying", "stored", "failed"}],
           \A f \in Files : upload[f] = "stored" => upload'[f] = "stored"
    PROVE  /\ SerialsAhead' /\ OwnIds' /\ AttachedImagesAreWhole'
           /\ NothingDangles' /\ NoMixUp'
<1>1. SerialsAhead' BY DEF CatInv, SerialsAhead, tables
<1>2. OwnIds' BY DEF CatInv, OwnIds, tables
<1>3. AttachedImagesAreWhole'
  BY DEF CatInv, AttachedImagesAreWhole, tables, TypeOK, ImageRows
<1>4. NothingDangles' BY DEF CatInv, NothingDangles, HasWord, HasDef, tables
<1>5. NoMixUp' BY DEF CatInv, NoMixUp, tables
<1> QED BY <1>1, <1>2, <1>3, <1>4, <1>5

LEMMA StartUploadStep == ASSUME CatInv, NEW e \in Editors, StartUpload(e) PROVE CatInv'
<1>1. pc[e] = "attach" /\ UNCHANGED <<tables, deletes, word, def>> BY DEF StartUpload
<1>2. ASSUME NEW f \in Files, upload[f] = "none", upload' = [upload EXCEPT ![f] = "copying"],
             file' = [file EXCEPT ![e] = f], Answer(e, "none", "uploading")
      PROVE  CatInv'
  <2>1. TypeOK' BY <1>1, <1>2, AnswerTypes, AllAnswers DEF CatInv, TypeOK, tables
  <2>2. \A g \in Files : upload[g] = "stored" => upload'[g] = "stored"
    BY <1>2 DEF CatInv, TypeOK
  <2>3. /\ pc'[e] = "uploading" /\ \A x \in Editors \ {e} : pc'[x] = pc[x]
    BY <1>2, AnswerTypes, AllAnswers DEF CatInv
  <2>4. WholeFile' BY <1>2, <2>2, <2>3 DEF CatInv, TypeOK, WholeFile
  <2> QED BY <1>1, <2>1, <2>2, <2>4, UploadKeeps DEF CatInv, TypeOK
<1>3. ASSUME NEW status \in {"400", "unstored"}, Answer(e, status, "done"),
             UNCHANGED <<upload, file>>
      PROVE  CatInv'
  <2>1. TypeOK' BY <1>1, <1>3, AnswerTypes, AllAnswers DEF CatInv, TypeOK, tables
  <2>2. WholeFile' BY <1>3, AnswerTypes, AllAnswers DEF CatInv, WholeFile
  <2> QED BY <1>1, <1>3, <2>1, <2>2, UploadKeeps DEF CatInv, TypeOK
<1> QED BY <1>2, <1>3 DEF StartUpload

LEMMA CopyImageStep == ASSUME CatInv, NEW f \in Files, CopyImage(f) PROVE CatInv'
<1>1. PICK outcome \in {"stored", "failed"} : upload' = [upload EXCEPT ![f] = outcome]
  BY DEF CopyImage
<1>2. upload[f] = "copying" /\ UNCHANGED <<tables, deletes, pc, word, def, file, resp>>
  BY DEF CopyImage, locals
<1>3. TypeOK' BY <1>1, <1>2 DEF CatInv, TypeOK, tables
<1>4. \A g \in Files : upload[g] = "stored" => upload'[g] = "stored"
  BY <1>1, <1>2 DEF CatInv, TypeOK
<1>5. WholeFile' BY <1>2, <1>4 DEF CatInv, WholeFile
<1> QED BY <1>2, <1>3, <1>4, <1>5, UploadKeeps DEF CatInv, TypeOK

\* A request that ends without a row changes no table.
LEMMA GivenUp ==
    ASSUME CatInv, NEW e \in Editors, NEW status \in Answers, GiveUp(e, status),
           UNCHANGED <<tables, upload, deletes, word, def>>
    PROVE  CatInv'
<1>1. Answer(e, status, "done") /\ file' = [file EXCEPT ![e] = NoFile] BY DEF GiveUp
<1>2. TypeOK' BY <1>1, AnswerTypes DEF CatInv, TypeOK, tables
<1>3. WholeFile' BY <1>1, AnswerTypes DEF CatInv, WholeFile, TypeOK
<1> QED BY <1>2, <1>3, UploadKeeps DEF CatInv, TypeOK

LEMMA SaveImageStep == ASSUME CatInv, NEW e \in Editors, SaveImage(e) PROVE CatInv'
<1>1. pc[e] = "uploading" /\ UNCHANGED <<tables, upload, deletes, word, def>>
  BY DEF SaveImage
<1>2. ASSUME Accepted(file[e]), pc' = [pc EXCEPT ![e] = "insert"], UNCHANGED <<file, resp>>
      PROVE  CatInv'
  <2>1. TypeOK' BY <1>1, <1>2 DEF CatInv, TypeOK, tables
  <2>2. WholeFile' BY <1>1, <1>2 DEF CatInv, TypeOK, WholeFile, Accepted
  <2> QED BY <1>1, <2>1, <2>2, UploadKeeps DEF CatInv, TypeOK
<1>3. ASSUME NEW status \in {"failed", "400", "unstored"}, GiveUp(e, status) PROVE CatInv'
  <2>1. status \in Answers BY AllAnswers
  <2> QED BY <1>1, <1>3, <2>1, GivenUp
<1> QED BY <1>2, <1>3 DEF SaveImage

LEMMA AttachImageStep == ASSUME CatInv, NEW e \in Editors, AttachImage(e) PROVE CatInv'
<1>1. /\ pc[e] = "insert"
      /\ UNCHANGED <<words, nextWord, defs, nextDef, upload, deletes, word, def>>
  BY DEF AttachImage
<1>2. CASE ~(HasDef(def[e]) /\ ~Attached(def[e], file[e]))
  <2>1. GiveUp(e, IF HasDef(def[e]) THEN "409" ELSE "404") /\ UNCHANGED images
    BY <1>2 DEF AttachImage
  <2>2. PICK status \in {"409", "404"} : GiveUp(e, status) BY <2>1
  <2>3. status \in Answers BY AllAnswers
  <2> QED BY <1>1, <2>1, <2>2, <2>3, GivenUp DEF tables
<1>3. CASE HasDef(def[e]) /\ ~Attached(def[e], file[e])
  <2> DEFINE new == [def |-> def[e], file |-> file[e], of |-> e]
  <2>1. images' = images \cup {new} BY <1>3 DEF AttachImage
  <2>2. PICK status \in AfterInsert : GiveUp(e, status) BY <1>3 DEF AttachImage
  <2>3. /\ Answer(e, status, "done") /\ file' = [file EXCEPT ![e] = NoFile]
        /\ status \in Answers
    BY <2>2, AllAnswers DEF GiveUp, AfterInsert
  <2>4. file[e] \in Files /\ upload[file[e]] = "stored" BY <1>1 DEF CatInv, WholeFile
  <2>5. new \in ImageRows /\ new.def = def[e] /\ new.file = file[e] /\ new.of = e
    BY <2>4 DEF CatInv, TypeOK, ImageRows
  <2> HIDE DEF new
  <2>6. TypeOK' BY <1>1, <2>1, <2>3, <2>5, AnswerTypes DEF CatInv, TypeOK
  <2>7. SerialsAhead' BY <1>1, <2>1, <2>5 DEF CatInv, SerialsAhead
  <2>8. OwnIds' BY <1>1 DEF CatInv, OwnIds
  <2>9. WholeFile' BY <1>1, <2>3, AnswerTypes DEF CatInv, WholeFile, TypeOK
  <2>10. AttachedImagesAreWhole'
    BY <1>1, <2>1, <2>4, <2>5 DEF CatInv, AttachedImagesAreWhole
  <2>11. NothingDangles' BY <1>1, <1>3, <2>1, <2>5 DEF CatInv, NothingDangles, HasWord, HasDef
  <2>12. NoMixUp' BY <1>1, <2>1, <2>5 DEF CatInv, NoMixUp, OwnIds
  <2> QED BY <2>6, <2>7, <2>8, <2>9, <2>10, <2>11, <2>12 DEF CatInv
<1> QED BY <1>2, <1>3

LEMMA RetryStep == ASSUME CatInv, NEW e \in Editors, Retry(e) PROVE CatInv'
<1>1. UNCHANGED <<tables, upload, deletes, word, def, file>> BY DEF Retry, locals
<1>2. PICK next \in {"addWord", "createDef", "attach"} : Answer(e, "none", next)
  BY DEF Retry
<1>3. "none" \in Answers BY AllAnswers
<1>4. TypeOK' BY <1>1, <1>2, <1>3, AnswerTypes DEF CatInv, TypeOK, tables
<1>5. WholeFile' BY <1>1, <1>2, <1>3, AnswerTypes DEF CatInv, WholeFile
<1> QED BY <1>1, <1>4, <1>5, UploadKeeps DEF CatInv, TypeOK

LEMMA CatStep == CatInv /\ [Next]_vars => CatInv'
<1> SUFFICES ASSUME CatInv, [Next]_vars PROVE CatInv'
  OBVIOUS
<1>1. ASSUME NEW e \in Editors, Fail(e) PROVE CatInv'
  BY <1>1, GivenUp, AllAnswers DEF Fail
<1>2. ASSUME NEW x \in 1 .. nextWord, DeleteWord(x) PROVE CatInv'
  <2>1. x \in Nat BY DEF CatInv, TypeOK
  <2> QED BY <1>2, <2>1, DeleteWordStep
<1>3. CASE UNCHANGED vars
  <2>1. /\ UNCHANGED <<tables, word, def, upload, pc, file, resp, deletes>>
    BY <1>3 DEF vars, locals
  <2>2. TypeOK' BY <2>1 DEF CatInv, TypeOK, tables
  <2>3. WholeFile' BY <2>1 DEF CatInv, WholeFile
  <2> QED BY <2>1, <2>2, <2>3, UploadKeeps DEF CatInv, TypeOK
<1> QED
  BY <1>1, <1>2, <1>3, AddWordStep, CreateDefinitionStep, StartUploadStep, CopyImageStep,
     SaveImageStep, AttachImageStep, RetryStep DEF Next, Serve, Finished

-----------------------------------------------------------------------------
\* The tables of the catalog, the files and the requests of the editors keep their
\* types.
THEOREM TypeCorrect == Spec => []TypeOK
<1>1. CatInv => TypeOK BY DEF CatInv
<1> QED BY <1>1, CatInit, CatStep, PTL DEF Spec

\* Attached images are whole files, however uploads break off and are sent again.
THEOREM AttachedImagesAreWholeAlways == Spec => []AttachedImagesAreWhole
<1>1. CatInv => AttachedImagesAreWhole BY DEF CatInv
<1> QED BY <1>1, CatInit, CatStep, PTL DEF Spec

\* Cascading deletes beside requests that add rows leave nothing dangling.
THEOREM NothingDanglesAlways == Spec => []NothingDangles
<1>1. CatInv => NothingDangles BY DEF CatInv
<1> QED BY <1>1, CatInit, CatStep, PTL DEF Spec

\* An id an editor keeps never leads to something it did not write.
THEOREM NoMixUpAlways == Spec => []NoMixUp
<1>1. CatInv => NoMixUp BY DEF CatInv
<1> QED BY <1>1, CatInit, CatStep, PTL DEF Spec
=============================================================================
