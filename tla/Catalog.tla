-------------------------------- MODULE Catalog --------------------------------
(***************************************************************************)
(* Words, definitions and their images: the editing half of the words      *)
(* service (rest/api.go, service/words.go) together with the image service *)
(* it stores files in (words image/remote.go, image service/image.go).     *)
(* An editor adds a word, defines it and attaches an image, one request    *)
(* after the other with the ids the answers gave it, while words are       *)
(* deleted.  Attaching an image is the request with steps: the file is     *)
(* uploaded to the other service first, then the row is inserted.  Any     *)
(* statement may fail, and any answer be lost after its row is committed;  *)
(* the editor sends such a request again.                                  *)
(***************************************************************************)
EXTENDS Naturals, FiniteSets, FiniteSetsExt

CONSTANTS
    Editors,
    Lemma,          \* the word an editor adds
    Files, NoFile,  \* file names (uuids) of the image service
    UploadStatus,   \* what the image service answers to a stored upload
    MaxDeletes      \* bound: words deleted

Lemmas == {Lemma[e] : e \in Editors}

ASSUME LemmaAssumption == DOMAIN Lemma = Editors
ASSUME FilesAssumption == NoFile \notin Files
ASSUME StatusAssumption == UploadStatus \in {"200", "201"}
ASSUME DeletesAssumption == MaxDeletes \in Nat

VARIABLES
    words, nextWord,  \* rows of words, and the serial words.id
    defs, nextDef,    \* rows of definitions, and the serial definitions.id
    images,           \* rows of images
    upload,           \* by file: not there, being written, whole, or left half written
    deletes,          \* words deleted so far
    pc,               \* the request an editor makes next, or the step it is in
    word, def, file,  \* the ids and the file an editor goes on with, 0 or NoFile: none
    resp              \* how an editor's last request ended, none while one runs

tables == <<words, nextWord, defs, nextDef, images>>
locals == <<word, def, file>>
vars == <<tables, upload, deletes, pc, locals, resp>>

\* Ends that tell the client nothing of what is stored.  Failed: a statement or a call
\* failed, what it returned made no sense (500), or the request was cut off.  Unstored:
\* the image service answered something else than SaveImage expects (500).
Unsettled == {"failed", "unstored"}
Answers == Unsettled \cup {"none", "201", "400", "404", "409"}

\* The editor who wrote a definition or sent an image stands for its text.
WordRows  == [id : Nat, lemma : Lemmas]
DefRows   == [id : Nat, word : Nat, text : Editors]
ImageRows == [def : Nat, file : Files, of : Editors]

TypeOK ==
    /\ words \subseteq WordRows /\ defs \subseteq DefRows /\ images \subseteq ImageRows
    /\ nextWord \in Nat \ {0} /\ nextDef \in Nat \ {0}
    /\ upload \in [Files -> {"none", "copying", "stored", "failed"}]
    /\ deletes \in 0 .. MaxDeletes
    /\ pc \in [Editors -> {"addWord", "createDef", "attach", "uploading", "insert", "done"}]
    /\ word \in [Editors -> Nat] /\ def \in [Editors -> Nat]
    /\ file \in [Editors -> Files \cup {NoFile}]
    /\ resp \in [Editors -> Answers]

Init ==
    /\ words = {} /\ defs = {} /\ images = {}
    /\ nextWord = 1 /\ nextDef = 1
    /\ upload = [f \in Files |-> "none"]
    /\ deletes = 0
    /\ pc = [e \in Editors |-> "addWord"]
    /\ word = [e \in Editors |-> 0]
    /\ def = [e \in Editors |-> 0]
    /\ file = [e \in Editors |-> NoFile]
    /\ resp = [e \in Editors |-> "none"]

-----------------------------------------------------------------------------
Answer(e, status, next) ==
    /\ resp' = [resp EXCEPT ![e] = status]
    /\ pc' = [pc EXCEPT ![e] = next]

\* Mutant: the smallest id that is free.
FirstFreeWord == Min(1 .. Cardinality(words) + 1 \ {row.id : row \in words})

\* words.id is a serial: an id is never given out again.
NewWordId == nextWord

HasWord(w) == \E row \in words : row.id = w
HasDef(d)  == \E row \in defs : row.id = d
Defined(w, text) == \E row \in defs : row.word = w /\ row.text = text

\* An INSERT is one statement outside any transaction: once it went through, the row
\* stays, also when the database connection breaks before the id comes back or the
\* client is gone.
AfterInsert == {"201", "failed"}

\* AddWord: UNIQUE (lemma, lang, class) is answered with 409, and the editor never
\* learns the id of the word that is there.
AddWord(e) ==
    /\ pc[e] = "addWord"
    /\ nextWord' = nextWord + 1
    /\ IF \E row \in words : row.lemma = Lemma[e]
       THEN Answer(e, "409", "done") /\ UNCHANGED <<words, word>>
       ELSE /\ words' = words \cup {[id |-> NewWordId, lemma |-> Lemma[e]]}
            /\ \E status \in AfterInsert :
                  IF status = "201"
                  THEN Answer(e, status, "createDef") /\ word' = [word EXCEPT ![e] = NewWordId]
                  ELSE Answer(e, status, "done") /\ UNCHANGED word
    /\ UNCHANGED <<defs, nextDef, images, upload, deletes, def, file>>

\* Mutant: the arguments $1 and $2 of the INSERT in the wrong order.
SwappedDefRow(w, e) == [id |-> nextDef, word |-> e, text |-> w]

\* The row INSERT INTO definitions writes.
DefRow(w, e) == [id |-> nextDef, word |-> w, text |-> e]

\* CreateDefinition: the foreign key is answered with 404, UNIQUE (word_id, def) with
\* 409, which an editor meets who sends a text again whose row is there.
CreateDefinition(e) ==
    /\ pc[e] = "createDef"
    /\ nextDef' = nextDef + 1
    /\ IF HasWord(word[e]) /\ ~Defined(word[e], e)
       THEN /\ defs' = defs \cup {DefRow(word[e], e)}
            /\ \E status \in AfterInsert :
                  IF status = "201"
                  THEN /\ Answer(e, status, "attach")
                       /\ word' = [word EXCEPT ![e] = 0]
                       /\ def' = [def EXCEPT ![e] = nextDef]
                  ELSE Answer(e, status, "done") /\ UNCHANGED <<word, def>>
       ELSE /\ Answer(e, IF HasWord(word[e]) THEN "409" ELSE "404", "done")
            /\ word' = [word EXCEPT ![e] = 0]
            /\ UNCHANGED <<defs, def>>
    /\ UNCHANGED <<words, nextWord, images, upload, deletes, file>>

\* Mutant: definitions without ON DELETE CASCADE to images.
OnlyDefs(w) ==
    /\ defs' = {row \in defs : row.word # w}
    /\ UNCHANGED images

\* ON DELETE CASCADE from words to definitions to images.  The files stay.
Cascade(w) ==
    /\ defs' = {row \in defs : row.word # w}
    /\ images' = {row \in images : \A d \in defs : d.id = row.def => d.word # w}

DeleteWord(w) ==
    /\ HasWord(w) /\ deletes < MaxDeletes
    /\ words' = {row \in words : row.id # w}
    /\ Cascade(w)
    /\ deletes' = deletes + 1
    /\ UNCHANGED <<nextWord, nextDef, upload, pc, locals, resp>>

-----------------------------------------------------------------------------
\* PUT /images/{def_id}/{source}: a form without an image is answered with 400.  Then
\* SaveImage posts the image, and the image service refuses what is no image or too
\* large, or creates a file under a new name.
StartUpload(e) ==
    /\ pc[e] = "attach"
    /\ \/ /\ \E f \in Files :
                /\ upload[f] = "none"
                /\ upload' = [upload EXCEPT ![f] = "copying"]
                /\ file' = [file EXCEPT ![e] = f]
          /\ Answer(e, "none", "uploading")
       \/ /\ \E status \in {"400", "unstored"} : Answer(e, status, "done")
          /\ UNCHANGED <<upload, file>>
    /\ UNCHANGED <<tables, deletes, word, def>>

\* The image service copies the image into the file and answers; an error (the image
\* is larger than allowed, the disk is full, the process dies) leaves the file as it
\* is.  It goes on when the client is gone.
CopyImage(f) ==
    /\ upload[f] = "copying"
    /\ \E outcome \in {"stored", "failed"} : upload' = [upload EXCEPT ![f] = outcome]
    /\ UNCHANGED <<tables, deletes, pc, locals, resp>>

\* Mutant: only "accepted" will do.
NoAnswer(f) == upload[f] = "stored" /\ UploadStatus = "202"

\* Mutant: any answer of the image service will do.
AnyAnswer(f) == upload[f] \in {"stored", "failed"}

\* SaveImage expects 200.
Accepted(f) == upload[f] = "stored" /\ UploadStatus = "200"

\* The request ends without a row.
GiveUp(e, status) ==
    /\ Answer(e, status, "done")
    /\ file' = [file EXCEPT ![e] = NoFile]

\* With the file stored, the answer may still be unreadable (no JSON, no URL, cut short),
\* and def_id is parsed only now.
SaveImage(e) ==
    /\ pc[e] = "uploading"
    /\ upload[file[e]] \in {"stored", "failed"}
    /\ IF Accepted(file[e])
       THEN \/ pc' = [pc EXCEPT ![e] = "insert"] /\ UNCHANGED <<file, resp>>
            \/ \E status \in {"failed", "400"} : GiveUp(e, status)
       ELSE GiveUp(e, "unstored")
    /\ UNCHANGED <<tables, upload, deletes, word, def>>

Attached(d, f) == \E row \in images : row.def = d /\ row.file = f

\* AttachImage: the row.  UNIQUE (def_id, url) is answered with 409, but as every upload
\* has a new name, an image that is sent again passes it.  The definition may be gone.
AttachImage(e) ==
    /\ pc[e] = "insert"
    /\ IF HasDef(def[e]) /\ ~Attached(def[e], file[e])
       THEN /\ images' = images \cup {[def |-> def[e], file |-> file[e], of |-> e]}
            /\ \E status \in AfterInsert : GiveUp(e, status)
       ELSE /\ GiveUp(e, IF HasDef(def[e]) THEN "409" ELSE "404")
            /\ UNCHANGED images
    /\ UNCHANGED <<words, nextWord, defs, nextDef, upload, deletes, word, def>>

\* A statement, or the call to the image service, fails without effect here (no
\* connection, a value the enum does not have), or the client or the words service goes
\* away.  The number an INSERT may have drawn is not: a gap would show nowhere.
Fail(e) ==
    /\ pc[e] \in {"addWord", "createDef", "uploading", "insert"}
    /\ GiveUp(e, "failed")
    /\ UNCHANGED <<tables, upload, deletes, word, def>>

\* The editor, who cannot know what became of it, sends the request again; an image
\* only as long as there are file names left.
Retry(e) ==
    /\ pc[e] = "done" /\ resp[e] \in Unsettled
    /\ IF def[e] = 0
       THEN Answer(e, "none", IF word[e] = 0 THEN "addWord" ELSE "createDef")
       ELSE (\E f \in Files : upload[f] = "none") /\ Answer(e, "none", "attach")
    /\ UNCHANGED <<tables, upload, deletes, locals>>

Finished == (\A e \in Editors : pc[e] = "done") /\ UNCHANGED vars

Serve(e) == SaveImage(e) \/ AttachImage(e)

Next ==
    \/ \E e \in Editors : \/ AddWord(e) \/ CreateDefinition(e) \/ StartUpload(e)
                          \/ Serve(e) \/ Fail(e) \/ Retry(e)
    \/ \E w \in 1 .. nextWord : DeleteWord(w)
    \/ \E f \in Files : CopyImage(f)
    \/ Finished

Spec == Init /\ [][Next]_vars

\* Requests that run go on running, in both services.
FairSpec ==
    /\ Spec
    /\ \A e \in Editors : WF_vars(Serve(e))
    /\ \A f \in Files : WF_vars(CopyImage(f))
=============================================================================
