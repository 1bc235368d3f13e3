------------------------------ MODULE CatalogProps ------------------------------
(***************************************************************************)
(* What words, definitions and images must satisfy.                        *)
(***************************************************************************)
EXTENDS Catalog

\* --- invariants ---------------------------------------------------------

\* An image that a definition shows is a whole file, whatever uploads broke off and
\* were sent again.
AttachedImagesAreWhole == \A row \in images : upload[row.file] = "stored"

\* Definitions have their word and images their definition, while words are deleted
\* beside the requests that add to them.
NothingDangles ==
    /\ \A row \in defs : HasWord(row.word)
    /\ \A row \in images : HasDef(row.def)

\* An id an editor has kept since its answer never leads to something else: its
\* definitions are on the word it added, its images on its own definition.
NoMixUp ==
    /\ \A d \in defs, w \in words : d.word = w.id => w.lemma = Lemma[d.text]
    /\ \A i \in images, d \in defs : i.def = d.id => d.text = i.of

\* --- liveness -----------------------------------------------------------

\* words.go:348, "AttachImage attaches an image to a word definition": when the file of
\* a request that still waits for it has been stored, be it the first or a repeated one,
\* the image is attached, or what stopped it came after the store: the definition is gone
\* or its id no number, the answer made no sense, a statement failed, the request was cut
\* off.  It is not refused for the status, nor as a duplicate, and it does not hang.
StoredIsAttached ==
    \A e \in Editors, f \in Files :
        pc[e] = "uploading" /\ file[e] = f /\ upload[f] = "stored" ~>
            \/ \E row \in images : row.file = f
            \/ pc[e] = "done" /\ resp[e] \in {"400", "404", "failed"}
=============================================================================
