------------------------------- MODULE PickBook -------------------------------
(***************************************************************************)
(* What the words service promises about picks, without transactions, ids  *)
(* of tags or caches: a book of picks, each with the texts of its tags,    *)
(* changed by one request at a time, wholly or not at all.                 *)
(***************************************************************************)
CONSTANTS Words, Defs, WordOf,
          Inputs,  \* the requests
          Ids      \* of picks

VARIABLES
    book,      \* the picks
    meanings   \* the definitions that can be picked

bookVars == <<book, meanings>>

Init == book = {} /\ meanings = Defs

\* A definition is picked once per user; the pick appears with all its tags.
Pick(i) ==
    /\ i.op = "PickWord"
    /\ i.def \in meanings
    /\ ~ \E k \in book : k.user = i.user /\ k.def = i.def
    /\ \E n \in Ids :
          /\ ~ \E k \in book : k.id = n
          /\ book' = book \cup
                {[id |-> n, user |-> i.user, def |-> i.def, tags |-> i.tags]}
    /\ UNCHANGED meanings

\* All tags are added, and none when the pick already carries one of them.
Tag(i) ==
    /\ i.op = "AddTags"
    /\ \E k \in book :
          /\ k.id = i.pick
          /\ k.tags \cap i.tags = {}
          /\ book' = (book \ {k}) \cup {[k EXCEPT !.tags = @ \cup i.tags]}
    /\ UNCHANGED meanings

\* Only tags that were looked up in time are removed.
Untag(i) ==
    /\ i.op = "RemoveTags"
    /\ \E k \in book, T \in SUBSET i.tags :
          /\ k.id = i.pick
          /\ book' = (book \ {k}) \cup {[k EXCEPT !.tags = @ \ T]}
    /\ UNCHANGED meanings

Unpick(i) ==
    /\ i.op = "UnpickWord"
    /\ book' = {k \in book : k.id # i.pick}
    /\ UNCHANGED meanings

DeleteWord(i) ==
    /\ i.op = "DeleteWord"
    /\ meanings' = {d \in meanings : WordOf[d] # i.word}
    /\ book' = {k \in book : WordOf[k.def] # i.word}

Next ==
    \E i \in Inputs : Pick(i) \/ Tag(i) \/ Untag(i) \/ Unpick(i) \/ DeleteWord(i)

Spec == Init /\ [][Next]_bookVars
=============================================================================
