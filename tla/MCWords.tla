------------------------------- MODULE MCWords -------------------------------
(***************************************************************************)
(* Small instances of the words service for TLC.  Requests are one-shot, so *)
(* the number of requests bounds the serials and every run terminates.     *)
(***************************************************************************)
EXTENDS WordsProps, TLC

CONSTANTS r1, r2, r3, r4, p1, p2, a, b, u1, d1, d2, w1

MCWordOf == [d \in Defs |-> w1]

OneReplica  == [r \in Txs |-> p1]
TwoReplicas == [r \in Txs |-> IF r = r3 THEN p2 ELSE p1]

\* r1 and r2 run on the same replica and differ in nothing else.
SameReplica == Permutations({r1, r2})

Picking(d, T)    == [op |-> "PickWord", user |-> u1, def |-> d, tags |-> T]
Tagging(i, T)    == [op |-> "AddTags", pick |-> i, tags |-> T]
Untagging(i, T)  == [op |-> "RemoveTags", pick |-> i, tags |-> T]
Unpicking(i)     == [op |-> "UnpickWord", pick |-> i]
Deleting         == [op |-> "DeleteWord", word |-> w1]

\* Two picks of one definition and AddTags, on two replicas: conflicts, rollbacks,
\* tags one transaction creates and another one uses.
TaggingInputs == {Picking(d1, {a}), Picking(d2, {a, b}), Tagging(1, {b})}

\* The deletes, beside transactions that refer to what they delete, insert the same
\* two tags or the same two rows of tags_map, and wait for each other.
DeletingInputs ==
    {Picking(d1, {}), Tagging(1, {a, b}), Untagging(1, {a, b}), Unpicking(1), Deleting}

\* A conflicting pick leaves its new tag in the cache; a later request uses it.
StaleInputs == {Picking(d1, {a}), Picking(d1, {b}), Tagging(1, {b}), Untagging(1, {b})}
=============================================================================
