------------------------------- MODULE MCCatalog -------------------------------
(***************************************************************************)
(* Small instances of the catalog for TLC.                                 *)
(***************************************************************************)
EXTENDS CatalogProps

CONSTANTS e1, e2, f1, f2, f3

\* Two editors with a word each: an id that came back would lead to the other's word.
\* A word that is there already is met by an editor who sends its own again.
MCLemma == [e \in Editors |-> IF e = e2 THEN "tree" ELSE "house"]
=============================================================================
