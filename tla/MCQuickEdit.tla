---------------------------- MODULE MCQuickEdit ----------------------------
(***************************************************************************)
(* Instances of QuickEdit for TLC: an entity with a plain text field and a *)
(* form field, and one with a plain text field.                            *)
(***************************************************************************)
EXTENDS QuickEdit

CONSTANTS e1, e2, title, tags, name

TwoEntities == [f \in {title, tags, name} |-> IF f = name THEN e2 ELSE e1]

=============================================================================
