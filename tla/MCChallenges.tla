---------------------------- MODULE MCChallenges ----------------------------
(***************************************************************************)
(* Overlapping runs on more challenges than one of them takes.             *)
(***************************************************************************)
EXTENDS Challenges

\* A challenge that is to open and to close again, and one that is not published
\* and is to close and to open again.
MCDrafts ==
    {[is_open |-> FALSE, schedule |-> [open |-> 1, close |-> 2], published |-> TRUE],
     [is_open |-> TRUE, schedule |-> [open |-> 2, close |-> 1], published |-> FALSE]}
=============================================================================
