------------------------------- MODULE MCEvent -------------------------------
(* Instances of Event for TLC. *)
EXTENDS Event

MCPriority == {ILE_BEFORE, ILE_DONTCARE, ILE_AFTER}
OnePriority == {ILE_DONTCARE}
=============================================================================
