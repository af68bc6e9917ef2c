--------------------------- MODULE MCDeleteStack ---------------------------
(* Values of the constants for the run of module DeleteStack. *)
EXTENDS DeleteStack

StackRequests == {"PLAY", "THRU"} \X ((SID \ {0}) \cup {None})
=============================================================================
