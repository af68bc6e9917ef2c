----------------------------- MODULE MCRegistry -----------------------------
(* Values of the constants for the runs of module Registry. *)
EXTENDS Registry

AnyRel == (SID \ {0}) \cup {None}

\* Streams of every kind, relative to every stream but the mixer.
LifeRequests == {"PLAY", "THRU", "RAW_OUT", "RAW_IN"} \X AnyRel

\* Chains and fans of dependent streams.
CascadeRequests == {"PLAY", "THRU", "FILTER"} \X AnyRel

\* A stream and a THRU copy of it.
AttachRequests == {<<"PLAY", None>>, <<"THRU", 1>>}

AllFlags == {{"PRIMARY"}, {"VIRTUAL"}}
=============================================================================
