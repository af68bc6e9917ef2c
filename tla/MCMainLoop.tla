----------------------------- MODULE MCMainLoop -----------------------------
(* Values of the constants for the runs of module MainLoop. *)
EXTENDS MainLoop

\* Started plainly, with --terminate, and with --no-listen.
AnyOptions == {<<FALSE, FALSE>>, <<TRUE, FALSE>>, <<TRUE, TRUE>>}

PlainOptions == {<<FALSE, FALSE>>}
=============================================================================
