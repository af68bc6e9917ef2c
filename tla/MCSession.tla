----------------------------- MODULE MCSession ------------------------------
(* Values of the constants for the run of module Session. *)
EXTENDS Session

\* A server that trusts the user, one open to guests, one that lets guests only
\* look, and one that lets nobody in.
MCKeyrings ==
    {[TRUST |-> ACCLEV_ALL], [NONE |-> ACCLEV_PWRUSER], [NONE |-> ACCLEV_GUEST], <<>>}
=============================================================================
