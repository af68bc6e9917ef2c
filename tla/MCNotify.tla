------------------------------ MODULE MCNotify ------------------------------
(* Values of the constants for the run of module Notify. *)
EXTENDS Notify

CONSTANTS new, delete, cmd, xrun, any, stream, b0, b1

MCHash == (new :> b0) @@ (delete :> b0) @@ (cmd :> b1) @@ (xrun :> b1)
    @@ (any :> b1) @@ (stream :> b0)

\* Every event is one of the group any, xrun also one of the group stream.
MCProxy == [e \in {new, delete, cmd} |-> <<any>>] @@ (xrun :> <<any, stream>>)

On(E, b) == [hash |-> b, events |-> E]

\* No event, events of different lists, and several events of one list, which
\* may meet the same event.
MCRequests ==
    {<<>>, <<On({delete}, b0)>>, <<On({new, delete}, b0), On({xrun}, b1)>>,
     <<On({new}, b0), On({delete}, b0)>>, <<On({delete}, b0), On({new, delete}, b0)>>,
     <<On({delete}, b0), On({any}, b1)>>, <<On({xrun}, b1), On({stream}, b0)>>}
=============================================================================
