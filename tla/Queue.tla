-------------------------------- MODULE Queue --------------------------------
(***************************************************************************)
(* What the buffers of the input streams promise: for every stream a queue *)
(* of data units.  A read from the client appends what it got, the mixer   *)
(* takes at most a period from the front, and the end of a stream throws   *)
(* its queue away.  DataPath implements this with the linked buffers of    *)
(* libroar/buffer.c.                                                       *)
(***************************************************************************)
EXTENDS Naturals, Sequences

CONSTANTS
    Id,      \* the streams
    Unit,    \* data units
    Period   \* units the mixer takes in one turn

VARIABLE queue

QInit == queue = [s \in Id |-> <<>>]

\* One more block, from a read or from ADD_DATA.
Put(s) ==
    \E k \in 1 .. Period : \E block \in [1 .. k -> Unit] :
        queue' = [queue EXCEPT ![s] = @ \o block]

\* A turn of the mixer: of each stream in S a period, or what there is.
Take(S) ==
    queue' = [s \in Id |->
        IF s \in S THEN SubSeq(queue[s], Period + 1, Len(queue[s])) ELSE queue[s]]

Drop(S) == queue' = [s \in Id |-> IF s \in S THEN <<>> ELSE queue[s]]

QNext ==
    /\ queue' # queue
    /\ \/ \E s \in Id : Put(s)
       \/ \E S \in SUBSET Id : Take(S) \/ Drop(S)

QSpec == QInit /\ [][QNext]_queue
=============================================================================
