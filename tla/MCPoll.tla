------------------------------- MODULE MCPoll -------------------------------
(* Values of the constants for the run of module Poll. *)
EXTENDS Poll

\* A server with the clients and the streams of the sequences, NULL for none,
\* their handles, and listen sockets.
At(clients, fhs, row, sfhs, ls, strange) ==
    LET used == {s \in SID : row[s + 1] # NULL}
        there == {c \in CID : clients[c + 1] # NULL}
    IN  [tab |-> [streams  |-> [s \in SID |-> row[s + 1]],
                  clients  |-> [c \in CID |-> clients[c + 1]],
                  nstreams |-> Cardinality(used), nclients |-> Cardinality(there),
                  thru     |-> Cardinality({s \in used : row[s + 1].dir = "THRU"}),
                  alive    |-> TRUE],
         cfh |-> [c \in CID |-> fhs[c + 1]],
         sfh |-> [s \in SID |-> sfhs[s + 1]],
         listen |-> ls, odd |-> strange]

C(fh, execed, s) ==
    [fh |-> fh, execed |-> execed, streams |-> [k \in Slot |-> IF k = 0 THEN s ELSE None]]

S(dir, rel, c) ==
    [NewStream EXCEPT !.dir = dir, !.pos_rel_id = rel, !.client = c,
                      !.fh = TRUE, !.ready = TRUE]

PollStarts ==
    { \* two clients
      At(<<C(TRUE, None, None), C(TRUE, None, None), NULL>>, <<1, 2, None>>,
         <<NULL, NULL>>, <<None, None>>, {0}, {}),
      \* the server's own client with a source, and a client that became a copy
      \* of it
      At(<<C(FALSE, None, 0), C(TRUE, 1, 1), C(TRUE, None, None)>>, <<None, 1, 2>>,
         <<S("PLAY", None, 0), S("THRU", 0, 1)>>, <<Full, 1>>, {0}, {}),
      \* a client that passed a listen socket for an unknown protocol
      At(<<C(TRUE, None, None), NULL, NULL>>, <<1, None, None>>,
         <<NULL, NULL>>, <<None, None>>, {0, 2}, {2}) }
=============================================================================
