-------------------------------- MODULE Poll --------------------------------
(***************************************************************************)
(* clients_check_all(), pass by pass: the first pass collects the handles  *)
(* of clients and streams, select() tells which can be read, the second    *)
(* pass reads requests and stream data, and clients that had no stream     *)
(* when the turn began get a second look in the third.                     *)
(*                                                                         *)
(* Handles are numbers that the system gives out again, lowest first, as   *)
(* soon as they are closed.  The sets r and e and the table streamless[]   *)
(* keep numbers while requests close handles and open new ones.            *)
(*                                                                         *)
(* Handles of clients are blocking: a read from one without data stops the *)
(* server.  Those of streams are not.                                      *)
(*                                                                         *)
(* PASSFH hands the server a handle: of a stream, of a client, or of a     *)
(* listen socket, for any protocol.  A connection of a protocol that       *)
(* net_get_new_client() does not know is closed, and yet it becomes a      *)
(* client, which keeps the number of the handle.                           *)
(***************************************************************************)
EXTENDS Tables, Sequences

CONSTANTS
    MAX_STREAMLESS,  \* entries of streamless[]
    LISTEN_MAX,      \* entries of g_listen[]
    FH_MAX,          \* handles a process may have open
    Outcomes,        \* ways in which connecting a stream may end
    MaxChanges,      \* bound: requests and connections that change the tables
    Starts           \* servers to start from: their tables and handles

FH   == 0 .. FH_MAX - 1
Full == -2           \* the handle of a source of the server's own client, id 0,
                     \* that can not be selected on

\* The handles of two objects differ, but for a client and the stream that it
\* became, which have the same.
Apart(t, cf, sf) ==
    /\ \A c, d \in LiveClients(t) : cf[c] \in FH /\ cf[c] = cf[d] => c = d
    /\ \A s, i \in LiveStreams(t) : sf[s] \in FH /\ sf[s] = sf[i] => s = i
    /\ \A c \in LiveClients(t), s \in LiveStreams(t) :
        cf[c] \in FH /\ cf[c] = sf[s] => t.clients[c].execed = s
    /\ \A c \in LiveClients(t) :
        t.clients[c].execed # None => cf[c] \in FH /\ sf[t.clients[c].execed] = cf[c]

\* What the requests of module Registry leave: owners agree; an object that is
\* not there has no handle, nor has a stream that is not connected; nobody else
\* has the handles ls of the listen sockets.
Startable(t, cf, sf, ls) ==
    /\ Tidy(t, {})
    /\ cf \in [CID -> FH \cup {None}] /\ sf \in [SID -> FH \cup {None, Full}]
    /\ \A c \in CID \ LiveClients(t) : cf[c] = None
    /\ \A s \in SID : s \notin LiveStreams(t) \/ ~ t.streams[s].ready => sf[s] = None
    /\ \A s \in LiveStreams(t) : sf[s] = Full => t.streams[s].client = 0
    /\ Apart(t, cf, sf)
    /\ ls \subseteq FH
    /\ \A f \in ls : (\A c \in CID : cf[c] # f) /\ (\A s \in SID : sf[s] # f)

\* A socket can be set non-blocking.
ASSUME PollAssumption ==
    /\ MAX_STREAMLESS \in Nat /\ LISTEN_MAX \in Nat /\ FH_MAX \in Nat /\ MaxChanges \in Nat
    /\ Outcomes \subseteq {"codec", "ready"}
    /\ \A u \in Starts : Startable(u.tab, u.cfh, u.sfh, u.listen) /\ u.odd \subseteq u.listen

VARIABLES
    tab,        \* the tables
    cfh,        \* handle of each client, or None
    sfh,        \* handle of each stream, Full or None
    listen,     \* handles of listen sockets
    odd,        \* those for a protocol that net_get_new_client() does not know
    ghosts,     \* clients that came through one of them
    kept,       \* there was such a client
    state,      \* of each handle: "closed", "quiet", "ready" to be read, "gone":
                \* the peer is; or a socket that does "listen"
    leaked,     \* handles that were passed and that nobody knows
    changes,    \* requests and connections that changed the tables so far
    pass,       \* where clients_check_all() is: the next select() is the
                \* "first" or "second"; or it serves "all" or the "streamless"
    at,         \* the position of the pass
    r, streamless,
    fresh       \* handles of clients that came since the first select()

listening == <<listen, odd, ghosts, kept>>
objects   == <<tab, cfh, sfh, listening, state, leaked, fresh, changes>>
loop      == <<pass, at, r, streamless>>
vars      == <<objects, loop>>

Live == LiveClients(tab)

\* The second pass looks at the handle of client c at position Pos(c) and then
\* at its slots.
Pos(c) == c * (STREAMS_PER_CLIENT + 1)

PTypeOK ==
    /\ tab \in TablesType
    /\ cfh \in [CID -> FH \cup {None}]
    /\ sfh \in [SID -> FH \cup {None, Full}]
    /\ listen \cup leaked \cup fresh \cup r \subseteq FH /\ odd \subseteq listen
    /\ ghosts \subseteq CID /\ kept \in BOOLEAN
    /\ state \in [FH -> {"closed", "quiet", "ready", "gone", "listen"}]
    /\ pass \in {"first", "all", "second", "streamless"}
    /\ at \in 0 .. Pos(CLIENTS_MAX)
    /\ streamless \in Seq([id : CID, fh : FH]) /\ Len(streamless) <= MAX_STREAMLESS

Init ==
    /\ \E u \in Starts :
        /\ tab = u.tab /\ cfh = u.cfh /\ sfh = u.sfh /\ listen = u.listen /\ odd = u.odd
        /\ state = [f \in FH |-> IF f \in u.listen THEN "listen"
                                 ELSE IF \/ \E c \in CID : u.cfh[c] = f
                                         \/ \E s \in SID : u.sfh[s] = f
                                 THEN "quiet" ELSE "closed"]
    /\ ghosts = {} /\ kept = FALSE
    /\ leaked = {} /\ fresh = {} /\ r = {} /\ changes = 0
    /\ pass = "first" /\ at = 0 /\ streamless = <<>>

-----------------------------------------------------------------------------
(* Handles *)

IsOpen(f) == state[f] # "closed"

FreeFH == {f \in FH : ~ IsOpen(f)}

\* Mutant of Closes: clients_delete() closes the handle of no client.
Closes_Streams(t, u) ==
    {sfh[s] : s \in LiveStreams(t) \ LiveStreams(u)} \cap FH

\* The handles that are closed when the deletions between t and u are done:
\* those of streams, and those of clients that had not become a stream.
Closes(t, u) ==
    ({sfh[s] : s \in LiveStreams(t) \ LiveStreams(u)} \cup
     {cfh[c] : c \in {k \in LiveClients(t) \ LiveClients(u) : t.clients[k].execed = None}})
    \cap FH

\* The tables t become u by deletions.
Deleted(t, u, st) ==
    /\ tab' = u
    /\ cfh' = [c \in CID |-> IF c \in LiveClients(u) THEN cfh[c] ELSE None]
    /\ sfh' = [s \in SID |-> IF s \in LiveStreams(u) THEN sfh[s] ELSE None]
    /\ state' = [f \in FH |-> IF f \in Closes(t, u) THEN "closed" ELSE st[f]]
    /\ fresh' = fresh \ Closes(t, u)
    /\ ghosts' = ghosts \cap LiveClients(u)
    /\ UNCHANGED <<leaked, listen, odd, kept>>

-----------------------------------------------------------------------------
(* Positions *)

\* What the second pass finds to do at a position: a request to be read, or a
\* stream to be checked.  clients_check() does nothing for a ghost.
HasRequest(p) ==
    \E c \in Live \ ghosts : p = Pos(c) /\ cfh[c] \in r /\ tab.clients[c].execed = None

HasStream(p) ==
    \E c \in Live, k \in Slot :
        /\ p = Pos(c) + 1 + k
        /\ tab.clients[c].streams[k] # None
        /\ sfh[tab.clients[c].streams[k]] \in r

\* The third pass looks at the entries whose handle is set.
HasEntry(p) == p < Len(streamless) /\ streamless[p + 1].fh \in r

Todo ==
    CASE pass = "all"        -> {p \in at .. Pos(CLIENTS_MAX) : HasRequest(p) \/ HasStream(p)}
      [] pass = "streamless" -> {p \in at .. Len(streamless) : HasEntry(p)}
      [] OTHER               -> {}

Here(p) == FirstOf(Todo, p)

\* The client that clients_check() reads from in the next step, or None.
\* The third pass goes by the id of an entry and by the handle it had.
Checked ==
    IF Todo = {} THEN None
    ELSE LET p == CHOOSE p \in Todo : Here(p) IN
         CASE pass = "all" /\ HasRequest(p) -> p \div (STREAMS_PER_CLIENT + 1)
           [] pass = "streamless" /\ streamless[p + 1].id \in Live \ ghosts
                                  /\ cfh[streamless[p + 1].id] # None -> streamless[p + 1].id
           [] OTHER -> None

\* The server waits in a read.
Stalled == Checked # None /\ state[cfh[Checked]] = "quiet"

\* Mutant of Again: clients that became a stream are asked too.
Again_Execed == {n \in DOMAIN streamless : streamless[n].id \in Live}

\* The entries of streamless[] that the third pass looks at.
Again ==
    {n \in DOMAIN streamless :
        streamless[n].id \in Live /\ tab.clients[streamless[n].id].execed = None}

\* A peer, external: it sends something, or goes.  Nobody can tell before the
\* server asks or waits.
Peer(f, new) ==
    /\ \/ pass = "first" /\ (\/ \E c \in Live : cfh[c] = f
                            \/ \E s \in LiveStreams(tab) : sfh[s] = f)
       \/ pass = "second" /\ \E n \in Again : f = streamless[n].fh
       \/ Stalled /\ f = cfh[Checked]
    /\ state[f] = "quiet"
    /\ state' = [state EXCEPT ![f] = new]
    /\ UNCHANGED <<tab, cfh, sfh, listening, leaked, fresh, changes, loop>>

-----------------------------------------------------------------------------
(* clients_check() and the requests *)

\* A handle the system gives out; what it is connected to may have sent
\* something already.
Opens(f, st) == FirstOf(FreeFH, f) /\ state' \in {[st EXCEPT ![f] = x] : x \in {"quiet", "ready"}}

\* NEW_STREAM, for an input stream, that is granted; a refused one leaves
\* nothing behind.
Req_new_stream(c, st) ==
    /\ \E s \in SID :
        /\ FirstOf(FreeSIDs(tab), s)
        /\ CanAdd(tab, c)
        /\ tab' = streams_set_dir(client_stream_add(streams_new(tab, s), c, s), s, "PLAY")
    /\ state' = st
    /\ UNCHANGED <<cfh, sfh, listening, leaked, fresh>>

\* EXEC of a stream that is ready, or does not exist, closes the connection.
Req_exec_stream(c, st) ==
    \E s \in SID, outcome \in Outcomes :
        IF s \notin LiveStreams(tab) \/ tab.streams[s].ready
        THEN /\ tab' = clients_close(tab, c)
             /\ cfh' = [cfh EXCEPT ![c] = None]
             /\ state' = [st EXCEPT ![cfh[c]] = "closed"]
             /\ fresh' = fresh \ {cfh[c]}
             /\ UNCHANGED <<sfh, listening, leaked>>
        ELSE LET t == IF Lists(tab, c, s) THEN [tab EXCEPT !.clients[c].execed = s] ELSE tab
                 u == client_stream_exec(tab, c, s, outcome, "plain")
             IN  IF Lists(tab, c, s) /\ s \in LiveStreams(u)
                 THEN /\ tab' = u
                      /\ sfh' = [sfh EXCEPT ![s] = cfh[c]]
                      /\ state' = st
                      /\ UNCHANGED <<cfh, listening, leaked, fresh>>
                 ELSE Deleted(t, u, IF t = tab THEN st ELSE [st EXCEPT ![cfh[c]] = "closed"])

\* req_on_con_stream(), and the stream form of PASSFH: the server has one more
\* handle, which is closed again when the stream does not take it.
Req_con_stream(c, st) ==
    \E s \in SID, f \in FH, outcome \in Outcomes :
        LET u == client_stream_set_fh(tab, c, s, outcome, "plain") IN
        /\ FirstOf(FreeFH, f)
        /\ IF u # tab /\ s \in LiveStreams(u)
           THEN /\ tab' = u
                /\ sfh' = [sfh EXCEPT ![s] = f]
                /\ Opens(f, st)
                /\ UNCHANGED <<cfh, listening, leaked, fresh>>
           ELSE Deleted(tab, u, st)

\* The client form of PASSFH.  Nobody closes the handle when the request, of this
\* form or the next, is malformed, for another protocol or byte order, or the
\* table is full.
Req_passfh(c, st) ==
    \E f \in FH :
        \/ \E k \in CID :
            /\ FirstOf(FreeCIDs(tab), k)
            /\ Opens(f, st)
            /\ fresh' = fresh \cup {f}
            /\ tab' = [clients_new(tab, k) EXCEPT !.clients[k].fh = TRUE]
            /\ cfh' = [cfh EXCEPT ![k] = f]
            /\ UNCHANGED <<sfh, listening, leaked>>
        \/ /\ FirstOf(FreeFH, f)
           /\ leaked' = leaked \cup {f}
           /\ state' = [st EXCEPT ![f] = "quiet"]
           /\ UNCHANGED <<tab, cfh, sfh, listening, fresh>>

\* Its form for listen sockets; the protocol is not looked at.  Without an
\* entry for it the handle is closed again.
Req_listen(c, st) ==
    \E f \in FH :
        /\ FirstOf(FreeFH, f)
        /\ IF Cardinality(listen) < LISTEN_MAX
           THEN /\ listen' = listen \cup {f}
                /\ odd' \in {odd, odd \cup {f}}
                /\ state' = [st EXCEPT ![f] = "listen"]
           ELSE state' = st /\ UNCHANGED <<listen, odd>>
        /\ UNCHANGED <<tab, cfh, sfh, ghosts, kept, leaked, fresh>>

\* EXIT for when the last client has gone: the listen sockets are closed.
Req_exit(c, st) ==
    /\ listen' = {} /\ odd' = {}
    /\ state' = [f \in FH |-> IF f \in listen THEN "closed" ELSE st[f]]
    /\ UNCHANGED <<tab, cfh, sfh, ghosts, kept, leaked, fresh>>

\* KICK, and QUIT for oneself.
Req_kick(c, st) ==
    \/ \E k \in CID : Deleted(tab, clients_delete(tab, k), st)
    \/ \E s \in SID : Deleted(tab, streams_delete(tab, s), st)

\* clients_check(): without a message the client is gone.
clients_check(c) ==
    LET f == cfh[c]  st == [state EXCEPT ![f] = "quiet"] IN
    /\ state[f] # "quiet"
    /\ IF state[f] # "ready"
       THEN Deleted(tab, clients_delete(tab, c), state) /\ changes' = changes
       ELSE \/ /\ changes < MaxChanges /\ changes' = changes + 1
               /\ \/ Req_new_stream(c, st) \/ Req_exec_stream(c, st) \/ Req_con_stream(c, st)
                  \/ Req_passfh(c, st) \/ Req_listen(c, st) \/ Req_exit(c, st) \/ Req_kick(c, st)
            \/ state' = st /\ UNCHANGED <<tab, cfh, sfh, listening, leaked, fresh, changes>>

-----------------------------------------------------------------------------
(* The turn *)

\* net_check_listen(): a connection, unless select() fails.  A full table closes
\* it again; so does net_get_new_client() for a protocol that it does not know,
\* but the client stays.
Accept ==
    /\ pass = "first"
    /\ changes < MaxChanges /\ changes' = changes + 1
    /\ listen \cap FreeFH = {}
    /\ \E l \in listen, f \in FH, k \in CID :
        /\ state[l] = "listen"
        /\ FirstOf(FreeFH, f) /\ FirstOf(FreeCIDs(tab), k)
        /\ tab' = [clients_new(tab, k) EXCEPT !.clients[k].fh = TRUE]
        /\ cfh' = [cfh EXCEPT ![k] = f]
        /\ IF l \in odd
           THEN ghosts' = ghosts \cup {k} /\ kept' = TRUE /\ state' = state
           ELSE state' = [state EXCEPT ![f] = "quiet"] /\ UNCHANGED <<ghosts, kept>>
    /\ UNCHANGED <<sfh, listen, odd, leaked, fresh, loop>>

Handles(t, c) == ({cfh[c]} \cup {sfh[s] : s \in SlotSet(t, c)}) \cap FH

\* Mutant of Bare: clients without a connection are entered too.
Bare_Unconnected(t) == {c \in LiveClients(t) : \A s \in SlotSet(t, c) : sfh[s] = None}

\* Clients that have a connection and no connected stream.
Bare(t) == {c \in LiveClients(t) : cfh[c] # None /\ \A s \in SlotSet(t, c) : sfh[s] = None}

\* The first entries of streamless[] are filled, in the order of the ids.
Streamless(t) ==
    LET B  == Bare(t)
        nth(n) == CHOOSE c \in B : Cardinality({b \in B : b < c}) = n - 1
        Smaller(x, y) == IF x < y THEN x ELSE y
    IN  [n \in 1 .. Smaller(Cardinality(B), MAX_STREAMLESS) |->
            [id |-> nth(n), fh |-> cfh[nth(n)]]]

Readable(S) == {f \in S : state[f] # "quiet"}

\* The first pass and its select().  Sources that can not be selected on are
\* checked on the way, which may be their end; they are the first that the
\* pass meets.
Select ==
    /\ pass = "first"
    /\ \E ended \in SUBSET {s \in LiveStreams(tab) : sfh[s] = Full} :
        LET u == Delete(tab, ended, {})
            S == UNION {Handles(u, c) : c \in LiveClients(u)}
        IN  /\ Deleted(tab, u, state)
            /\ changes' = changes
            /\ IF S \cap FreeFH = {} /\ Readable(S) # {}
               THEN pass' = "all" /\ r' = Readable(S) /\ streamless' = Streamless(u)
               ELSE UNCHANGED <<pass, r, streamless>>
    /\ at' = 0

\* Mutant of ServeClient: the first request of a turn is the last.
ServeClient_One(p) ==
    /\ pass = "all" /\ Here(p) /\ HasRequest(p)
    /\ clients_check(Checked)
    /\ at' = Pos(CLIENTS_MAX)
    /\ UNCHANGED <<pass, r, streamless>>

\* The second pass reads a request.
ServeClient(p) ==
    /\ pass = "all" /\ Here(p) /\ HasRequest(p)
    /\ clients_check(Checked)
    /\ r' = IF Checked \in LiveClients(tab') /\ tab'.clients[Checked].execed # None
            THEN r \ {cfh[Checked]} ELSE r
    /\ at' = p + 1
    /\ UNCHANGED <<pass, streamless>>

\* streams_check(): data is read from input streams only; the end of it is the
\* end of the stream.
streams_check(s) ==
    LET f == sfh[s] IN
    IF tab.streams[s].dir # "PLAY" \/ state[f] = "quiet" THEN UNCHANGED objects
    ELSE IF state[f] = "ready"
         THEN /\ state' = [state EXCEPT ![f] = "quiet"]
              /\ UNCHANGED <<tab, cfh, sfh, listening, leaked, fresh, changes>>
         ELSE Deleted(tab, streams_delete(tab, s), state) /\ changes' = changes

\* The second pass checks a stream.
ServeStream(p) ==
    /\ pass = "all" /\ Here(p) /\ HasStream(p)
    /\ \E c \in Live, k \in Slot :
        p = Pos(c) + 1 + k /\ streams_check(tab.clients[c].streams[k])
    /\ at' = p + 1
    /\ UNCHANGED <<pass, r, streamless>>

ServedAll ==
    /\ pass = "all" /\ Todo = {}
    /\ pass' = IF streamless = <<>> THEN "first" ELSE "second"
    /\ r' = {} /\ at' = 0
    /\ fresh' = IF streamless = <<>> THEN {} ELSE fresh
    /\ UNCHANGED <<tab, cfh, sfh, listening, state, leaked, changes, streamless>>

\* The second select(), which fails when a handle is not open any more.
SelectAgain ==
    /\ pass = "second"
    /\ LET S == {streamless[n].fh : n \in Again} IN
       IF S \cap FreeFH = {}
       THEN pass' = "streamless" /\ r' = Readable(S) /\ UNCHANGED <<streamless, fresh>>
       ELSE pass' = "first" /\ r' = {} /\ streamless' = <<>> /\ fresh' = {}
    /\ UNCHANGED <<tab, cfh, sfh, listening, state, leaked, changes, at>>

\* The third pass.
ServeAgain(p) ==
    /\ pass = "streamless" /\ Here(p)
    /\ IF Checked # None THEN clients_check(Checked) ELSE UNCHANGED objects
    /\ at' = p + 1
    /\ UNCHANGED <<pass, r, streamless>>

ServedAgain ==
    /\ pass = "streamless" /\ Todo = {}
    /\ pass' = "first" /\ r' = {} /\ streamless' = <<>> /\ fresh' = {} /\ at' = 0
    /\ UNCHANGED <<tab, cfh, sfh, listening, state, leaked, changes>>

Server ==
    \/ Select \/ ServedAll \/ SelectAgain \/ ServedAgain
    \/ \E p \in 0 .. Pos(CLIENTS_MAX) : ServeClient(p) \/ ServeStream(p) \/ ServeAgain(p)

Next == Server \/ Accept \/ \E f \in FH, new \in {"ready", "gone"} : Peer(f, new)

\* The first select() fails: a client, or a stream of one, has a handle that
\* is not open.
Deaf == \E c \in Live : Handles(tab, c) \cap FreeFH # {}

\* The first select() has nothing to tell.
Idle == pass = "first" /\ (Deaf \/ \A c \in Live : Readable(Handles(tab, c)) = {})

\* Weak fairness of the server: it has a step to take unless it waits in a read
\* or select() has nothing to tell.
Fairness == []<><<Server>>_vars \/ []<>(Stalled \/ Idle)

Spec == Init /\ [][Next]_vars /\ Fairness

-----------------------------------------------------------------------------
(* Correctness *)

\* Who holds handle f.
Holders(f) ==
    {<<"client", c>> : c \in {k \in Live : cfh[k] = f}} \cup
    {<<"stream", s>> : s \in {k \in LiveStreams(tab) : sfh[k] = f}} \cup
    {<<"listen", l>> : l \in listen \cap {f}}

\* As long as no connection of an unknown protocol was closed and kept: every
\* open handle has exactly one owner, which closes it once: a client, a
\* stream, a client and the stream it became, or a listen socket; the exception
\* is a handle that came with a PASSFH that was malformed, or for a client that
\* was refused.  Numbers that are given out again never end up in two places.
HandlesOwned ==
    kept \/ \A f \in FH :
        /\ IsOpen(f) <=> Holders(f) # {} \/ f \in leaked
        /\ \/ Cardinality(Holders(f)) <= 1 /\ (f \in leaked => Holders(f) = {})
           \/ \E c \in Live :
                /\ Holders(f) = {<<"client", c>>, <<"stream", tab.clients[c].execed>>}
                /\ tab.streams[tab.clients[c].execed].client = c

\* As long as that is so, clients_check() reads requests only, and only where
\* there is something to read: never from a client that became a stream,
\* although that may happen between the passes, and never from a quiet handle,
\* which would stop the server, unless the handle was opened in this very turn.
ReadsOnlyReady ==
    ~ kept /\ Checked # None =>
        /\ tab.clients[Checked].execed = None
        /\ state[cfh[Checked]] # "quiet" \/ cfh[Checked] \in fresh

\* Client c has sent something, or has gone.
Pending(c) ==
    /\ c \in Live \ ghosts /\ cfh[c] # None /\ tab.clients[c].execed = None
    /\ state[cfh[c]] \in {"ready", "gone"}

\* Everybody's requests are read, whatever the others ask for and however
\* often a select() fails, as long as the server does not wait in a read for
\* ever, and the handle of a client that was closed and kept does not stay
\* closed for ever.
EveryoneServed ==
    <>[]Stalled \/ <>[]Deaf \/ \A c \in CID : Pending(c) ~> ~ Pending(c)
=============================================================================
