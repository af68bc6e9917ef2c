------------------------------ MODULE Session -------------------------------
(***************************************************************************)
(* A program that uses the client library: it opens a VS object, gives it  *)
(* a stream and closes it (libroar/vs.c), on top of the calls that connect *)
(* (libroar/simple.c, basic.c, auth.c) and of the requests behind them,    *)
(* against the tables of the server and while other clients use it too.    *)
(*                                                                         *)
(* The library is sequential: it sends a request and waits for the answer. *)
(* Only roar_simple_new_stream_obj() splits the two.  Over INET it asks    *)
(* the server to connect back, waits ten seconds for that, and when it has *)
(* waited in vain reads the answer, kicks the stream and tries again with  *)
(* a second connection, which becomes the stream and is then ATTACHed.     *)
(***************************************************************************)
EXTENDS Tables, Sequences

CONSTANTS
    Types,      \* how streams are connected: "UNIX", "INET", or "EXECED" when
                \* the configuration asks for the second connection at once
    Keyrings,   \* keys of the server: the type of each and the level it gives
    Outcomes    \* ways in which connecting a stream may end at the server

OK    == "OK"
ERROR == "ERROR"
Conn  == {"main", "temp"}
Other == 0      \* the client that stands for all other clients
New   == -2     \* a connection the server has not accepted yet

\* roar_auth() tries these in turn.
AuthTypes == <<"TRUST", "IDENT", "RHOST", "NONE">>

\* enum roard_client_acclev
ACCLEV_NONE    == 0
ACCLEV_IDENTED == 1
ACCLEV_GUEST   == 3
ACCLEV_USER    == 4
ACCLEV_PWRUSER == 5
ACCLEV_ALL     == 6

\* A USER may create streams and not connect them: the library does not cope.
ASSUME SessionAssumption ==
    /\ CLIENTS_MAX > 0
    /\ Types \subseteq {"UNIX", "INET", "EXECED"}
    /\ Outcomes \subseteq {"codec", "ready"}
    /\ \A k \in Keyrings :
        /\ DOMAIN k \subseteq {"TRUST", "NONE"}
        /\ \A a \in DOMAIN k : k[a] \in {ACCLEV_GUEST, ACCLEV_PWRUSER, ACCLEV_ALL}

VARIABLES
    lib,      \* the library: where it is and what it keeps
    net,      \* the connections of the program: whether its end is open, the
              \* client the server made of it, requests and answers on the way
    tab,      \* the tables of the server
    acclev,   \* access level of each client
    sfh,      \* whose end the handle of a stream leads to: "ours", while we
              \* have it open, then "dead", "other", or "none" when it has none
    keys,     \* the keyring of the server
    lost      \* this session lost a stream, or the connection, to others, or
              \* to a codec that did not open

vars == <<lib, net, tab, acclev, sfh, keys, lost>>

\* Where the library is not inside a call: without a VS object, with one that
\* has no stream, with one that has.
Idle == {"out", "connected", "stream"}

Waits == {"identify", "auth", "new_stream", "passfh", "con_stream", "kick",
          "exec", "whoami", "attach", "info", "quit"}

STypeOK ==
    /\ lib \in [at : Idle \cup Waits \cup {"select"},
                con : Conn, type : Types, try : 1 .. Len(AuthTypes),
                backlog : BOOLEAN,                 \* of the listen socket
                timeout : BOOLEAN,                 \* select() had waited in vain
                then : {"fail", "fallback", "close"},
                id : SID \cup {None},              \* vss->stream.id
                fh : {"none", "data", "temp"},     \* the handle of the stream
                flag : BOOLEAN]                    \* FLAG_STREAM
    /\ \A c \in Conn :
        /\ net[c].open \in BOOLEAN
        /\ net[c].peer \in CID \cup {None, New}
        /\ \A i \in DOMAIN net[c].ans : net[c].ans[i].cmd \in {OK, ERROR}
    /\ tab \in TablesType
    /\ acclev \in [CID -> ACCLEV_NONE .. ACCLEV_ALL]
    /\ sfh \in [SID -> {"none", "ours", "dead", "other"}]

NoConn == [open |-> FALSE, peer |-> None, req |-> <<>>, ans |-> <<>>]

Out(type) ==
    [at |-> "out", con |-> "main", type |-> type, try |-> 1, backlog |-> FALSE,
     timeout |-> FALSE, then |-> "fail", id |-> None, fh |-> "none", flag |-> FALSE]

Init ==
    /\ lib \in {Out(type) : type \in Types}
    /\ net = [c \in Conn |-> NoConn]
    /\ tab = [streams |-> [s \in SID |-> NULL],
              clients |-> [c \in CID |-> IF c = Other THEN [NewClient EXCEPT !.fh = TRUE] ELSE NULL],
              nstreams |-> 0, nclients |-> 1, thru |-> 0, alive |-> TRUE]
    /\ acclev = [c \in CID |-> IF c = Other THEN ACCLEV_ALL ELSE ACCLEV_NONE]
    /\ sfh = [s \in SID |-> "none"]
    /\ keys \in Keyrings
    /\ lost = FALSE

server == <<tab, acclev, keys, lost>>

-----------------------------------------------------------------------------
(* Requests and answers *)

EOF == [cmd |-> "EOF", arg |-> None]

\* roar_send_message(): a request cmd about the object arg, lost when the
\* server has closed the connection.
Send(n, c, cmd, arg) ==
    IF n[c].peer = None THEN n
    ELSE [n EXCEPT ![c].req = Append(@, [cmd |-> cmd, arg |-> arg])]

\* roar_recv_message() on connection c returns a.
Received(c, a) ==
    \/ net[c].ans # <<>> /\ a = Head(net[c].ans)
    \/ net[c].ans = <<>> /\ net[c].peer = None /\ a = EOF

Taken(c) == [net EXCEPT ![c].ans = IF @ = <<>> THEN @ ELSE Tail(@)]

\* The library goes on to wait for the answer to a request.
Ask(n, l, c, at, cmd, arg) ==
    /\ net' = Send(n, c, cmd, arg)
    /\ lib' = [l EXCEPT !.at = at, !.con = c]

\* The program closes its end of the handle of its stream.
Hung == [s \in SID |-> IF sfh[s] = "ours" THEN "dead" ELSE sfh[s]]

CloseHandle(n) == IF lib.fh = "temp" THEN [n EXCEPT !["temp"].open = FALSE] ELSE n

-----------------------------------------------------------------------------
(* roar_simple_connect(): roar_connect(), roar_identify() and roar_auth() *)

Connect(n, l, c) ==
    Ask([n EXCEPT ![c] = [NoConn EXCEPT !.open = TRUE, !.peer = New]],
        l, c, "identify", "IDENTIFY", None)

\* roar_simple_new_stream_attachexeced_obj(): the second connection.
AttachExeced(n) == Connect(n, lib, "temp")

\* roar_vs_stream() returns -1: the object stays without a stream.
Fail(n) == net' = n /\ lib' = [lib EXCEPT !.at = "connected", !.fh = "none"]

roar_disconnect(n, c) == Ask(n, lib, c, "quit", "QUIT", None)

\* A second connection that fails is not closed.
ConnectFails(n) == IF lib.con = "main" THEN roar_disconnect(n, "main") ELSE Fail(n)

Connected(n) ==
    IF lib.con = "main"
    THEN net' = n /\ lib' = [lib EXCEPT !.at = "connected"]
    ELSE Ask(n, lib, "temp", "new_stream", "NEW_STREAM", None)

roar_identify(a) ==
    /\ lib.at = "identify"
    /\ IF a = EOF THEN ConnectFails(Taken(lib.con))
       ELSE Ask(Taken(lib.con), [lib EXCEPT !.try = 1], lib.con, "auth", "AUTH", AuthTypes[1])
    /\ UNCHANGED sfh

roar_auth(a) ==
    LET n == Taken(lib.con)
        i == lib.try + 1
    IN
    /\ lib.at = "auth"
    /\ \/ a.cmd = OK /\ Connected(n)
       \/ a.cmd # OK /\ i > Len(AuthTypes) /\ ConnectFails(n)
       \/ a.cmd # OK /\ i <= Len(AuthTypes)
          /\ Ask(n, [lib EXCEPT !.try = i], lib.con, "auth", "AUTH", AuthTypes[i])
    /\ UNCHANGED sfh

-----------------------------------------------------------------------------
(* roar_simple_new_stream_obj() *)

\* roar_stream_connect() has its answer: the stream has an id.
roar_stream_connect(a) ==
    LET n == Taken(lib.con)
        l == [lib EXCEPT !.id = a.arg]
    IN
    /\ lib.at = "new_stream"
    /\ \/ a.cmd = OK /\ lib.con = "temp" /\ Ask(n, l, "temp", "exec", "EXEC_STREAM", a.arg)
       \/ a.cmd = OK /\ lib.con = "main" /\ lib.type = "UNIX"
          /\ \/ Ask(n, l, "main", "passfh", "PASSFH", a.arg)
             \/ \* socketpair() fails
                Ask(n, [l EXCEPT !.then = "fail"], "main", "kick", "KICK", a.arg)
       \/ a.cmd = OK /\ lib.con = "main" /\ lib.type = "INET"
          /\ Ask(n, [l EXCEPT !.backlog = FALSE], "main", "select", "CON_STREAM", a.arg)
       \/ a.cmd # OK /\ lib.con = "temp" /\ roar_disconnect(n, "temp")
       \/ a.cmd # OK /\ lib.con = "main" /\ Fail(n)
    /\ UNCHANGED sfh

\* The call has a handle; roar_vs_stream() asks for the parameters.
Succeed(n, fh) == Ask(n, [lib EXCEPT !.fh = fh], "main", "info", "GET_STREAM_PARA", lib.id)

roar_stream_passfh(a) ==
    /\ lib.at = "passfh"
    /\ IF a.cmd = OK THEN Succeed(Taken("main"), "data")
       ELSE Ask(Taken("main"), [lib EXCEPT !.then = "fail"], "main", "kick", "KICK", lib.id)
    /\ UNCHANGED sfh

\* select() says that the server has connected.
Accepted ==
    /\ lib.at = "select"
    /\ lib.backlog
    /\ lib' = [lib EXCEPT !.at = "con_stream", !.backlog = FALSE, !.timeout = FALSE]
    /\ UNCHANGED <<net, sfh>>

\* Mutant of TimedOut: the answer that is still to come is not waited for.
TimedOut_NoAnswer ==
    /\ lib.at = "select"
    /\ Ask(net, [lib EXCEPT !.then = "fallback", !.backlog = FALSE], "main", "kick", "KICK", lib.id)
    /\ sfh' = Hung

\* It says that ten seconds have passed, or that a signal came.  A connection
\* that was not accepted is reset when the socket is closed.
TimedOut ==
    /\ lib.at = "select"
    /\ lib' = [lib EXCEPT !.at = "con_stream", !.backlog = FALSE, !.timeout = TRUE]
    /\ sfh' = Hung
    /\ UNCHANGED net

\* Mutant of ConStreamAnswered: the stream that timed out is not kicked.
ConStreamAnswered_NoKick(a) ==
    LET n == Taken("main") IN
    /\ lib.at = "con_stream"
    /\ \/ lib.timeout /\ a = EOF /\ Fail(n) /\ UNCHANGED sfh
       \/ lib.timeout /\ a # EOF /\ AttachExeced(n) /\ UNCHANGED sfh
       \/ ~ lib.timeout /\ IF a.cmd = OK THEN Succeed(n, "data") /\ UNCHANGED sfh
                           ELSE Fail(n) /\ sfh' = Hung

\* The answer to CON_STREAM.  After a timeout its content does not matter.
ConStreamAnswered(a) ==
    LET n == Taken("main") IN
    /\ lib.at = "con_stream"
    /\ \/ lib.timeout /\ a = EOF /\ Fail(n) /\ UNCHANGED sfh
       \/ lib.timeout /\ a # EOF /\ UNCHANGED sfh
          /\ Ask(n, [lib EXCEPT !.then = "fallback"], "main", "kick", "KICK", lib.id)
       \/ ~ lib.timeout /\ IF a.cmd = OK THEN Succeed(n, "data") /\ UNCHANGED sfh
                           ELSE Fail(n) /\ sfh' = Hung

-----------------------------------------------------------------------------
(* roar_simple_new_stream_attachexeced_obj() *)

roar_stream_exec(a) ==
    /\ lib.at = "exec"
    /\ IF a.cmd = OK THEN Ask(Taken("temp"), lib, "main", "whoami", "WHOAMI", None)
       ELSE roar_disconnect(Taken("temp"), "temp")
    /\ UNCHANGED sfh

roar_get_clientid(a) ==
    /\ lib.at = "whoami"
    /\ Ask(Taken("main"), lib, "main", "attach", "ATTACH", [stream |-> lib.id, client |-> a.arg])
    /\ UNCHANGED sfh

roar_stream_attach_simple(a) ==
    LET n == Taken("main") IN
    /\ lib.at = "attach"
    /\ \/ a.cmd = OK /\ Succeed(n, "temp") /\ UNCHANGED sfh
       \/ a.cmd # OK /\ Fail([n EXCEPT !["temp"].open = FALSE]) /\ sfh' = Hung

-----------------------------------------------------------------------------
(* The VS object *)

roar_vs_new(type) ==
    /\ lib.at = "out"
    /\ Connect(net, Out(type), "main")
    /\ lost' = FALSE
    /\ UNCHANGED <<tab, acclev, sfh, keys>>

\* Mutant of roar_vs_stream: FLAG_STREAM is set before the stream is there.
roar_vs_stream_FlagFirst ==
    /\ lib.at = "connected"
    /\ LET l == [lib EXCEPT !.flag = TRUE] IN
       IF lib.type = "EXECED" THEN Connect(net, l, "temp")
       ELSE Ask(net, l, "main", "new_stream", "NEW_STREAM", None)
    /\ UNCHANGED <<server, sfh>>

roar_vs_stream ==
    /\ lib.at = "connected"
    /\ IF lib.type = "EXECED" THEN AttachExeced(net)
       ELSE Ask(net, lib, "main", "new_stream", "NEW_STREAM", None)
    /\ UNCHANGED <<server, sfh>>

\* The end of roar_vs_stream(), whatever the server knows about the stream.
roar_stream_get_info(a) ==
    /\ lib.at = "info"
    /\ net' = Taken("main")
    /\ lib' = [lib EXCEPT !.at = "stream", !.flag = TRUE]
    /\ UNCHANGED sfh

\* roar_vs_close(): the stream may be kicked, its handle is closed.
roar_vs_close(killit) ==
    /\ lib.at \in {"connected", "stream"}
    /\ \/ lib.flag /\ killit /\ UNCHANGED sfh
          /\ Ask(net, [lib EXCEPT !.then = "close"], "main", "kick", "KICK", lib.id)
       \/ lib.flag /\ ~ killit /\ sfh' = Hung /\ roar_disconnect(CloseHandle(net), "main")
       \/ ~ lib.flag /\ UNCHANGED sfh /\ roar_disconnect(net, "main")
    /\ UNCHANGED server

roar_kick(a) ==
    LET n == Taken("main") IN
    /\ lib.at = "kick"
    /\ \/ lib.then = "fallback" /\ a.cmd = OK /\ AttachExeced(n) /\ UNCHANGED sfh
       \/ lib.then = "fallback" /\ a.cmd # OK /\ Fail(n) /\ UNCHANGED sfh
       \/ lib.then = "fail" /\ Fail(n) /\ UNCHANGED sfh
       \/ lib.then = "close" /\ sfh' = Hung /\ roar_disconnect(CloseHandle(n), "main")

\* The connection is closed after QUIT, which is never answered.
Quitted(a) ==
    LET n == [Taken(lib.con) EXCEPT ![lib.con].open = FALSE] IN
    /\ lib.at = "quit"
    /\ \/ lib.con = "main" /\ net' = n /\ lib' = Out(lib.type)
       \/ lib.con = "temp" /\ Fail(n)
    /\ UNCHANGED sfh

\* The library reads an answer.
Answered ==
    \E a \in {Head(net[c].ans) : c \in {d \in Conn : net[d].ans # <<>>}} \cup {EOF} :
        /\ lib.at \in Waits
        /\ Received(lib.con, a)
        /\ \/ roar_identify(a) \/ roar_auth(a) \/ roar_stream_connect(a)
           \/ roar_stream_passfh(a) \/ ConStreamAnswered(a)
           \/ roar_stream_exec(a) \/ roar_get_clientid(a) \/ roar_stream_attach_simple(a)
           \/ roar_stream_get_info(a) \/ roar_kick(a) \/ Quitted(a)
        /\ UNCHANGED server

-----------------------------------------------------------------------------
(* The server: clients_check() and the requests of the library *)

\* command_exec(): the level a request needs.
minacclev(cmd) ==
    CASE cmd \in {"IDENTIFY", "WHOAMI", "QUIT"} -> ACCLEV_NONE
      [] cmd = "AUTH"                           -> ACCLEV_IDENTED
      [] cmd = "GET_STREAM_PARA"                -> ACCLEV_GUEST
      [] cmd = "NEW_STREAM"                     -> ACCLEV_USER
      [] OTHER                                  -> ACCLEV_PWRUSER

\* The tables become t; connections of clients that are gone are closed.
Becomes(n, t, f) == \E u \in {t} :
    /\ tab' = u
    /\ sfh' = [s \in SID |-> IF s \in LiveStreams(u) THEN f[s] ELSE "none"]
    /\ net' = [c \in Conn |->
                  IF n[c].peer \in CID /\ n[c].peer \notin {k \in LiveClients(u) : u.clients[k].fh}
                  THEN [n[c] EXCEPT !.peer = None, !.req = <<>>] ELSE n[c]]

\* The answer is sent when there is still a client to send it to.
Reply(c, t, f, cmd, arg) == \E u \in {t} :
    LET m == [net EXCEPT ![c].req = Tail(@)] IN
    Becomes(IF net[c].peer \in LiveClients(u)
            THEN [m EXCEPT ![c].ans = Append(@, [cmd |-> cmd, arg |-> arg])] ELSE m, u, f)

Error(c) == Reply(c, tab, sfh, ERROR, None) /\ UNCHANGED <<lib, acclev, lost>>

req_on_identify(c, k) ==
    /\ Reply(c, tab, sfh, OK, None)
    /\ acclev' = [acclev EXCEPT ![k] = ACCLEV_IDENTED]
    /\ UNCHANGED <<lib, lost>>

\* auth_client_ckeck(): a key of the type the client asks for.
req_on_auth(c, k, a) ==
    IF a \notin DOMAIN keys THEN Error(c)
    ELSE /\ Reply(c, tab, sfh, OK, None)
         /\ acclev' = [acclev EXCEPT ![k] = keys[a]]
         /\ UNCHANGED <<lib, lost>>

\* Mutant of req_on_new_stream: a full table is not noticed.
req_on_new_stream_Full(c, k) ==
    LET s == CHOOSE i \in SID \cup {STREAMS_MAX} : FirstOf(FreeSIDs(tab) \cup {STREAMS_MAX}, i)
        t == IF s \in SID THEN streams_new(tab, s) ELSE tab
    IN  /\ CanAdd(tab, k)
        /\ Reply(c, client_stream_add(t, k, s), sfh, OK, s)
        /\ UNCHANGED <<lib, acclev, lost>>

\* What the program asks for may be more than the server can do.
req_on_new_stream(c, k) ==
    \/ Error(c)
    \/ \E s \in SID :
        /\ FirstOf(FreeSIDs(tab), s) /\ CanAdd(tab, k)
        /\ Reply(c, streams_set_dir(client_stream_add(streams_new(tab, s), k, s), s, "PLAY"),
                 sfh, OK, s)
        /\ UNCHANGED <<lib, acclev, lost>>

\* streams_set_fh() takes the handle for stream s of client k.
Takes(k, s, outcome) ==
    /\ s \in LiveStreams(tab) /\ Lists(tab, k, s)
    /\ ~ tab.streams[s].ready
    /\ outcome = "ready"

req_on_passfh(c, k, s) ==
    \E outcome \in Outcomes :
        LET u == client_stream_set_fh(tab, k, s, outcome, "plain") IN
        /\ IF Takes(k, s, outcome) THEN Reply(c, u, [sfh EXCEPT ![s] = "ours"], OK, None)
           ELSE Reply(c, u, sfh, ERROR, None)
        /\ UNCHANGED <<lib, acclev, lost>>

\* Mutant of req_on_con_stream: a failure after the connection is not answered.
req_on_con_stream_Silent(c, k, s) ==
    \/ Error(c)
    \/ /\ lib.at = "select"
       /\ lib' = [lib EXCEPT !.backlog = TRUE]
       /\ \E outcome \in Outcomes :
            LET u == client_stream_set_fh(tab, k, s, outcome, "plain") IN
            IF Takes(k, s, outcome)
            THEN Reply(c, u, [sfh EXCEPT ![s] = "ours"], OK, None) /\ UNCHANGED lost
            ELSE Becomes([net EXCEPT ![c].req = Tail(@)], u, sfh) /\ lost' = TRUE
       /\ UNCHANGED acclev

\* The server connects while the program listens, if it can reach it.  A
\* stream that does not take the handle is an error only before that.
req_on_con_stream(c, k, s) ==
    \/ Error(c)
    \/ /\ lib.at = "select"
       /\ lib' = [lib EXCEPT !.backlog = TRUE]
       /\ \E outcome \in Outcomes :
            /\ Reply(c, client_stream_set_fh(tab, k, s, outcome, "plain"),
                     IF Takes(k, s, outcome) THEN [sfh EXCEPT ![s] = "ours"] ELSE sfh, OK, None)
            /\ lost' = (lost \/ ~ Takes(k, s, outcome))
       /\ UNCHANGED acclev

\* EXEC of a stream that does not exist, or is ready, closes the connection.
req_on_exec_stream(c, k, s) ==
    /\ IF s \notin LiveStreams(tab) \/ tab.streams[s].ready
       THEN Reply(c, clients_close(tab, k), sfh, OK, None)
       ELSE IF ~ Lists(tab, k, s) THEN Reply(c, tab, sfh, ERROR, None)
       ELSE \E outcome \in Outcomes :
                Reply(c, client_stream_exec(tab, k, s, outcome, "plain"),
                      [sfh EXCEPT ![s] = "ours"], OK, None)
    /\ UNCHANGED <<lib, acclev, lost>>

req_on_kick(c, s) ==
    /\ Reply(c, streams_delete(tab, s), sfh, OK, None)
    /\ UNCHANGED <<lib, acclev, lost>>

\* Mutant of req_on_attach: the stream stays with its client.
req_on_attach_Stays(c, s, k) ==
    /\ Reply(c, tab, sfh, OK, None)
    /\ UNCHANGED <<lib, acclev, lost>>

req_on_attach(c, s, k) ==
    LET u == client_stream_move(tab, k, s) IN
    /\ Reply(c, u, sfh, IF Lists(u, k, s) THEN OK ELSE ERROR, None)
    /\ UNCHANGED <<lib, acclev, lost>>

\* clients_check() and command_exec() for a client that is not a stream.
Serve(c) ==
    LET k == net[c].peer
        q == Head(net[c].req)
    IN
    /\ net[c].req # <<>>
    /\ k \in LiveClients(tab)
    /\ tab.clients[k].execed = None
    /\ IF minacclev(q.cmd) > acclev[k] THEN Error(c) ELSE
       CASE q.cmd = "IDENTIFY"        -> req_on_identify(c, k)
         [] q.cmd = "AUTH"            -> req_on_auth(c, k, q.arg)
         [] q.cmd = "NEW_STREAM"      -> req_on_new_stream(c, k)
         [] q.cmd = "PASSFH"          -> req_on_passfh(c, k, q.arg)
         [] q.cmd = "CON_STREAM"      -> req_on_con_stream(c, k, q.arg)
         [] q.cmd = "EXEC_STREAM"     -> req_on_exec_stream(c, k, q.arg)
         [] q.cmd = "KICK"            -> req_on_kick(c, q.arg)
         [] q.cmd = "ATTACH"          -> req_on_attach(c, q.arg.stream, q.arg.client)
         [] q.cmd = "WHOAMI"          -> Reply(c, tab, sfh, OK, k) /\ UNCHANGED <<lib, acclev, lost>>
         [] q.cmd = "GET_STREAM_PARA" -> Reply(c, tab, sfh, OK, None) /\ UNCHANGED <<lib, acclev, lost>>
         [] q.cmd = "QUIT"            -> Reply(c, clients_delete(tab, k), sfh, ERROR, None)
                                         /\ UNCHANGED <<lib, acclev, lost>>
    /\ UNCHANGED keys

\* net_check_listen(): a full table closes the connection.
Accept(c) ==
    /\ net[c].peer = New
    /\ \/ \E k \in CID :
            /\ FirstOf(FreeCIDs(tab), k)
            /\ tab' = [clients_new(tab, k) EXCEPT !.clients[k].fh = TRUE]
            /\ net' = [net EXCEPT ![c].peer = k]
            /\ acclev' = [acclev EXCEPT ![k] = ACCLEV_NONE]
       \/ /\ FreeCIDs(tab) = {}
          /\ net' = [net EXCEPT ![c].peer = None, ![c].req = <<>>]
          /\ UNCHANGED <<tab, acclev>>
    /\ UNCHANGED <<lib, sfh, keys, lost>>

\* streams_check() reads the end of a stream: only streams that a client lists
\* are looked at.
StreamEnds(s) ==
    /\ s \in LiveStreams(tab) /\ sfh[s] = "dead"
    /\ \E k \in LiveClients(tab) : Lists(tab, k, s)
    /\ Becomes(net, streams_delete(tab, s), sfh)
    /\ UNCHANGED <<lib, acclev, keys, lost>>

-----------------------------------------------------------------------------
(* Other clients, external *)

OtherStream ==
    /\ \E s \in SID :
        /\ FirstOf(FreeSIDs(tab), s) /\ CanAdd(tab, Other)
        /\ tab' = LET u == client_stream_add(streams_new(tab, s), Other, s)
                  IN  streams_set_fh(streams_set_dir(u, s, "PLAY"), s, "ready", "plain")
        /\ sfh' = [sfh EXCEPT ![s] = "other"]
    /\ UNCHANGED <<lib, net, acclev, keys, lost>>

OtherKicks(u) ==
    /\ Becomes(net, u, sfh)
    /\ lost' = (\/ lost
                \/ LiveClients(tab) # LiveClients(u)
                \/ \E s \in LiveStreams(tab) \ LiveStreams(u) : sfh[s] # "other")
    /\ UNCHANGED <<lib, acclev, keys>>

Others ==
    \/ OtherStream
    \/ \E s \in LiveStreams(tab) : OtherKicks(streams_delete(tab, s))
    \/ \E k \in LiveClients(tab) \ {Other} : OtherKicks(clients_delete(tab, k))

Library ==
    \/ Answered
    \/ (Accepted \/ TimedOut) /\ UNCHANGED server

Next ==
    \/ Library
    \/ \E type \in Types : roar_vs_new(type)
    \/ roar_vs_stream
    \/ \E killit \in BOOLEAN : roar_vs_close(killit)
    \/ \E c \in Conn : Serve(c) \/ Accept(c)
    \/ \E s \in SID : StreamEnds(s)
    \/ Others

\* The library runs, and the server comes to every connection and request in
\* the end: what EveryoneServed of module Poll says of clients_check_all().
Fairness ==
    /\ WF_vars(Library)
    /\ \A c \in Conn : []<>(net[c].peer # New /\ net[c].req = <<>>)

Spec == Init /\ [][Next]_vars /\ Fairness

-----------------------------------------------------------------------------
(* Correctness *)

\* Between two calls of the program no request and no answer is on the way:
\* roar_simple_new_stream_obj() reads the answer to CON_STREAM on every path,
\* so no later call takes it for its own.
InStep ==
    lib.at \in Idle => \A c \in Conn :
        net[c].open => net[c].req = <<>> /\ net[c].ans = <<>>

\* An object without a stream has left no stream behind at the server, however
\* the attempts to get one ended and whatever was lost to others meanwhile, but
\* streams whose handle is closed and that the server looks at: it will delete
\* them by itself.  It speaks of streams only: the client that EXEC leaves
\* without a connection is the server's to delete, and is outside it.
NoOrphans ==
    lib.at \in {"out", "connected"} =>
        \A s \in LiveStreams(tab) : sfh[s] # "other" =>
            /\ sfh[s] = "dead"
            /\ \E k \in LiveClients(tab) : Lists(tab, k, s)

\* A VS object with FLAG_STREAM has a stream of its own client at the server,
\* connected to the handle it writes to, over each of the three ways.
StreamIsOurs ==
    lib.at = "stream" /\ ~ lost =>
        /\ lib.flag
        /\ lib.id \in LiveStreams(tab)
        /\ tab.streams[lib.id].ready
        /\ sfh[lib.id] = "ours"
        /\ Lists(tab, net["main"].peer, lib.id)

\* No request of the library hurts a stream of others as long as its own is
\* there, but for a KICK that cleans up after a failure: the server may have
\* deleted the stream already and given the id away.
HurtsNobody ==
    [][net' # net =>
        \/ lost'
        \/ lib.at = "kick" /\ lib.then \in {"fail", "fallback"}
        \/ \A s \in LiveStreams(tab) : sfh[s] = "other" =>
            s \in LiveStreams(tab') /\ Lists(tab', Other, s)]_vars

\* Every call returns: none waits for an answer that does not come.
CallsReturn == lib.at \notin Idle ~> lib.at \in Idle
=============================================================================
