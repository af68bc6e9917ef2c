--------------------------- MODULE Session_proofs ---------------------------
(***************************************************************************)
(* Proofs about module Session, for every size of the tables, every        *)
(* keyring and every way to connect a stream.                              *)
(***************************************************************************)
EXTENDS Session, Tables_proofs

-----------------------------------------------------------------------------
(* The inductive invariant: what is on the way between the library and the  *)
(* server is the request that the library waits for, or its answer.         *)

LibState ==
    [at : Idle \cup Waits \cup {"select"},
     con : Conn, type : Types, try : 1 .. Len(AuthTypes),
     backlog : BOOLEAN, timeout : BOOLEAN, then : {"fail", "fallback", "close"},
     id : SID \cup {None}, fh : {"none", "data", "temp"}, flag : BOOLEAN]

Request ==
    [cmd : {"IDENTIFY", "AUTH", "NEW_STREAM", "PASSFH", "CON_STREAM", "KICK",
            "EXEC_STREAM", "WHOAMI", "ATTACH", "GET_STREAM_PARA", "QUIT"},
     arg : SID \cup {None} \cup {"TRUST", "IDENT", "RHOST", "NONE"}
           \cup [stream : SID, client : CID]]

Answer == [cmd : {OK, ERROR}, arg : SID \cup CID \cup {None}]

Connection ==
    [open : BOOLEAN, peer : CID \cup {None, New},
     req : {<<>>} \cup {<<q>> : q \in Request},
     ans : {<<>>} \cup {<<a>> : a \in Answer}]

\* q is the request whose answer the library l waits for.
Asks(l, q) ==
    \/ l.at = "identify" /\ q.cmd = "IDENTIFY"
    \/ l.at = "auth" /\ q.cmd = "AUTH"
    \/ l.at = "new_stream" /\ q.cmd = "NEW_STREAM"
    \/ l.at = "passfh" /\ q.cmd = "PASSFH" /\ q.arg = l.id
    \/ l.at \in {"select", "con_stream"} /\ q.cmd = "CON_STREAM" /\ q.arg = l.id
    \/ l.at = "kick" /\ q.cmd = "KICK" /\ q.arg = l.id
    \/ l.at = "exec" /\ q.cmd = "EXEC_STREAM" /\ q.arg = l.id
    \/ l.at = "whoami" /\ q.cmd = "WHOAMI"
    \/ l.at = "attach" /\ q.cmd = "ATTACH" /\ q.arg.stream = l.id /\ q.arg.client \in CID
    \/ l.at = "info" /\ q.cmd = "GET_STREAM_PARA"
    \/ l.at = "quit" /\ q.cmd = "QUIT"

\* a is an answer that l can make use of.
Fits(l, a) ==
    /\ l.at = "new_stream" /\ a.cmd = OK => a.arg \in SID
    /\ l.at = "whoami" => a.arg \in CID

Silent(n) == n.req = <<>> /\ n.ans = <<>>

\* One request is under way, or its answer, or the server has closed n.
Exchange(l, n) ==
    \/ n.ans = <<>> /\ n.peer # None /\ \E q \in Request : n.req = <<q>> /\ Asks(l, q)
    \/ n.req = <<>> /\ \E a \in Answer : n.ans = <<a>> /\ Fits(l, a)
    \/ Silent(n) /\ n.peer = None

\* The connection that each call uses, and the stream it is about.
Placed(l) ==
    /\ l.at \in {"passfh", "select", "con_stream", "kick", "whoami", "attach", "info"} =>
        l.con = "main"
    /\ l.at = "exec" => l.con = "temp"
    /\ l.at \in {"passfh", "select", "con_stream", "kick", "exec", "whoami", "attach", "info"} =>
        l.id \in SID
    /\ l.flag => l.id \in SID

\* The connection that the library waits at, if it waits, and the other.
Talk(l, n) ==
    \A c \in Conn : IF l.at \notin Idle /\ c = l.con THEN Exchange(l, n[c]) ELSE Silent(n[c])

Quiet(n) == n \in [Conn -> Connection] /\ \A c \in Conn : Silent(n[c])

Talking(l, n) ==
    /\ l \in LibState /\ Placed(l)
    /\ n \in [Conn -> Connection]
    /\ Talk(l, n)

Levels == ACCLEV_NONE .. ACCLEV_ALL
Ends == {"none", "ours", "dead", "other"}

SessionInv ==
    /\ Talking(lib, net)
    /\ tab \in TablesType
    /\ acclev \in [CID -> Levels]
    /\ sfh \in [SID -> Ends]
    /\ keys \in Keyrings

-----------------------------------------------------------------------------
(* Messages *)

\* Sequences of one message.
LEMMA OneMessage ==
    ASSUME NEW q
    PROVE  /\ Append(<<>>, q) = <<q>> /\ Tail(<<q>>) = <<>>
           /\ Head(<<q>>) = q /\ <<q>> # <<>>
OBVIOUS

\* What the library reads: an answer it can make use of, or the end of the
\* connection.  Nothing is on the way then.
LEMMA TakenLeaves ==
    ASSUME Talking(lib, net), lib.at \in Waits, NEW a, Received(lib.con, a)
    PROVE  /\ Quiet(Taken(lib.con))
           /\ \/ a \in Answer /\ Fits(lib, a)
              \/ a = EOF /\ Taken(lib.con)[lib.con].peer = None
  <1> DEFINE c == lib.con
             n == net[c]
             x == IF n.ans = <<>> THEN n.ans ELSE Tail(n.ans)
             m == [n EXCEPT !.ans = x]
             t == Taken(c)
  <1>1. /\ c \in Conn /\ lib.at \notin Idle
        /\ net \in [Conn -> Connection] /\ n \in Connection
        /\ Exchange(lib, n)
        /\ \A d \in Conn \ {c} : Silent(net[d])
    <2>1. lib \in LibState /\ Talk(lib, net) /\ net \in [Conn -> Connection]
      BY DEF Talking
    <2>2. c \in Conn /\ lib.at \notin Idle
      BY <2>1 DEF LibState, Waits, Idle
    <2> QED BY <2>1, <2>2 DEF Talk
  <1>2. t = [net EXCEPT ![c] = m]
    BY DEF Taken
  <1>3. \/ a = Head(n.ans) /\ n.ans # <<>>
        \/ n.ans = <<>> /\ n.peer = None /\ a = EOF
    BY DEF Received
  <1>4. /\ n.req = <<>>
        /\ x = <<>>
        /\ \/ a \in Answer /\ Fits(lib, a)
           \/ a = EOF /\ n.peer = None
    <2>1. CASE n.ans = <<>>
      <3>1. a = EOF /\ n.peer = None
        BY <1>3, <2>1
      <3>2. n.req = <<>>
        BY <1>1, <2>1, <3>1, OneMessage DEF Exchange, Silent
      <3> QED BY <3>1, <3>2, <2>1
    <2>2. CASE n.ans # <<>>
      <3>1. n.req = <<>> /\ \E b \in Answer : n.ans = <<b>> /\ Fits(lib, b)
        BY <1>1, <2>2 DEF Exchange, Silent
      <3> QED BY <3>1, <2>2, <1>3, OneMessage
    <2> QED BY <2>1, <2>2
  <1>5. m \in Connection /\ m.req = <<>> /\ m.ans = <<>> /\ m.peer = n.peer
    <2> HIDE DEF x, n
    <2> QED BY <1>1, <1>4 DEF Connection
  <1>6. Quiet(t) /\ t[c].peer = n.peer
    <2> HIDE DEF m, n, t, c
    <2> QED BY <1>1, <1>2, <1>5 DEF Quiet, Silent
  <1> QED BY <1>4, <1>6

\* The library l may go on to wait at place at for the answer to cmd on
\* connection c, if the server has not closed it.
MayAsk(l, c, closed, at, cmd, arg) ==
    LET k == [l EXCEPT !.at = at, !.con = c]
        q == [cmd |-> cmd, arg |-> arg]
    IN  /\ l \in LibState /\ c \in Conn /\ at \in Waits \cup {"select"}
        /\ Placed(k)
        /\ ~ closed => q \in Request /\ Asks(k, q)

\* A request that is sent is the only message there is.
LEMMA AskLeaves ==
    ASSUME NEW n, Quiet(n), NEW l, NEW c, NEW at, NEW cmd, NEW arg,
           MayAsk(l, c, n[c].peer = None, at, cmd, arg),
           Ask(n, l, c, at, cmd, arg)
    PROVE  Talking(lib', net')
  <1> DEFINE k == [l EXCEPT !.at = at, !.con = c]
             q == [cmd |-> cmd, arg |-> arg]
             m == [n[c] EXCEPT !.req = <<q>>]
  <1>0. /\ l \in LibState /\ c \in Conn /\ at \in Waits \cup {"select"}
        /\ Placed(k)
        /\ n[c].peer # None => q \in Request /\ Asks(k, q)
    BY Zenon DEF MayAsk
  <1>1. k \in LibState /\ k.at = at /\ k.con = c /\ at \notin Idle
    BY <1>0, ZenonT(60) DEF LibState, Waits, Idle
  <1>2. /\ n \in [Conn -> Connection] /\ \A d \in Conn : Silent(n[d])
        /\ n[c] \in Connection /\ Silent(n[c])
    BY <1>0 DEF Quiet
  <1>3. lib' = k /\ net' = IF n[c].peer = None THEN n ELSE [n EXCEPT ![c] = m]
    <2>1. n[c].req = <<>>
      BY <1>2 DEF Silent
    <2> QED BY <2>1, OneMessage DEF Ask, Send
  <1>4. CASE n[c].peer = None
    <2>1. Exchange(k, n[c])
      BY <1>2, <1>4 DEF Exchange
    <2> HIDE DEF k, m
    <2> QED BY <1>0, <1>1, <1>2, <1>3, <1>4, <2>1 DEF Talking, Talk
  <1>5. CASE n[c].peer # None
    <2>1. q \in Request /\ Asks(k, q)
      BY <1>0, <1>5
    <2>2. m \in Connection /\ m.req = <<q>> /\ m.ans = <<>> /\ m.peer # None
      <3> HIDE DEF q, k
      <3> QED BY <1>2, <1>5, <2>1 DEF Connection, Silent
    <2>3. Exchange(k, m)
      BY <2>1, <2>2 DEF Exchange
    <2>4. Placed(k)
      BY <1>0
    <2>5. lib' = k /\ net' = [n EXCEPT ![c] = m]
      BY <1>3, <1>5
    <2> HIDE DEF k, m
    <2> QED BY <1>0, <1>1, <1>2, <2>2, <2>3, <2>4, <2>5 DEF Talking, Talk
  <1> QED BY <1>4, <1>5

\* Between two calls.
LEMMA IdleLeaves ==
    ASSUME NEW n, Quiet(n), NEW l \in LibState, l.at \in Idle, Placed(l)
    PROVE  Talking(l, n)
BY DEF Quiet, Talking, Talk
-----------------------------------------------------------------------------
(* The calls of the library *)

\* What holds of the library wherever it is.
Sane(l) == l \in LibState /\ (l.flag => l.id \in SID)

\* The requests that are about no stream.
LEMMA PlainMayAsk ==
    ASSUME NEW l, Sane(l), NEW c \in Conn, NEW closed, NEW at, NEW cmd,
           \/ <<at, cmd>> \in {<<"identify", "IDENTIFY">>, <<"new_stream", "NEW_STREAM">>,
                               <<"quit", "QUIT">>}
           \/ at = "whoami" /\ cmd = "WHOAMI" /\ c = "main" /\ l.id \in SID
    PROVE  MayAsk(l, c, closed, at, cmd, None)
  <1> DEFINE k == [l EXCEPT !.at = at, !.con = c]
             q == [cmd |-> cmd, arg |-> None]
  <1>1. l \in LibState /\ k.at = at /\ k.con = c /\ k.flag = l.flag /\ k.id = l.id
    BY DEF Sane, LibState
  <1>2. q \in Request /\ q.cmd = cmd /\ at \in Waits \cup {"select"}
    BY DEF Request, Waits
  <1>3. Placed(k) /\ Asks(k, q)
    <2> HIDE DEF k, q
    <2> QED BY <1>1, <1>2 DEF Sane, Placed, Asks
  <1> QED BY <1>1, <1>2, <1>3, Zenon DEF MayAsk

\* roar_simple_connect() sends its first request.
LEMMA ConnectLeaves ==
    ASSUME NEW n, Quiet(n), NEW l, Sane(l), NEW c \in Conn, Connect(n, l, c)
    PROVE  Talking(lib', net')
  <1> DEFINE new == [NoConn EXCEPT !.open = TRUE, !.peer = New]
             m == [n EXCEPT ![c] = new]
  <1>1. new \in Connection /\ Silent(new)
    BY DEF NoConn, Connection, Silent
  <1>2. Quiet(m)
    <2> HIDE DEF new
    <2> QED BY <1>1 DEF Quiet
  <1>3. Ask(m, l, c, "identify", "IDENTIFY", None)
    BY DEF Connect
  <1>4. MayAsk(l, c, m[c].peer = None, "identify", "IDENTIFY", None)
    BY PlainMayAsk
  <1> HIDE DEF m
  <1> QED BY <1>2, <1>3, <1>4, AskLeaves

\* roar_disconnect() sends QUIT.
LEMMA DisconnectLeaves ==
    ASSUME NEW n, Quiet(n), Sane(lib), NEW c \in Conn, roar_disconnect(n, c)
    PROVE  Talking(lib', net')
  <1>1. Ask(n, lib, c, "quit", "QUIT", None)
    BY DEF roar_disconnect
  <1>2. MayAsk(lib, c, n[c].peer = None, "quit", "QUIT", None)
    BY PlainMayAsk
  <1> QED BY <1>1, <1>2, AskLeaves

\* roar_vs_stream() fails.
LEMMA FailLeaves ==
    ASSUME NEW n, Quiet(n), Sane(lib), Fail(n)
    PROVE  Talking(lib', net')
  <1>1. lib' = [lib EXCEPT !.at = "connected", !.fh = "none"] /\ net' = n
    BY DEF Fail
  <1>2. lib' \in LibState /\ lib'.at \in Idle /\ Placed(lib')
    BY <1>1 DEF Sane, LibState, Placed, Idle
  <1> QED BY <1>1, <1>2, IdleLeaves

\* A connection fails.
LEMMA ConnectFailsLeaves ==
    ASSUME NEW n, Quiet(n), Sane(lib), ConnectFails(n)
    PROVE  Talking(lib', net')
BY DisconnectLeaves, FailLeaves DEF ConnectFails, Conn

\* A request about the stream that the library has.
LEMMA StreamAskLeaves ==
    ASSUME NEW n, Quiet(n), NEW l, Sane(l), l.id \in SID, NEW c \in Conn,
           NEW at, NEW cmd,
           \/ c = "main" /\ <<at, cmd>> \in
                {<<"passfh", "PASSFH">>, <<"kick", "KICK">>, <<"select", "CON_STREAM">>,
                 <<"info", "GET_STREAM_PARA">>}
           \/ c = "temp" /\ <<at, cmd>> = <<"exec", "EXEC_STREAM">>,
           Ask(n, l, c, at, cmd, l.id)
    PROVE  Talking(lib', net')
  <1> DEFINE k == [l EXCEPT !.at = at, !.con = c]
             q == [cmd |-> cmd, arg |-> l.id]
  <1>1. l \in LibState /\ k.at = at /\ k.con = c /\ k.flag = l.flag /\ k.id = l.id
    BY DEF Sane, LibState
  <1>2. q \in Request /\ q.cmd = cmd /\ q.arg = l.id /\ at \in Waits \cup {"select"}
    BY DEF Request, Waits
  <1>3. Placed(k) /\ Asks(k, q)
    <2> HIDE DEF k, q
    <2> QED BY <1>1, <1>2 DEF Sane, Placed, Asks
  <1>4. MayAsk(l, c, n[c].peer = None, at, cmd, l.id)
    BY <1>1, <1>2, <1>3, Zenon DEF MayAsk
  <1> QED BY <1>4, AskLeaves

\* NEW_STREAM and WHOAMI.
LEMMA PlainAskLeaves ==
    ASSUME NEW n, Quiet(n), Sane(lib), NEW c \in Conn, NEW at, NEW cmd,
           \/ at = "new_stream" /\ cmd = "NEW_STREAM"
           \/ at = "whoami" /\ cmd = "WHOAMI" /\ c = "main" /\ lib.id \in SID,
           Ask(n, lib, c, at, cmd, None)
    PROVE  Talking(lib', net')
  <1>1. MayAsk(lib, c, n[c].peer = None, at, cmd, None)
    BY PlainMayAsk
  <1> QED BY <1>1, AskLeaves

\* A connection is established.
LEMMA ConnectedLeaves ==
    ASSUME NEW n, Quiet(n), Sane(lib), Connected(n)
    PROVE  Talking(lib', net')
  <1>1. CASE lib.con = "main"
    <2>1. lib' = [lib EXCEPT !.at = "connected"] /\ net' = n
      BY <1>1 DEF Connected
    <2>2. lib' \in LibState /\ lib'.at \in Idle /\ Placed(lib')
      BY <2>1 DEF Sane, LibState, Placed, Idle
    <2> QED BY <2>1, <2>2, IdleLeaves
  <1>2. CASE lib.con # "main"
    BY <1>2, PlainAskLeaves DEF Connected, Conn
  <1> QED BY <1>1, <1>2

\* roar_auth() tries a type.
LEMMA AuthAskLeaves ==
    ASSUME NEW n, Quiet(n), Sane(lib), NEW i \in 1 .. Len(AuthTypes),
           Ask(n, [lib EXCEPT !.try = i], lib.con, "auth", "AUTH", AuthTypes[i])
    PROVE  Talking(lib', net')
  <1> DEFINE l == [lib EXCEPT !.try = i]
             k == [l EXCEPT !.at = "auth", !.con = lib.con]
             q == [cmd |-> "AUTH", arg |-> AuthTypes[i]]
  <1>1. l \in LibState /\ lib.con \in Conn /\ l.flag = lib.flag /\ l.id = lib.id
    BY DEF Sane, LibState
  <1>2. k.at = "auth" /\ k.flag = lib.flag /\ k.id = lib.id
    <2> HIDE DEF l
    <2> QED BY <1>1 DEF LibState
  <1>3. Placed(k)
    <2> HIDE DEF k
    <2> QED BY <1>2 DEF Placed, Sane
  <1>4. AuthTypes[i] \in {"TRUST", "IDENT", "RHOST", "NONE"}
    <2>1. i \in {1, 2, 3, 4}
      BY DEF AuthTypes
    <2> QED BY <2>1 DEF AuthTypes
  <1>5. q \in Request /\ Asks(k, q)
    <2> HIDE DEF k
    <2> QED BY <1>2, <1>4 DEF Request, Asks
  <1>6. "auth" \in Waits
    BY DEF Waits
  <1>7. MayAsk(l, lib.con, n[lib.con].peer = None, "auth", "AUTH", AuthTypes[i])
    BY <1>1, <1>3, <1>5, <1>6, Zenon DEF MayAsk
  <1> QED BY <1>7, AskLeaves, Zenon

\* The state of the library when it reads an answer.
LEMMA Reading ==
    ASSUME Talking(lib, net), lib.at \in Waits, NEW a, Received(lib.con, a)
    PROVE  /\ Sane(lib) /\ Placed(lib) /\ lib.con \in Conn
           /\ Quiet(Taken(lib.con))
           /\ a.cmd = OK => a \in Answer
           /\ \/ a \in Answer /\ Fits(lib, a)
              \/ a = EOF /\ Taken(lib.con)[lib.con].peer = None
  <1>1. EOF.cmd # OK
    BY DEF EOF, OK
  <1> QED BY <1>1, TakenLeaves DEF Talking, Placed, Sane, LibState

\* roar_identify() goes on to AUTH.
LEMMA IdentifyLeaves ==
    ASSUME Talking(lib, net), lib.at \in Waits, NEW a, Received(lib.con, a), roar_identify(a)
    PROVE  Talking(lib', net')
  <1>1. Sane(lib) /\ Quiet(Taken(lib.con))
    BY Reading
  <1>2. CASE a = EOF
    BY <1>1, <1>2, ConnectFailsLeaves DEF roar_identify
  <1>3. CASE a # EOF
    <2>1. Ask(Taken(lib.con), [lib EXCEPT !.try = 1], lib.con, "auth", "AUTH", AuthTypes[1])
      BY <1>3 DEF roar_identify
    <2>2. 1 \in 1 .. Len(AuthTypes)
      BY DEF AuthTypes
    <2> QED BY <1>1, <2>1, <2>2, AuthAskLeaves, Zenon
  <1> QED BY <1>2, <1>3

\* roar_auth() is done, gives up, or tries the next type.
LEMMA AuthLeaves ==
    ASSUME Talking(lib, net), lib.at \in Waits, NEW a, Received(lib.con, a), roar_auth(a)
    PROVE  Talking(lib', net')
  <1> DEFINE n == Taken(lib.con)
             i == lib.try + 1
  <1>1. Sane(lib) /\ Quiet(n)
    BY Reading
  <1>2. \/ Connected(n)
        \/ ConnectFails(n)
        \/ /\ i <= Len(AuthTypes)
           /\ Ask(n, [lib EXCEPT !.try = i], lib.con, "auth", "AUTH", AuthTypes[i])
    BY Zenon DEF roar_auth
  <1>3. CASE Connected(n)
    BY <1>1, <1>3, ConnectedLeaves
  <1>4. CASE ConnectFails(n)
    BY <1>1, <1>4, ConnectFailsLeaves
  <1>5. CASE /\ i <= Len(AuthTypes)
             /\ Ask(n, [lib EXCEPT !.try = i], lib.con, "auth", "AUTH", AuthTypes[i])
    <2>1. Len(AuthTypes) = 4
      BY DEF AuthTypes
    <2>2. lib.try \in 1 .. 4
      BY <1>1, <2>1 DEF Sane, LibState
    <2>3. i \in 1 .. Len(AuthTypes)
      BY <1>5, <2>1, <2>2
    <2> HIDE DEF i, n
    <2> QED BY <1>1, <1>5, <2>3, AuthAskLeaves, Zenon
  <1> QED BY <1>2, <1>3, <1>4, <1>5

\* roar_stream_connect() has an id, or none.
LEMMA StreamConnectLeaves ==
    ASSUME Talking(lib, net), lib.at \in Waits, NEW a, Received(lib.con, a),
           roar_stream_connect(a)
    PROVE  Talking(lib', net')
  <1> DEFINE n == Taken(lib.con)
             l == [lib EXCEPT !.id = a.arg]
             l1 == [l EXCEPT !.then = "fail"]
             l2 == [l EXCEPT !.backlog = FALSE]
  <1>1. /\ Sane(lib) /\ Quiet(n) /\ lib.at = "new_stream"
        /\ a.cmd = OK => a.arg \in SID
    BY Reading DEF roar_stream_connect, Fits, EOF, OK
  <1>2. a.cmd = OK =>
          /\ Sane(l) /\ l.id = a.arg
          /\ Sane(l1) /\ l1.id = a.arg
          /\ Sane(l2) /\ l2.id = a.arg
    <2>1. a.cmd = OK => Sane(l) /\ l.id = a.arg
      BY <1>1 DEF Sane, LibState
    <2> HIDE DEF l
    <2> QED BY <1>1, <2>1 DEF Sane, LibState
  <1>3. \/ a.cmd = OK /\ Ask(n, l, "temp", "exec", "EXEC_STREAM", a.arg)
        \/ a.cmd = OK /\ Ask(n, l, "main", "passfh", "PASSFH", a.arg)
        \/ a.cmd = OK /\ Ask(n, l1, "main", "kick", "KICK", a.arg)
        \/ a.cmd = OK /\ Ask(n, l2, "main", "select", "CON_STREAM", a.arg)
        \/ roar_disconnect(n, "temp")
        \/ Fail(n)
    BY Zenon DEF roar_stream_connect
  <1> HIDE DEF n, l, l1, l2
  <1>4. ASSUME a.cmd = OK, Ask(n, l, "temp", "exec", "EXEC_STREAM", a.arg)
        PROVE  Talking(lib', net')
    BY <1>1, <1>2, <1>4, StreamAskLeaves DEF Conn
  <1>5. ASSUME a.cmd = OK, Ask(n, l, "main", "passfh", "PASSFH", a.arg)
        PROVE  Talking(lib', net')
    BY <1>1, <1>2, <1>5, StreamAskLeaves DEF Conn
  <1>6. ASSUME a.cmd = OK, Ask(n, l1, "main", "kick", "KICK", a.arg)
        PROVE  Talking(lib', net')
    BY <1>1, <1>2, <1>6, StreamAskLeaves DEF Conn
  <1>7. ASSUME a.cmd = OK, Ask(n, l2, "main", "select", "CON_STREAM", a.arg)
        PROVE  Talking(lib', net')
    BY <1>1, <1>2, <1>7, StreamAskLeaves DEF Conn
  <1>8. CASE roar_disconnect(n, "temp")
    BY <1>1, <1>8, DisconnectLeaves DEF Conn
  <1>9. CASE Fail(n)
    BY <1>1, <1>9, FailLeaves
  <1> QED BY <1>3, <1>4, <1>5, <1>6, <1>7, <1>8, <1>9

\* The call has a handle and asks for the parameters.
LEMMA SucceedLeaves ==
    ASSUME NEW n, Quiet(n), Sane(lib), lib.id \in SID, NEW fh \in {"data", "temp"}, Succeed(n, fh)
    PROVE  Talking(lib', net')
  <1> DEFINE l == [lib EXCEPT !.fh = fh]
  <1>1. Sane(l) /\ l.id = lib.id
    BY DEF Sane, LibState
  <1>2. Ask(n, l, "main", "info", "GET_STREAM_PARA", l.id)
    BY <1>1 DEF Succeed
  <1> HIDE DEF l
  <1> QED BY <1>1, <1>2, StreamAskLeaves DEF Conn

\* A KICK of the stream of the library.
LEMMA KickAskLeaves ==
    ASSUME NEW n, Quiet(n), Sane(lib), lib.id \in SID, NEW then \in {"fail", "fallback", "close"},
           Ask(n, [lib EXCEPT !.then = then], "main", "kick", "KICK", lib.id)
    PROVE  Talking(lib', net')
  <1> DEFINE l == [lib EXCEPT !.then = then]
  <1>1. Sane(l) /\ l.id = lib.id
    BY DEF Sane, LibState
  <1>2. Ask(n, l, "main", "kick", "KICK", l.id)
    BY <1>1
  <1> HIDE DEF l
  <1> QED BY <1>1, <1>2, StreamAskLeaves DEF Conn

\* roar_stream_passfh() has its answer.
LEMMA PassfhLeaves ==
    ASSUME Talking(lib, net), lib.at \in Waits, NEW a, Received(lib.con, a), roar_stream_passfh(a)
    PROVE  Talking(lib', net')
  <1> DEFINE n == Taken("main")
  <1>1. Sane(lib) /\ Quiet(n) /\ lib.id \in SID
    BY Reading DEF roar_stream_passfh, Placed
  <1>2. \/ Succeed(n, "data")
        \/ Ask(n, [lib EXCEPT !.then = "fail"], "main", "kick", "KICK", lib.id)
    BY Zenon DEF roar_stream_passfh
  <1>3. CASE Succeed(n, "data")
    BY <1>1, <1>3, SucceedLeaves
  <1>4. CASE Ask(n, [lib EXCEPT !.then = "fail"], "main", "kick", "KICK", lib.id)
    <2>1. "fail" \in {"fail", "fallback", "close"}
      OBVIOUS
    <2> QED BY <1>1, <1>4, <2>1, KickAskLeaves, Zenon
  <1> QED BY <1>2, <1>3, <1>4

\* The answer to CON_STREAM, in time or not.
LEMMA ConStreamLeaves ==
    ASSUME Talking(lib, net), lib.at \in Waits, NEW a, Received(lib.con, a), ConStreamAnswered(a)
    PROVE  Talking(lib', net')
  <1> DEFINE n == Taken("main")
  <1>1. Sane(lib) /\ Quiet(n) /\ lib.id \in SID
    BY Reading DEF ConStreamAnswered, Placed
  <1>2. \/ Fail(n)
        \/ Succeed(n, "data")
        \/ Ask(n, [lib EXCEPT !.then = "fallback"], "main", "kick", "KICK", lib.id)
    BY Zenon DEF ConStreamAnswered
  <1>3. CASE Fail(n)
    BY <1>1, <1>3, FailLeaves
  <1>4. CASE Succeed(n, "data")
    BY <1>1, <1>4, SucceedLeaves
  <1>5. CASE Ask(n, [lib EXCEPT !.then = "fallback"], "main", "kick", "KICK", lib.id)
    <2>1. "fallback" \in {"fail", "fallback", "close"}
      OBVIOUS
    <2> QED BY <1>1, <1>5, <2>1, KickAskLeaves, Zenon
  <1> QED BY <1>2, <1>3, <1>4, <1>5

\* The second connection has become a stream, or not.
LEMMA ExecLeaves ==
    ASSUME Talking(lib, net), lib.at \in Waits, NEW a, Received(lib.con, a), roar_stream_exec(a)
    PROVE  Talking(lib', net')
  <1> DEFINE n == Taken("temp")
  <1>1. Sane(lib) /\ Quiet(n) /\ lib.id \in SID
    BY Reading DEF roar_stream_exec, Placed
  <1>2. \/ Ask(n, lib, "main", "whoami", "WHOAMI", None)
        \/ roar_disconnect(n, "temp")
    BY Zenon DEF roar_stream_exec
  <1>3. CASE Ask(n, lib, "main", "whoami", "WHOAMI", None)
    BY <1>1, <1>3, PlainAskLeaves DEF Conn
  <1>4. CASE roar_disconnect(n, "temp")
    BY <1>1, <1>4, DisconnectLeaves DEF Conn
  <1> QED BY <1>2, <1>3, <1>4

\* WHOAMI is answered with the id of the client, and ATTACH is about it; when
\* it is not answered, nothing is sent any more.
LEMMA WhoamiLeaves ==
    ASSUME Talking(lib, net), lib.at \in Waits, NEW a, Received(lib.con, a), roar_get_clientid(a)
    PROVE  Talking(lib', net')
  <1> DEFINE n == Taken("main")
             arg == [stream |-> lib.id, client |-> a.arg]
             k == [lib EXCEPT !.at = "attach", !.con = "main"]
             q == [cmd |-> "ATTACH", arg |-> arg]
  <1>1. /\ Sane(lib) /\ Quiet(n) /\ lib.id \in SID /\ lib.at = "whoami"
        /\ n["main"].peer # None => a.arg \in CID
    <2>1. lib.at = "whoami"
      BY DEF roar_get_clientid
    <2>2. Placed(lib) /\ Sane(lib) /\ Quiet(Taken(lib.con))
      BY Reading
    <2>3. lib.con = "main" /\ lib.id \in SID
      BY <2>1, <2>2 DEF Placed
    <2>4. (a \in Answer /\ Fits(lib, a)) \/ Taken(lib.con)[lib.con].peer = None
      BY Reading
    <2> QED BY <2>1, <2>2, <2>3, <2>4 DEF Fits
  <1>2. Ask(n, lib, "main", "attach", "ATTACH", arg)
    BY DEF roar_get_clientid
  <1>3. k.at = "attach" /\ k.con = "main" /\ k.id = lib.id /\ k.flag = lib.flag /\ lib \in LibState
    BY <1>1 DEF Sane, LibState
  <1>4. Placed(k)
    <2> HIDE DEF k
    <2> QED BY <1>1, <1>3 DEF Placed, Sane
  <1>5. n["main"].peer # None => q \in Request /\ Asks(k, q)
    <2> HIDE DEF k, n
    <2> QED BY <1>1, <1>3 DEF Request, Asks
  <1>6. "main" \in Conn /\ "attach" \in Waits \cup {"select"}
    BY DEF Conn, Waits
  <1>7. MayAsk(lib, "main", n["main"].peer = None, "attach", "ATTACH", arg)
    BY <1>3, <1>4, <1>5, <1>6, Zenon DEF MayAsk
  <1> HIDE DEF n, arg
  <1> QED BY <1>1, <1>2, <1>7, AskLeaves, Zenon

\* A connection whose end the program closes stays as quiet as it was.
LEMMA CloseLeaves ==
    ASSUME NEW n, Quiet(n), NEW c \in Conn
    PROVE  Quiet([n EXCEPT ![c].open = FALSE])
  <1> DEFINE m == [n[c] EXCEPT !.open = FALSE]
  <1>1. n \in [Conn -> Connection] /\ n[c] \in Connection /\ \A d \in Conn : Silent(n[d])
    BY DEF Quiet
  <1>2. m \in Connection /\ m.req = n[c].req /\ m.ans = n[c].ans
    BY <1>1 DEF Connection
  <1>3. Silent(m)
    <2> HIDE DEF m
    <2> QED BY <1>1, <1>2 DEF Silent
  <1> HIDE DEF m
  <1>4. Quiet([n EXCEPT ![c] = m])
    BY <1>1, <1>2, <1>3 DEF Quiet
  <1> QED BY <1>4 DEF m

\* The stream is attached, or not.
LEMMA AttachLeaves ==
    ASSUME Talking(lib, net), lib.at \in Waits, NEW a, Received(lib.con, a),
           roar_stream_attach_simple(a)
    PROVE  Talking(lib', net')
  <1> DEFINE n == Taken("main")
             m == [n EXCEPT !["temp"].open = FALSE]
  <1>1. Sane(lib) /\ Quiet(n) /\ lib.id \in SID
    BY Reading DEF roar_stream_attach_simple, Placed
  <1>2. Succeed(n, "temp") \/ Fail(m)
    BY Zenon DEF roar_stream_attach_simple
  <1>3. Quiet(m)
    <2> HIDE DEF n
    <2> QED BY <1>1, CloseLeaves DEF Conn
  <1> HIDE DEF n, m
  <1>4. CASE Succeed(n, "temp")
    BY <1>1, <1>4, SucceedLeaves
  <1>5. CASE Fail(m)
    BY <1>1, <1>3, <1>5, FailLeaves
  <1> QED BY <1>2, <1>4, <1>5

\* The object has its stream.
LEMMA InfoLeaves ==
    ASSUME Talking(lib, net), lib.at \in Waits, NEW a, Received(lib.con, a),
           roar_stream_get_info(a)
    PROVE  Talking(lib', net')
  <1>1. Sane(lib) /\ Quiet(Taken("main")) /\ lib.id \in SID
    BY Reading DEF roar_stream_get_info, Placed
  <1>2. net' = Taken("main") /\ lib' = [lib EXCEPT !.at = "stream", !.flag = TRUE]
    BY DEF roar_stream_get_info
  <1>3. lib' \in LibState /\ lib'.at \in Idle /\ Placed(lib')
    BY <1>1, <1>2 DEF Sane, LibState, Placed, Idle
  <1> QED BY <1>1, <1>2, <1>3, IdleLeaves

\* Closing the handle of the stream closes the second connection at most.
LEMMA CloseHandleLeaves ==
    ASSUME NEW n, Quiet(n)
    PROVE  Quiet(CloseHandle(n))
BY CloseLeaves DEF CloseHandle, Conn

\* The stream has been kicked.
LEMMA KickLeaves ==
    ASSUME Talking(lib, net), lib.at \in Waits, NEW a, Received(lib.con, a), roar_kick(a)
    PROVE  Talking(lib', net')
  <1> DEFINE n == Taken("main")
  <1>1. Sane(lib) /\ Quiet(n)
    BY Reading DEF roar_kick, Placed
  <1>2. \/ Connect(n, lib, "temp")
        \/ Fail(n)
        \/ roar_disconnect(CloseHandle(n), "main")
    BY Zenon DEF roar_kick, AttachExeced
  <1> HIDE DEF n
  <1>3. CASE Connect(n, lib, "temp")
    BY <1>1, <1>3, ConnectLeaves DEF Conn
  <1>4. CASE Fail(n)
    BY <1>1, <1>4, FailLeaves
  <1>5. CASE roar_disconnect(CloseHandle(n), "main")
    BY <1>1, <1>5, CloseHandleLeaves, DisconnectLeaves DEF Conn
  <1> QED BY <1>2, <1>3, <1>4, <1>5

\* An object that is not there.
LEMMA OutSane ==
    ASSUME NEW type \in Types
    PROVE  Sane(Out(type)) /\ Placed(Out(type)) /\ Out(type).at \in Idle
BY DEF Out, Sane, LibState, Placed, Idle, Conn, AuthTypes

\* The connection is closed after QUIT.
LEMMA QuittedLeaves ==
    ASSUME Talking(lib, net), lib.at \in Waits, NEW a, Received(lib.con, a), Quitted(a)
    PROVE  Talking(lib', net')
  <1> DEFINE t == Taken(lib.con)
             n == [t EXCEPT ![lib.con].open = FALSE]
  <1>1. Sane(lib) /\ Quiet(t) /\ lib.con \in Conn
    BY Reading
  <1>2. Quiet(n)
    <2> HIDE DEF t
    <2> QED BY <1>1, CloseLeaves
  <1>3. (net' = n /\ lib' = Out(lib.type)) \/ Fail(n)
    BY Zenon DEF Quitted
  <1> HIDE DEF n
  <1>4. CASE Fail(n)
    BY <1>1, <1>2, <1>4, FailLeaves
  <1>5. CASE net' = n /\ lib' = Out(lib.type)
    <2>1. lib.type \in Types
      BY <1>1 DEF Sane, LibState
    <2> QED BY <1>2, <1>5, <2>1, OutSane, IdleLeaves DEF Sane
  <1> QED BY <1>3, <1>4, <1>5

\* The library reads an answer.
LEMMA AnsweredLeaves ==
    ASSUME Talking(lib, net), Answered
    PROVE  Talking(lib', net') /\ (sfh' = sfh \/ sfh' = Hung)
  <1>1. PICK a : /\ lib.at \in Waits
                 /\ Received(lib.con, a)
                 /\ \/ roar_identify(a) \/ roar_auth(a) \/ roar_stream_connect(a)
                    \/ roar_stream_passfh(a) \/ ConStreamAnswered(a)
                    \/ roar_stream_exec(a) \/ roar_get_clientid(a) \/ roar_stream_attach_simple(a)
                    \/ roar_stream_get_info(a) \/ roar_kick(a) \/ Quitted(a)
    BY Zenon DEF Answered
  <1>2. CASE roar_identify(a)
    BY <1>1, <1>2, IdentifyLeaves DEF roar_identify
  <1>3. CASE roar_auth(a)
    BY <1>1, <1>3, AuthLeaves, SMTT(60) DEF roar_auth
  <1>4. CASE roar_stream_connect(a)
    BY <1>1, <1>4, StreamConnectLeaves DEF roar_stream_connect
  <1>5. CASE roar_stream_passfh(a)
    BY <1>1, <1>5, PassfhLeaves DEF roar_stream_passfh
  <1>6. CASE ConStreamAnswered(a)
    <2>1. sfh' = sfh \/ sfh' = Hung
      BY <1>6, Zenon DEF ConStreamAnswered
    <2> QED BY <1>1, <1>6, <2>1, ConStreamLeaves
  <1>7. CASE roar_stream_exec(a)
    BY <1>1, <1>7, ExecLeaves DEF roar_stream_exec
  <1>8. CASE roar_get_clientid(a)
    BY <1>1, <1>8, WhoamiLeaves DEF roar_get_clientid
  <1>9. CASE roar_stream_attach_simple(a)
    <2>1. sfh' = sfh \/ sfh' = Hung
      BY <1>9, Zenon DEF roar_stream_attach_simple
    <2> QED BY <1>1, <1>9, <2>1, AttachLeaves
  <1>10. CASE roar_stream_get_info(a)
    BY <1>1, <1>10, InfoLeaves DEF roar_stream_get_info
  <1>11. CASE roar_kick(a)
    <2>1. sfh' = sfh \/ sfh' = Hung
      BY <1>11, Zenon DEF roar_kick
    <2> QED BY <1>1, <1>11, <2>1, KickLeaves
  <1>12. CASE Quitted(a)
    BY <1>1, <1>12, QuittedLeaves DEF Quitted
  <1> QED BY <1>1, <1>2, <1>3, <1>4, <1>5, <1>6, <1>7, <1>8, <1>9, <1>10, <1>11, <1>12

\* A library that stays where it is, with the same stream, goes on to wait
\* for the same answer.
LEMMA SamePlace ==
    ASSUME NEW k, NEW n, Talking(k, n), NEW l \in LibState,
           \/ l.at = k.at
           \/ k.at = "select" /\ l.at = "con_stream",
           l.con = k.con, l.id = k.id, l.flag = k.flag
    PROVE  Talking(l, n) /\ \A m : Exchange(k, m) => Exchange(l, m)
  <1>1. /\ Placed(k) /\ Talk(k, n) /\ n \in [Conn -> Connection]
        /\ k.at \in Idle <=> l.at \in Idle
    BY DEF Talking, Idle
  <1>2. Placed(l)
    BY <1>1 DEF Placed
  <1>3. \A m : Exchange(k, m) => Exchange(l, m)
    <2>1. \A q : Asks(k, q) => Asks(l, q)
      BY DEF Asks
    <2>2. \A a : Fits(k, a) => Fits(l, a)
      BY DEF Fits
    <2> QED BY <2>1, <2>2 DEF Exchange
  <1>4. Talk(l, n)
    BY <1>1, <1>3 DEF Talk
  <1> QED BY <1>1, <1>2, <1>3, <1>4 DEF Talking

\* select() returns.
LEMMA SelectLeaves ==
    ASSUME Talking(lib, net), Accepted \/ TimedOut
    PROVE  Talking(lib', net') /\ (sfh' = sfh \/ sfh' = Hung)
  <1>1. lib.at = "select" /\ net' = net /\ (sfh' = sfh \/ sfh' = Hung)
    BY DEF Accepted, TimedOut
  <1>2. \E b \in BOOLEAN :
          lib' = [lib EXCEPT !.at = "con_stream", !.backlog = FALSE, !.timeout = b]
    BY DEF Accepted, TimedOut
  <1>3. /\ lib' \in LibState /\ lib'.at = "con_stream"
        /\ lib'.con = lib.con /\ lib'.id = lib.id /\ lib'.flag = lib.flag
    BY <1>2, ZenonT(60) DEF Talking, LibState, Waits
  <1> QED BY <1>1, <1>3, SamePlace

\* The calls of the program begin where nothing is on the way.
LEMMA CallLeaves ==
    ASSUME Talking(lib, net),
           (\E type \in Types : roar_vs_new(type)) \/ roar_vs_stream
               \/ \E killit \in BOOLEAN : roar_vs_close(killit)
    PROVE  Talking(lib', net') /\ (sfh' = sfh \/ sfh' = Hung)
  <1>1. lib.at \in Idle => Quiet(net) /\ Sane(lib)
    BY DEF Talking, Talk, Quiet, Sane, Placed
  <1>2. CASE \E type \in Types : roar_vs_new(type)
    <2>1. PICK type \in Types : roar_vs_new(type)
      BY <1>2
    <2>2. lib.at = "out" /\ Connect(net, Out(type), "main") /\ sfh' = sfh
      BY <2>1 DEF roar_vs_new
    <2> QED BY <1>1, <2>2, OutSane, ConnectLeaves DEF Idle, Conn
  <1>3. CASE roar_vs_stream
    <2>1. lib.at = "connected" /\ sfh' = sfh
      BY <1>3 DEF roar_vs_stream
    <2>2. \/ Connect(net, lib, "temp")
          \/ Ask(net, lib, "main", "new_stream", "NEW_STREAM", None)
      BY <1>3, Zenon DEF roar_vs_stream, AttachExeced
    <2>3. Quiet(net) /\ Sane(lib)
      BY <1>1, <2>1 DEF Idle
    <2> QED BY <2>1, <2>2, <2>3, ConnectLeaves, PlainAskLeaves DEF Conn
  <1>4. CASE \E killit \in BOOLEAN : roar_vs_close(killit)
    <2>1. PICK killit \in BOOLEAN : roar_vs_close(killit)
      BY <1>4
    <2>2. Quiet(net) /\ Sane(lib) /\ (sfh' = sfh \/ sfh' = Hung)
      BY <1>1, <2>1 DEF roar_vs_close, Idle
    <2>3. \/ lib.flag /\ Ask(net, [lib EXCEPT !.then = "close"], "main", "kick", "KICK", lib.id)
          \/ roar_disconnect(CloseHandle(net), "main")
          \/ roar_disconnect(net, "main")
      BY <2>1, Zenon DEF roar_vs_close
    <2>4. "main" \in Conn /\ "close" \in {"fail", "fallback", "close"}
      BY DEF Conn
    <2>5. ASSUME lib.flag, Ask(net, [lib EXCEPT !.then = "close"], "main", "kick", "KICK", lib.id)
          PROVE  Talking(lib', net')
      <3>1. lib.id \in SID
        BY <2>2, <2>5 DEF Sane
      <3> QED BY <2>2, <2>4, <2>5, <3>1, KickAskLeaves, Zenon
    <2>6. CASE roar_disconnect(CloseHandle(net), "main")
      BY <2>2, <2>4, <2>6, CloseHandleLeaves, DisconnectLeaves
    <2>7. CASE roar_disconnect(net, "main")
      BY <2>2, <2>4, <2>7, DisconnectLeaves
    <2> QED BY <2>2, <2>3, <2>5, <2>6, <2>7
  <1> QED BY <1>2, <1>3, <1>4

\* The handles that the program closes.
LEMMA HungType ==
    ASSUME sfh \in [SID -> Ends]
    PROVE  Hung \in [SID -> Ends]
BY DEF Hung, Ends
-----------------------------------------------------------------------------
(* The server *)

\* What is left of connection n when the server closes it.
Cut(n) == [n EXCEPT !.peer = None, !.req = <<>>]

\* A connection that is closed.
LEMMA CutLeaves ==
    ASSUME NEW n \in Connection
    PROVE  /\ Cut(n) \in Connection /\ Cut(n).peer = None /\ Cut(n).req = <<>>
           /\ Cut(n).ans = n.ans
           /\ Silent(n) => Silent(Cut(n))
           /\ \A l : Exchange(l, n) => Exchange(l, Cut(n))
  <1>1. /\ Cut(n) \in Connection /\ Cut(n).peer = None /\ Cut(n).req = <<>>
        /\ Cut(n).ans = n.ans
    BY DEF Cut, Connection
  <1> QED BY <1>1 DEF Silent, Exchange

\* Every connection stays as it is or is closed; those of clients that are
\* gone are closed.
LEMMA BecomesLeaves ==
    ASSUME NEW n, NEW t \in TablesType, NEW f \in [SID -> Ends], Becomes(n, t, f)
    PROVE  /\ tab' = t /\ sfh' \in [SID -> Ends]
           /\ net' = [c \in Conn |-> net'[c]]
           /\ \A c \in Conn :
                /\ net'[c] = n[c] \/ net'[c] = Cut(n[c])
                /\ n[c].peer \in CID \ LiveClients(t) => net'[c] = Cut(n[c])
  <1>1. /\ tab' = t
        /\ sfh' = [s \in SID |-> IF s \in LiveStreams(t) THEN f[s] ELSE "none"]
        /\ net' = [c \in Conn |->
                      IF n[c].peer \in CID /\ n[c].peer \notin {k \in LiveClients(t) : t.clients[k].fh}
                      THEN Cut(n[c]) ELSE n[c]]
    BY DEF Becomes, Cut
  <1>2. sfh' \in [SID -> Ends]
    BY <1>1 DEF Ends
  <1> QED BY <1>1, <1>2

\* Changes of the tables that no request asked for.
LEMMA BecomesKeeps ==
    ASSUME NEW l, Talking(l, net), NEW t \in TablesType, NEW f \in [SID -> Ends],
           Becomes(net, t, f)
    PROVE  Talking(l, net') /\ tab' = t /\ sfh' \in [SID -> Ends]
  <1>1. /\ tab' = t /\ sfh' \in [SID -> Ends]
        /\ net' = [c \in Conn |-> net'[c]]
        /\ \A c \in Conn : net'[c] = net[c] \/ net'[c] = Cut(net[c])
    BY BecomesLeaves
  <1>2. /\ l \in LibState /\ Placed(l) /\ net \in [Conn -> Connection] /\ Talk(l, net)
    BY DEF Talking
  <1>3. \A c \in Conn : net'[c] \in Connection
    BY <1>1, <1>2, CutLeaves
  <1>4. Talk(l, net')
    BY <1>1, <1>2, CutLeaves DEF Talk
  <1> QED BY <1>1, <1>2, <1>3, <1>4 DEF Talking

\* A request that is answered, when its client is still there.
LEMMA ReplyLeaves ==
    ASSUME Talking(lib, net), NEW c \in Conn, net[c].req # <<>>, net[c].peer \in CID,
           NEW t \in TablesType, NEW f \in [SID -> Ends], NEW cmd, NEW arg,
           [cmd |-> cmd, arg |-> arg] \in Answer, Fits(lib, [cmd |-> cmd, arg |-> arg]),
           Reply(c, t, f, cmd, arg)
    PROVE  Talking(lib, net') /\ tab' = t /\ sfh' \in [SID -> Ends]
  <1> DEFINE a == [cmd |-> cmd, arg |-> arg]
             o == net[c]
             p == [o EXCEPT !.req = Tail(o.req)]
             q == [p EXCEPT !.ans = Append(p.ans, a)]
             m == [net EXCEPT ![c] = p]
             n == IF o.peer \in LiveClients(t) THEN [net EXCEPT ![c] = q] ELSE m
  <1>1. /\ lib \in LibState /\ Placed(lib) /\ net \in [Conn -> Connection] /\ Talk(lib, net)
        /\ o \in Connection
    BY DEF Talking
  <1>2. lib.at \notin Idle /\ c = lib.con /\ o.ans = <<>> /\ Exchange(lib, o)
    <2>1. lib.at \notin Idle /\ c = lib.con
      BY <1>1 DEF Talk, Silent
    <2>2. Exchange(lib, o)
      BY <1>1, <2>1 DEF Talk
    <2> QED BY <2>1, <2>2 DEF Exchange, Silent
  <1>3. Tail(o.req) = <<>>
    BY <1>1, <1>2, OneMessage DEF Exchange, Silent
  <1>4. p \in Connection /\ p.req = <<>> /\ p.ans = <<>> /\ p.peer = o.peer
    <2> HIDE DEF o
    <2> QED BY <1>1, <1>2, <1>3 DEF Connection
  <1>5. q \in Connection /\ q.req = <<>> /\ q.ans = <<a>> /\ q.peer = o.peer
    <2> HIDE DEF p, a
    <2>1. Append(p.ans, a) = <<a>> /\ a \in Answer
      BY <1>4, OneMessage DEF a
    <2> QED BY <1>4, <2>1 DEF Connection
  <1>6. Becomes(n, t, f)
    <2>1. m = [net EXCEPT ![c].req = Tail(@)]
      OBVIOUS
    <2>2. [net EXCEPT ![c] = q] = [m EXCEPT ![c].ans = Append(@, a)]
      <3> HIDE DEF p, a
      <3> QED BY <1>1
    <2> HIDE DEF p, q, a
    <2> QED BY <2>1, <2>2 DEF Reply, a
  <1> HIDE DEF n, m, p, q, a
  <1>7. /\ tab' = t /\ sfh' \in [SID -> Ends]
        /\ net' = [d \in Conn |-> net'[d]]
        /\ \A d \in Conn :
             /\ net'[d] = n[d] \/ net'[d] = Cut(n[d])
             /\ n[d].peer \in CID \ LiveClients(t) => net'[d] = Cut(n[d])
    BY <1>6, BecomesLeaves
  <1>8. \A d \in Conn \ {c} : n[d] = net[d]
    BY <1>1 DEF n, m
  <1>9. net'[c] \in Connection /\ Exchange(lib, net'[c])
    <2>1. CASE o.peer \in LiveClients(t)
      <3>1. n[c] = q
        BY <1>1, <2>1 DEF n
      <3>2. Exchange(lib, q)
        BY <1>5 DEF Exchange, a
      <3> QED BY <1>5, <1>7, <3>1, <3>2, CutLeaves
    <2>2. CASE o.peer \notin LiveClients(t)
      <3>1. n[c] = p
        BY <1>1, <2>2 DEF n, m
      <3>2. net'[c] = Cut(p)
        BY <1>4, <1>7, <2>2, <3>1
      <3> QED BY <1>4, <3>2, CutLeaves DEF Exchange, Silent
    <2> QED BY <2>1, <2>2
  <1>10. \A d \in Conn \ {c} : net'[d] \in Connection /\ Silent(net'[d])
    <2>1. \A d \in Conn \ {c} : Silent(net[d])
      BY <1>1, <1>2 DEF Talk
    <2> QED BY <1>1, <1>7, <1>8, <2>1, CutLeaves
  <1>11. Talk(lib, net') /\ net' \in [Conn -> Connection]
    BY <1>2, <1>7, <1>9, <1>10 DEF Talk
  <1> QED BY <1>1, <1>7, <1>11 DEF Talking

\* What a step of the server keeps.
Served ==
    /\ Talking(lib', net')
    /\ tab' \in TablesType
    /\ acclev' \in [CID -> Levels]
    /\ sfh' \in [SID -> Ends]

\* The request q of client k on connection c is the one that the library
\* waits for.
Serving(c, k, q) ==
    /\ c \in Conn /\ net[c].req # <<>> /\ net[c].peer = k
    /\ k \in LiveClients(tab) /\ k \in CID
    /\ lib.at \notin Idle /\ q \in Request /\ Asks(lib, q) /\ Placed(lib) /\ lib \in LibState

\* An answer that leaves the library and the levels alone.
LEMMA ReplyServed ==
    ASSUME SessionInv, NEW c, NEW k, NEW q, Serving(c, k, q),
           NEW t \in TablesType, NEW f \in [SID -> Ends],
           NEW cmd \in {OK, ERROR}, NEW arg \in SID \cup CID \cup {None},
           lib.at = "new_stream" /\ cmd = OK => arg \in SID,
           lib.at = "whoami" => arg \in CID,
           Reply(c, t, f, cmd, arg), lib' = lib, acclev' \in [CID -> Levels]
    PROVE  Served
  <1>1. [cmd |-> cmd, arg |-> arg] \in Answer /\ Fits(lib, [cmd |-> cmd, arg |-> arg])
    BY DEF Answer, Fits
  <1>2. Talking(lib, net') /\ tab' = t /\ sfh' \in [SID -> Ends]
    BY <1>1, ReplyLeaves DEF SessionInv, Serving
  <1> QED BY <1>2 DEF Served

\* A request that is refused.
LEMMA ErrorServed ==
    ASSUME SessionInv, NEW c, NEW k, NEW q, Serving(c, k, q), q.cmd # "WHOAMI", Error(c)
    PROVE  Served
  <1>1. lib.at # "whoami"
    BY DEF Serving, Asks
  <1>2. ERROR # OK
    BY DEF ERROR, OK
  <1> QED BY <1>1, <1>2, ReplyServed DEF Error, SessionInv

\* A stream whose handle is ours.
LEMMA OursType ==
    ASSUME sfh \in [SID -> Ends], NEW s
    PROVE  [sfh EXCEPT ![s] = "ours"] \in [SID -> Ends]
BY DEF Ends

\* AUTH.
LEMMA AuthServed ==
    ASSUME SessionInv, NEW c, NEW k, NEW q, Serving(c, k, q), q.cmd = "AUTH",
           req_on_auth(c, k, q.arg)
    PROVE  Served
  <1>1. lib.at = "auth"
    BY DEF Serving, Asks
  <1>2. CASE q.arg \notin DOMAIN keys
    BY <1>2, ErrorServed DEF req_on_auth
  <1>3. CASE q.arg \in DOMAIN keys
    <2>1. keys[q.arg] \in Levels
      BY <1>3, SessionAssumption
         DEF SessionInv, Levels, ACCLEV_NONE, ACCLEV_GUEST, ACCLEV_PWRUSER, ACCLEV_ALL
    <2>2. acclev' \in [CID -> Levels]
      BY <1>3, <2>1 DEF req_on_auth, SessionInv
    <2>3. Reply(c, tab, sfh, OK, None) /\ lib' = lib
      BY <1>3 DEF req_on_auth
    <2> QED BY <1>1, <2>2, <2>3, ReplyServed DEF SessionInv
  <1> QED BY <1>2, <1>3

\* NEW_STREAM is answered with the id of the stream.
LEMMA NewStreamServed ==
    ASSUME SessionInv, NEW c, NEW k, NEW q, Serving(c, k, q), q.cmd = "NEW_STREAM",
           req_on_new_stream(c, k)
    PROVE  Served
  <1>1. lib.at = "new_stream"
    BY DEF Serving, Asks
  <1>2. CASE Error(c)
    BY <1>2, ErrorServed
  <1>3. CASE ~ Error(c)
    <2>1. PICK s \in SID :
            /\ FirstOf(FreeSIDs(tab), s)
            /\ Reply(c, streams_set_dir(client_stream_add(streams_new(tab, s), k, s), s, "PLAY"),
                     sfh, OK, s)
            /\ UNCHANGED <<lib, acclev, lost>>
      BY <1>3, Zenon DEF req_on_new_stream
    <2> DEFINE t == streams_set_dir(client_stream_add(streams_new(tab, s), k, s), s, "PLAY")
    <2>2. t \in TablesType
      <3>1. s \in FreeSIDs(tab) /\ tab \in TablesType /\ "PLAY" \in Dir
        BY <2>1 DEF FirstOf, SessionInv, Dir
      <3> QED BY <3>1, MakeType
    <2>3. Reply(c, t, sfh, OK, s) /\ lib' = lib /\ acclev' \in [CID -> Levels]
      BY <2>1 DEF SessionInv
    <2> HIDE DEF t
    <2> QED BY <1>1, <2>2, <2>3, ReplyServed DEF SessionInv
  <1> QED BY <1>2, <1>3

\* The ways in which connecting a stream may end are among those of Tables.
LEMMA OutcomesType == Outcomes \subseteq FhOutcome /\ "plain" \in Codec
BY SessionAssumption DEF FhOutcome, Codec

\* PASSFH.
LEMMA PassfhServed ==
    ASSUME SessionInv, NEW c, NEW k, NEW q, Serving(c, k, q), q.cmd = "PASSFH",
           req_on_passfh(c, k, q.arg)
    PROVE  Served
  <1>1. lib.at = "passfh" /\ q.arg \in SID /\ k \in LiveClients(tab)
    BY DEF Serving, Asks, Placed
  <1> DEFINE s == q.arg
  <1>2. PICK outcome \in Outcomes :
          LET u == client_stream_set_fh(tab, k, s, outcome, "plain") IN
          /\ IF Takes(k, s, outcome) THEN Reply(c, u, [sfh EXCEPT ![s] = "ours"], OK, None)
             ELSE Reply(c, u, sfh, ERROR, None)
          /\ UNCHANGED <<lib, acclev, lost>>
    BY Zenon DEF req_on_passfh
  <1> DEFINE u == client_stream_set_fh(tab, k, s, outcome, "plain")
             f == [sfh EXCEPT ![s] = "ours"]
  <1>3. u \in TablesType
    BY <1>1, OutcomesType, ConnectType DEF SessionInv
  <1>4. f \in [SID -> Ends]
    BY OursType DEF SessionInv
  <1>5. /\ Reply(c, u, f, OK, None) \/ Reply(c, u, sfh, ERROR, None)
        /\ lib' = lib /\ acclev' \in [CID -> Levels]
    BY <1>2 DEF SessionInv
  <1> HIDE DEF u, f
  <1> QED BY <1>1, <1>3, <1>4, <1>5, ReplyServed DEF SessionInv

\* CON_STREAM, with the connection that it makes.
LEMMA ConStreamServed ==
    ASSUME SessionInv, NEW c, NEW k, NEW q, Serving(c, k, q), q.cmd = "CON_STREAM",
           req_on_con_stream(c, k, q.arg)
    PROVE  Served
  <1>1. /\ lib.at \in {"select", "con_stream"} /\ q.arg \in SID /\ k \in LiveClients(tab)
        /\ lib \in LibState
    BY DEF Serving, Asks, Placed
  <1> DEFINE s == q.arg
  <1>2. CASE Error(c)
    BY <1>2, ErrorServed
  <1>3. CASE ~ Error(c)
    <2>1. PICK outcome \in Outcomes :
            Reply(c, client_stream_set_fh(tab, k, s, outcome, "plain"),
                  IF Takes(k, s, outcome) THEN [sfh EXCEPT ![s] = "ours"] ELSE sfh, OK, None)
      BY <1>3, Zenon DEF req_on_con_stream
    <2> DEFINE u == client_stream_set_fh(tab, k, s, outcome, "plain")
               f == IF Takes(k, s, outcome) THEN [sfh EXCEPT ![s] = "ours"] ELSE sfh
    <2>2. u \in TablesType
      BY <1>1, OutcomesType, ConnectType DEF SessionInv
    <2>3. f \in [SID -> Ends]
      BY OursType DEF SessionInv
    <2>4. Reply(c, u, f, OK, None)
      BY <2>1
    <2> HIDE DEF u, f
    <2>5. /\ [cmd |-> OK, arg |-> None] \in Answer
          /\ Fits(lib, [cmd |-> OK, arg |-> None])
      BY <1>1 DEF Answer, Fits
    <2>6. Talking(lib, net') /\ tab' = u /\ sfh' \in [SID -> Ends]
      BY <2>2, <2>3, <2>4, <2>5, ReplyLeaves DEF SessionInv, Serving
    <2>7. lib' = [lib EXCEPT !.backlog = TRUE] /\ acclev' = acclev
      BY <1>3 DEF req_on_con_stream
    <2>8. /\ lib' \in LibState /\ lib'.at = lib.at
          /\ lib'.con = lib.con /\ lib'.id = lib.id /\ lib'.flag = lib.flag
      BY <1>1, <2>7 DEF LibState
    <2>9. Talking(lib', net')
      BY <2>6, <2>8, SamePlace
    <2> QED BY <2>2, <2>6, <2>7, <2>9 DEF Served, SessionInv
  <1> QED BY <1>2, <1>3

\* EXEC_STREAM.
LEMMA ExecServed ==
    ASSUME SessionInv, NEW c, NEW k, NEW q, Serving(c, k, q), q.cmd = "EXEC_STREAM",
           req_on_exec_stream(c, k, q.arg)
    PROVE  Served
  <1>1. lib.at = "exec" /\ q.arg \in SID /\ k \in LiveClients(tab)
    BY DEF Serving, Asks, Placed
  <1> DEFINE s == q.arg
             f == [sfh EXCEPT ![s] = "ours"]
  <1>2. /\ \/ Reply(c, clients_close(tab, k), sfh, OK, None)
           \/ Reply(c, tab, sfh, ERROR, None)
           \/ \E outcome \in Outcomes :
                Reply(c, client_stream_exec(tab, k, s, outcome, "plain"), f, OK, None)
        /\ lib' = lib /\ acclev' = acclev
    BY DEF req_on_exec_stream
  <1>3. /\ tab \in TablesType /\ sfh \in [SID -> Ends] /\ acclev' \in [CID -> Levels]
        /\ f \in [SID -> Ends]
    BY <1>2, OursType DEF SessionInv
  <1> HIDE DEF f
  <1>4. CASE Reply(c, clients_close(tab, k), sfh, OK, None)
    <2>1. clients_close(tab, k) \in TablesType
      <3>1. tab.clients[k] \in Client
        BY <1>1, <1>3 DEF TablesType, LiveClients
      <3> DEFINE r == [tab.clients[k] EXCEPT !.fh = FALSE]
      <3>2. r \in Client
        BY <3>1 DEF Client
      <3>3. clients_close(tab, k) = [tab EXCEPT !.clients[k] = r]
        BY DEF clients_close
      <3> HIDE DEF r
      <3> QED BY <1>1, <1>3, <3>2, <3>3, ClientLeaves, SMTT(60)
    <2> HIDE DEF s
    <2> QED BY <1>1, <1>2, <1>3, <1>4, <2>1, ReplyServed
  <1>5. CASE Reply(c, tab, sfh, ERROR, None)
    BY <1>1, <1>2, <1>3, <1>5, ReplyServed
  <1>6. ASSUME NEW outcome \in Outcomes,
               Reply(c, client_stream_exec(tab, k, s, outcome, "plain"), f, OK, None)
        PROVE  Served
    <2>1. client_stream_exec(tab, k, s, outcome, "plain") \in TablesType
      BY <1>1, <1>3, OutcomesType, ConnectType
    <2> QED BY <1>1, <1>2, <1>3, <1>6, <2>1, ReplyServed
  <1> QED BY <1>2, <1>4, <1>5, <1>6

\* clients_check() and command_exec().
LEMMA ServeKeeps ==
    ASSUME SessionInv, NEW c \in Conn, Serve(c)
    PROVE  Served
  <1> DEFINE k == net[c].peer
             q == Head(net[c].req)
  <1>1. /\ net[c].req # <<>> /\ k \in LiveClients(tab) /\ k \in CID
    BY DEF Serve, LiveClients
  <1>2. Serving(c, k, q)
    <2>1. /\ lib \in LibState /\ Placed(lib) /\ Talk(lib, net)
      BY DEF SessionInv, Talking
    <2>2. lib.at \notin Idle /\ Exchange(lib, net[c])
      BY <1>1, <2>1 DEF Talk, Silent
    <2>3. \E r \in Request : net[c].req = <<r>> /\ Asks(lib, r)
      BY <1>1, <2>2 DEF Exchange, Silent
    <2>4. q \in Request /\ Asks(lib, q)
      BY <2>3, OneMessage
    <2> HIDE DEF q
    <2> QED BY <1>1, <2>1, <2>2, <2>4 DEF Serving
  <1>3. /\ tab \in TablesType /\ sfh \in [SID -> Ends] /\ acclev \in [CID -> Levels]
        /\ acclev[k] \in Levels
    BY <1>1 DEF SessionInv
  <1>4. CASE minacclev(q.cmd) > acclev[k]
    <2>1. Error(c)
      BY <1>4 DEF Serve
    <2>2. minacclev("WHOAMI") = 0
      BY DEF minacclev, ACCLEV_NONE
    <2>3. q.cmd # "WHOAMI"
      <3> SUFFICES ASSUME q.cmd = "WHOAMI" PROVE FALSE
        OBVIOUS
      <3>1. 0 > acclev[k]
        BY <1>4, <2>2
      <3> HIDE DEF k, q
      <3> QED BY <1>3, <3>1 DEF Levels, ACCLEV_NONE, ACCLEV_ALL
    <2> HIDE DEF q
    <2> QED BY <1>2, <2>1, <2>3, ErrorServed
  <1>5. CASE ~ (minacclev(q.cmd) > acclev[k])
    <2>1. CASE q.cmd = "IDENTIFY"
      <3>1. req_on_identify(c, k)
        BY <1>5, <2>1, Zenon DEF Serve
      <3> HIDE DEF k, q
      <3>2. lib.at = "identify" /\ k \in CID
        BY <1>1, <1>2, <2>1 DEF Serving, Asks
      <3>3. ACCLEV_IDENTED \in Levels
        BY DEF Levels, ACCLEV_IDENTED, ACCLEV_NONE, ACCLEV_ALL
      <3>4. /\ Reply(c, tab, sfh, OK, None) /\ lib' = lib
            /\ acclev' = [acclev EXCEPT ![k] = ACCLEV_IDENTED]
        BY <3>1 DEF req_on_identify
      <3>5. acclev' \in [CID -> Levels]
        BY <1>3, <3>3, <3>4
      <3> QED BY <1>2, <1>3, <3>2, <3>4, <3>5, ReplyServed
    <2>2. CASE q.cmd = "AUTH"
      <3>1. req_on_auth(c, k, q.arg)
        BY <1>5, <2>2, Zenon DEF Serve
      <3> HIDE DEF k, q
      <3> QED BY <1>2, <2>2, <3>1, AuthServed
    <2>3. CASE q.cmd = "NEW_STREAM"
      <3>1. req_on_new_stream(c, k)
        BY <1>5, <2>3, Zenon DEF Serve
      <3> HIDE DEF k, q
      <3> QED BY <1>2, <2>3, <3>1, NewStreamServed
    <2>4. CASE q.cmd = "PASSFH"
      <3>1. req_on_passfh(c, k, q.arg)
        BY <1>5, <2>4, Zenon DEF Serve
      <3> HIDE DEF k, q
      <3> QED BY <1>2, <2>4, <3>1, PassfhServed
    <2>5. CASE q.cmd = "CON_STREAM"
      <3>1. req_on_con_stream(c, k, q.arg)
        BY <1>5, <2>5, Zenon DEF Serve
      <3> HIDE DEF k, q
      <3> QED BY <1>2, <2>5, <3>1, ConStreamServed
    <2>6. CASE q.cmd = "EXEC_STREAM"
      <3>1. req_on_exec_stream(c, k, q.arg)
        BY <1>5, <2>6, Zenon DEF Serve
      <3> HIDE DEF k, q
      <3> QED BY <1>2, <2>6, <3>1, ExecServed
    <2>7. CASE q.cmd = "KICK"
      <3>1. req_on_kick(c, q.arg)
        BY <1>5, <2>7, Zenon DEF Serve
      <3> HIDE DEF k, q
      <3>2. lib.at = "kick"
        BY <1>2, <2>7 DEF Serving, Asks
      <3>3. streams_delete(tab, q.arg) \in TablesType
        BY <1>3, DeletersType
      <3>4. Reply(c, streams_delete(tab, q.arg), sfh, OK, None) /\ lib' = lib /\ acclev' = acclev
        BY <3>1 DEF req_on_kick
      <3> QED BY <1>2, <1>3, <3>2, <3>3, <3>4, ReplyServed
    <2>8. CASE q.cmd = "ATTACH"
      <3>1. req_on_attach(c, q.arg.stream, q.arg.client)
        BY <1>5, <2>8, Zenon DEF Serve
      <3> HIDE DEF k, q
      <3>2. lib.at = "attach" /\ q.arg.stream \in SID
        BY <1>2, <2>8 DEF Serving, Asks, Placed
      <3> DEFINE u == client_stream_move(tab, q.arg.client, q.arg.stream)
      <3>3. u \in TablesType
        BY <1>3, <3>2, MoveType
      <3>4. /\ \E cmd \in {OK, ERROR} : Reply(c, u, sfh, cmd, None)
            /\ lib' = lib /\ acclev' = acclev
        BY <3>1 DEF req_on_attach
      <3> HIDE DEF u
      <3> QED BY <1>2, <1>3, <3>2, <3>3, <3>4, ReplyServed
    <2>9. CASE q.cmd = "WHOAMI"
      <3>1. Reply(c, tab, sfh, OK, k) /\ UNCHANGED <<lib, acclev, lost>>
        BY <1>5, <2>9, Zenon DEF Serve
      <3> HIDE DEF k, q
      <3>2. lib.at = "whoami"
        BY <1>2, <2>9 DEF Serving, Asks
      <3> QED BY <1>1, <1>2, <1>3, <3>1, <3>2, ReplyServed
    <2>10. CASE q.cmd = "GET_STREAM_PARA"
      <3>1. Reply(c, tab, sfh, OK, None) /\ UNCHANGED <<lib, acclev, lost>>
        BY <1>5, <2>10, Zenon DEF Serve
      <3> HIDE DEF k, q
      <3>2. lib.at = "info"
        BY <1>2, <2>10 DEF Serving, Asks
      <3> QED BY <1>2, <1>3, <3>1, <3>2, ReplyServed
    <2>11. CASE q.cmd = "QUIT"
      <3>1. Reply(c, clients_delete(tab, k), sfh, ERROR, None) /\ UNCHANGED <<lib, acclev, lost>>
        BY <1>5, <2>11, Zenon DEF Serve
      <3> HIDE DEF k, q
      <3>2. lib.at = "quit"
        BY <1>2, <2>11 DEF Serving, Asks
      <3>3. clients_delete(tab, k) \in TablesType
        BY <1>3, DeletersType
      <3> QED BY <1>2, <1>3, <3>1, <3>2, <3>3, ReplyServed
    <2>12. q.cmd \in {"IDENTIFY", "AUTH", "NEW_STREAM", "PASSFH", "CON_STREAM", "KICK",
                      "EXEC_STREAM", "WHOAMI", "ATTACH", "GET_STREAM_PARA", "QUIT"}
      <3> HIDE DEF q
      <3> QED BY <1>2 DEF Serving, Request
    <2> QED BY <2>1, <2>2, <2>3, <2>4, <2>5, <2>6, <2>7, <2>8, <2>9, <2>10, <2>11, <2>12
  <1> QED BY <1>4, <1>5, SMTT(60)

\* net_check_listen(): a connection that is accepted, or closed again.
LEMMA AcceptKeeps ==
    ASSUME SessionInv, NEW c \in Conn, Accept(c)
    PROVE  Served
  <1>1. /\ Talking(lib, net) /\ tab \in TablesType /\ sfh \in [SID -> Ends]
        /\ acclev \in [CID -> Levels]
        /\ lib \in LibState /\ Placed(lib) /\ net \in [Conn -> Connection] /\ Talk(lib, net)
        /\ net[c] \in Connection
    BY DEF SessionInv, Talking
  <1>2. lib' = lib /\ sfh' = sfh /\ net[c].peer = New
    BY DEF Accept
  <1>3. ASSUME NEW k \in CID, FirstOf(FreeCIDs(tab), k),
               tab' = [clients_new(tab, k) EXCEPT !.clients[k].fh = TRUE],
               net' = [net EXCEPT ![c].peer = k],
               acclev' = [acclev EXCEPT ![k] = ACCLEV_NONE]
        PROVE  Served
    <2> DEFINE m == [net[c] EXCEPT !.peer = k]
    <2>1. m \in Connection /\ m.peer = k /\ m.req = net[c].req /\ m.ans = net[c].ans
      BY <1>1 DEF Connection
    <2>2. net' = [net EXCEPT ![c] = m]
      BY <1>3
    <2>3. k # None /\ New # None
      BY TablesAssumption DEF CID, None, New
    <2> HIDE DEF m
    <2>4. Silent(net[c]) => Silent(m)
      BY <2>1 DEF Silent
    <2>5. Exchange(lib, net[c]) => Exchange(lib, m)
      BY <1>2, <2>1, <2>3 DEF Exchange
    <2>6. Talk(lib, net') /\ net' \in [Conn -> Connection]
      BY <1>1, <2>1, <2>2, <2>4, <2>5 DEF Talk
    <2>7. k \in FreeCIDs(tab)
      BY <1>3 DEF FirstOf
    <2>8. tab' \in TablesType
      BY <1>1, <1>3, <2>7, AcceptLeaves
    <2>9. acclev' \in [CID -> Levels]
      BY <1>1, <1>3 DEF Levels, ACCLEV_NONE, ACCLEV_ALL
    <2> QED BY <1>1, <1>2, <2>6, <2>8, <2>9 DEF Served, Talking
  <1>4. ASSUME net' = [net EXCEPT ![c].peer = None, ![c].req = <<>>], tab' = tab, acclev' = acclev
        PROVE  Served
    <2> DEFINE m == Cut(net[c])
    <2>1. net' = [net EXCEPT ![c] = m]
      BY <1>1, <1>4 DEF Cut
    <2>2. /\ m \in Connection
          /\ Silent(net[c]) => Silent(m)
          /\ Exchange(lib, net[c]) => Exchange(lib, m)
      BY <1>1, CutLeaves
    <2> HIDE DEF m
    <2>3. Talk(lib, net') /\ net' \in [Conn -> Connection]
      BY <1>1, <2>1, <2>2 DEF Talk
    <2> QED BY <1>1, <1>2, <1>4, <2>3 DEF Served, Talking
  <1> QED BY <1>3, <1>4 DEF Accept

\* Streams that end, and what others do.
LEMMA OthersKeep ==
    ASSUME SessionInv, Others \/ \E s \in SID : StreamEnds(s)
    PROVE  Served
  <1>1. /\ Talking(lib, net) /\ tab \in TablesType /\ sfh \in [SID -> Ends]
        /\ acclev \in [CID -> Levels]
    BY DEF SessionInv
  <1>2. ASSUME NEW u \in TablesType, Becomes(net, u, sfh), lib' = lib, acclev' = acclev
        PROVE  Served
    BY <1>1, <1>2, BecomesKeeps DEF Served
  <1>3. CASE \E s \in SID : StreamEnds(s)
    BY <1>1, <1>2, <1>3, DeletersType DEF StreamEnds
  <1>4. CASE OtherStream
    <2>1. PICK s \in SID :
            /\ FirstOf(FreeSIDs(tab), s)
            /\ tab' = LET u == client_stream_add(streams_new(tab, s), Other, s)
                      IN  streams_set_fh(streams_set_dir(u, s, "PLAY"), s, "ready", "plain")
            /\ sfh' = [sfh EXCEPT ![s] = "other"]
      BY <1>4, Zenon DEF OtherStream
    <2> DEFINE t == streams_set_dir(client_stream_add(streams_new(tab, s), Other, s), s, "PLAY")
    <2>2. s \in FreeSIDs(tab) /\ "PLAY" \in Dir /\ "ready" \in FhOutcome /\ "plain" \in Codec
      BY <2>1 DEF FirstOf, Dir, FhOutcome, Codec
    <2>3. t \in TablesType
      BY <1>1, <2>2, MakeType
    <2>4. tab' = streams_set_fh(t, s, "ready", "plain")
      BY <2>1
    <2> HIDE DEF t
    <2>5. tab' \in TablesType
      BY <2>2, <2>3, <2>4, SetFhType
    <2>6. sfh' \in [SID -> Ends]
      BY <1>1, <2>1 DEF Ends
    <2> QED BY <1>1, <1>4, <2>5, <2>6 DEF OtherStream, Served
  <1>5. ASSUME NEW u \in TablesType, OtherKicks(u)
        PROVE  Served
    BY <1>2, <1>5 DEF OtherKicks
  <1> QED BY <1>1, <1>3, <1>4, <1>5, DeletersType DEF Others

\* The first state.
LEMMA SessionInit == Init => SessionInv
  <1> SUFFICES ASSUME Init PROVE SessionInv
    OBVIOUS
  <1>1. Talking(lib, net)
    <2>1. PICK type \in Types : lib = Out(type)
      BY DEF Init
    <2>2. NoConn \in Connection /\ Silent(NoConn)
      BY DEF NoConn, Connection, Silent
    <2>3. Quiet(net)
      BY <2>2 DEF Init, Quiet
    <2> QED BY <2>1, <2>3, OutSane, IdleLeaves DEF Sane
  <1>2. tab \in TablesType
    <2>1. [NewClient EXCEPT !.fh = TRUE] \in Client
      BY DEF NewClient, Client
    <2> QED BY <2>1 DEF Init, TablesType
  <1>3. acclev \in [CID -> Levels]
    BY DEF Init, Levels, ACCLEV_NONE, ACCLEV_ALL
  <1>4. sfh \in [SID -> Ends] /\ keys \in Keyrings
    BY DEF Init, Ends
  <1> QED BY <1>1, <1>2, <1>3, <1>4 DEF SessionInv

\* Every step keeps the invariant.
LEMMA SessionStep == SessionInv /\ [Next]_vars => SessionInv'
  <1> SUFFICES ASSUME SessionInv, [Next]_vars PROVE SessionInv'
    OBVIOUS
  <1>1. /\ Talking(lib, net) /\ tab \in TablesType /\ sfh \in [SID -> Ends]
        /\ acclev \in [CID -> Levels] /\ keys \in Keyrings
    BY DEF SessionInv
  <1>2. ASSUME Talking(lib', net'), sfh' = sfh \/ sfh' = Hung,
               UNCHANGED <<tab, acclev, keys>>
        PROVE  SessionInv'
    BY <1>1, <1>2, HungType DEF SessionInv
  <1>3. ASSUME Served, keys' = keys
        PROVE  SessionInv'
    BY <1>1, <1>3 DEF Served, SessionInv
  <1>4. CASE Library
    <2>1. UNCHANGED <<tab, acclev, keys>>
      BY <1>4 DEF Library, Answered, server
    <2> QED BY <1>1, <1>2, <1>4, <2>1, AnsweredLeaves, SelectLeaves DEF Library
  <1>5. CASE \/ \E type \in Types : roar_vs_new(type)
             \/ roar_vs_stream
             \/ \E killit \in BOOLEAN : roar_vs_close(killit)
    <2>1. UNCHANGED <<tab, acclev, keys>>
      BY <1>5 DEF roar_vs_new, roar_vs_stream, roar_vs_close, server
    <2> QED BY <1>1, <1>2, <1>5, <2>1, CallLeaves
  <1>6. ASSUME NEW c \in Conn, Serve(c) \/ Accept(c)
        PROVE  SessionInv'
    <2>1. keys' = keys
      BY <1>6 DEF Serve, Accept
    <2> QED BY <1>3, <1>6, <2>1, ServeKeeps, AcceptKeeps, SMTT(60)
  <1>7. CASE Others \/ \E s \in SID : StreamEnds(s)
    <2>1. keys' = keys
      BY <1>7 DEF Others, OtherStream, OtherKicks, StreamEnds
    <2> QED BY <1>3, <1>7, <2>1, OthersKeep
  <1>8. CASE UNCHANGED vars
    BY <1>1, <1>8 DEF vars, SessionInv
  <1> QED BY <1>4, <1>5, <1>6, <1>7, <1>8 DEF Next

-----------------------------------------------------------------------------
(* Theorems *)

\* At every moment the one message between the library and the server is the
\* request that the library waits for, or its answer, and a place where it
\* does not wait has none.
THEOREM SessionInvariance == Spec => []SessionInv
  <1> QED BY SessionInit, SessionStep, PTL DEF Spec

\* The library, the connections and the tables of the server have their types:
\* an answer that is read is one that a handler of the server sends.
THEOREM SessionTypesCorrect == Spec => []STypeOK
  <1>1. SessionInv => STypeOK
    <2> SUFFICES ASSUME SessionInv PROVE STypeOK
      OBVIOUS
    <2>1. /\ lib \in LibState /\ net \in [Conn -> Connection] /\ tab \in TablesType
          /\ acclev \in [CID -> Levels] /\ sfh \in [SID -> Ends]
      BY DEF SessionInv, Talking
    <2>2. ASSUME NEW c \in Conn
          PROVE  /\ net[c].open \in BOOLEAN
                 /\ net[c].peer \in CID \cup {None, New}
                 /\ \A i \in DOMAIN net[c].ans : net[c].ans[i].cmd \in {OK, ERROR}
      <3>1. net[c] \in Connection
        BY <2>1
      <3>2. CASE net[c].ans = <<>>
        BY <3>1, <3>2 DEF Connection
      <3>3. ASSUME NEW a \in Answer, net[c].ans = <<a>>
            PROVE  \A i \in DOMAIN net[c].ans : net[c].ans[i].cmd \in {OK, ERROR}
        BY <3>3 DEF Answer
      <3> QED BY <3>1, <3>2, <3>3 DEF Connection
    <2> QED BY <2>1, <2>2 DEF STypeOK, LibState, Levels, Ends
  <1> QED BY <1>1, SessionInvariance, PTL

\* No request and no answer is on the way between two calls of the program,
\* over each way to connect a stream, with a timeout or without, whatever
\* other clients do and whenever the server closes a connection: no call takes
\* the answer to an earlier one for its own.
THEOREM InStepCorrect == Spec => []InStep
  <1>1. SessionInv => InStep
    BY DEF SessionInv, Talking, Talk, Silent, InStep
  <1> QED BY <1>1, SessionInvariance, PTL
-----------------------------------------------------------------------------
(***************************************************************************)
(* The tables of a server whose streams are all played: nothing depends on *)
(* a stream but the client that became it.  Every stream is listed by its  *)
(* client, a client lists streams that are its own, each once, and a       *)
(* client that became a stream lists no other.  The exception is client m, *)
(* which may list ids of X whatever they stand for: ATTACH adds an id that *)
(* no stream has, too.                                                     *)
(***************************************************************************)
Plain(t) ==
    \A s \in LiveStreams(t) :
        t.streams[s].dir = "PLAY" /\ ~ t.streams[s].virtual /\ ~ t.streams[s].primary

Listed(t) ==
    \A s \in LiveStreams(t) :
        t.streams[s].client \in LiveClients(t) /\ s \in SlotSet(t, t.streams[s].client)

Owns(t, c, s) == s \in LiveStreams(t) /\ t.streams[s].client = c

SlotsOwn(t, m, X) ==
    \A c \in LiveClients(t), k \in Slot :
        t.clients[c].streams[k] # None =>
            /\ Owns(t, c, t.clients[c].streams[k]) \/ (c = m /\ t.clients[c].streams[k] \in X)
            /\ \A j \in Slot : t.clients[c].streams[j] = t.clients[c].streams[k] => j = k

ExecedAlone(t, m) ==
    \A c \in LiveClients(t) :
        t.clients[c].execed # None =>
            c # m /\ c # Other /\ SlotSet(t, c) = {t.clients[c].execed}

Owned(t, m, X) ==
    /\ t \in TablesType
    /\ Plain(t) /\ Listed(t) /\ SlotsOwn(t, m, X) /\ ExecedAlone(t, m)
    /\ Other \in LiveClients(t)

\* What is left of t in u without the streams of D and the clients of L.
Trimmed(t, u, D, L) ==
    /\ LiveStreams(u) = LiveStreams(t) \ D
    /\ LiveClients(u) = LiveClients(t) \ L
    /\ \A s \in LiveStreams(u) :
        /\ u.streams[s].client = t.streams[s].client
        /\ u.streams[s].ready = t.streams[s].ready
    /\ \A c \in LiveClients(u) :
        /\ u.clients[c].fh = t.clients[c].fh
        /\ u.clients[c].execed = t.clients[c].execed
        /\ SlotSet(u, c) = SlotSet(t, c) \ {s \in D : t.streams[s].client = c}

\* The clients that go with the streams of D.
Become(t, D) == {c \in LiveClients(t) : t.clients[c].execed \in D}

\* The types of what the tables hold.
LEMMA EntryTypes ==
    ASSUME NEW t \in TablesType
    PROVE  /\ \A c \in LiveClients(t) :
                /\ c \in CID /\ t.clients[c] \in Client
                /\ t.clients[c].streams \in [Slot -> SID \cup {None}]
                /\ t.clients[c].execed \in SID \cup {None}
                /\ t.clients[c].fh \in BOOLEAN
                /\ SlotSet(t, c) \subseteq SID
           /\ \A s \in LiveStreams(t) : s \in SID /\ t.streams[s] \in Stream
  <1>1. \A c \in LiveClients(t) : c \in CID /\ t.clients[c] \in Client
    BY DEF TablesType, LiveClients
  <1>2. \A s \in LiveStreams(t) : s \in SID /\ t.streams[s] \in Stream
    BY DEF TablesType, LiveStreams
  <1>3. \A c \in LiveClients(t) :
          /\ t.clients[c].streams \in [Slot -> SID \cup {None}]
          /\ t.clients[c].execed \in SID \cup {None}
          /\ t.clients[c].fh \in BOOLEAN
    BY <1>1 DEF Client
  <1>4. \A c \in LiveClients(t) : SlotSet(t, c) \subseteq SID
    BY <1>3 DEF SlotSet
  <1> QED BY <1>1, <1>2, <1>3, <1>4

\* A deletion takes the streams it was asked for and no others.
LEMMA PlainDoomed ==
    ASSUME NEW t, NEW m, NEW X, Owned(t, m, X), NEW R
    PROVE  /\ Doomed(t, R) = R \cap LiveStreams(t)
           /\ {c \in CID : \E s \in R \cap LiveStreams(t) : ExecedBy(t, s, c)}
                = Become(t, R \cap LiveStreams(t))
  <1> DEFINE D == R \cap LiveStreams(t)
  <1>1. t \in TablesType /\ Plain(t) /\ Listed(t) /\ SlotsOwn(t, m, X) /\ ExecedAlone(t, m)
    BY DEF Owned
  <1>2. ASSUME NEW s \in D, NEW i \in LiveStreams(t) \ D, Triggers(t, s, i)
        PROVE  FALSE
    <2>1. ~ Dependent(t, i, s) /\ ~ TakesParent(t, s, i)
      BY <1>1 DEF Plain, Dependent, TakesParent
    <2>2. PICK c \in CID : ExecedBy(t, s, c) /\ i \in SlotSet(t, c)
      BY <1>2, <2>1 DEF Triggers
    <2>3. c \in LiveClients(t) /\ t.clients[c].execed = s /\ s # None
      BY <1>1, <2>2, EntryTypes, NoneIsNoStream DEF ExecedBy
    <2>4. SlotSet(t, c) = {s}
      BY <1>1, <2>3 DEF ExecedAlone
    <2> QED BY <1>2, <2>2, <2>4
  <1>3. Closed(t, D)
    BY <1>2 DEF Closed
  <1>4. Doomed(t, R) \subseteq D
    <2>1. D \in {E \in SUBSET LiveStreams(t) : R \cap LiveStreams(t) \subseteq E /\ Closed(t, E)}
      BY <1>3
    <2> QED BY <2>1 DEF Doomed
  <1>5. D \subseteq Doomed(t, R)
    BY DoomedClosed
  <1>6. ASSUME NEW c \in Become(t, D)
        PROVE  c \in CID /\ \E s \in D : ExecedBy(t, s, c)
    <2>1. c \in LiveClients(t) /\ t.clients[c].execed \in D
      BY DEF Become
    <2> DEFINE s == t.clients[c].execed
    <2>2. s # None /\ c \in CID
      BY <1>1, <2>1, EntryTypes, NoneIsNoStream
    <2>3. SlotSet(t, c) = {s} /\ c # m
      BY <1>1, <2>1, <2>2 DEF ExecedAlone
    <2>4. t.streams[s].client = c
      <3>1. PICK k \in Slot : t.clients[c].streams[k] = s
        BY <2>3 DEF SlotSet
      <3> QED BY <1>1, <2>1, <2>2, <2>3, <3>1 DEF SlotsOwn, Owns
    <2> QED BY <2>1, <2>2, <2>3, <2>4 DEF ExecedBy
  <1>7. ASSUME NEW c \in CID, NEW s \in D, ExecedBy(t, s, c)
        PROVE  c \in Become(t, D)
    BY <1>7 DEF ExecedBy, Become
  <1> QED BY <1>4, <1>5, <1>6, <1>7

\* A deletion that takes all streams of the clients it was asked for.
LEMMA OwnedDelete ==
    ASSUME NEW t, NEW m, NEW X, Owned(t, m, X), NEW R,
           NEW K \in SUBSET LiveClients(t), Other \notin K,
           \A c \in K : SlotSet(t, c) \subseteq R
    PROVE  LET u == Delete(t, R, K)
               D == R \cap LiveStreams(t)
           IN  Owned(u, m, X) /\ Trimmed(t, u, D, K \cup Become(t, D))
  <1> DEFINE D == R \cap LiveStreams(t)
             L == K \cup Become(t, D)
             u == Delete(t, R, K)
  <1>1. t \in TablesType /\ Plain(t) /\ Listed(t) /\ SlotsOwn(t, m, X) /\ ExecedAlone(t, m)
        /\ Other \in LiveClients(t)
    BY DEF Owned
  <1>2. u = Remove(t, D, L)
    <2>1. /\ Doomed(t, R) = D
          /\ {c \in CID : \E s \in D : ExecedBy(t, s, c)} = Become(t, D)
      BY PlainDoomed
    <2>2. ~ \E s \in D : t.streams[s].primary
      BY <1>1 DEF Plain
    <2> HIDE DEF D
    <2> QED BY <2>1, <2>2 DEF Delete
  <1>3. L \subseteq LiveClients(t) /\ D \subseteq LiveStreams(t) /\ D \subseteq SID /\ L \subseteq CID
    BY <1>1, EntryTypes DEF Become
  <1> HIDE DEF u
  <1>4. Without(t, D, L, u)
    BY <1>1, <1>2, <1>3, RemoveLeaves
  <1>5. u \in TablesType
    BY <1>1, <1>2, <1>3, RemoveType
  <1>6. ASSUME NEW c \in LiveClients(u)
        PROVE  /\ c \in LiveClients(t) /\ c \notin L
               /\ u.clients[c].fh = t.clients[c].fh
               /\ u.clients[c].execed = t.clients[c].execed
               /\ \A k \in Slot : u.clients[c].streams[k] =
                      IF t.clients[c].streams[k] \in D /\ t.streams[t.clients[c].streams[k]].client = c
                      THEN None ELSE t.clients[c].streams[k]
    <2>1. c \in LiveClients(t) /\ c \notin L /\ u.clients[c] = [t.clients[c] EXCEPT !.streams = FreedSlots(t, c, D)]
      BY <1>4 DEF Without
    <2>2. t.clients[c] \in Client
      BY <1>1, <2>1, EntryTypes
    <2>3. /\ u.clients[c].fh = t.clients[c].fh
          /\ u.clients[c].execed = t.clients[c].execed
          /\ u.clients[c].streams = FreedSlots(t, c, D)
      BY <2>1, <2>2, SMTT(60) DEF Client
    <2>4. ASSUME NEW k \in Slot
          PROVE  FreedSlots(t, c, D)[k] =
                      IF t.clients[c].streams[k] \in D /\ t.streams[t.clients[c].streams[k]].client = c
                      THEN None ELSE t.clients[c].streams[k]
      <3> DEFINE e == t.clients[c].streams[k]
      <3>1. CASE e \in D /\ t.streams[e].client = c
        <4>1. e # None
          BY <1>3, <3>1, NoneIsNoStream
        <4>2. \A j \in Slot : j < k => t.clients[c].streams[j] # e
          <5>1. \A j \in Slot : t.clients[c].streams[j] = e => j = k
            BY <1>1, <2>1, <4>1 DEF SlotsOwn
          <5>2. \A j \in Slot : j < k => j # k
            BY DEF Slot
          <5> QED BY <5>1, <5>2
        <4>3. \E s \in D : /\ t.streams[s].client = c
                           /\ t.clients[c].streams[k] = s
                           /\ \A j \in Slot : j < k => t.clients[c].streams[j] # s
          BY <3>1, <4>2, SMTT(60)
        <4> QED BY <3>1, <4>3 DEF FreedSlots
      <3>2. CASE ~ (e \in D /\ t.streams[e].client = c)
        BY <3>2 DEF FreedSlots
      <3> QED BY <3>1, <3>2
    <2> QED BY <2>1, <2>3, <2>4
  <1>7. ASSUME NEW c \in LiveClients(u)
        PROVE  SlotSet(u, c) = SlotSet(t, c) \ {s \in D : t.streams[s].client = c}
    BY <1>6 DEF SlotSet
  <1>8. Trimmed(t, u, D, L)
    BY <1>4, <1>6, <1>7 DEF Trimmed, Without
  <1>9. Plain(u)
    BY <1>1, <1>4 DEF Plain, Without
  <1>10. Listed(u)
    <2> SUFFICES ASSUME NEW s \in LiveStreams(u)
                 PROVE  u.streams[s].client \in LiveClients(u) /\ s \in SlotSet(u, u.streams[s].client)
      BY DEF Listed
    <2> DEFINE c == t.streams[s].client
    <2>1. s \in LiveStreams(t) /\ s \notin D /\ u.streams[s].client = c /\ LiveClients(u) = LiveClients(t) \ L
      BY <1>4 DEF Without
    <2>2. c \in LiveClients(t) /\ s \in SlotSet(t, c)
      BY <1>1, <2>1 DEF Listed
    <2>3. c \notin K
      BY <2>1, <2>2
    <2>4. c \notin Become(t, D)
      <3> SUFFICES ASSUME t.clients[c].execed \in D PROVE FALSE
        BY DEF Become
      <3>1. t.clients[c].execed # None
        BY <1>3, NoneIsNoStream
      <3> QED BY <1>1, <2>1, <2>2, <3>1 DEF ExecedAlone
    <2>5. c \in LiveClients(u)
      BY <2>1, <2>2, <2>3, <2>4, SMTT(60)
    <2> QED BY <1>7, <2>1, <2>2, <2>5
  <1>11. SlotsOwn(u, m, X)
    <2> SUFFICES ASSUME NEW c \in LiveClients(u), NEW k \in Slot, u.clients[c].streams[k] # None
                 PROVE  /\ Owns(u, c, u.clients[c].streams[k]) \/ (c = m /\ u.clients[c].streams[k] \in X)
                        /\ \A j \in Slot : u.clients[c].streams[j] = u.clients[c].streams[k] => j = k
      BY DEF SlotsOwn
    <2> DEFINE e == t.clients[c].streams[k]
    <2>1. u.clients[c].streams[k] = e /\ ~ (e \in D /\ t.streams[e].client = c) /\ c \in LiveClients(t)
      BY <1>6
    <2>2. /\ Owns(t, c, e) \/ (c = m /\ e \in X)
          /\ \A j \in Slot : t.clients[c].streams[j] = e => j = k
      BY <1>1, <2>1 DEF SlotsOwn
    <2>3. Owns(t, c, e) => Owns(u, c, e)
      BY <1>4, <2>1, SMTT(60) DEF Owns, Without
    <2>4. \A j \in Slot : u.clients[c].streams[j] = e => t.clients[c].streams[j] = e
      BY <1>6, <2>1
    <2> QED BY <2>1, <2>2, <2>3, <2>4
  <1>12. ExecedAlone(u, m)
    <2> SUFFICES ASSUME NEW c \in LiveClients(u), u.clients[c].execed # None
                 PROVE  c # m /\ c # Other /\ SlotSet(u, c) = {u.clients[c].execed}
      BY DEF ExecedAlone
    <2>1. c \in LiveClients(t) /\ c \notin L /\ u.clients[c].execed = t.clients[c].execed
      BY <1>6
    <2>2. c # m /\ c # Other /\ SlotSet(t, c) = {t.clients[c].execed}
      BY <1>1, <2>1 DEF ExecedAlone
    <2>3. t.clients[c].execed \notin D
      BY <2>1 DEF Become
    <2> QED BY <1>7, <2>1, <2>2, <2>3
  <1>13. Other \in LiveClients(u)
    <2>1. Other \notin Become(t, D)
      <3>1. t.clients[Other].execed = None
        BY <1>1 DEF ExecedAlone
      <3> QED BY <1>3, <3>1, NoneIsNoStream DEF Become
    <2> QED BY <1>1, <1>4, <2>1 DEF Without
  <1> QED BY <1>5, <1>8, <1>9, <1>10, <1>11, <1>12, <1>13 DEF Owned, u

\* streams_delete() and clients_delete().
LEMMA OwnedDeleters ==
    ASSUME NEW t, NEW m, NEW X, Owned(t, m, X)
    PROVE  /\ \A s \in LiveStreams(t) :
                 LET u == streams_delete(t, s) IN
                 Owned(u, m, X) /\ Trimmed(t, u, {s}, Become(t, {s}))
           /\ \A c \in LiveClients(t) \ {Other} :
                 LET u == clients_delete(t, c)
                     D == SlotSet(t, c) \cap LiveStreams(t)
                 IN  Owned(u, m, X) /\ Trimmed(t, u, D, {c} \cup Become(t, D))
  <1>1. ASSUME NEW s \in LiveStreams(t)
        PROVE  LET u == streams_delete(t, s) IN
               Owned(u, m, X) /\ Trimmed(t, u, {s}, Become(t, {s}))
    <2>1. {s} \cap LiveStreams(t) = {s} /\ {} \cup Become(t, {s}) = Become(t, {s})
      OBVIOUS
    <2>2. streams_delete(t, s) = Delete(t, {s}, {})
      BY DEF streams_delete
    <2>3. LET u == Delete(t, {s}, {})
              D == {s} \cap LiveStreams(t)
          IN  Owned(u, m, X) /\ Trimmed(t, u, D, {} \cup Become(t, D))
      BY OwnedDelete
    <2> QED BY <2>1, <2>2, <2>3
  <1>2. ASSUME NEW c \in LiveClients(t) \ {Other}
        PROVE  LET u == clients_delete(t, c)
                   D == SlotSet(t, c) \cap LiveStreams(t)
               IN  Owned(u, m, X) /\ Trimmed(t, u, D, {c} \cup Become(t, D))
    <2>1. clients_delete(t, c) = Delete(t, SlotSet(t, c), {c})
      BY DEF clients_delete
    <2>2. LET u == Delete(t, SlotSet(t, c), {c})
              D == SlotSet(t, c) \cap LiveStreams(t)
          IN  Owned(u, m, X) /\ Trimmed(t, u, D, {c} \cup Become(t, D))
      BY OwnedDelete
    <2> QED BY <2>1, <2>2
  <1> QED BY <1>1, <1>2

\* Who may list what, when only m or X changes.
LEMMA OwnedBy ==
    ASSUME NEW t, NEW m, NEW X, Owned(t, m, X), NEW n, NEW Y,
           \/ n = m /\ X \subseteq Y
           \/ n \notin LiveClients(t) /\ m \notin LiveClients(t)
           \/ n = m /\ SlotSet(t, m) = {}
    PROVE  Owned(t, n, Y)
  <1>1. t \in TablesType /\ Plain(t) /\ Listed(t) /\ SlotsOwn(t, m, X) /\ ExecedAlone(t, m)
        /\ Other \in LiveClients(t)
    BY DEF Owned
  <1>2. ExecedAlone(t, n)
    BY <1>1 DEF ExecedAlone
  <1>3. SlotsOwn(t, n, Y)
    <2> SUFFICES ASSUME NEW c \in LiveClients(t), NEW k \in Slot, t.clients[c].streams[k] # None
                 PROVE  /\ Owns(t, c, t.clients[c].streams[k]) \/ (c = n /\ t.clients[c].streams[k] \in Y)
                        /\ \A j \in Slot : t.clients[c].streams[j] = t.clients[c].streams[k] => j = k
      BY DEF SlotsOwn
    <2>1. /\ Owns(t, c, t.clients[c].streams[k]) \/ (c = m /\ t.clients[c].streams[k] \in X)
          /\ \A j \in Slot : t.clients[c].streams[j] = t.clients[c].streams[k] => j = k
      BY <1>1 DEF SlotsOwn
    <2>2. t.clients[c].streams[k] \in SlotSet(t, c)
      BY DEF SlotSet
    <2> QED BY <2>1, <2>2
  <1> QED BY <1>1, <1>2, <1>3 DEF Owned

\* u is t with another entry of stream s.
Patched(t, u, s) ==
    /\ u \in TablesType
    /\ LiveStreams(u) = LiveStreams(t) /\ LiveClients(u) = LiveClients(t)
    /\ u.clients = t.clients
    /\ \A i \in LiveStreams(t) :
        /\ u.streams[i].client = t.streams[i].client
        /\ u.streams[i].dir = t.streams[i].dir
        /\ u.streams[i].virtual = t.streams[i].virtual
        /\ u.streams[i].primary = t.streams[i].primary
        /\ i # s => u.streams[i].ready = t.streams[i].ready

\* It has the same owners.
LEMMA OwnedPatched ==
    ASSUME NEW t, NEW m, NEW X, Owned(t, m, X), NEW u, NEW s, Patched(t, u, s)
    PROVE  Owned(u, m, X) /\ \A c : SlotSet(u, c) = SlotSet(t, c)
  <1>1. t \in TablesType /\ Plain(t) /\ Listed(t) /\ SlotsOwn(t, m, X) /\ ExecedAlone(t, m)
        /\ Other \in LiveClients(t)
    BY DEF Owned
  <1>2. \A c : SlotSet(u, c) = SlotSet(t, c)
    BY DEF SlotSet, Patched
  <1>3. \A c, e : Owns(t, c, e) => Owns(u, c, e)
    BY DEF Owns, Patched
  <1>4. Plain(u) /\ Listed(u) /\ ExecedAlone(u, m)
    BY <1>1, <1>2 DEF Plain, Listed, ExecedAlone, Patched
  <1>5. SlotsOwn(u, m, X)
    BY <1>1, <1>3 DEF SlotsOwn, Patched
  <1> QED BY <1>1, <1>2, <1>4, <1>5 DEF Owned, Patched

\* A stream is connected: ready, deleted for want of a codec, or as it was
\* because it is not there or ready already.
LEMMA OwnedSetFh ==
    ASSUME NEW t, NEW m, NEW X, Owned(t, m, X), NEW s \in SID, NEW outcome \in {"codec", "ready"}
    PROVE  LET u == streams_set_fh(t, s, outcome, "plain") IN
           /\ Owned(u, m, X)
           /\ \/ u = t /\ (s \in LiveStreams(t) => t.streams[s].ready)
              \/ /\ s \in LiveStreams(t) /\ ~ t.streams[s].ready
                 /\ \/ /\ outcome = "ready" /\ Patched(t, u, s) /\ u.streams[s].ready
                       /\ \A c : SlotSet(u, c) = SlotSet(t, c)
                    \/ outcome = "codec" /\ Trimmed(t, u, {s}, Become(t, {s}))
  <1> DEFINE u == streams_set_fh(t, s, outcome, "plain")
  <1>1. outcome \in FhOutcome /\ "plain" \in Codec /\ t \in TablesType
        /\ outcome \in {"codec", "ready"}
    BY DEF Owned, FhOutcome, Codec
  <1>2. \/ u = t /\ (s \in LiveStreams(t) => t.streams[s].ready)
        \/ /\ s \in LiveStreams(t) /\ ~ t.streams[s].ready
           /\ \E r \in Stream :
                /\ r.client = t.streams[s].client
                /\ r.dir = t.streams[s].dir
                /\ r.primary = t.streams[s].primary
                /\ r.virtual = t.streams[s].virtual
                /\ \/ u = streams_delete(Put(t, s, r), s) /\ outcome = "codec"
                   \/ u = Put(t, s, r) /\ r.ready = (outcome # "nonblock")
    <2>1. \/ u = t /\ (s \in LiveStreams(t) => t.streams[s].ready)
          \/ /\ s \in LiveStreams(t) /\ ~ t.streams[s].ready
             /\ \E r \in Stream :
                  /\ r.client = t.streams[s].client
                  /\ r.dir = t.streams[s].dir
                  /\ r.pos_rel_id = t.streams[s].pos_rel_id
                  /\ r.primary = t.streams[s].primary
                  /\ r.virtual = t.streams[s].virtual
                  /\ r.immutable = t.streams[s].immutable
                  /\ r.fh
                  /\ \/ u = streams_delete(Put(t, s, r), s) /\ outcome = "codec"
                     \/ u = Put(t, s, r) /\ r.ready = (outcome # "nonblock")
      BY <1>1, SetFhLeaves
    <2> HIDE DEF u
    <2> QED BY <2>1
  <1> HIDE DEF u
  <1>3. CASE u = t /\ (s \in LiveStreams(t) => t.streams[s].ready)
    BY <1>3 DEF u
  <1>4. ASSUME s \in LiveStreams(t), ~ t.streams[s].ready, NEW r \in Stream,
               r.client = t.streams[s].client, r.dir = t.streams[s].dir,
               r.primary = t.streams[s].primary, r.virtual = t.streams[s].virtual,
               \/ u = streams_delete(Put(t, s, r), s) /\ outcome = "codec"
               \/ u = Put(t, s, r) /\ r.ready = (outcome # "nonblock")
        PROVE  /\ Owned(u, m, X)
               /\ \/ /\ outcome = "ready" /\ Patched(t, u, s) /\ u.streams[s].ready
                     /\ \A c : SlotSet(u, c) = SlotSet(t, c)
                  \/ outcome = "codec" /\ Trimmed(t, u, {s}, Become(t, {s}))
    <2> DEFINE v == Put(t, s, r)
    <2>1. /\ v \in TablesType
          /\ LiveStreams(v) = LiveStreams(t) /\ LiveClients(v) = LiveClients(t)
          /\ v.streams[s] = r
          /\ \A i \in SID \ {s} : v.streams[i] = t.streams[i]
          /\ v.clients = t.clients
      BY <1>1, <1>4, PutLeaves
    <2> HIDE DEF v
    <2>2. Patched(t, v, s)
      BY <1>1, <1>4, <2>1, EntryTypes DEF Patched
    <2>3. Owned(v, m, X) /\ \A c : SlotSet(v, c) = SlotSet(t, c)
      BY <2>2, OwnedPatched
    <2>4. CASE u = v /\ r.ready = (outcome # "nonblock") /\ outcome = "ready"
      BY <2>1, <2>2, <2>3, <2>4
    <2>5. CASE u = v /\ r.ready = (outcome # "nonblock") /\ outcome = "codec"
      <3>1. FALSE
        <4>1. t.streams[s].dir = "PLAY"
          BY <1>4 DEF Owned, Plain
        <4>2. u = streams_delete([t EXCEPT !.streams[s].fh = TRUE], s)
          BY <1>4, <2>5, <4>1 DEF u, streams_set_fh
        <4>3. [t EXCEPT !.streams[s].fh = TRUE] = Put(t, s, [t.streams[s] EXCEPT !.fh = TRUE])
          BY DEF Put
        <4>4. [t.streams[s] EXCEPT !.fh = TRUE] \in Stream
          BY <1>1, <1>4, EntryTypes, ZenonT(60) DEF Stream
        <4>5. s \notin LiveStreams(u)
          BY <1>1, <1>4, <4>2, <4>3, <4>4, PutLeaves, DeletedGone
        <4> QED BY <1>4, <2>1, <2>5, <4>5
      <3> QED BY <3>1
    <2>6. CASE u = streams_delete(v, s) /\ outcome = "codec"
      <3>1. Owned(u, m, X) /\ Trimmed(v, u, {s}, Become(v, {s}))
        BY <1>4, <2>1, <2>3, <2>6, OwnedDeleters
      <3>2. Become(v, {s}) = Become(t, {s})
        BY <2>1 DEF Become
      <3>3. /\ v.streams[s].client = t.streams[s].client
            /\ \A c : {i \in {s} : v.streams[i].client = c} = {i \in {s} : t.streams[i].client = c}
        BY <1>4, <2>1
      <3>4. /\ LiveStreams(u) = LiveStreams(t) \ {s}
            /\ LiveClients(u) = LiveClients(t) \ Become(t, {s})
            /\ \A i \in LiveStreams(u) :
                /\ u.streams[i].client = t.streams[i].client
                /\ u.streams[i].ready = t.streams[i].ready
        BY <2>1, <2>2, <3>1, <3>2 DEF Trimmed, Patched
      <3>5. \A c \in LiveClients(u) :
                /\ u.clients[c].fh = t.clients[c].fh
                /\ u.clients[c].execed = t.clients[c].execed
                /\ SlotSet(u, c) = SlotSet(t, c) \ {i \in {s} : t.streams[i].client = c}
        BY <2>1, <2>3, <3>1, <3>3 DEF Trimmed
      <3>6. Trimmed(t, u, {s}, Become(t, {s}))
        BY <3>4, <3>5 DEF Trimmed
      <3> QED BY <2>6, <3>1, <3>6
    <2> QED BY <1>1, <1>4, <2>4, <2>5, <2>6 DEF v
  <1> QED BY <1>2, <1>3, <1>4 DEF u

\* u is t with a new stream s of client c.
Grown(t, u, c, s) ==
    /\ LiveStreams(u) = LiveStreams(t) \cup {s}
    /\ LiveClients(u) = LiveClients(t)
    /\ u.streams[s].client = c /\ ~ u.streams[s].ready
    /\ \A i \in LiveStreams(t) :
        /\ u.streams[i].client = t.streams[i].client
        /\ u.streams[i].ready = t.streams[i].ready
    /\ \A d \in LiveClients(t) :
        /\ u.clients[d].fh = t.clients[d].fh
        /\ u.clients[d].execed = t.clients[d].execed
        /\ SlotSet(u, d) = SlotSet(t, d) \cup (IF d = c THEN {s} ELSE {})

\* The slots of a client with an id in a slot that was free.
LEMMA SlotTaken ==
    ASSUME NEW t \in TablesType, NEW u, NEW c \in LiveClients(t), NEW k \in Slot, NEW s \in SID,
           t.clients[c].streams[k] = None,
           u.clients[c] = [t.clients[c] EXCEPT !.streams[k] = s]
    PROVE  /\ u.clients[c].fh = t.clients[c].fh
           /\ u.clients[c].execed = t.clients[c].execed
           /\ SlotSet(u, c) = SlotSet(t, c) \cup {s}
           /\ \A j \in Slot : u.clients[c].streams[j] = IF j = k THEN s ELSE t.clients[c].streams[j]
  <1>1. t.clients[c] \in Client /\ t.clients[c].streams \in [Slot -> SID \cup {None}]
    BY EntryTypes
  <1>2. /\ u.clients[c].fh = t.clients[c].fh
        /\ u.clients[c].execed = t.clients[c].execed
        /\ u.clients[c].streams = [t.clients[c].streams EXCEPT ![k] = s]
    BY <1>1 DEF Client
  <1>3. \A j \in Slot : u.clients[c].streams[j] = IF j = k THEN s ELSE t.clients[c].streams[j]
    BY <1>1, <1>2
  <1>4. s # None
    BY NoneIsNoStream
  <1>5. SlotSet(u, c) = SlotSet(t, c) \cup {s}
    BY <1>3, <1>4 DEF SlotSet
  <1> QED BY <1>2, <1>3, <1>5

\* NEW_STREAM of a client that does not list the id already.
LEMMA OwnedNew ==
    ASSUME NEW t, NEW m, NEW X, Owned(t, m, X), NEW s \in FreeSIDs(t), NEW c, CanAdd(t, c),
           t.clients[c].execed = None, s \notin SlotSet(t, c)
    PROVE  LET u == streams_set_dir(client_stream_add(streams_new(t, s), c, s), s, "PLAY")
           IN  Owned(u, m, X) /\ Grown(t, u, c, s)
  <1> DEFINE v == streams_new(t, s)
             w == client_stream_add(v, c, s)
             u == streams_set_dir(w, s, "PLAY")
  <1>1. t \in TablesType /\ Plain(t) /\ Listed(t) /\ SlotsOwn(t, m, X) /\ ExecedAlone(t, m)
        /\ Other \in LiveClients(t)
    BY DEF Owned
  <1>2. c \in LiveClients(t) /\ s \in SID /\ s \notin LiveStreams(t)
    BY DEF CanAdd, FreeSIDs
  <1>3. /\ v \in TablesType
        /\ LiveStreams(v) = LiveStreams(t) \cup {s}
        /\ LiveClients(v) = LiveClients(t)
        /\ v.streams[s] = NewStream
        /\ \A i \in SID \ {s} : v.streams[i] = t.streams[i]
        /\ v.clients = t.clients
    BY <1>1, NewStreamLeaves
  <1>4. CanAdd(v, c)
    BY <1>3 DEF CanAdd, FreeSlots
  <1> HIDE DEF v
  <1>5. PICK k \in Slot : Added(v, c, s, k, w)
    BY <1>2, <1>3, <1>4, AddLeaves
  <1> HIDE DEF w
  <1>6. /\ t.clients[c].streams[k] = None
        /\ w \in TablesType
        /\ LiveStreams(w) = LiveStreams(t) \cup {s}
        /\ LiveClients(w) = LiveClients(t)
        /\ w.clients[c] = [t.clients[c] EXCEPT !.streams[k] = s]
        /\ \A d \in CID \ {c} : w.clients[d] = t.clients[d]
        /\ w.streams[s] = [NewStream EXCEPT !.client = c]
        /\ \A i \in SID \ {s} : w.streams[i] = t.streams[i]
    BY <1>2, <1>3, <1>5 DEF Added
  <1>7. /\ u \in TablesType
        /\ LiveStreams(u) = LiveStreams(t) \cup {s}
        /\ LiveClients(u) = LiveClients(t)
        /\ u.streams[s] = [w.streams[s] EXCEPT !.dir = "PLAY"]
        /\ \A i \in SID \ {s} : u.streams[i] = t.streams[i]
        /\ u.clients = w.clients
    <2>1. "PLAY" \in Dir /\ s \in LiveStreams(w) /\ w \in TablesType
      BY <1>6 DEF Dir
    <2>2. Directed(w, s, "PLAY", u)
      BY <2>1, SetDirDirects
    <2> HIDE DEF u
    <2> QED BY <1>6, <2>2 DEF Directed
  <1> HIDE DEF u
  <1>8. /\ u.streams[s].client = c /\ ~ u.streams[s].ready /\ u.streams[s].dir = "PLAY"
        /\ ~ u.streams[s].virtual /\ ~ u.streams[s].primary
    BY <1>6, <1>7 DEF NewStream
  <1>9. \A i \in LiveStreams(t) : i # s /\ u.streams[i] = t.streams[i]
    BY <1>1, <1>2, <1>7, EntryTypes
  <1>10. /\ u.clients[c].fh = t.clients[c].fh
         /\ u.clients[c].execed = t.clients[c].execed
         /\ SlotSet(u, c) = SlotSet(t, c) \cup {s}
         /\ \A j \in Slot : u.clients[c].streams[j] = IF j = k THEN s ELSE t.clients[c].streams[j]
    BY <1>1, <1>2, <1>6, <1>7, SlotTaken, SMTT(60)
  <1>11. \A d \in LiveClients(t) : d # c => u.clients[d] = t.clients[d] /\ SlotSet(u, d) = SlotSet(t, d)
    BY <1>1, <1>6, <1>7, EntryTypes DEF SlotSet
  <1>12. Grown(t, u, c, s)
    BY <1>7, <1>8, <1>9, <1>10, <1>11 DEF Grown
  <1>13. Plain(u)
    BY <1>1, <1>7, <1>8, <1>9 DEF Plain
  <1>14. Listed(u)
    <2> SUFFICES ASSUME NEW i \in LiveStreams(u)
                 PROVE  u.streams[i].client \in LiveClients(u) /\ i \in SlotSet(u, u.streams[i].client)
      BY DEF Listed
    <2>1. CASE i = s
      BY <1>2, <1>7, <1>8, <1>10, <2>1
    <2>2. CASE i # s
      <3>1. i \in LiveStreams(t) /\ u.streams[i] = t.streams[i]
        BY <1>7, <1>9, <2>2
      <3>2. t.streams[i].client \in LiveClients(t) /\ i \in SlotSet(t, t.streams[i].client)
        BY <1>1, <3>1 DEF Listed
      <3> QED BY <1>7, <1>10, <1>11, <3>1, <3>2
    <2> QED BY <2>1, <2>2
  <1>15. ExecedAlone(u, m)
    <2> SUFFICES ASSUME NEW d \in LiveClients(u), u.clients[d].execed # None
                 PROVE  d # m /\ d # Other /\ SlotSet(u, d) = {u.clients[d].execed}
      BY DEF ExecedAlone
    <2>1. d \in LiveClients(t) /\ d # c
      BY <1>7, <1>10
    <2> QED BY <1>1, <1>11, <2>1 DEF ExecedAlone
  <1>16. SlotsOwn(u, m, X)
    <2> SUFFICES ASSUME NEW d \in LiveClients(u), NEW j \in Slot, u.clients[d].streams[j] # None
                 PROVE  /\ Owns(u, d, u.clients[d].streams[j]) \/ (d = m /\ u.clients[d].streams[j] \in X)
                        /\ \A i \in Slot : u.clients[d].streams[i] = u.clients[d].streams[j] => i = j
      BY DEF SlotsOwn
    <2>1. d \in LiveClients(t)
      BY <1>7
    <2>2. \A e : Owns(t, d, e) => Owns(u, d, e)
      BY <1>7, <1>9 DEF Owns
    <2>3. CASE d # c
      <3>1. u.clients[d] = t.clients[d]
        BY <1>11, <2>1, <2>3
      <3> QED BY <1>1, <2>1, <2>2, <3>1 DEF SlotsOwn
    <2>4. CASE d = c /\ j = k
      <3>1. u.clients[d].streams[j] = s /\ Owns(u, d, s)
        BY <1>7, <1>8, <1>10, <2>4 DEF Owns
      <3>2. \A i \in Slot : t.clients[c].streams[i] # s
        BY <1>2, NoneIsNoStream DEF SlotSet
      <3> QED BY <1>10, <2>4, <3>1, <3>2
    <2>5. CASE d = c /\ j # k
      <3>1. u.clients[d].streams[j] = t.clients[c].streams[j] /\ t.clients[c].streams[j] # None
        BY <1>10, <2>5
      <3>2. t.clients[c].streams[j] # s
        BY <3>1 DEF SlotSet
      <3>3. /\ Owns(t, d, t.clients[c].streams[j]) \/ (d = m /\ t.clients[c].streams[j] \in X)
            /\ \A i \in Slot : t.clients[c].streams[i] = t.clients[c].streams[j] => i = j
        BY <1>1, <2>1, <2>5, <3>1 DEF SlotsOwn
      <3> QED BY <1>10, <2>2, <2>5, <3>1, <3>2, <3>3
    <2> QED BY <2>3, <2>4, <2>5
  <1> QED BY <1>1, <1>7, <1>12, <1>13, <1>14, <1>15, <1>16 DEF Owned, u, w, v

\* A client whose entry changes and whose slots do not.
LEMMA OwnedClient ==
    ASSUME NEW t, NEW m, NEW X, Owned(t, m, X), NEW c \in LiveClients(t), NEW r \in Client,
           r.streams = t.clients[c].streams,
           r.execed # None => c # m /\ c # Other /\ SlotSet(t, c) = {r.execed}
    PROVE  LET u == [t EXCEPT !.clients[c] = r] IN
           /\ Owned(u, m, X)
           /\ u.streams = t.streams
           /\ LiveStreams(u) = LiveStreams(t) /\ LiveClients(u) = LiveClients(t)
           /\ u.clients[c] = r
           /\ \A d \in LiveClients(t) : d # c => u.clients[d] = t.clients[d]
           /\ \A d \in LiveClients(t) : SlotSet(u, d) = SlotSet(t, d)
  <1> DEFINE u == [t EXCEPT !.clients[c] = r]
  <1>1. t \in TablesType /\ Plain(t) /\ Listed(t) /\ SlotsOwn(t, m, X) /\ ExecedAlone(t, m)
        /\ Other \in LiveClients(t)
    BY DEF Owned
  <1>2. /\ u \in TablesType
        /\ u.streams = t.streams
        /\ LiveStreams(u) = LiveStreams(t)
        /\ LiveClients(u) = LiveClients(t)
        /\ u.clients[c] = r
        /\ \A d \in CID \ {c} : u.clients[d] = t.clients[d]
    BY <1>1, ClientLeaves
  <1> HIDE DEF u
  <1>3. \A d \in LiveClients(t) : d # c => u.clients[d] = t.clients[d]
    BY <1>1, <1>2, EntryTypes
  <1>4. \A d \in LiveClients(t) : u.clients[d].streams = t.clients[d].streams
    BY <1>2, <1>3
  <1>5. \A d \in LiveClients(t) : SlotSet(u, d) = SlotSet(t, d)
    BY <1>4 DEF SlotSet
  <1>6. Plain(u) /\ Listed(u)
    BY <1>1, <1>2, <1>5 DEF Plain, Listed
  <1>7. \A d, e : Owns(u, d, e) <=> Owns(t, d, e)
    BY <1>2 DEF Owns
  <1>8. SlotsOwn(u, m, X)
    BY <1>1, <1>2, <1>4, <1>7 DEF SlotsOwn
  <1>9. ExecedAlone(u, m)
    BY <1>1, <1>2, <1>3, <1>5 DEF ExecedAlone
  <1>10. Owned(u, m, X)
    BY <1>1, <1>2, <1>6, <1>8, <1>9 DEF Owned
  <1> QED BY <1>2, <1>3, <1>5, <1>10 DEF u

\* clients_close() leaves a client without its connection.
LEMMA OwnedClosed ==
    ASSUME NEW t, NEW m, NEW X, Owned(t, m, X), NEW c \in LiveClients(t),
           NEW u, u = clients_close(t, c)
    PROVE  /\ Owned(u, m, X)
           /\ u.streams = t.streams
           /\ LiveStreams(u) = LiveStreams(t) /\ LiveClients(u) = LiveClients(t)
           /\ ~ u.clients[c].fh /\ u.clients[c].execed = t.clients[c].execed
           /\ \A d \in LiveClients(t) : d # c => u.clients[d] = t.clients[d]
           /\ \A d \in LiveClients(t) : SlotSet(u, d) = SlotSet(t, d)
  <1>1. t \in TablesType /\ ExecedAlone(t, m) /\ t.clients[c] \in Client
    BY EntryTypes DEF Owned
  <1> DEFINE r == [t.clients[c] EXCEPT !.fh = FALSE]
             v == [t EXCEPT !.clients[c] = r]
  <1>2. /\ r \in Client /\ r.streams = t.clients[c].streams
        /\ r.execed = t.clients[c].execed /\ ~ r.fh
    BY <1>1 DEF Client
  <1>3. u = v
    BY DEF clients_close
  <1>4. r.execed # None => c # m /\ c # Other /\ SlotSet(t, c) = {r.execed}
    BY <1>1, <1>2 DEF ExecedAlone
  <1> HIDE DEF r
  <1>5. /\ Owned(v, m, X)
        /\ v.streams = t.streams
        /\ LiveStreams(v) = LiveStreams(t) /\ LiveClients(v) = LiveClients(t)
        /\ v.clients[c] = r
        /\ \A d \in LiveClients(t) : d # c => v.clients[d] = t.clients[d]
        /\ \A d \in LiveClients(t) : SlotSet(v, d) = SlotSet(t, d)
    BY <1>2, <1>4, OwnedClient
  <1> HIDE DEF v
  <1> QED BY <1>2, <1>3, <1>5

\* A client that EXEC turns into its only stream.
Execed(t, c, s) == [t EXCEPT !.clients[c].execed = s]

\* The stream is the client's own, and the only one.
LEMMA OwnedExeced ==
    ASSUME NEW t, NEW m, NEW X, Owned(t, m, X), NEW c \in LiveClients(t), NEW s \in SID,
           c # m, c # Other, SlotSet(t, c) = {s},
           NEW u, u = Execed(t, c, s)
    PROVE  /\ Owned(u, m, X)
           /\ u.streams = t.streams
           /\ LiveStreams(u) = LiveStreams(t) /\ LiveClients(u) = LiveClients(t)
           /\ u.clients[c].fh = t.clients[c].fh /\ u.clients[c].execed = s
           /\ \A d \in LiveClients(t) : d # c => u.clients[d] = t.clients[d]
           /\ \A d \in LiveClients(t) : SlotSet(u, d) = SlotSet(t, d)
  <1>1. t \in TablesType /\ t.clients[c] \in Client
    BY EntryTypes DEF Owned
  <1> DEFINE r == [t.clients[c] EXCEPT !.execed = s]
             v == [t EXCEPT !.clients[c] = r]
  <1>2. /\ r \in Client /\ r.streams = t.clients[c].streams
        /\ r.execed = s /\ r.fh = t.clients[c].fh
    BY <1>1 DEF Client
  <1>3. u = v
    BY DEF Execed
  <1> HIDE DEF r
  <1>4. /\ Owned(v, m, X)
        /\ v.streams = t.streams
        /\ LiveStreams(v) = LiveStreams(t) /\ LiveClients(v) = LiveClients(t)
        /\ v.clients[c] = r
        /\ \A d \in LiveClients(t) : d # c => v.clients[d] = t.clients[d]
        /\ \A d \in LiveClients(t) : SlotSet(v, d) = SlotSet(t, d)
    BY <1>2, OwnedClient
  <1> HIDE DEF v
  <1> QED BY <1>2, <1>3, <1>4

\* The tables with a client that was accepted.
Admitted(t, c) == [clients_new(t, c) EXCEPT !.clients[c].fh = TRUE]

\* It owns nothing.
LEMMA OwnedAccept ==
    ASSUME NEW t, NEW m, NEW X, Owned(t, m, X), NEW c \in FreeCIDs(t), m \notin LiveClients(t) \/ m # c,
           NEW n, n = m \/ (n = c /\ m \notin LiveClients(t))
    PROVE  LET u == Admitted(t, c) IN
           /\ Owned(u, n, X)
           /\ u.streams = t.streams
           /\ LiveStreams(u) = LiveStreams(t) /\ LiveClients(u) = LiveClients(t) \cup {c}
           /\ u.clients[c].fh /\ u.clients[c].execed = None /\ SlotSet(u, c) = {}
           /\ \A d \in LiveClients(t) : u.clients[d] = t.clients[d] /\ SlotSet(u, d) = SlotSet(t, d)
  <1> DEFINE u == Admitted(t, c)
             r == [NewClient EXCEPT !.fh = TRUE]
  <1>1. t \in TablesType /\ Plain(t) /\ Listed(t) /\ SlotsOwn(t, m, X) /\ ExecedAlone(t, m)
        /\ Other \in LiveClients(t)
    BY DEF Owned
  <1>2. /\ u \in TablesType
        /\ u.streams = t.streams
        /\ u.clients = [t.clients EXCEPT ![c] = r]
        /\ LiveStreams(u) = LiveStreams(t)
        /\ LiveClients(u) = LiveClients(t) \cup {c}
    BY <1>1, AcceptLeaves DEF Admitted
  <1>3. r.fh /\ r.execed = None /\ \A k \in Slot : r.streams[k] = None
    BY DEF NewClient
  <1> HIDE DEF u, r
  <1>4. c \in CID /\ c \notin LiveClients(t)
    BY DEF FreeCIDs
  <1>5. u.clients[c] = r /\ \A d \in LiveClients(t) : d # c /\ u.clients[d] = t.clients[d]
    BY <1>1, <1>2, <1>4, EntryTypes DEF TablesType
  <1>6. SlotSet(u, c) = {} /\ \A d \in LiveClients(t) : SlotSet(u, d) = SlotSet(t, d)
    BY <1>3, <1>5 DEF SlotSet
  <1>7. Plain(u) /\ Listed(u)
    BY <1>1, <1>2, <1>6 DEF Plain, Listed
  <1>8. ExecedAlone(u, n)
    BY <1>1, <1>2, <1>3, <1>5, <1>6 DEF ExecedAlone
  <1>9. \A d, e : Owns(u, d, e) <=> Owns(t, d, e)
    BY <1>2 DEF Owns
  <1>10. SlotsOwn(u, n, X)
    BY <1>1, <1>2, <1>3, <1>5, <1>9 DEF SlotsOwn
  <1>11. Owned(u, n, X)
    BY <1>1, <1>2, <1>7, <1>8, <1>10 DEF Owned
  <1> QED BY <1>2, <1>3, <1>5, <1>6, <1>11 DEF u

\* u is t with the id s in a slot of client m and of no other; a client that
\* had become the stream is gone.
Moved(t, u, m, s) ==
    /\ LiveStreams(u) = LiveStreams(t)
    /\ LiveClients(u) = LiveClients(t) \ Become(t, {s})
    /\ m \in LiveClients(u) /\ SlotSet(u, m) = {s}
    /\ s \in LiveStreams(t) => u.streams[s].client = m
    /\ \A i \in LiveStreams(t) :
        /\ u.streams[i].ready = t.streams[i].ready
        /\ i # s => u.streams[i].client = t.streams[i].client
    /\ \A d \in LiveClients(u) :
        /\ u.clients[d].fh = t.clients[d].fh
        /\ u.clients[d].execed = t.clients[d].execed
        /\ d # m => SlotSet(u, d) = SlotSet(t, d) \ {s}

\* Nobody but m lists an id that no stream has.
LEMMA OthersListLive ==
    ASSUME NEW t, NEW m, NEW X, Owned(t, m, X), NEW d \in LiveClients(t), d # m,
           NEW s \in SlotSet(t, d)
    PROVE  Owns(t, d, s)
  <1>1. PICK k \in Slot : t.clients[d].streams[k] = s
    BY DEF SlotSet
  <1>2. s # None
    BY DEF SlotSet
  <1> QED BY <1>1, <1>2 DEF Owned, SlotsOwn

\* w is t without the id s in any slot, and without a client that had become
\* the stream.
Freed(t, w, s) ==
    /\ w \in TablesType
    /\ Slot # {}
    /\ LiveStreams(w) = LiveStreams(t)
    /\ LiveClients(w) = LiveClients(t) \ Become(t, {s})
    /\ \A i \in LiveStreams(t) :
        /\ w.streams[i].client = t.streams[i].client
        /\ w.streams[i].ready = t.streams[i].ready
        /\ w.streams[i].dir = t.streams[i].dir
        /\ w.streams[i].virtual = t.streams[i].virtual
        /\ w.streams[i].primary = t.streams[i].primary
    /\ \A d \in LiveClients(w) :
        /\ w.clients[d].fh = t.clients[d].fh
        /\ w.clients[d].execed = t.clients[d].execed
        /\ \A k \in Slot : w.clients[d].streams[k] =
              IF t.clients[d].streams[k] = s THEN None ELSE t.clients[d].streams[k]

\* The part of ATTACH that takes a stream from its client.
LEMMA Released ==
    ASSUME NEW t, NEW m, NEW X, Owned(t, m, X), m \in LiveClients(t), SlotSet(t, m) = {},
           NEW s \in LiveStreams(t)
    PROVE  LET o == t.streams[s].client
               u == client_stream_delete(t, o, s)
           IN  o # m /\ Lists(t, o, s) /\ Freed(t, u, s)
  <1> DEFINE o == t.streams[s].client
             u == client_stream_delete(t, o, s)
             k == CHOOSE j \in Slot : FirstOf({i \in Slot : t.clients[o].streams[i] = s}, j)
             r == [t.clients[o] EXCEPT !.streams[k] = None]
             v == [t EXCEPT !.clients[o] = r]
  <1>1. t \in TablesType /\ Plain(t) /\ Listed(t) /\ SlotsOwn(t, m, X) /\ ExecedAlone(t, m)
        /\ Other \in LiveClients(t)
    BY DEF Owned
  <1>2. o \in LiveClients(t) /\ s \in SlotSet(t, o) /\ o # m /\ s \in SID /\ s # None
    BY <1>1, EntryTypes, NoneIsNoStream DEF Listed
  <1>3. Lists(t, o, s)
    BY <1>2 DEF Lists
  <1>4. PICK h \in Slot : t.clients[o].streams[h] = s
    BY <1>2 DEF SlotSet
  <1>5. \A j \in Slot : t.clients[o].streams[j] = s <=> j = h
    BY <1>1, <1>2, <1>4, SMTT(60) DEF SlotsOwn
  <1>6. k = h
    <2>1. {i \in Slot : t.clients[o].streams[i] = s} = {h}
      BY <1>5
    <2>2. \A j \in Slot : FirstOf({h}, j) <=> j = h
      BY DEF FirstOf, Slot
    <2> QED BY <2>1, <2>2
  <1> HIDE DEF k
  <1>7. t.clients[o] \in Client /\ t.clients[o].streams \in [Slot -> SID \cup {None}]
    BY <1>1, <1>2, EntryTypes, SMTT(60)
  <1>8. /\ r \in Client /\ r.fh = t.clients[o].fh /\ r.execed = t.clients[o].execed
        /\ r.streams = [t.clients[o].streams EXCEPT ![h] = None]
    BY <1>6, <1>7 DEF Client
  <1>10. [t EXCEPT !.clients[o].streams[k] = None] = v
    OBVIOUS
  <1> HIDE DEF r
  <1>9. \A j \in Slot : r.streams[j] = IF t.clients[o].streams[j] = s THEN None ELSE t.clients[o].streams[j]
    <2>1. \A j \in Slot : r.streams[j] = IF j = h THEN None ELSE t.clients[o].streams[j]
      BY <1>4, <1>7, <1>8, SMTT(60)
    <2> QED BY <1>5, <2>1, SMTT(60)
  <1>11. /\ v \in TablesType
         /\ v.streams = t.streams /\ v.alive = t.alive
         /\ LiveStreams(v) = LiveStreams(t)
         /\ LiveClients(v) = LiveClients(t)
         /\ v.clients[o] = r
         /\ \A d \in CID \ {o} : v.clients[d] = t.clients[d]
    BY <1>1, <1>2, <1>8, ClientLeaves, SMTT(60)
  <1>12. u = IF t.clients[o].execed = s THEN clients_delete(v, o) ELSE v
    <2>1. u = IF t.clients[o].execed = s
              THEN clients_delete([t EXCEPT !.clients[o].streams[k] = None], o)
              ELSE [t EXCEPT !.clients[o].streams[k] = None]
      BY <1>3 DEF client_stream_delete, k
    <2> QED BY <1>10, <2>1, SMTT(60)
  <1>13. \A d \in LiveClients(t) :
           /\ v.clients[d].fh = t.clients[d].fh
           /\ v.clients[d].execed = t.clients[d].execed
           /\ \A j \in Slot : v.clients[d].streams[j] =
                 IF t.clients[d].streams[j] = s THEN None ELSE t.clients[d].streams[j]
    <2> SUFFICES ASSUME NEW d \in LiveClients(t)
                 PROVE  /\ v.clients[d].fh = t.clients[d].fh
                        /\ v.clients[d].execed = t.clients[d].execed
                        /\ \A j \in Slot : v.clients[d].streams[j] =
                              IF t.clients[d].streams[j] = s THEN None ELSE t.clients[d].streams[j]
      OBVIOUS
    <2>1. CASE d = o
      <3>1. v.clients[d] = r
        BY <1>11, <2>1
      <3> HIDE DEF v, o
      <3>2. v.clients[d].fh = t.clients[d].fh /\ v.clients[d].execed = t.clients[d].execed
        BY <1>8, <2>1, <3>1
      <3>3. \A j \in Slot : v.clients[d].streams[j] =
                IF t.clients[d].streams[j] = s THEN None ELSE t.clients[d].streams[j]
        BY <1>9, <2>1, <3>1
      <3> QED BY <3>2, <3>3
    <2>2. CASE d # o
      <3>1. v.clients[d] = t.clients[d]
        BY <1>1, <1>11, <2>2, EntryTypes
      <3>2. s \notin SlotSet(t, d)
        <4>1. CASE d = m
          BY <4>1
        <4>2. CASE d # m
          BY <2>2, <4>2, OthersListLive DEF Owns
        <4> QED BY <4>1, <4>2
      <3>3. \A j \in Slot : t.clients[d].streams[j] # s
        BY <1>2, <3>2 DEF SlotSet
      <3> QED BY <3>1, <3>3
    <2> QED BY <2>1, <2>2
  <1> HIDE DEF v
  <1>14. CASE t.clients[o].execed = s
    <2>1. u = Delete(v, SlotSet(v, o), {o})
      BY <1>2, <1>11, <1>12, <1>14 DEF clients_delete
    <2>2. SlotSet(v, o) = {}
      <3>1. SlotSet(t, o) = {s}
        BY <1>1, <1>2, <1>14 DEF ExecedAlone
      <3>2. \A j \in Slot : t.clients[o].streams[j] = s \/ t.clients[o].streams[j] = None
        BY <3>1 DEF SlotSet
      <3>3. \A j \in Slot : v.clients[o].streams[j] = None
        BY <1>2, <1>13, <3>2
      <3> QED BY <3>3 DEF SlotSet
    <2>3. Doomed(v, {}) = {}
      <3>1. Closed(v, {})
        BY DEF Closed
      <3>2. {} \in {E \in SUBSET LiveStreams(v) : {} \cap LiveStreams(v) \subseteq E /\ Closed(v, E)}
        BY <3>1
      <3> QED BY <3>2 DEF Doomed
    <2>4. u = Remove(v, {}, {o})
      <3>1. {o} \cup {c \in CID : \E i \in {} : ExecedBy(v, i, c)} = {o}
        OBVIOUS
      <3> QED BY <2>1, <2>2, <2>3, <3>1 DEF Delete
    <2>5. Without(v, {}, {o}, u)
      BY <1>2, <1>11, <2>4, RemoveLeaves
    <2>6. u \in TablesType
      BY <1>2, <1>11, <2>4, EntryTypes, RemoveType
    <2>7. Become(t, {s}) = {o}
      <3>1. ASSUME NEW c \in Become(t, {s}) PROVE c = o
        <4>1. c \in LiveClients(t) /\ t.clients[c].execed = s
          BY DEF Become
        <4>2. c # m /\ s \in SlotSet(t, c)
          BY <1>1, <1>2, <4>1 DEF ExecedAlone
        <4> QED BY <4>1, <4>2, OthersListLive DEF Owns
      <3>2. o \in Become(t, {s})
        BY <1>2, <1>14 DEF Become
      <3> QED BY <3>1, <3>2
    <2>8. ASSUME NEW d \in LiveClients(u)
          PROVE  /\ d \in LiveClients(t)
                 /\ u.clients[d].fh = v.clients[d].fh
                 /\ u.clients[d].execed = v.clients[d].execed
                 /\ \A j \in Slot : u.clients[d].streams[j] = v.clients[d].streams[j]
      <3>1. d \in LiveClients(v) /\ u.clients[d] = [v.clients[d] EXCEPT !.streams = FreedSlots(v, d, {})]
        BY <2>5 DEF Without
      <3>2. v.clients[d] \in Client
        BY <1>11, <3>1, EntryTypes
      <3>3. \A j \in Slot : FreedSlots(v, d, {})[j] = v.clients[d].streams[j]
        BY SMTT(60) DEF FreedSlots
      <3> QED BY <1>11, <3>1, <3>2, <3>3, SMTT(60) DEF Client
    <2>9. /\ LiveStreams(u) = LiveStreams(t)
          /\ LiveClients(u) = LiveClients(t) \ {o}
          /\ \A i \in LiveStreams(t) :
               /\ u.streams[i].client = t.streams[i].client
               /\ u.streams[i].ready = t.streams[i].ready
               /\ u.streams[i].dir = t.streams[i].dir
               /\ u.streams[i].virtual = t.streams[i].virtual
               /\ u.streams[i].primary = t.streams[i].primary
      BY <1>11, <2>5 DEF Without
    <2> HIDE DEF u
    <2>10. \A d \in LiveClients(u) :
             /\ u.clients[d].fh = t.clients[d].fh
             /\ u.clients[d].execed = t.clients[d].execed
             /\ \A j \in Slot : u.clients[d].streams[j] =
                   IF t.clients[d].streams[j] = s THEN None ELSE t.clients[d].streams[j]
      BY <1>13, <2>8
    <2>11. o # m /\ Lists(t, o, s) /\ Slot # {}
      BY <1>2, <1>3, <1>4
    <2>12. Freed(t, u, s)
      BY <2>6, <2>7, <2>9, <2>10, <2>11, Zenon DEF Freed
    <2> QED BY <2>11, <2>12 DEF u
  <1>15. CASE t.clients[o].execed # s
    <2>1. Become(t, {s}) = {}
      <3> SUFFICES ASSUME NEW c \in Become(t, {s}) PROVE FALSE
        OBVIOUS
      <3>1. c \in LiveClients(t) /\ t.clients[c].execed = s
        BY DEF Become
      <3>2. c # m /\ s \in SlotSet(t, c)
        BY <1>1, <1>2, <3>1 DEF ExecedAlone
      <3> QED BY <1>15, <3>1, <3>2, OthersListLive DEF Owns
    <2>2. u = v
      BY <1>12, <1>15
    <2>3. u.streams = t.streams /\ u.clients = v.clients /\ u \in TablesType
          /\ LiveStreams(u) = LiveStreams(t) /\ LiveClients(u) = LiveClients(t) \ Become(t, {s})
      BY <1>11, <2>1, <2>2
    <2> HIDE DEF u
    <2>4. \A d \in LiveClients(u) :
            /\ u.clients[d].fh = t.clients[d].fh
            /\ u.clients[d].execed = t.clients[d].execed
            /\ \A j \in Slot : u.clients[d].streams[j] =
                  IF t.clients[d].streams[j] = s THEN None ELSE t.clients[d].streams[j]
      BY <1>13, <2>3
    <2>5. o # m /\ Lists(t, o, s) /\ Slot # {}
      BY <1>2, <1>3, <1>4
    <2>6. \A i \in LiveStreams(t) :
            /\ u.streams[i].client = t.streams[i].client
            /\ u.streams[i].ready = t.streams[i].ready
            /\ u.streams[i].dir = t.streams[i].dir
            /\ u.streams[i].virtual = t.streams[i].virtual
            /\ u.streams[i].primary = t.streams[i].primary
      BY <2>3
    <2>7. u \in TablesType /\ LiveStreams(u) = LiveStreams(t) /\ LiveClients(u) = LiveClients(t) \ Become(t, {s})
      BY <2>3
    <2>8. Freed(t, u, s)
      BY <2>4, <2>5, <2>6, <2>7, Zenon DEF Freed
    <2> QED BY <2>5, <2>8 DEF u
  <1> QED BY <1>14, <1>15

\* The part of ATTACH that adds the stream to its new client.
LEMMA OwnedAdded ==
    ASSUME NEW t, NEW m, NEW X, Owned(t, m, X), m \in LiveClients(t), m # Other,
           SlotSet(t, m) = {}, NEW s \in SID, NEW w, Freed(t, w, s)
    PROVE  LET u == client_stream_add(w, m, s) IN Owned(u, m, {s}) /\ Moved(t, u, m, s)
  <1> DEFINE u == client_stream_add(w, m, s)
  <1>1. t \in TablesType /\ Plain(t) /\ Listed(t) /\ SlotsOwn(t, m, X) /\ ExecedAlone(t, m)
        /\ Other \in LiveClients(t)
    BY DEF Owned
  <1>2. /\ w \in TablesType /\ Slot # {}
        /\ LiveStreams(w) = LiveStreams(t)
        /\ LiveClients(w) = LiveClients(t) \ Become(t, {s})
    BY DEF Freed
  <1>3. \A i \in LiveStreams(t) :
          /\ w.streams[i].client = t.streams[i].client
          /\ w.streams[i].ready = t.streams[i].ready
          /\ w.streams[i].dir = t.streams[i].dir
          /\ w.streams[i].virtual = t.streams[i].virtual
          /\ w.streams[i].primary = t.streams[i].primary
    BY DEF Freed
  <1>4. \A d \in LiveClients(w) :
          /\ w.clients[d].fh = t.clients[d].fh
          /\ w.clients[d].execed = t.clients[d].execed
          /\ \A k \in Slot : w.clients[d].streams[k] =
                IF t.clients[d].streams[k] = s THEN None ELSE t.clients[d].streams[k]
    BY DEF Freed
  <1>5. s # None /\ None \notin SID
    BY NoneIsNoStream
  <1>6. t.clients[m].execed = None /\ t.clients[Other].execed = None
    BY <1>1 DEF ExecedAlone
  <1>7. m \in LiveClients(w) /\ Other \in LiveClients(w)
    BY <1>1, <1>2, <1>5, <1>6 DEF Become
  <1>8. \A k \in Slot : t.clients[m].streams[k] = None /\ w.clients[m].streams[k] = None
    BY <1>4, <1>5, <1>7 DEF SlotSet
  <1>9. SlotSet(w, m) = {} /\ \A d \in LiveClients(w) : SlotSet(w, d) = SlotSet(t, d) \ {s}
    BY <1>4, <1>5, <1>8 DEF SlotSet
  <1>10. CanAdd(w, m)
    BY <1>2, <1>7, <1>8 DEF CanAdd, FreeSlots
  <1>11. PICK k \in Slot : Added(w, m, s, k, u)
    BY <1>2, <1>10, AddLeaves
  <1> HIDE DEF u
  <1>12. /\ u \in TablesType
         /\ LiveStreams(u) = LiveStreams(t)
         /\ LiveClients(u) = LiveClients(w)
         /\ u.clients[m] = [w.clients[m] EXCEPT !.streams[k] = s]
         /\ \A d \in CID \ {m} : u.clients[d] = w.clients[d]
         /\ s \in LiveStreams(t) => u.streams[s] = [w.streams[s] EXCEPT !.client = m]
         /\ \A i \in SID \ {s} : u.streams[i] = w.streams[i]
    BY <1>2, <1>11 DEF Added
  <1>13. /\ u.clients[m].fh = w.clients[m].fh
         /\ u.clients[m].execed = w.clients[m].execed
         /\ SlotSet(u, m) = {s}
         /\ \A j \in Slot : u.clients[m].streams[j] = IF j = k THEN s ELSE w.clients[m].streams[j]
    <2>1. w \in TablesType /\ m \in LiveClients(w) /\ w.clients[m].streams[k] = None
          /\ u.clients[m] = [w.clients[m] EXCEPT !.streams[k] = s]
      BY <1>2, <1>7, <1>8, <1>11, <1>12
    <2>2. /\ u.clients[m].fh = w.clients[m].fh
          /\ u.clients[m].execed = w.clients[m].execed
          /\ SlotSet(u, m) = SlotSet(w, m) \cup {s}
          /\ \A j \in Slot : u.clients[m].streams[j] = IF j = k THEN s ELSE w.clients[m].streams[j]
      <3>1. w.clients[m] \in Client /\ w.clients[m].streams \in [Slot -> SID \cup {None}]
        BY <2>1, EntryTypes
      <3>2. /\ u.clients[m].fh = w.clients[m].fh
            /\ u.clients[m].execed = w.clients[m].execed
            /\ u.clients[m].streams = [w.clients[m].streams EXCEPT ![k] = s]
        BY <2>1, <3>1 DEF Client
      <3>3. \A j \in Slot : u.clients[m].streams[j] = IF j = k THEN s ELSE w.clients[m].streams[j]
        BY <3>1, <3>2
      <3>4. SlotSet(u, m) = SlotSet(w, m) \cup {s}
        BY <1>5, <2>1, <3>3 DEF SlotSet
      <3> QED BY <3>2, <3>3, <3>4
    <2> QED BY <1>9, <2>2
  <1>14. \A d \in LiveClients(w) \ {m} : u.clients[d] = w.clients[d] /\ SlotSet(u, d) = SlotSet(w, d)
    BY <1>2, <1>12, EntryTypes DEF SlotSet
  <1>15. \A i \in LiveStreams(t) \ {s} : u.streams[i] = w.streams[i]
    BY <1>1, <1>12, EntryTypes
  <1>16. s \in LiveStreams(t) =>
           /\ u.streams[s].client = m
           /\ u.streams[s].ready = w.streams[s].ready
           /\ u.streams[s].dir = w.streams[s].dir
           /\ u.streams[s].virtual = w.streams[s].virtual
           /\ u.streams[s].primary = w.streams[s].primary
    <2> SUFFICES ASSUME s \in LiveStreams(t)
                 PROVE  /\ u.streams[s].client = m
                        /\ u.streams[s].ready = w.streams[s].ready
                        /\ u.streams[s].dir = w.streams[s].dir
                        /\ u.streams[s].virtual = w.streams[s].virtual
                        /\ u.streams[s].primary = w.streams[s].primary
      OBVIOUS
    <2>1. w.streams[s] \in Stream /\ u.streams[s] = [w.streams[s] EXCEPT !.client = m]
      BY <1>2, <1>12, EntryTypes
    <2> QED BY <2>1 DEF Stream
  <1>17. Moved(t, u, m, s)
    <2>1. \A i \in LiveStreams(t) :
            /\ u.streams[i].ready = t.streams[i].ready
            /\ i # s => u.streams[i].client = t.streams[i].client
      BY <1>3, <1>15, <1>16
    <2>2. \A d \in LiveClients(u) :
            /\ u.clients[d].fh = t.clients[d].fh
            /\ u.clients[d].execed = t.clients[d].execed
            /\ d # m => SlotSet(u, d) = SlotSet(t, d) \ {s}
      <3> SUFFICES ASSUME NEW d \in LiveClients(u)
                   PROVE  /\ u.clients[d].fh = t.clients[d].fh
                          /\ u.clients[d].execed = t.clients[d].execed
                          /\ d # m => SlotSet(u, d) = SlotSet(t, d) \ {s}
        OBVIOUS
      <3>1. d \in LiveClients(w)
        BY <1>12
      <3>2. w.clients[d].fh = t.clients[d].fh /\ w.clients[d].execed = t.clients[d].execed
        BY <1>4, <3>1
      <3>3. u.clients[d].fh = w.clients[d].fh /\ u.clients[d].execed = w.clients[d].execed
        BY <1>13, <1>14, <3>1
      <3> QED BY <1>9, <1>14, <3>1, <3>2, <3>3
    <2> QED BY <1>2, <1>7, <1>12, <1>13, <1>16, <2>1, <2>2 DEF Moved
  <1>18. Plain(u)
    BY <1>1, <1>3, <1>12, <1>15, <1>16 DEF Plain
  <1>19. ExecedAlone(u, m)
    <2> SUFFICES ASSUME NEW d \in LiveClients(u), u.clients[d].execed # None
                 PROVE  d # m /\ d # Other /\ SlotSet(u, d) = {u.clients[d].execed}
      BY DEF ExecedAlone
    <2>1. d # m
      BY <1>4, <1>6, <1>7, <1>13
    <2>2. d \in LiveClients(t) /\ t.clients[d].execed = u.clients[d].execed
      BY <1>2, <1>4, <1>12, <1>14, <2>1
    <2>3. d # Other /\ SlotSet(t, d) = {t.clients[d].execed}
      BY <1>1, <2>2 DEF ExecedAlone
    <2>4. t.clients[d].execed # s
      BY <1>2, <1>12, <2>2 DEF Become
    <2> QED BY <1>9, <1>12, <1>14, <2>1, <2>2, <2>3, <2>4
  <1>20. Listed(u)
    <2> SUFFICES ASSUME NEW i \in LiveStreams(u)
                 PROVE  u.streams[i].client \in LiveClients(u) /\ i \in SlotSet(u, u.streams[i].client)
      BY DEF Listed
    <2>1. CASE i = s
      BY <1>7, <1>12, <1>13, <1>16, <2>1
    <2>2. CASE i # s
      <3> DEFINE d == t.streams[i].client
      <3>1. u.streams[i].client = d /\ i \in LiveStreams(t)
        BY <1>3, <1>12, <1>15, <2>2
      <3>2. d \in LiveClients(t) /\ i \in SlotSet(t, d)
        BY <1>1, <3>1 DEF Listed
      <3>3. d # m
        BY <3>2
      <3>4. d \notin Become(t, {s})
        BY <1>1, <1>5, <2>2, <3>2 DEF Become, ExecedAlone
      <3>5. d \in LiveClients(w)
        BY <1>2, <3>2, <3>4
      <3> QED BY <1>9, <1>12, <1>14, <2>2, <3>1, <3>2, <3>3, <3>5
    <2> QED BY <2>1, <2>2
  <1>21. SlotsOwn(u, m, {s})
    <2> SUFFICES ASSUME NEW d \in LiveClients(u), NEW j \in Slot, u.clients[d].streams[j] # None
                 PROVE  /\ Owns(u, d, u.clients[d].streams[j]) \/ (d = m /\ u.clients[d].streams[j] \in {s})
                        /\ \A i \in Slot : u.clients[d].streams[i] = u.clients[d].streams[j] => i = j
      BY DEF SlotsOwn
    <2>1. CASE d = m
      <3>1. \A i \in Slot : u.clients[m].streams[i] = IF i = k THEN s ELSE None
        BY <1>8, <1>13
      <3> QED BY <1>5, <2>1, <3>1
    <2>2. CASE d # m
      <3>1. d \in LiveClients(w) /\ d \in LiveClients(t) /\ u.clients[d] = w.clients[d]
        BY <1>2, <1>12, <1>14, <2>2
      <3>2. \A i \in Slot : u.clients[d].streams[i] =
                IF t.clients[d].streams[i] = s THEN None ELSE t.clients[d].streams[i]
        BY <1>4, <3>1
      <3>3. t.clients[d].streams[j] # s /\ t.clients[d].streams[j] # None
            /\ u.clients[d].streams[j] = t.clients[d].streams[j]
        BY <3>2
      <3>4. /\ Owns(t, d, t.clients[d].streams[j])
            /\ \A i \in Slot : t.clients[d].streams[i] = t.clients[d].streams[j] => i = j
        BY <1>1, <2>2, <3>1, <3>3 DEF SlotsOwn
      <3>5. Owns(u, d, u.clients[d].streams[j])
        BY <1>3, <1>12, <1>15, <3>3, <3>4, SMTT(60) DEF Owns
      <3> QED BY <3>2, <3>3, <3>4, <3>5
    <2> QED BY <2>1, <2>2
  <1> QED BY <1>7, <1>12, <1>17, <1>18, <1>19, <1>20, <1>21 DEF Owned, u

\* ATTACH of a stream to the client m that lists nothing: it lists the id
\* afterwards and no other client does, or has no slot at all.
LEMMA OwnedMove ==
    ASSUME NEW t, NEW m, NEW X, Owned(t, m, X), m \in LiveClients(t), m # Other,
           SlotSet(t, m) = {}, NEW s \in SID
    PROVE  LET u == client_stream_move(t, m, s) IN
           /\ Owned(u, m, {s})
           /\ (u = t /\ ~ Lists(u, m, s)) \/ Moved(t, u, m, s)
  <1> DEFINE u == client_stream_move(t, m, s)
             o == t.streams[s].client
  <1>1. t \in TablesType /\ Listed(t) /\ SlotsOwn(t, m, X) /\ ExecedAlone(t, m)
    BY DEF Owned
  <1>2. CASE s \in LiveStreams(t)
    <2>1. o # m /\ Lists(t, o, s) /\ Freed(t, client_stream_delete(t, o, s), s)
      BY <1>2, Released
    <2>2. o \in CID
      BY <1>1, <2>1, EntryTypes DEF Lists
    <2>3. o # None
      BY <2>2 DEF None, CID
    <2>4. u = client_stream_add(client_stream_delete(t, o, s), m, s)
      BY <1>2, <2>1, <2>3 DEF client_stream_move
    <2> QED BY <2>1, <2>4, OwnedAdded
  <1>3. CASE s \notin LiveStreams(t)
    <2>1. u = client_stream_add(t, m, s)
      BY <1>3 DEF client_stream_move
    <2>2. CASE Slot = {}
      <3>1. u = t
        BY <2>1, <2>2 DEF client_stream_add, CanAdd, FreeSlots
      <3>2. Owned(t, m, {s})
        BY OwnedBy
      <3> QED BY <3>1, <3>2 DEF Lists
    <2>3. CASE Slot # {}
      <3>1. \A d \in LiveClients(t) : s \notin SlotSet(t, d)
        <4> SUFFICES ASSUME NEW d \in LiveClients(t), s \in SlotSet(t, d) PROVE FALSE
          OBVIOUS
        <4>1. d # m
          OBVIOUS
        <4> QED BY <1>3, <4>1, OthersListLive DEF Owns
      <3>2. s # None
        BY NoneIsNoStream
      <3>3. Become(t, {s}) = {}
        BY <1>1, <3>1, <3>2 DEF Become, ExecedAlone
      <3>4. \A d \in LiveClients(t) : \A k \in Slot : t.clients[d].streams[k] # s
        BY <3>1, <3>2 DEF SlotSet
      <3>5. Freed(t, t, s)
        BY <1>1, <2>3, <3>3, <3>4 DEF Freed
      <3> QED BY <2>1, <3>5, OwnedAdded
    <2> QED BY <2>2, <2>3
  <1> QED BY <1>2, <1>3
-----------------------------------------------------------------------------
(***************************************************************************)
(* What becomes of the stream that a call asks for.  It is "made" when the *)
(* server has it and it has no handle; "handed" when it is the stream of   *)
(* the program's client and connected; "execed" when the second connection *)
(* became it; in "doubt" when connecting it failed, or may have; and       *)
(* "closing" when its handle is about to be closed.                        *)
(***************************************************************************)
Asked(l, n)  == n[l.con].req # <<>>
Agreed(l, n) == n[l.con].ans # <<>> /\ Head(n[l.con].ans).cmd = OK

Given(asked, agreed, before, yes, no) ==
    IF asked THEN before ELSE IF agreed THEN yes ELSE no

StageOf(l, asked, agreed) ==
    IF l.at \in {"passfh", "select"} THEN Given(asked, agreed, "made", "handed", "doubt")
    ELSE IF l.at = "con_stream" THEN Given(asked, agreed /\ ~ l.timeout, "made", "handed", "doubt")
    ELSE IF l.at = "exec" THEN Given(asked, agreed, "made", "execed", "doubt")
    ELSE IF l.at = "attach" THEN Given(asked, agreed, "execed", "handed", "closing")
    ELSE IF l.at = "kick" /\ l.then = "close" THEN Given(asked, agreed, "handed", "closing", "closing")
    ELSE IF l.at = "kick" THEN Given(asked, agreed, "doubt", "none", "none")
    ELSE IF l.at = "new_stream" THEN Given(~ agreed, agreed, "none", "made", "none")
    ELSE IF l.at = "whoami" THEN "execed"
    ELSE IF l.at \in {"info", "stream"} THEN "handed"
    ELSE IF l.at = "quit" /\ l.con = "temp" THEN "doubt"
    ELSE "none"

Stage(l, n) == StageOf(l, Asked(l, n), Agreed(l, n))

\* The id of the stream, which the answer to NEW_STREAM brings.
Cur(l, n) == IF l.at = "new_stream" /\ Agreed(l, n) THEN Head(n[l.con].ans).arg ELSE l.id

Main(n) == n["main"].peer
Temp(n) == n["temp"].peer
Peer(l, n) == n[l.con].peer

Leaving(l) == (l.at = "kick" /\ l.then = "close") \/ (l.at = "quit" /\ l.con = "main")

\* What the two clients of the program may list, and the id that the first
\* may list although the stream is not its own.
Mine(l, n) ==
    IF Leaving(l) \/ (l.con = "main" /\ Stage(l, n) \in {"made", "doubt", "handed"})
    THEN {Cur(l, n)} ELSE {}

Room(l, n) ==
    IF l.con = "temp" /\ l.at \in {"identify", "auth", "new_stream", "exec"}
    THEN IF Stage(l, n) = "none" THEN {} ELSE {Cur(l, n)}
    ELSE SID

Lent(l) == IF Leaving(l) \/ l.at \in {"attach", "info", "stream"} THEN {l.id} ELSE {}

-----------------------------------------------------------------------------
(* The invariant of the tables: whose streams there are *)

\* As long as nothing is lost the program's clients list their own streams only.
OwnersKnown(l, n, t, z) ==
    /\ Owned(t, Main(n), Lent(l))
    /\ ~ z => Owned(t, Main(n), {})

PeersLive(n, t) ==
    /\ \A c \in Conn : n[c].peer \in CID =>
        n[c].peer # Other /\ n[c].peer \in LiveClients(t) /\ t.clients[n[c].peer].fh
    /\ Main(n) \in CID => Main(n) # Temp(n)

SlotsIn(l, n, t) ==
    /\ Main(n) \in CID => SlotSet(t, Main(n)) \subseteq Mine(l, n)
    /\ Temp(n) \in CID => SlotSet(t, Temp(n)) \subseteq Room(l, n)

HandlesKnown(l, n, t, f, z) ==
    /\ \A s \in SID : s \notin LiveStreams(t) => f[s] = "none"
    /\ \A s \in LiveStreams(t) : t.streams[s].ready <=> f[s] # "none"
    /\ \A s \in LiveStreams(t) : f[s] = "other" =>
        t.streams[s].client = Other \/ (z /\ t.streams[s].client = Main(n) /\ s \in Lent(l))

\* Streams that nobody but the program takes care of.
Loose(t, f) == {s \in LiveStreams(t) : f[s] \in {"none", "ours"}}

\* There is at most one, and the program knows of it.
LooseKnown(l, n, t, f) ==
    \A s \in Loose(t, f) :
        /\ Stage(l, n) # "none" /\ s = Cur(l, n)
        /\ Stage(l, n) \in {"made", "doubt"} => t.streams[s].client = Peer(l, n)
        /\ Stage(l, n) = "made" => f[s] = "none"
        /\ Stage(l, n) \in {"handed", "execed", "closing"} => f[s] = "ours"

\* There is one when the program counts on it.
Kept(l, n, t, f) ==
    LET s == Cur(l, n) IN
    /\ Stage(l, n) \in {"made", "handed", "execed"} => s \in Loose(t, f)
    /\ Stage(l, n) = "handed" => t.streams[s].client = Main(n)
    /\ Stage(l, n) = "execed" => t.clients[t.streams[s].client].execed = s

Holds(l, n, t, f, z) ==
    /\ OwnersKnown(l, n, t, z)
    /\ PeersLive(n, t)
    /\ SlotsIn(l, n, t)
    /\ HandlesKnown(l, n, t, f, z)
    /\ LooseKnown(l, n, t, f)
    /\ ~ z => Kept(l, n, t, f)

\* What the library, the connections and the access levels have to do with it.
HighPlace(l, n) ==
    /\ l.con = "main"
    /\ \/ l.at \in {"passfh", "select", "con_stream"}
       \/ l.at = "kick" /\ l.then # "close"
       \/ l.at = "new_stream" /\ Agreed(l, n)

Control(l, n) ==
    /\ \A c \in Conn : n[c].peer = New => l.at = "identify" /\ l.con = c /\ n[c].req # <<>>
    /\ (l.at = "select" /\ l.backlog) \/ (l.at = "con_stream" /\ ~ l.timeout) =>
        Agreed(l, n) \/ Main(n) = None
    /\ l.flag => l.at = "stream" \/ Leaving(l)
    /\ l.at = "stream" => l.flag /\ l.con = "main"
    /\ l.at = "whoami" /\ Main(n) \in CID /\ n["main"].ans # <<>> => Head(n["main"].ans).arg = Main(n)
    /\ l.at = "attach" /\ Asked(l, n) => Head(n["main"].req).arg.client = Main(n)
    /\ l.at = "quit" => n[l.con].ans = <<>>
    /\ l.at = "out" => Main(n) = None

\* A client that has made a stream may connect and kick it, too.
Cleared(l, n, a) ==
    /\ \A k \in CID : a[k] \in {ACCLEV_NONE, ACCLEV_IDENTED, ACCLEV_GUEST, ACCLEV_PWRUSER, ACCLEV_ALL}
    /\ HighPlace(l, n) /\ Main(n) \in CID => a[Main(n)] >= ACCLEV_PWRUSER

Guard ==
    /\ Holds(lib, net, tab, sfh, lost)
    /\ Control(lib, net)
    /\ Cleared(lib, net, acclev)
-----------------------------------------------------------------------------
(* Steps that leave the tables alone *)

HungUp(f) == [s \in SID |-> IF f[s] = "ours" THEN "dead" ELSE f[s]]

\* The stages that may follow one another while the tables stay the same and
\* the handles become g.
Flows(l, n, k, m, f, g) ==
    \/ Stage(l, n) = "none" /\ Stage(k, m) \in {"none", "doubt"}
    \/ /\ Cur(k, m) = Cur(l, n)
       /\ g = f \/ Stage(l, n) \in {"made", "doubt"}
       /\ Stage(l, n) \in {"made", "doubt"} => Peer(k, m) = Peer(l, n)
       /\ \/ Stage(k, m) = Stage(l, n)
          \/ Stage(l, n) = "made" /\ Stage(k, m) = "doubt"
          \/ Stage(l, n) \in {"handed", "execed"} /\ Stage(k, m) = "closing"
    \/ Stage(l, n) \in {"made", "doubt"} /\ Peer(l, n) \notin CID /\ Stage(k, m) = "none"
    \/ Stage(l, n) \in {"handed", "closing"} /\ g = HungUp(f) /\ Stage(k, m) \in {"none", "doubt"}

\* What the clients of the program may list may grow, and shrinks only for
\* clients that list nothing or are not there.
Stays(l, n, k, m) ==
    /\ Main(m) = Main(n) \/ (Main(n) \notin CID /\ Main(m) \notin CID)
    /\ Temp(m) = Temp(n) \/ Temp(m) \notin CID
    /\ Lent(l) \subseteq Lent(k) \/ Main(n) \notin CID \/ Mine(l, n) = {}
    /\ Main(n) \in CID => Mine(l, n) \subseteq Mine(k, m)
    /\ Temp(m) \in CID => Room(l, n) \subseteq Room(k, m)

\* What Owned gives, part by part.
LEMMA OwnedParts ==
    ASSUME NEW t, NEW m, NEW X, Owned(t, m, X)
    PROVE  /\ t \in TablesType
           /\ \A s \in LiveStreams(t) :
                /\ s \in SID
                /\ t.streams[s].client \in LiveClients(t)
                /\ t.streams[s].client \in CID
                /\ s \in SlotSet(t, t.streams[s].client)
           /\ LiveClients(t) \subseteq CID
           /\ Other \in LiveClients(t)
           /\ \A c \in LiveClients(t) : t.clients[c].execed # None =>
                c # m /\ c # Other /\ SlotSet(t, c) = {t.clients[c].execed}
  <1>1. t \in TablesType /\ Listed(t) /\ ExecedAlone(t, m) /\ Other \in LiveClients(t)
    BY DEF Owned
  <1>2. LiveClients(t) \subseteq CID /\ LiveStreams(t) \subseteq SID
    BY DEF LiveClients, LiveStreams
  <1> QED BY <1>1, <1>2 DEF Listed, ExecedAlone

\* The invariant of the tables is kept.
LEMMA HoldsOn ==
    ASSUME NEW l, NEW n, NEW t, NEW f \in [SID -> Ends], NEW z, Holds(l, n, t, f, z),
           NEW k, NEW m, NEW g, NEW y,
           g = f \/ g = HungUp(f),
           y = z \/ (Main(n) \notin CID /\ Stage(k, m) \in {"none", "doubt"}),
           Stays(l, n, k, m), Flows(l, n, k, m, f, g)
    PROVE  Holds(k, m, t, g, y)
  <1> DEFINE a == Stage(l, n)
             b == Stage(k, m)
  <1>1. /\ OwnersKnown(l, n, t, z) /\ PeersLive(n, t) /\ SlotsIn(l, n, t)
        /\ HandlesKnown(l, n, t, f, z) /\ LooseKnown(l, n, t, f) /\ (~ z => Kept(l, n, t, f))
    BY DEF Holds
  <1>2. Owned(t, Main(n), Lent(l)) /\ (~ z => Owned(t, Main(n), {}))
    BY <1>1 DEF OwnersKnown
  <1>3. \A s \in LiveStreams(t) :
          s \in SID /\ t.streams[s].client \in LiveClients(t) /\ t.streams[s].client \in CID
          /\ s \in SlotSet(t, t.streams[s].client)
    BY <1>2, OwnedParts
  <1>4. LiveClients(t) \subseteq CID
    BY DEF LiveClients
  <1>5. OwnersKnown(k, m, t, y)
    <2>1. Owned(t, Main(m), Lent(k)) /\ (Main(n) \notin CID => Owned(t, Main(m), {}))
      <3>1. CASE Main(n) \notin CID
        BY <1>2, <1>4, <3>1, OwnedBy DEF Stays
      <3>2. CASE Main(n) \in CID /\ Lent(l) \subseteq Lent(k)
        BY <1>2, <3>2, OwnedBy DEF Stays
      <3>3. CASE Main(n) \in CID /\ Mine(l, n) = {}
        <4>1. SlotSet(t, Main(n)) = {}
          BY <1>1, <3>3 DEF SlotsIn
        <4> QED BY <1>2, <3>3, <4>1, OwnedBy DEF Stays
      <3> QED BY <3>1, <3>2, <3>3 DEF Stays
    <2>2. ~ y => Owned(t, Main(m), {})
      BY <1>2, <2>1 DEF Stays
    <2> QED BY <2>1, <2>2 DEF OwnersKnown
  <1>6. PeersLive(m, t)
    BY <1>1 DEF PeersLive, Stays, Conn, Main, Temp
  <1>7. SlotsIn(k, m, t)
    BY <1>1 DEF SlotsIn, Stays
  <1>8. \A s \in SID : g[s] = f[s] \/ (f[s] = "ours" /\ g[s] = "dead")
    BY DEF HungUp
  <1>9. HandlesKnown(k, m, t, g, y)
    <2>1. \A s \in SID : s \notin LiveStreams(t) => g[s] = "none"
      BY <1>1, <1>8 DEF HandlesKnown
    <2>2. \A s \in LiveStreams(t) : t.streams[s].ready <=> g[s] # "none"
      BY <1>1, <1>3, <1>8 DEF HandlesKnown
    <2>3. ASSUME NEW s \in LiveStreams(t), g[s] = "other"
          PROVE  t.streams[s].client = Other
                 \/ (y /\ t.streams[s].client = Main(m) /\ s \in Lent(k))
      <3>1. f[s] = "other"
        BY <1>3, <1>8, <2>3
      <3>2. t.streams[s].client = Other
            \/ (z /\ t.streams[s].client = Main(n) /\ s \in Lent(l))
        BY <1>1, <3>1 DEF HandlesKnown
      <3>3. CASE t.streams[s].client = Main(n) /\ z /\ s \in Lent(l)
        <4>1. Main(n) \in CID /\ s \in SlotSet(t, Main(n))
          BY <1>3, <3>3
        <4>2. y /\ Main(m) = Main(n)
          BY <3>3, <4>1 DEF Stays
        <4>3. Mine(l, n) # {}
          BY <1>1, <4>1 DEF SlotsIn
        <4> QED BY <3>3, <4>1, <4>2, <4>3 DEF Stays
      <3> QED BY <3>2, <3>3
    <2> QED BY <2>1, <2>2, <2>3 DEF HandlesKnown
  <1>10. Loose(t, g) \subseteq Loose(t, f)
    BY <1>3, <1>8 DEF Loose
  <1>11. LooseKnown(k, m, t, g)
    <2> SUFFICES ASSUME NEW s \in Loose(t, g)
                 PROVE  /\ b # "none" /\ s = Cur(k, m)
                        /\ b \in {"made", "doubt"} => t.streams[s].client = Peer(k, m)
                        /\ b = "made" => g[s] = "none"
                        /\ b \in {"handed", "execed", "closing"} => g[s] = "ours"
      BY DEF LooseKnown
    <2>1. s \in LiveStreams(t) /\ s \in Loose(t, f) /\ s \in SID /\ g[s] \in {"none", "ours"}
      BY <1>3, <1>10 DEF Loose
    <2>2. /\ a # "none" /\ s = Cur(l, n)
          /\ a \in {"made", "doubt"} => t.streams[s].client = Peer(l, n)
          /\ a = "made" => f[s] = "none"
          /\ a \in {"handed", "execed", "closing"} => f[s] = "ours"
      BY <1>1, <2>1 DEF LooseKnown
    <2>3. f[s] = g[s]
      BY <1>8, <2>1
    <2>4. ~ (a \in {"made", "doubt"} /\ Peer(l, n) \notin CID)
      BY <1>3, <2>1, <2>2
    <2>5. ~ (a \in {"handed", "closing"} /\ g = HungUp(f))
      BY <2>1, <2>2 DEF HungUp
    <2> HIDE DEF a, b
    <2>6. /\ Cur(k, m) = Cur(l, n)
          /\ a \in {"made", "doubt"} => Peer(k, m) = Peer(l, n)
          /\ \/ b = a
             \/ a = "made" /\ b = "doubt"
             \/ a \in {"handed", "execed"} /\ b = "closing"
      BY <2>2, <2>4, <2>5 DEF Flows, a, b
    <2> QED BY <2>2, <2>3, <2>6
  <1>12. ~ y => Kept(k, m, t, g)
    <2> SUFFICES ASSUME ~ y, b \in {"made", "handed", "execed"}
                 PROVE  /\ Cur(k, m) \in Loose(t, g)
                        /\ b = "handed" => t.streams[Cur(k, m)].client = Main(m)
                        /\ b = "execed" => t.clients[t.streams[Cur(k, m)].client].execed = Cur(k, m)
      BY DEF Kept
    <2>1. ~ z
      OBVIOUS
    <2> HIDE DEF a, b
    <2>2. a = b /\ Cur(k, m) = Cur(l, n) /\ (g = f \/ a \in {"made", "doubt"})
      BY DEF Flows, a, b
    <2>3. /\ Cur(l, n) \in Loose(t, f)
          /\ a = "handed" => t.streams[Cur(l, n)].client = Main(n)
          /\ a = "execed" => t.clients[t.streams[Cur(l, n)].client].execed = Cur(l, n)
      BY <1>1, <2>1, <2>2 DEF Kept, a
    <2>4. Cur(l, n) \in Loose(t, g)
      <3>1. CASE g = f
        BY <2>3, <3>1
      <3>2. CASE a = "made"
        <4>1. f[Cur(l, n)] = "none" /\ Cur(l, n) \in LiveStreams(t)
          BY <1>1, <2>3, <3>2 DEF LooseKnown, Loose, a
        <4> QED BY <1>3, <1>8, <4>1 DEF Loose
      <3> QED BY <2>2, <3>1, <3>2
    <2>5. a = "handed" => Main(m) = Main(n)
      <3>1. Cur(l, n) \in LiveStreams(t)
        BY <2>3 DEF Loose
      <3>2. a = "handed" => Main(n) \in CID
        BY <1>3, <2>3, <3>1
      <3> QED BY <3>2 DEF Stays
    <2> QED BY <2>2, <2>3, <2>4, <2>5
  <1> QED BY <1>5, <1>6, <1>7, <1>9, <1>11, <1>12 DEF Holds
-----------------------------------------------------------------------------
(* The steps of the library *)

\* What a request leaves: it is the only message, or the server is gone.
LEMMA Asking ==
    ASSUME NEW n, Quiet(n), NEW l \in LibState, NEW c \in Conn, NEW at, NEW cmd, NEW arg,
           Ask(n, l, c, at, cmd, arg)
    PROVE  /\ lib'.at = at /\ lib'.con = c /\ lib'.backlog = l.backlog
           /\ lib'.timeout = l.timeout /\ lib'.then = l.then /\ lib'.id = l.id
           /\ lib'.flag = l.flag
           /\ \A d \in Conn : net'[d].peer = n[d].peer /\ net'[d].ans = <<>>
           /\ \A d \in Conn : net'[d].req # <<>> => d = c
           /\ Main(net') = Main(n) /\ Temp(net') = Temp(n) /\ Peer(lib', net') = n[c].peer
           /\ n[c].peer # None => Head(net'[c].req).arg = arg
           /\ Asked(lib', net') <=> n[c].peer # None
           /\ ~ Agreed(lib', net')
  <1> DEFINE q == [cmd |-> cmd, arg |-> arg]
             m == [n[c] EXCEPT !.req = <<q>>]
  <1>1. n \in [Conn -> Connection] /\ \A d \in Conn : n[d].req = <<>> /\ n[d].ans = <<>>
    BY DEF Quiet, Silent
  <1>2. lib' = [l EXCEPT !.at = at, !.con = c]
    BY DEF Ask
  <1>3. /\ lib'.at = at /\ lib'.con = c /\ lib'.backlog = l.backlog
        /\ lib'.timeout = l.timeout /\ lib'.then = l.then /\ lib'.id = l.id
        /\ lib'.flag = l.flag
    BY <1>2 DEF LibState
  <1>4. net' = IF n[c].peer = None THEN n ELSE [n EXCEPT ![c] = m]
    <2>1. n[c].req = <<>>
      BY <1>1
    <2> QED BY <2>1, OneMessage DEF Ask, Send
  <1>5. m.peer = n[c].peer /\ m.ans = <<>> /\ m.req = <<q>>
    <2>1. n[c] \in Connection
      BY <1>1
    <2> HIDE DEF q
    <2> QED BY <1>1, <2>1 DEF Connection
  <1>6. Head(<<q>>) = q /\ <<q>> # <<>> /\ q.arg = arg
    BY OneMessage
  <1> HIDE DEF m, q
  <1>7. /\ \A d \in Conn : net'[d].peer = n[d].peer /\ net'[d].ans = <<>>
        /\ \A d \in Conn : net'[d].req # <<>> => d = c
        /\ net'[c].req = IF n[c].peer = None THEN <<>> ELSE <<q>>
    <2>1. CASE n[c].peer = None
      BY <1>1, <1>4, <2>1
    <2>2. CASE n[c].peer # None
      <3>1. net'[c] = m /\ \A d \in Conn \ {c} : net'[d] = n[d]
        BY <1>1, <1>4, <2>2
      <3> QED BY <1>1, <1>5, <2>2, <3>1
    <2> QED BY <2>1, <2>2
  <1>8. Main(net') = Main(n) /\ Temp(net') = Temp(n) /\ Peer(lib', net') = n[c].peer
    BY <1>3, <1>7 DEF Main, Temp, Peer, Conn
  <1>9. n[c].peer # None => Head(net'[c].req).arg = arg
    BY <1>6, <1>7
  <1>10. (Asked(lib', net') <=> n[c].peer # None) /\ ~ Agreed(lib', net')
    BY <1>3, <1>6, <1>7 DEF Asked, Agreed
  <1> QED BY <1>3, <1>7, <1>8, <1>9, <1>10

\* What the library has read.
LEMMA HasRead ==
    ASSUME Talking(lib, net), Control(lib, net), lib.at \in Waits, NEW a, Received(lib.con, a)
    PROVE  /\ Quiet(Taken(lib.con)) /\ lib \in LibState /\ Placed(lib) /\ lib.con \in Conn
           /\ \A d \in Conn : Taken(lib.con)[d].peer = net[d].peer
           /\ ~ Asked(lib, net)
           /\ Agreed(lib, net) <=> a.cmd = OK
           /\ Agreed(lib, net) => a = Head(net[lib.con].ans)
           /\ a = EOF => Peer(lib, net) = None
           /\ a # EOF => net[lib.con].ans # <<>> /\ a = Head(net[lib.con].ans)
           /\ a.cmd = OK => a # EOF
           /\ \A d \in Conn : net[d].peer # New
  <1> DEFINE c == lib.con
             n == net[c]
             x == IF n.ans = <<>> THEN n.ans ELSE Tail(n.ans)
  <1>1. /\ Sane(lib) /\ Placed(lib) /\ c \in Conn /\ Quiet(Taken(c))
        /\ \/ a \in Answer /\ Fits(lib, a)
           \/ a = EOF /\ Taken(c)[c].peer = None
    BY Reading
  <1>2. net \in [Conn -> Connection] /\ Talk(lib, net) /\ lib \in LibState
    BY DEF Talking
  <1>3. lib.at \notin Idle
    BY DEF Waits, Idle
  <1>4. Exchange(lib, n)
    BY <1>1, <1>2, <1>3 DEF Talk
  <1>5. Taken(c) = [net EXCEPT ![c] = [n EXCEPT !.ans = x]]
    BY DEF Taken
  <1>6. \A d \in Conn : Taken(c)[d].peer = net[d].peer
    <2>1. [n EXCEPT !.ans = x].peer = n.peer
      <3> HIDE DEF x
      <3> QED BY <1>1, <1>2 DEF Connection
    <2> QED BY <1>1, <1>2, <1>5, <2>1
  <1>7. \/ n.ans # <<>> /\ a = Head(n.ans)
        \/ n.ans = <<>> /\ n.peer = None /\ a = EOF
    BY DEF Received
  <1>8. EOF.cmd = "EOF"
    BY DEF EOF
  <1>9. CASE n.ans = <<>>
    <2>1. a = EOF /\ n.peer = None
      BY <1>7, <1>9
    <2>2. n.req = <<>>
      BY <1>4, <1>9, <2>1 DEF Exchange, Silent
    <2>3. ~ Asked(lib, net) /\ ~ Agreed(lib, net) /\ a.cmd # OK /\ Peer(lib, net) = None
      BY <1>8, <1>9, <2>1, <2>2 DEF Asked, Agreed, OK, Peer
    <2>4. \A d \in Conn : net[d].peer # New
      BY <2>1, <2>2 DEF Control
    <2> QED BY <1>1, <1>2, <1>6, <2>1, <2>3, <2>4
  <1>10. CASE n.ans # <<>>
    <2>1. n.req = <<>> /\ \E b \in Answer : n.ans = <<b>>
      BY <1>4, <1>10 DEF Exchange, Silent
    <2>2. a = Head(n.ans) /\ a \in Answer
      BY <1>7, <1>10, <2>1, OneMessage
    <2>3. a # EOF
      BY <1>8, <2>2 DEF Answer, OK, ERROR
    <2>4. ~ Asked(lib, net) /\ (Agreed(lib, net) <=> a.cmd = OK)
      BY <1>10, <2>1, <2>2 DEF Asked, Agreed
    <2>5. \A d \in Conn : net[d].peer # New
      BY <2>1 DEF Control
    <2> QED BY <1>1, <1>2, <1>6, <1>10, <2>2, <2>3, <2>4, <2>5
  <1> QED BY <1>9, <1>10

\* A step of the library keeps the guard.
Onward ==
    /\ Stays(lib, net, lib', net')
    /\ Flows(lib, net, lib', net', sfh, sfh')
    /\ Control(lib', net')
    /\ HighPlace(lib', net') /\ Main(net') \in CID => HighPlace(lib, net) /\ Main(net') = Main(net)
\* The connections are as before, but for what has been read.
Still(n) == Quiet(n) /\ \A d \in Conn : n[d].peer = net[d].peer /\ net[d].peer # New

\* They are the same two clients.
LEMMA StillPeers ==
    ASSUME NEW n, Still(n)
    PROVE  Quiet(n) /\ Main(n) = Main(net) /\ Temp(n) = Temp(net)
           /\ Main(net) # New /\ Temp(net) # New
BY DEF Still, Main, Temp, Conn

\* A connection that is not accepted, or closed, has no client.
LEMMA NewIsNoClient == New \notin CID /\ None \notin CID /\ New # None
BY TablesAssumption DEF New, None, CID

\* A stream that the second client may list.
LEMMA RoomType ==
    ASSUME Talking(lib, net)
    PROVE  Room(lib, net) \subseteq SID
  <1> SUFFICES ASSUME lib.con = "temp", lib.at \in {"identify", "auth", "new_stream", "exec"},
                      Stage(lib, net) # "none"
               PROVE  Cur(lib, net) \in SID
    BY DEF Room
  <1>1. Placed(lib) /\ lib \in LibState /\ Talk(lib, net) /\ net \in [Conn -> Connection]
    BY DEF Talking
  <1>2. CASE lib.at = "exec"
    BY <1>1, <1>2 DEF Cur, Placed
  <1>3. CASE lib.at = "new_stream"
    <2>1. Agreed(lib, net)
      BY <1>3 DEF Stage, StageOf, Given
    <2>2. Exchange(lib, net[lib.con])
      BY <1>1, <1>3 DEF Talk, Idle, Conn
    <2>3. PICK b \in Answer : net[lib.con].ans = <<b>> /\ Fits(lib, b)
      BY <2>1, <2>2 DEF Agreed, Exchange, Silent
    <2>4. Head(net[lib.con].ans) = b
      BY <2>3, OneMessage
    <2> QED BY <1>3, <2>1, <2>3, <2>4 DEF Cur, Agreed, Fits
  <1>4. CASE lib.at \in {"identify", "auth"}
    BY <1>4 DEF Stage, StageOf
  <1> QED BY <1>2, <1>3, <1>4

\* roar_simple_connect() opens a connection.
LEMMA ConnectMoves ==
    ASSUME NEW n, Still(n), NEW l \in LibState, ~ l.flag, NEW c \in Conn, Connect(n, l, c),
           Stage(lib, net) = "none", Mine(lib, net) = {} \/ Main(net) \notin CID,
           Talking(lib, net), c = "main" => Main(net) \notin CID
    PROVE  Onward
  <1> DEFINE new == [NoConn EXCEPT !.open = TRUE, !.peer = New]
             m == [n EXCEPT ![c] = new]
  <1>1. Quiet(n) /\ Main(n) = Main(net) /\ Temp(n) = Temp(net) /\ Main(net) # New /\ Temp(net) # New
    BY StillPeers
  <1>2. new \in Connection /\ Silent(new) /\ new.peer = New
    BY DEF NoConn, Connection, Silent
  <1>3. Ask(m, l, c, "identify", "IDENTIFY", None)
    BY DEF Connect
  <1> HIDE DEF new
  <1>4. Quiet(m) /\ m[c].peer = New /\ \A d \in Conn \ {c} : m[d].peer = n[d].peer
    BY <1>1, <1>2 DEF Quiet
  <1> HIDE DEF m
  <1>5. /\ lib'.at = "identify" /\ lib'.con = c /\ lib'.flag = l.flag
        /\ \A d \in Conn : net'[d].peer = m[d].peer /\ net'[d].ans = <<>>
        /\ Main(net') = Main(m) /\ Temp(net') = Temp(m)
        /\ Asked(lib', net') <=> m[c].peer # None
        /\ ~ Agreed(lib', net')
    BY <1>3, <1>4, Asking
  <1>6. Stage(lib', net') = "none" /\ Lent(lib') = {} /\ Mine(lib', net') = {} /\ ~ Leaving(lib')
    BY <1>5 DEF Stage, StageOf, Lent, Mine, Leaving
  <1>7. \/ c = "main" /\ Main(net') = New /\ Temp(net') = Temp(net)
        \/ c = "temp" /\ Temp(net') = New /\ Main(net') = Main(net)
    BY <1>1, <1>4, <1>5 DEF Main, Temp, Conn
  <1>8. Temp(net') \in CID => Room(lib', net') = SID
    BY <1>5, <1>7, NewIsNoClient DEF Room
  <1>9. Stays(lib, net, lib', net')
    BY <1>6, <1>7, <1>8, NewIsNoClient, RoomType DEF Stays
  <1>10. Control(lib', net')
    <2>1. \A d \in Conn : net'[d].peer = New => d = c
      BY <1>4, <1>5 DEF Still
    <2>2. net'[c].req # <<>>
      BY <1>4, <1>5, NewIsNoClient DEF Asked
    <2> QED BY <1>5, <1>6, <2>1, <2>2 DEF Control
  <1> QED BY <1>5, <1>6, <1>9, <1>10 DEF Onward, Flows, HighPlace

\* roar_disconnect() of the first connection.
LEMMA LeaveMoves ==
    ASSUME NEW n, Still(n), lib \in LibState, roar_disconnect(n, "main"), Talking(lib, net),
           \/ Stage(lib, net) = "none"
           \/ Stage(lib, net) \in {"handed", "closing"} /\ sfh' = HungUp(sfh),
           Lent(lib) \subseteq {lib.id}, Mine(lib, net) \subseteq {lib.id}
    PROVE  Onward
  <1>1. Quiet(n) /\ Main(n) = Main(net) /\ Temp(n) = Temp(net) /\ Main(net) # New /\ Temp(net) # New
    BY StillPeers
  <1>2. /\ lib'.at = "quit" /\ lib'.con = "main" /\ lib'.flag = lib.flag /\ lib'.id = lib.id
        /\ \A d \in Conn : net'[d].peer = n[d].peer /\ net'[d].ans = <<>>
        /\ Main(net') = Main(net) /\ Temp(net') = Temp(net)
    <2>1. Ask(n, lib, "main", "quit", "QUIT", None)
      BY DEF roar_disconnect
    <2> QED BY <1>1, <2>1, Asking DEF Conn
  <1>3. Stage(lib', net') = "none" /\ Leaving(lib') /\ Cur(lib', net') = lib.id
    BY <1>2 DEF Stage, StageOf, Leaving, Cur
  <1>4. Lent(lib') = {lib.id} /\ Mine(lib', net') = {lib.id} /\ Room(lib', net') = SID
    BY <1>2, <1>3 DEF Lent, Mine, Room
  <1>5. Stays(lib, net, lib', net')
    BY <1>2, <1>4, RoomType DEF Stays
  <1>6. Control(lib', net')
    <2>1. \A d \in Conn : net'[d].peer # New
      BY <1>2 DEF Still
    <2> QED BY <1>2, <1>3, <2>1 DEF Control, Conn
  <1> QED BY <1>2, <1>3, <1>5, <1>6 DEF Onward, Flows, HighPlace

\* roar_disconnect() of the second connection.
LEMMA QuitTempMoves ==
    ASSUME NEW n, Still(n), lib \in LibState, roar_disconnect(n, "temp"), Talking(lib, net),
           ~ lib.flag, lib.con = "temp",
           \/ Stage(lib, net) = "none"
           \/ Stage(lib, net) = "doubt" /\ Cur(lib, net) = lib.id /\ sfh' = sfh,
           lib.at \in {"new_stream", "exec"}
    PROVE  Onward
  <1>1. Quiet(n) /\ Main(n) = Main(net) /\ Temp(n) = Temp(net) /\ Main(net) # New /\ Temp(net) # New
    BY StillPeers
  <1>2. /\ lib'.at = "quit" /\ lib'.con = "temp" /\ lib'.flag = lib.flag /\ lib'.id = lib.id
        /\ \A d \in Conn : net'[d].peer = n[d].peer /\ net'[d].ans = <<>>
        /\ Main(net') = Main(net) /\ Temp(net') = Temp(net) /\ Peer(lib', net') = n["temp"].peer
    <2>1. Ask(n, lib, "temp", "quit", "QUIT", None)
      BY DEF roar_disconnect
    <2> QED BY <1>1, <2>1, Asking DEF Conn
  <1>3. Stage(lib', net') = "doubt" /\ ~ Leaving(lib') /\ Cur(lib', net') = lib.id
        /\ Peer(lib', net') = Peer(lib, net)
    BY <1>1, <1>2 DEF Stage, StageOf, Leaving, Cur, Peer, Temp
  <1>4. Lent(lib) = {} /\ Mine(lib, net) = {} /\ Room(lib', net') = SID
    BY <1>2 DEF Lent, Mine, Room, Leaving
  <1>5. Stays(lib, net, lib', net')
    BY <1>2, <1>4, RoomType DEF Stays
  <1>6. Control(lib', net')
    <2>1. \A d \in Conn : net'[d].peer # New
      BY <1>2 DEF Still
    <2> QED BY <1>2, <1>3, <2>1 DEF Control, Conn
  <1> QED BY <1>2, <1>3, <1>5, <1>6 DEF Onward, Flows, HighPlace

\* A call ends without a stream.
LEMMA EndMoves ==
    ASSUME NEW n, Still(n), Talking(lib, net), net' = n, lib'.at = "connected", ~ lib'.flag,
           \/ Stage(lib, net) = "none"
           \/ Stage(lib, net) \in {"made", "doubt"} /\ Peer(lib, net) \notin CID
           \/ Stage(lib, net) \in {"handed", "closing"} /\ sfh' = HungUp(sfh),
           Mine(lib, net) = {} \/ Main(net) \notin CID
    PROVE  Onward
  <1>1. Quiet(n) /\ Main(n) = Main(net) /\ Temp(n) = Temp(net) /\ Main(net) # New /\ Temp(net) # New
    BY StillPeers
  <1>2. Stage(lib', net') = "none" /\ Room(lib', net') = SID /\ ~ Leaving(lib')
    BY DEF Stage, StageOf, Room, Leaving
  <1>3. Stays(lib, net, lib', net')
    BY <1>1, <1>2, RoomType DEF Stays
  <1>4. Control(lib', net')
    <2>1. \A d \in Conn : net'[d].peer # New
      BY DEF Still
    <2> QED BY <1>2, <2>1 DEF Control
  <1> QED BY <1>2, <1>3, <1>4 DEF Onward, Flows, HighPlace

\* AUTH and NEW_STREAM: there is no stream yet.
LEMMA PlainMoves ==
    ASSUME NEW n, Still(n), Talking(lib, net), NEW l \in LibState, ~ l.flag, NEW c \in Conn,
           NEW at \in {"auth", "new_stream"}, NEW cmd, NEW arg, Ask(n, l, c, at, cmd, arg),
           Stage(lib, net) = "none", Mine(lib, net) = {},
           c = "temp" => Room(lib, net) = {}
    PROVE  Onward
  <1>1. Quiet(n) /\ Main(n) = Main(net) /\ Temp(n) = Temp(net) /\ Main(net) # New /\ Temp(net) # New
    BY StillPeers
  <1>2. /\ lib'.at = at /\ lib'.con = c /\ lib'.flag = l.flag
        /\ \A d \in Conn : net'[d].peer = n[d].peer /\ net'[d].ans = <<>>
        /\ Main(net') = Main(net) /\ Temp(net') = Temp(net)
        /\ ~ Agreed(lib', net')
    BY <1>1, Asking
  <1>3. Stage(lib', net') = "none" /\ ~ Leaving(lib')
    BY <1>2 DEF Stage, StageOf, Given, Leaving
  <1>4. c # "temp" => Room(lib', net') = SID
    BY <1>2 DEF Room
  <1>5. Stays(lib, net, lib', net')
    BY <1>2, <1>4, RoomType DEF Stays
  <1>6. Control(lib', net')
    <2>1. \A d \in Conn : net'[d].peer # New
      BY <1>2 DEF Still
    <2> QED BY <1>2, <1>3, <2>1 DEF Control, Conn
  <1> QED BY <1>2, <1>3, <1>5, <1>6 DEF Onward, Flows, HighPlace

\* What has been read leaves the connections as they are.
LEMMA ReadStill ==
    ASSUME Talking(lib, net), Control(lib, net), lib.at \in Waits, NEW a, Received(lib.con, a)
    PROVE  Still(Taken(lib.con))
BY HasRead DEF Still

\* A library without a stream waits at its connection.
LEMMA NoStreamYet ==
    ASSUME Control(lib, net), lib.at \in {"identify", "auth", "connected"}
           \/ (lib.at = "new_stream" /\ ~ Agreed(lib, net))
    PROVE  /\ ~ lib.flag /\ Stage(lib, net) = "none" /\ Mine(lib, net) = {} /\ Lent(lib) = {}
           /\ lib.con = "temp" /\ lib.at # "connected" => Room(lib, net) = {}
  <1>1. Stage(lib, net) = "none"
    BY DEF Stage, StageOf, Given
  <1>2. ~ Leaving(lib) /\ lib.at \notin {"stream", "attach", "info"}
    BY DEF Leaving
  <1>3. Mine(lib, net) = {} /\ Lent(lib) = {}
    BY <1>1, <1>2 DEF Mine, Lent
  <1>4. ~ lib.flag
    BY <1>2 DEF Control
  <1>5. lib.con = "temp" /\ lib.at # "connected" => Room(lib, net) = {}
    BY <1>1 DEF Room
  <1> QED BY <1>1, <1>3, <1>4, <1>5

\* A connection fails.
LEMMA ConnectFailsMoves ==
    ASSUME NEW n, Still(n), Talking(lib, net), Control(lib, net), lib.at \in {"identify", "auth"},
           ConnectFails(n)
    PROVE  Onward
  <1>1. /\ ~ lib.flag /\ Stage(lib, net) = "none" /\ Mine(lib, net) = {} /\ Lent(lib) = {}
    BY NoStreamYet
  <1>2. lib \in LibState
    BY DEF Talking
  <1>3. CASE lib.con = "main"
    BY <1>1, <1>2, <1>3, LeaveMoves DEF ConnectFails
  <1>4. CASE lib.con # "main"
    <2>1. net' = n /\ lib' = [lib EXCEPT !.at = "connected", !.fh = "none"]
      BY <1>4 DEF ConnectFails, Fail
    <2>2. lib'.at = "connected" /\ ~ lib'.flag
      BY <1>1, <1>2, <2>1 DEF LibState
    <2> QED BY <1>1, <2>1, <2>2, EndMoves
  <1> QED BY <1>3, <1>4

\* IDENTIFY is answered.
LEMMA IdentifyMoves ==
    ASSUME Talking(lib, net), Control(lib, net), lib.at \in Waits, NEW a, Received(lib.con, a),
           roar_identify(a)
    PROVE  Onward
  <1> DEFINE n == Taken(lib.con)
             l == [lib EXCEPT !.try = 1]
  <1>1. Still(n) /\ lib \in LibState /\ lib.con \in Conn
    BY ReadStill, HasRead
  <1>2. lib.at = "identify"
    BY DEF roar_identify
  <1>3. /\ ~ lib.flag /\ Stage(lib, net) = "none" /\ Mine(lib, net) = {} /\ Lent(lib) = {}
        /\ lib.con = "temp" => Room(lib, net) = {}
    BY <1>2, NoStreamYet
  <1>4. CASE a = EOF
    BY <1>1, <1>2, <1>4, ConnectFailsMoves DEF roar_identify
  <1>5. CASE a # EOF
    <2>1. Ask(n, l, lib.con, "auth", "AUTH", AuthTypes[1])
      BY <1>5 DEF roar_identify
    <2>2. l \in LibState /\ ~ l.flag
      BY <1>1, <1>3 DEF LibState, AuthTypes
    <2> HIDE DEF l, n
    <2> QED BY <1>1, <1>3, <2>1, <2>2, PlainMoves
  <1> QED BY <1>4, <1>5

\* AUTH is answered.
LEMMA AuthMoves ==
    ASSUME Talking(lib, net), Control(lib, net), lib.at \in Waits, NEW a, Received(lib.con, a),
           roar_auth(a)
    PROVE  Onward
  <1> DEFINE n == Taken(lib.con)
             i == lib.try + 1
             l == [lib EXCEPT !.try = i]
  <1>1. Still(n) /\ lib \in LibState /\ lib.con \in Conn
    BY ReadStill, HasRead
  <1>2. lib.at = "auth"
    BY DEF roar_auth
  <1>3. /\ ~ lib.flag /\ Stage(lib, net) = "none" /\ Mine(lib, net) = {} /\ Lent(lib) = {}
        /\ lib.con = "temp" => Room(lib, net) = {}
    BY <1>2, NoStreamYet
  <1>4. \/ Connected(n)
        \/ ConnectFails(n)
        \/ i <= Len(AuthTypes) /\ Ask(n, l, lib.con, "auth", "AUTH", AuthTypes[i])
    BY DEF roar_auth
  <1>5. CASE ConnectFails(n)
    BY <1>1, <1>2, <1>5, ConnectFailsMoves
  <1>6. CASE i <= Len(AuthTypes) /\ Ask(n, l, lib.con, "auth", "AUTH", AuthTypes[i])
    <2>1. l \in LibState /\ ~ l.flag
      BY <1>1, <1>3, <1>6 DEF LibState, AuthTypes
    <2> HIDE DEF l, n
    <2> QED BY <1>1, <1>3, <1>6, <2>1, PlainMoves
  <1>7. CASE Connected(n) /\ lib.con = "main"
    <2>1. net' = n /\ lib' = [lib EXCEPT !.at = "connected"]
      BY <1>7 DEF Connected
    <2>2. lib'.at = "connected" /\ ~ lib'.flag
      BY <1>1, <1>3, <2>1 DEF LibState
    <2> HIDE DEF n
    <2> QED BY <1>1, <1>3, <2>1, <2>2, EndMoves
  <1>8. CASE Connected(n) /\ lib.con # "main"
    <2>1. Ask(n, lib, "temp", "new_stream", "NEW_STREAM", None) /\ lib.con = "temp"
      BY <1>1, <1>8 DEF Connected, Conn
    <2> HIDE DEF n
    <2> QED BY <1>1, <1>3, <2>1, PlainMoves
  <1> QED BY <1>4, <1>5, <1>6, <1>7, <1>8

\* A request to connect the stream that was made, or to kick it.
LEMMA StreamMoves ==
    ASSUME NEW n, Still(n), Talking(lib, net), NEW l \in LibState, ~ l.flag, NEW c \in Conn,
           NEW at, NEW cmd, NEW arg, Ask(n, l, c, at, cmd, arg),
           c = lib.con, l.id = Cur(lib, net), Lent(lib) = {}, sfh' = sfh,
           c = "main" => HighPlace(lib, net),
           \/ Stage(lib, net) = "made" /\ c = "main" /\ at \in {"passfh", "select"}
              /\ (at = "select" => ~ l.backlog)
           \/ Stage(lib, net) = "made" /\ c = "temp" /\ at = "exec"
           \/ Stage(lib, net) \in {"made", "doubt"} /\ c = "main" /\ at = "kick" /\ l.then # "close"
    PROVE  Onward
  <1> DEFINE p == n[c].peer
  <1>1. Quiet(n) /\ Main(n) = Main(net) /\ Temp(n) = Temp(net) /\ Main(net) # New /\ Temp(net) # New
    BY StillPeers
  <1>2. /\ lib'.at = at /\ lib'.con = c /\ lib'.flag = l.flag /\ lib'.id = l.id
        /\ lib'.backlog = l.backlog /\ lib'.then = l.then
        /\ \A d \in Conn : net'[d].peer = n[d].peer /\ net'[d].ans = <<>>
        /\ Main(net') = Main(net) /\ Temp(net') = Temp(net)
        /\ Peer(lib', net') = p /\ (Asked(lib', net') <=> p # None)
        /\ ~ Agreed(lib', net')
    BY <1>1, Asking
  <1>3. p = Peer(lib, net) /\ (c = "main" => p = Main(net))
    BY <1>1 DEF Still, Peer, Main
  <1>4. p # None => p \in CID
    <2>1. p # New
      BY <1>3 DEF Still, Peer
    <2>2. net \in [Conn -> Connection]
      BY DEF Talking
    <2>3. net[c].peer \in CID \cup {None, New}
      BY <2>2 DEF Connection
    <2> QED BY <1>3, <2>1, <2>3 DEF Peer
  <1> HIDE DEF p
  <1>5. Stage(lib', net') = IF at = "kick" THEN IF p # None THEN "doubt" ELSE "none"
                            ELSE IF p # None THEN "made" ELSE "doubt"
    BY <1>2 DEF Stage, StageOf, Given
  <1>6. Cur(lib', net') = Cur(lib, net) /\ ~ Leaving(lib') /\ Lent(lib') = {}
    BY <1>2 DEF Cur, Leaving, Lent
  <1>7. Flows(lib, net, lib', net', sfh, sfh')
    <2>1. CASE at # "kick"
      BY <1>2, <1>3, <1>5, <1>6, <2>1 DEF Flows
    <2>2. CASE at = "kick" /\ p # None
      BY <1>2, <1>3, <1>5, <1>6, <2>2 DEF Flows
    <2>3. CASE at = "kick" /\ p = None
      BY <1>3, <1>5, <2>3, NewIsNoClient DEF Flows
    <2> QED BY <2>1, <2>2, <2>3
  <1>8. Main(net) \in CID => Mine(lib, net) \subseteq Mine(lib', net')
    <2>1. CASE c = "temp"
      BY <2>1 DEF Mine, Lent
    <2>2. CASE c = "main" /\ Main(net) \in CID
      <3>1. p # None
        BY <1>3, <2>2, NewIsNoClient
      <3>2. Mine(lib', net') = {Cur(lib, net)}
        BY <1>2, <1>5, <1>6, <2>2, <3>1 DEF Mine
      <3> QED BY <3>2 DEF Mine
    <2> QED BY <2>1, <2>2 DEF Conn
  <1>9. Temp(net) \in CID => Room(lib, net) \subseteq Room(lib', net')
    <2>1. CASE c = "main"
      BY <1>2, <2>1, RoomType DEF Room
    <2>2. CASE c = "temp"
      <3>1. Room(lib', net') = {Cur(lib, net)}
        BY <1>2, <1>5, <1>6, <2>2 DEF Room
      <3>2. Room(lib, net) \subseteq {Cur(lib, net)} \/ lib.at \notin {"identify", "auth", "new_stream", "exec"}
        BY <2>2 DEF Room
      <3>3. lib.at \in {"identify", "auth", "new_stream", "exec"}
        <4>1. Stage(lib, net) = "made" /\ lib.con = "temp"
          BY <2>2
        <4>2. Placed(lib)
          BY DEF Talking
        <4> QED BY <4>1, <4>2 DEF Stage, StageOf, Given, Placed
      <3> QED BY <3>1, <3>2, <3>3
    <2> QED BY <2>1, <2>2 DEF Conn
  <1>10. Stays(lib, net, lib', net')
    BY <1>2, <1>6, <1>8, <1>9 DEF Stays
  <1>11. Control(lib', net')
    <2>1. \A d \in Conn : net'[d].peer # New
      BY <1>2 DEF Still
    <2> QED BY <1>2, <1>6, <2>1 DEF Control, Conn
  <1> QED BY <1>2, <1>7, <1>10, <1>11 DEF Onward, HighPlace

\* NEW_STREAM is answered.
LEMMA StreamConnectMoves ==
    ASSUME Talking(lib, net), Control(lib, net), lib.at \in Waits, NEW a, Received(lib.con, a),
           roar_stream_connect(a)
    PROVE  Onward
  <1> DEFINE n == Taken(lib.con)
             l == [lib EXCEPT !.id = a.arg]
  <1>1. Still(n) /\ lib \in LibState /\ lib.con \in Conn /\ (Agreed(lib, net) <=> a.cmd = OK)
        /\ (Agreed(lib, net) => a = Head(net[lib.con].ans))
    BY ReadStill, HasRead
  <1>2. lib.at = "new_stream" /\ sfh' = sfh
    BY DEF roar_stream_connect
  <1>3. ~ lib.flag /\ Lent(lib) = {}
    BY <1>2 DEF Control, Leaving, Lent
  <1>4. CASE a.cmd # OK
    <2>1. /\ ~ lib.flag /\ Stage(lib, net) = "none" /\ Mine(lib, net) = {}
      BY <1>1, <1>2, <1>4, NoStreamYet
    <2>2. CASE lib.con = "temp" /\ roar_disconnect(n, "temp")
      BY <1>1, <1>2, <2>1, <2>2, QuitTempMoves
    <2>3. CASE Fail(n)
      <3>1. net' = n /\ lib' = [lib EXCEPT !.at = "connected", !.fh = "none"]
        BY <2>3 DEF Fail
      <3>2. lib'.at = "connected" /\ ~ lib'.flag
        BY <1>1, <2>1, <3>1 DEF LibState
      <3> QED BY <1>1, <2>1, <3>1, <3>2, EndMoves
    <2> QED BY <1>4, <2>2, <2>3 DEF roar_stream_connect
  <1>5. CASE a.cmd = OK
    <2>1. Agreed(lib, net) /\ Stage(lib, net) = "made" /\ Cur(lib, net) = a.arg
      BY <1>1, <1>2, <1>5 DEF Stage, StageOf, Given, Cur
    <2>2. a.arg \in SID
      <3>1. a \in Answer /\ Fits(lib, a)
        BY <1>5, TakenLeaves DEF EOF, OK
      <3> QED BY <1>2, <1>5, <3>1 DEF Fits
    <2>3. l \in LibState /\ ~ l.flag /\ l.id = a.arg
      BY <1>1, <1>3, <2>2 DEF LibState
    <2>4. lib.con = "main" => HighPlace(lib, net)
      BY <1>2, <2>1 DEF HighPlace
    <2>5. ASSUME NEW k \in LibState, k.flag = l.flag, k.id = l.id, NEW at, NEW cmd, NEW c \in Conn,
                 c = lib.con, Ask(n, k, c, at, cmd, a.arg),
                 \/ c = "main" /\ at \in {"passfh", "select"} /\ (at = "select" => ~ k.backlog)
                 \/ c = "temp" /\ at = "exec"
                 \/ c = "main" /\ at = "kick" /\ k.then # "close"
          PROVE  Onward
      <3> HIDE DEF n, l
      <3> QED BY <1>1, <1>2, <1>3, <2>1, <2>3, <2>4, <2>5, StreamMoves
    <2>6. \/ lib.con = "temp" /\ Ask(n, l, "temp", "exec", "EXEC_STREAM", a.arg)
          \/ lib.con = "main" /\ Ask(n, l, "main", "passfh", "PASSFH", a.arg)
          \/ lib.con = "main" /\ Ask(n, [l EXCEPT !.then = "fail"], "main", "kick", "KICK", a.arg)
          \/ lib.con = "main" /\ Ask(n, [l EXCEPT !.backlog = FALSE], "main", "select", "CON_STREAM", a.arg)
      BY <1>5 DEF roar_stream_connect
    <2>7. /\ [l EXCEPT !.then = "fail"] \in LibState /\ [l EXCEPT !.then = "fail"].flag = l.flag
          /\ [l EXCEPT !.then = "fail"].id = l.id /\ [l EXCEPT !.then = "fail"].then # "close"
          /\ [l EXCEPT !.backlog = FALSE] \in LibState /\ [l EXCEPT !.backlog = FALSE].flag = l.flag
          /\ [l EXCEPT !.backlog = FALSE].id = l.id /\ ~ [l EXCEPT !.backlog = FALSE].backlog
      <3> HIDE DEF l
      <3> QED BY <2>3 DEF LibState
    <2>8. CASE lib.con = "temp" /\ Ask(n, l, "temp", "exec", "EXEC_STREAM", a.arg)
      <3> HIDE DEF n, l
      <3> QED BY <2>3, <2>5, <2>8 DEF Conn
    <2>9. CASE lib.con = "main" /\ Ask(n, l, "main", "passfh", "PASSFH", a.arg)
      <3> HIDE DEF n, l
      <3> QED BY <2>3, <2>5, <2>9 DEF Conn
    <2>10. CASE lib.con = "main" /\ Ask(n, [l EXCEPT !.then = "fail"], "main", "kick", "KICK", a.arg)
      <3> DEFINE k == [l EXCEPT !.then = "fail"]
      <3>1. k \in LibState /\ k.flag = l.flag /\ k.id = l.id /\ k.then # "close"
        BY <2>7
      <3>2. Ask(n, k, "main", "kick", "KICK", a.arg)
        BY <2>10
      <3> HIDE DEF n, l, k
      <3> QED BY <2>5, <2>10, <3>1, <3>2 DEF Conn
    <2>11. CASE lib.con = "main" /\ Ask(n, [l EXCEPT !.backlog = FALSE], "main", "select", "CON_STREAM", a.arg)
      <3> DEFINE k == [l EXCEPT !.backlog = FALSE]
      <3>1. k \in LibState /\ k.flag = l.flag /\ k.id = l.id /\ ~ k.backlog
        BY <2>7
      <3>2. Ask(n, k, "main", "select", "CON_STREAM", a.arg)
        BY <2>11
      <3> HIDE DEF n, l, k
      <3> QED BY <2>5, <2>11, <3>1, <3>2 DEF Conn
    <2> QED BY <2>6, <2>8, <2>9, <2>10, <2>11
  <1> QED BY <1>4, <1>5

\* GET_STREAM_PARA for a stream that is handed over.
LEMMA SucceedMoves ==
    ASSUME NEW n, Still(n), Talking(lib, net), Control(lib, net), NEW fh \in {"data", "temp"},
           Succeed(n, fh), lib.con = "main", Stage(lib, net) = "handed", Cur(lib, net) = lib.id,
           ~ lib.flag, sfh' = sfh
    PROVE  Onward
  <1> DEFINE l == [lib EXCEPT !.fh = fh]
  <1>1. Quiet(n) /\ Main(n) = Main(net) /\ Temp(n) = Temp(net) /\ Main(net) # New /\ Temp(net) # New
    BY StillPeers
  <1>2. l \in LibState /\ l.flag = lib.flag /\ l.id = lib.id
    BY DEF Talking, LibState
  <1>3. Ask(n, l, "main", "info", "GET_STREAM_PARA", lib.id)
    BY DEF Succeed
  <1> HIDE DEF l
  <1>4. /\ lib'.at = "info" /\ lib'.con = "main" /\ lib'.flag = lib.flag /\ lib'.id = lib.id
        /\ \A d \in Conn : net'[d].peer = n[d].peer /\ net'[d].ans = <<>>
        /\ Main(net') = Main(net) /\ Temp(net') = Temp(net)
    BY <1>1, <1>2, <1>3, Asking DEF Conn
  <1>5. Stage(lib', net') = "handed" /\ Cur(lib', net') = lib.id /\ ~ Leaving(lib')
        /\ Lent(lib') = {lib.id} /\ Mine(lib', net') = {lib.id} /\ Room(lib', net') = SID
    BY <1>4 DEF Stage, StageOf, Cur, Leaving, Lent, Mine, Room
  <1>6. Lent(lib) \subseteq {lib.id} /\ Mine(lib, net) \subseteq {lib.id}
    BY DEF Lent, Mine
  <1>7. Stays(lib, net, lib', net')
    BY <1>4, <1>5, <1>6, RoomType DEF Stays
  <1>8. Control(lib', net')
    <2>1. \A d \in Conn : net'[d].peer # New
      BY <1>4 DEF Still
    <2> QED BY <1>4, <1>5, <2>1 DEF Control, Conn
  <1> QED BY <1>4, <1>5, <1>7, <1>8 DEF Onward, Flows, HighPlace

\* A stream that could not be connected is kicked.
LEMMA KickMoves ==
    ASSUME NEW n, Still(n), Talking(lib, net), Control(lib, net), NEW then \in {"fail", "fallback"},
           Ask(n, [lib EXCEPT !.then = then], "main", "kick", "KICK", lib.id),
           lib.at \in {"passfh", "con_stream"}, Stage(lib, net) = "doubt", sfh' = sfh
    PROVE  Onward
  <1> DEFINE l == [lib EXCEPT !.then = then]
  <1>1. lib.con = "main" /\ HighPlace(lib, net) /\ ~ lib.flag /\ Lent(lib) = {}
    BY DEF Talking, Placed, HighPlace, Control, Leaving, Lent
  <1>2. l \in LibState /\ l.flag = lib.flag /\ l.id = Cur(lib, net) /\ l.then # "close"
    BY DEF Talking, LibState, Cur
  <1>3. Ask(n, l, "main", "kick", "KICK", lib.id)
    OBVIOUS
  <1> HIDE DEF l
  <1> QED BY <1>1, <1>2, <1>3, StreamMoves DEF Conn

\* PASSFH is answered.
LEMMA PassfhMoves ==
    ASSUME Talking(lib, net), Control(lib, net), lib.at \in Waits, NEW a, Received(lib.con, a),
           roar_stream_passfh(a)
    PROVE  Onward
  <1>1. lib.at = "passfh" /\ lib.con = "main" /\ sfh' = sfh
    BY HasRead DEF roar_stream_passfh, Placed
  <1>2. Still(Taken("main")) /\ ~ Asked(lib, net) /\ (Agreed(lib, net) <=> a.cmd = OK)
    BY <1>1, ReadStill, HasRead
  <1>3. Stage(lib, net) = (IF a.cmd = OK THEN "handed" ELSE "doubt") /\ Cur(lib, net) = lib.id
    BY <1>1, <1>2 DEF Stage, StageOf, Given, Cur
  <1>4. ~ lib.flag
    BY <1>1 DEF Control, Leaving
  <1>5. CASE a.cmd = OK
    BY <1>1, <1>2, <1>3, <1>4, <1>5, SucceedMoves DEF roar_stream_passfh
  <1>6. CASE a.cmd # OK
    BY <1>1, <1>2, <1>3, <1>6, KickMoves DEF roar_stream_passfh
  <1> QED BY <1>5, <1>6

\* The library goes back to the program without a stream.
LEMMA FailMoves ==
    ASSUME NEW n, Still(n), Talking(lib, net), Fail(n), ~ lib.flag,
           \/ Stage(lib, net) = "none"
           \/ Stage(lib, net) \in {"made", "doubt"} /\ Peer(lib, net) \notin CID
           \/ Stage(lib, net) \in {"handed", "closing"} /\ sfh' = HungUp(sfh),
           Mine(lib, net) = {} \/ Main(net) \notin CID
    PROVE  Onward
  <1>1. net' = n /\ lib' = [lib EXCEPT !.at = "connected", !.fh = "none"]
    BY DEF Fail
  <1>2. lib'.at = "connected" /\ ~ lib'.flag
    BY <1>1 DEF Talking, LibState
  <1> QED BY <1>1, <1>2, EndMoves

\* The answer to CON_STREAM is read.
LEMMA ConStreamMoves ==
    ASSUME Talking(lib, net), Control(lib, net), lib.at \in Waits, NEW a, Received(lib.con, a),
           ConStreamAnswered(a)
    PROVE  Onward
  <1>1. lib.at = "con_stream" /\ lib.con = "main"
    BY HasRead DEF ConStreamAnswered, Placed
  <1>2. Still(Taken("main")) /\ ~ Asked(lib, net) /\ (Agreed(lib, net) <=> a.cmd = OK)
        /\ (a = EOF => Peer(lib, net) = None)
    BY <1>1, ReadStill, HasRead
  <1>3. Stage(lib, net) = (IF a.cmd = OK /\ ~ lib.timeout THEN "handed" ELSE "doubt")
        /\ Cur(lib, net) = lib.id /\ Peer(lib, net) = Main(net)
    BY <1>1, <1>2 DEF Stage, StageOf, Given, Cur, Peer, Main
  <1>4. ~ lib.flag
    BY <1>1 DEF Control, Leaving
  <1>5. CASE lib.timeout /\ a = EOF
    <2>1. Fail(Taken("main"))
      BY <1>5 DEF ConStreamAnswered
    <2> QED BY <1>2, <1>3, <1>4, <1>5, <2>1, FailMoves, NewIsNoClient
  <1>6. CASE lib.timeout /\ a # EOF
    <2>1. sfh' = sfh /\ Ask(Taken("main"), [lib EXCEPT !.then = "fallback"], "main", "kick", "KICK", lib.id)
      BY <1>6 DEF ConStreamAnswered
    <2> QED BY <1>1, <1>2, <1>3, <1>6, <2>1, KickMoves
  <1>7. CASE ~ lib.timeout /\ a.cmd = OK
    <2>1. sfh' = sfh /\ Succeed(Taken("main"), "data")
      BY <1>7 DEF ConStreamAnswered
    <2> QED BY <1>1, <1>2, <1>3, <1>4, <1>7, <2>1, SucceedMoves
  <1>8. CASE ~ lib.timeout /\ a.cmd # OK
    <2>1. Fail(Taken("main"))
      BY <1>8 DEF ConStreamAnswered
    <2>2. Main(net) = None
      BY <1>1, <1>2, <1>8 DEF Control
    <2> QED BY <1>2, <1>3, <1>4, <1>8, <2>1, <2>2, FailMoves, NewIsNoClient
  <1> QED BY <1>5, <1>6, <1>7, <1>8

\* select() returns.
LEMMA SelectMoves ==
    ASSUME Talking(lib, net), Control(lib, net), Accepted \/ TimedOut
    PROVE  Onward /\ (sfh' = sfh \/ sfh' = HungUp(sfh))
  <1>1. lib.at = "select" /\ lib.con = "main" /\ net' = net /\ lib \in LibState
    BY DEF Accepted, TimedOut, Talking, Placed
  <1>2. /\ lib'.at = "con_stream" /\ lib'.con = "main" /\ lib'.id = lib.id /\ lib'.flag = lib.flag
        /\ \/ ~ lib'.timeout /\ lib.backlog /\ sfh' = sfh
           \/ lib'.timeout /\ sfh' = HungUp(sfh)
    BY <1>1, ZenonT(60) DEF Accepted, TimedOut, LibState, Hung, HungUp
  <1>3. (Asked(lib', net') <=> Asked(lib, net)) /\ (Agreed(lib', net') <=> Agreed(lib, net))
        /\ Peer(lib', net') = Peer(lib, net) /\ Main(net') = Main(net) /\ Temp(net') = Temp(net)
    BY <1>1, <1>2 DEF Asked, Agreed, Peer
  <1>4. /\ Stage(lib, net) = Given(Asked(lib, net), Agreed(lib, net), "made", "handed", "doubt")
        /\ Stage(lib', net') =
             Given(Asked(lib, net), Agreed(lib, net) /\ ~ lib'.timeout, "made", "handed", "doubt")
    BY <1>1, <1>2, <1>3 DEF Stage, StageOf, Given
  <1>5. Cur(lib', net') = lib.id /\ Cur(lib, net) = lib.id /\ ~ Leaving(lib') /\ ~ Leaving(lib)
    BY <1>1, <1>2 DEF Cur, Leaving
  <1>6. /\ Lent(lib) = {} /\ Lent(lib') = {} /\ Mine(lib, net) = {lib.id} /\ Mine(lib', net') = {lib.id}
        /\ Room(lib', net') = SID
    BY <1>1, <1>2, <1>4, <1>5 DEF Lent, Mine, Room, Given
  <1>7. Stays(lib, net, lib', net')
    BY <1>3, <1>6, RoomType DEF Stays
  <1>8. Flows(lib, net, lib', net', sfh, sfh')
    BY <1>2, <1>3, <1>4, <1>5 DEF Flows, Given
  <1>9. Control(lib', net')
    <2>1. \A c \in Conn : net'[c].peer # New
      BY <1>1 DEF Control
    <2>2. ~ lib'.timeout => Agreed(lib', net') \/ Main(net') = None
      BY <1>1, <1>2, <1>3 DEF Control
    <2>3. ~ lib'.flag
      BY <1>1, <1>2, <1>5 DEF Control
    <2> QED BY <1>2, <2>1, <2>2, <2>3 DEF Control
  <1>10. HighPlace(lib, net)
    BY <1>1 DEF HighPlace
  <1> QED BY <1>2, <1>3, <1>7, <1>8, <1>9, <1>10 DEF Onward

\* EXEC_STREAM is answered.
LEMMA ExecMoves ==
    ASSUME Talking(lib, net), Control(lib, net), lib.at \in Waits, NEW a, Received(lib.con, a),
           roar_stream_exec(a)
    PROVE  Onward
  <1>1. lib.at = "exec" /\ lib.con = "temp" /\ sfh' = sfh /\ lib \in LibState
    BY HasRead DEF roar_stream_exec, Placed
  <1>2. Still(Taken("temp")) /\ ~ Asked(lib, net) /\ (Agreed(lib, net) <=> a.cmd = OK)
    BY <1>1, ReadStill, HasRead
  <1>3. Stage(lib, net) = (IF a.cmd = OK THEN "execed" ELSE "doubt") /\ Cur(lib, net) = lib.id
    BY <1>1, <1>2 DEF Stage, StageOf, Given, Cur
  <1>4. ~ lib.flag /\ Lent(lib) = {} /\ Mine(lib, net) = {}
    BY <1>1 DEF Control, Leaving, Lent, Mine
  <1>5. CASE a.cmd = OK
    <2> DEFINE n == Taken("temp")
    <2>1. Ask(n, lib, "main", "whoami", "WHOAMI", None)
      BY <1>5 DEF roar_stream_exec
    <2>2. Quiet(n) /\ Main(n) = Main(net) /\ Temp(n) = Temp(net) /\ Main(net) # New /\ Temp(net) # New
      BY <1>2, StillPeers
    <2> HIDE DEF n
    <2>3. /\ lib'.at = "whoami" /\ lib'.con = "main" /\ lib'.flag = lib.flag /\ lib'.id = lib.id
          /\ \A d \in Conn : net'[d].peer = n[d].peer /\ net'[d].ans = <<>>
          /\ Main(net') = Main(net) /\ Temp(net') = Temp(net)
      BY <1>1, <2>1, <2>2, Asking DEF Conn
    <2>4. Stage(lib', net') = "execed" /\ Cur(lib', net') = lib.id /\ ~ Leaving(lib')
          /\ Room(lib', net') = SID
      BY <2>3 DEF Stage, StageOf, Cur, Leaving, Room
    <2>5. Stays(lib, net, lib', net')
      BY <1>4, <2>3, <2>4, RoomType DEF Stays
    <2>6. Control(lib', net')
      <3>1. \A d \in Conn : net'[d].peer # New
        BY <1>2, <2>3 DEF Still, n
      <3> QED BY <1>4, <2>3, <2>4, <3>1 DEF Control, Conn
    <2> QED BY <1>1, <1>3, <1>5, <2>3, <2>4, <2>5, <2>6 DEF Onward, Flows, HighPlace
  <1>6. CASE a.cmd # OK
    <2>1. roar_disconnect(Taken("temp"), "temp")
      BY <1>6 DEF roar_stream_exec
    <2> QED BY <1>1, <1>2, <1>3, <1>4, <1>6, <2>1, QuitTempMoves
  <1> QED BY <1>5, <1>6

\* WHOAMI is answered.
LEMMA WhoamiMoves ==
    ASSUME Talking(lib, net), Control(lib, net), lib.at \in Waits, NEW a, Received(lib.con, a),
           roar_get_clientid(a)
    PROVE  Onward
  <1> DEFINE n == Taken("main")
  <1>1. lib.at = "whoami" /\ lib.con = "main" /\ sfh' = sfh /\ lib \in LibState
    BY HasRead DEF roar_get_clientid, Placed
  <1>2. Still(n)
    BY <1>1, ReadStill
  <1>3. Stage(lib, net) = "execed" /\ Cur(lib, net) = lib.id
    BY <1>1 DEF Stage, StageOf, Cur
  <1>4. ~ lib.flag /\ Lent(lib) = {} /\ Mine(lib, net) = {}
    BY <1>1, <1>3 DEF Control, Leaving, Lent, Mine
  <1>5. Ask(n, lib, "main", "attach", "ATTACH", [stream |-> lib.id, client |-> a.arg])
    BY DEF roar_get_clientid
  <1>6. Quiet(n) /\ Main(n) = Main(net) /\ Temp(n) = Temp(net) /\ Main(net) # New /\ Temp(net) # New
    BY <1>2, StillPeers
  <1>7. Main(net) # None => a.arg = Main(net)
    <2>1. Main(net) # None => Main(net) \in CID
      <3>1. net \in [Conn -> Connection]
        BY DEF Talking
      <3>2. net["main"].peer \in CID \cup {None, New}
        BY <3>1 DEF Connection, Conn
      <3> QED BY <1>6, <3>2 DEF Main
    <2>2. a = EOF => Main(net) = None
      BY <1>1, HasRead DEF Peer, Main
    <2>3. a # EOF => net["main"].ans # <<>> /\ a = Head(net["main"].ans)
      BY <1>1, HasRead
    <2> QED BY <1>1, <2>1, <2>2, <2>3 DEF Control
  <1> HIDE DEF n
  <1>8. /\ lib'.at = "attach" /\ lib'.con = "main" /\ lib'.flag = lib.flag /\ lib'.id = lib.id
        /\ \A d \in Conn : net'[d].peer = n[d].peer /\ net'[d].ans = <<>>
        /\ Main(net') = Main(net) /\ Temp(net') = Temp(net)
        /\ (Asked(lib', net') <=> n["main"].peer # None) /\ ~ Agreed(lib', net')
        /\ n["main"].peer # None =>
             Head(net'["main"].req).arg = [stream |-> lib.id, client |-> a.arg]
    BY <1>1, <1>5, <1>6, Asking DEF Conn
  <1>9. n["main"].peer = Main(net)
    BY <1>6 DEF Main
  <1>10. Stage(lib', net') \in {"execed", "closing"} /\ Cur(lib', net') = lib.id /\ ~ Leaving(lib')
         /\ Room(lib', net') = SID
    BY <1>8 DEF Stage, StageOf, Given, Cur, Leaving, Room
  <1>11. Stays(lib, net, lib', net')
    BY <1>4, <1>8, <1>10, RoomType DEF Stays
  <1>12. Asked(lib', net') => Head(net'["main"].req).arg.client = Main(net')
    BY <1>7, <1>8, <1>9
  <1>13. Control(lib', net')
    <2>1. \A d \in Conn : net'[d].peer # New
      BY <1>2, <1>8 DEF Still, n
    <2> QED BY <1>4, <1>8, <1>10, <1>12, <2>1 DEF Control, Conn
  <1> QED BY <1>1, <1>3, <1>8, <1>10, <1>11, <1>13 DEF Onward, Flows, HighPlace

\* A closed end of a connection changes no client.
LEMMA ClosedStill ==
    ASSUME NEW n, Still(n), NEW c \in Conn
    PROVE  Still([n EXCEPT ![c].open = FALSE]) /\ Still(CloseHandle(n))
  <1>1. ASSUME NEW d \in Conn PROVE Still([n EXCEPT ![d].open = FALSE])
    <2> DEFINE k == [n[d] EXCEPT !.open = FALSE]
               m == [n EXCEPT ![d] = k]
    <2>1. n \in [Conn -> Connection] /\ n[d] \in Connection
      BY DEF Still, Quiet
    <2>2. Quiet(m)
      BY CloseLeaves DEF Still
    <2>3. k.peer = n[d].peer
      BY <2>1 DEF Connection
    <2> HIDE DEF k
    <2>4. \A e \in Conn : m[e].peer = n[e].peer
      BY <2>1, <2>3
    <2> HIDE DEF m
    <2>5. Still(m)
      BY <2>2, <2>4 DEF Still
    <2> QED BY <2>5 DEF m, k
  <1>2. Still(CloseHandle(n))
    BY <1>1 DEF CloseHandle, Conn
  <1> QED BY <1>1, <1>2

\* ATTACH is answered.
LEMMA AttachMoves ==
    ASSUME Talking(lib, net), Control(lib, net), lib.at \in Waits, NEW a, Received(lib.con, a),
           roar_stream_attach_simple(a)
    PROVE  Onward
  <1> DEFINE n == Taken("main")
             m == [n EXCEPT !["temp"].open = FALSE]
  <1>1. lib.at = "attach" /\ lib.con = "main" /\ lib \in LibState
    BY HasRead DEF roar_stream_attach_simple, Placed
  <1>2. Still(n) /\ ~ Asked(lib, net) /\ (Agreed(lib, net) <=> a.cmd = OK)
    BY <1>1, ReadStill, HasRead
  <1>3. Stage(lib, net) = (IF a.cmd = OK THEN "handed" ELSE "closing") /\ Cur(lib, net) = lib.id
    BY <1>1, <1>2 DEF Stage, StageOf, Given, Cur
  <1>4. ~ lib.flag
    BY <1>1 DEF Control, Leaving
  <1>5. CASE a.cmd = OK
    <2>1. Succeed(n, "temp") /\ sfh' = sfh
      BY <1>5 DEF roar_stream_attach_simple
    <2> QED BY <1>1, <1>2, <1>3, <1>4, <1>5, <2>1, SucceedMoves
  <1>6. CASE a.cmd # OK
    <2>1. Fail(m) /\ sfh' = HungUp(sfh)
      BY <1>6 DEF roar_stream_attach_simple, Hung, HungUp
    <2>2. Still(m)
      BY <1>2, ClosedStill DEF Conn
    <2>3. Mine(lib, net) = {}
      BY <1>1, <1>3, <1>6 DEF Mine, Leaving
    <2> HIDE DEF m
    <2> QED BY <1>3, <1>4, <1>6, <2>1, <2>2, <2>3, FailMoves
  <1> QED BY <1>5, <1>6

\* GET_STREAM_PARA is answered: the object has its stream.
LEMMA InfoMoves ==
    ASSUME Talking(lib, net), Control(lib, net), lib.at \in Waits, NEW a, Received(lib.con, a),
           roar_stream_get_info(a)
    PROVE  Onward
  <1> DEFINE n == Taken("main")
  <1>1. lib.at = "info" /\ lib.con = "main" /\ sfh' = sfh /\ lib \in LibState /\ net' = n
    BY HasRead DEF roar_stream_get_info, Placed
  <1>2. Still(n)
    BY <1>1, ReadStill
  <1>3. Quiet(n) /\ Main(n) = Main(net) /\ Temp(n) = Temp(net)
    BY <1>2, StillPeers
  <1>4. lib'.at = "stream" /\ lib'.con = "main" /\ lib'.flag /\ lib'.id = lib.id
    BY <1>1 DEF roar_stream_get_info, LibState
  <1> HIDE DEF n
  <1>5. /\ Stage(lib, net) = "handed" /\ Stage(lib', net') = "handed"
        /\ Cur(lib, net) = lib.id /\ Cur(lib', net') = lib.id
        /\ Lent(lib) = {lib.id} /\ Lent(lib') = {lib.id} /\ Room(lib', net') = SID
    BY <1>1, <1>4 DEF Stage, StageOf, Cur, Lent, Room
  <1>6. Mine(lib, net) = {lib.id} /\ Mine(lib', net') = {lib.id}
    BY <1>1, <1>4, <1>5 DEF Mine
  <1>7. Stays(lib, net, lib', net')
    BY <1>1, <1>3, <1>5, <1>6, RoomType DEF Stays
  <1>8. Control(lib', net')
    <2>1. \A d \in Conn : net'[d].peer # New
      BY <1>1, <1>2 DEF Still
    <2> QED BY <1>4, <2>1 DEF Control
  <1> QED BY <1>1, <1>4, <1>5, <1>7, <1>8 DEF Onward, Flows, HighPlace

\* KICK is answered.
LEMMA KickedMoves ==
    ASSUME Talking(lib, net), Control(lib, net), lib.at \in Waits, NEW a, Received(lib.con, a),
           roar_kick(a)
    PROVE  Onward
  <1> DEFINE n == Taken("main")
  <1>1. lib.at = "kick" /\ lib.con = "main" /\ lib \in LibState
    BY HasRead DEF roar_kick, Placed
  <1>2. Still(n) /\ ~ Asked(lib, net)
    BY <1>1, ReadStill, HasRead
  <1>3. Stage(lib, net) = (IF lib.then = "close" THEN "closing" ELSE "none") /\ Cur(lib, net) = lib.id
    BY <1>1, <1>2 DEF Stage, StageOf, Given, Cur
  <1>4. CASE lib.then = "close"
    <2>1. sfh' = HungUp(sfh) /\ roar_disconnect(CloseHandle(n), "main")
      BY <1>4 DEF roar_kick, Hung, HungUp
    <2>2. Still(CloseHandle(n))
      BY <1>2, ClosedStill DEF Conn
    <2>3. Lent(lib) \subseteq {lib.id} /\ Mine(lib, net) \subseteq {lib.id}
      BY <1>3 DEF Lent, Mine
    <2> HIDE DEF n
    <2> QED BY <1>1, <1>3, <1>4, <2>1, <2>2, <2>3, LeaveMoves
  <1>5. CASE lib.then # "close"
    <2>1. ~ lib.flag /\ Mine(lib, net) = {}
      BY <1>1, <1>3, <1>5 DEF Control, Leaving, Mine
    <2>2. Connect(n, lib, "temp") \/ Fail(n)
      BY <1>5 DEF roar_kick, AttachExeced
    <2>3. CASE Fail(n)
      BY <1>2, <1>3, <1>5, <2>1, <2>3, FailMoves
    <2>4. CASE Connect(n, lib, "temp")
      <3> HIDE DEF n
      <3> QED BY <1>1, <1>2, <1>3, <1>5, <2>1, <2>4, ConnectMoves DEF Conn
    <2> QED BY <2>2, <2>3, <2>4
  <1> QED BY <1>4, <1>5

\* The connection ends after QUIT.
LEMMA QuittedMoves ==
    ASSUME Talking(lib, net), Control(lib, net), lib.at \in Waits, NEW a, Received(lib.con, a),
           Quitted(a)
    PROVE  Onward
  <1> DEFINE n == Taken(lib.con)
             m == [n EXCEPT ![lib.con].open = FALSE]
  <1>1. lib.at = "quit" /\ lib \in LibState /\ lib.con \in Conn
    BY HasRead DEF Quitted
  <1>2. Still(n) /\ Still(m)
    BY <1>1, ReadStill, ClosedStill
  <1>3. Peer(lib, net) = None
    BY <1>1, HasRead DEF Control
  <1>4. CASE lib.con = "temp" /\ Fail(m)
    <2>1. Stage(lib, net) = "doubt" /\ Mine(lib, net) = {} /\ ~ lib.flag
      BY <1>1, <1>4 DEF Stage, StageOf, Mine, Leaving, Control
    <2> HIDE DEF m
    <2> QED BY <1>2, <1>3, <1>4, <2>1, FailMoves, NewIsNoClient
  <1>5. CASE lib.con = "main" /\ net' = m /\ lib' = Out(lib.type)
    <2> HIDE DEF m
    <2>1. Main(m) = Main(net) /\ Temp(m) = Temp(net) /\ Main(net) = None
      BY <1>2, <1>3, <1>5, StillPeers DEF Peer, Main
    <2>2. lib'.at = "out" /\ lib'.con = "main" /\ ~ lib'.flag
      BY <1>5 DEF Out
    <2>3. Stage(lib, net) = "none" /\ Stage(lib', net') = "none" /\ Room(lib', net') = SID
      BY <1>1, <1>5, <2>2 DEF Stage, StageOf, Room
    <2>4. Stays(lib, net, lib', net')
      BY <1>5, <2>1, <2>3, RoomType, NewIsNoClient DEF Stays
    <2>5. Control(lib', net')
      <3>1. \A d \in Conn : net'[d].peer # New
        BY <1>2, <1>5 DEF Still
      <3> QED BY <1>5, <2>1, <2>2, <3>1 DEF Control
    <2> QED BY <2>2, <2>3, <2>4, <2>5 DEF Onward, Flows, HighPlace
  <1> QED BY <1>4, <1>5 DEF Quitted

\* The library reads an answer.
LEMMA AnsweredMoves ==
    ASSUME Talking(lib, net), Control(lib, net), Answered
    PROVE  Onward /\ (sfh' = sfh \/ sfh' = HungUp(sfh))
  <1>1. PICK a : /\ lib.at \in Waits
                 /\ Received(lib.con, a)
                 /\ \/ roar_identify(a) \/ roar_auth(a) \/ roar_stream_connect(a)
                    \/ roar_stream_passfh(a) \/ ConStreamAnswered(a)
                    \/ roar_stream_exec(a) \/ roar_get_clientid(a) \/ roar_stream_attach_simple(a)
                    \/ roar_stream_get_info(a) \/ roar_kick(a) \/ Quitted(a)
    BY DEF Answered
  <1>2. Hung = HungUp(sfh)
    BY DEF Hung, HungUp
  <1>3. sfh' = sfh \/ sfh' = HungUp(sfh)
    BY <1>2, AnsweredLeaves
  <1> QED BY <1>1, <1>3, IdentifyMoves, AuthMoves, StreamConnectMoves, PassfhMoves, ConStreamMoves,
             ExecMoves, WhoamiMoves, AttachMoves, InfoMoves, KickedMoves, QuittedMoves

\* Between two calls nothing is on the way and no connection is new.
LEMMA IdleStill ==
    ASSUME Talking(lib, net), Control(lib, net), lib.at \in Idle
    PROVE  Still(net) /\ lib \in LibState
BY DEF Talking, Talk, Still, Quiet, Control, Idle

\* The program calls the library.
LEMMA CallMoves ==
    ASSUME Talking(lib, net), Control(lib, net),
           (\E type \in Types : roar_vs_new(type)) \/ roar_vs_stream
               \/ \E killit \in BOOLEAN : roar_vs_close(killit)
    PROVE  Onward /\ (sfh' = sfh \/ sfh' = HungUp(sfh))
  <1>1. Hung = HungUp(sfh)
    BY DEF Hung, HungUp
  <1>2. CASE \E type \in Types : roar_vs_new(type)
    <2>1. PICK type \in Types : roar_vs_new(type)
      BY <1>2
    <2>2. lib.at = "out" /\ Connect(net, Out(type), "main") /\ sfh' = sfh
      BY <2>1 DEF roar_vs_new
    <2>3. Still(net) /\ Main(net) \notin CID
      BY <2>2, IdleStill, NewIsNoClient DEF Idle, Control
    <2>4. Out(type) \in LibState /\ ~ Out(type).flag
      BY <2>1, OutSane DEF Sane, Out
    <2>5. Stage(lib, net) = "none"
      BY <2>2 DEF Stage, StageOf
    <2> QED BY <2>2, <2>3, <2>4, <2>5, ConnectMoves DEF Conn
  <1>3. CASE roar_vs_stream
    <2>1. lib.at = "connected" /\ sfh' = sfh
      BY <1>3 DEF roar_vs_stream
    <2>2. Still(net) /\ lib \in LibState
      BY <2>1, IdleStill DEF Idle
    <2>3. /\ ~ lib.flag /\ Stage(lib, net) = "none" /\ Mine(lib, net) = {}
      BY <2>1, NoStreamYet
    <2>4. CASE Connect(net, lib, "temp")
      BY <2>1, <2>2, <2>3, <2>4, ConnectMoves DEF Conn
    <2>5. CASE Ask(net, lib, "main", "new_stream", "NEW_STREAM", None)
      BY <2>1, <2>2, <2>3, <2>5, PlainMoves DEF Conn
    <2> QED BY <1>3, <2>4, <2>5 DEF roar_vs_stream, AttachExeced
  <1>4. CASE \E killit \in BOOLEAN : roar_vs_close(killit)
    <2>1. PICK killit \in BOOLEAN : roar_vs_close(killit)
      BY <1>4
    <2>2. lib.at \in {"connected", "stream"} /\ Still(net) /\ lib \in LibState
      BY <2>1, IdleStill DEF roar_vs_close, Idle
    <2>3. Lent(lib) \subseteq {lib.id} /\ Mine(lib, net) \subseteq {lib.id}
      BY <2>2 DEF Lent, Mine, Cur
    <2>4. CASE ~ lib.flag
      <3>1. sfh' = sfh /\ roar_disconnect(net, "main")
        BY <2>1, <2>4 DEF roar_vs_close
      <3>2. Stage(lib, net) = "none"
        BY <2>2, <2>4 DEF Control, Stage, StageOf
      <3> QED BY <2>2, <2>3, <3>1, <3>2, LeaveMoves
    <2>5. CASE lib.flag
      <3>1. lib.at = "stream" /\ lib.con = "main"
        BY <2>2, <2>5 DEF Control, Leaving
      <3>2. Stage(lib, net) = "handed" /\ Cur(lib, net) = lib.id
        BY <3>1 DEF Stage, StageOf, Cur
      <3>3. CASE ~ killit
        <4>1. sfh' = HungUp(sfh) /\ roar_disconnect(CloseHandle(net), "main")
          BY <1>1, <2>1, <2>5, <3>3 DEF roar_vs_close
        <4>2. Still(CloseHandle(net))
          BY <2>2, ClosedStill DEF Conn
        <4> QED BY <2>2, <2>3, <3>2, <4>1, <4>2, LeaveMoves
      <3>4. CASE killit
        <4> DEFINE l == [lib EXCEPT !.then = "close"]
        <4>1. sfh' = sfh /\ Ask(net, l, "main", "kick", "KICK", lib.id)
          BY <2>1, <2>5, <3>4 DEF roar_vs_close
        <4>2. l \in LibState /\ l.flag = lib.flag /\ l.id = lib.id /\ l.then = "close"
          BY <2>2 DEF LibState
        <4>3. Quiet(net) /\ Main(net) # New /\ Temp(net) # New
          BY <2>2, StillPeers
        <4> HIDE DEF l
        <4>4. /\ lib'.at = "kick" /\ lib'.con = "main" /\ lib'.flag = lib.flag /\ lib'.id = lib.id
              /\ lib'.then = "close"
              /\ \A d \in Conn : net'[d].peer = net[d].peer /\ net'[d].ans = <<>>
              /\ Main(net') = Main(net) /\ Temp(net') = Temp(net)
          BY <4>1, <4>2, <4>3, Asking DEF Conn
        <4>5. Stage(lib', net') \in {"handed", "closing"} /\ Cur(lib', net') = lib.id /\ Leaving(lib')
              /\ Room(lib', net') = SID
          BY <4>4 DEF Stage, StageOf, Given, Cur, Leaving, Room
        <4>6. Lent(lib') = {lib.id} /\ Mine(lib', net') = {lib.id}
          BY <4>4, <4>5 DEF Lent, Mine
        <4>7. Stays(lib, net, lib', net')
          BY <2>3, <4>4, <4>5, <4>6, RoomType DEF Stays
        <4>8. Control(lib', net')
          <5>1. \A d \in Conn : net'[d].peer # New
            BY <2>2, <4>4 DEF Still
          <5> QED BY <4>4, <4>5, <5>1 DEF Control, Conn
        <4> QED BY <3>2, <4>1, <4>4, <4>5, <4>7, <4>8 DEF Onward, Flows, HighPlace
      <3> QED BY <3>3, <3>4
    <2> QED BY <2>4, <2>5
  <1> QED BY <1>2, <1>3, <1>4

\* The guard is kept by the library.
LEMMA LibraryGuarded ==
    ASSUME SessionInv, Guard,
           Library \/ (\E type \in Types : roar_vs_new(type)) \/ roar_vs_stream
               \/ \E killit \in BOOLEAN : roar_vs_close(killit)
    PROVE  Guard' /\ tab' = tab /\ acclev' = acclev /\ (sfh' = sfh \/ sfh' = HungUp(sfh))
  <1>1. Talking(lib, net) /\ sfh \in [SID -> Ends]
    BY DEF SessionInv
  <1>2. Holds(lib, net, tab, sfh, lost) /\ Control(lib, net) /\ Cleared(lib, net, acclev)
    BY DEF Guard
  <1>3. Onward /\ (sfh' = sfh \/ sfh' = HungUp(sfh))
    BY <1>1, <1>2, AnsweredMoves, SelectMoves, CallMoves DEF Library
  <1>4. tab' = tab /\ acclev' = acclev
    BY DEF Library, Answered, roar_vs_new, roar_vs_stream, roar_vs_close, server
  <1>5. lost' = lost \/ (Main(net) \notin CID /\ Stage(lib', net') \in {"none", "doubt"})
    <2>1. CASE \E type \in Types : roar_vs_new(type)
      <3>1. PICK type \in Types : roar_vs_new(type)
        BY <2>1
      <3>2. lib.at = "out" /\ lib'.at = "identify"
        <4>1. Out(type) \in LibState
          BY <3>1, OutSane DEF Sane
        <4>2. lib.at = "out" /\ lib' = [Out(type) EXCEPT !.at = "identify", !.con = "main"]
          BY <3>1, Zenon DEF roar_vs_new, Connect, Ask
        <4> QED BY <4>1, <4>2 DEF LibState
      <3>3. Main(net) \notin CID
        BY <1>2, <3>2, NewIsNoClient DEF Control
      <3> QED BY <3>2, <3>3 DEF Stage, StageOf
    <2>2. CASE ~ \E type \in Types : roar_vs_new(type)
      BY <2>2 DEF Library, Answered, roar_vs_stream, roar_vs_close, server
    <2> QED BY <2>1, <2>2
  <1>6. Holds(lib', net', tab, sfh', lost')
    BY <1>1, <1>2, <1>3, <1>5, HoldsOn DEF Onward
  <1>7. Cleared(lib', net', acclev)
    BY <1>2, <1>3, SMTT(60) DEF Onward, Cleared
  <1> QED BY <1>3, <1>4, <1>6, <1>7 DEF Guard, Onward
-----------------------------------------------------------------------------
(* The steps of the server *)

\* The server keeps the connections of the clients that are there.
Reached(p, u) == p \in LiveClients(u) /\ u.clients[p].fh

Cutoff(n, m, u) ==
    \A c \in Conn : m[c].peer = IF n[c].peer \in CID /\ ~ Reached(n[c].peer, u) THEN None ELSE n[c].peer

\* Streams that are gone have no handle.
Reaped(f, g, u) == \A s \in SID : g[s] = IF s \in LiveStreams(u) THEN f[s] ELSE "none"

\* What Becomes() leaves.
LEMMA BecomesView ==
    ASSUME NEW n \in [Conn -> Connection], NEW t, NEW f, Becomes(n, t, f)
    PROVE  /\ tab' = t /\ Cutoff(n, net', t) /\ Reaped(f, sfh', t)
           /\ \A c \in Conn :
                /\ net'[c].ans = n[c].ans
                /\ net'[c].req = IF net'[c].peer = n[c].peer THEN n[c].req ELSE <<>>
                /\ net'[c].peer = n[c].peer => net'[c] = n[c]
           /\ net' = [c \in Conn |-> net'[c]]
  <1>1. /\ tab' = t
        /\ sfh' = [s \in SID |-> IF s \in LiveStreams(t) THEN f[s] ELSE "none"]
        /\ net' = [c \in Conn |->
                      IF n[c].peer \in CID /\ n[c].peer \notin {k \in LiveClients(t) : t.clients[k].fh}
                      THEN Cut(n[c]) ELSE n[c]]
    BY Zenon DEF Becomes, Cut
  <1>2. \A c \in Conn : net'[c] = IF n[c].peer \in CID /\ ~ Reached(n[c].peer, t) THEN Cut(n[c]) ELSE n[c]
    BY <1>1 DEF Reached
  <1>3. \A c \in Conn : Cut(n[c]).peer = None /\ Cut(n[c]).req = <<>> /\ Cut(n[c]).ans = n[c].ans
    BY CutLeaves
  <1>4. Cutoff(n, net', t)
    BY <1>2, <1>3 DEF Cutoff
  <1>5. Reaped(f, sfh', t)
    BY <1>1 DEF Reaped
  <1>6. ASSUME NEW c \in Conn
        PROVE  /\ net'[c].ans = n[c].ans
               /\ net'[c].req = IF net'[c].peer = n[c].peer THEN n[c].req ELSE <<>>
               /\ net'[c].peer = n[c].peer => net'[c] = n[c]
    <2>1. CASE n[c].peer \in CID /\ ~ Reached(n[c].peer, t)
      BY <1>2, <1>3, <2>1, NewIsNoClient
    <2>2. CASE ~ (n[c].peer \in CID /\ ~ Reached(n[c].peer, t))
      BY <1>2, <2>2
    <2> QED BY <2>1, <2>2
  <1>7. net' = [c \in Conn |-> net'[c]]
    BY <1>1
  <1> QED BY <1>1, <1>4, <1>5, <1>6, <1>7

\* What an answer leaves: the request is gone, and the answer is there when
\* the client still is.
LEMMA ReplyView ==
    ASSUME Talking(lib, net), NEW c \in Conn, net[c].req # <<>>, net[c].peer \in CID,
           NEW t, NEW f, NEW cmd \in {OK, ERROR}, NEW arg \in SID \cup CID \cup {None},
           Reply(c, t, f, cmd, arg)
    PROVE  /\ tab' = t /\ Cutoff(net, net', t) /\ Reaped(f, sfh', t) /\ c = lib.con
           /\ \A l : l.con = c =>
                /\ ~ Asked(l, net')
                /\ Agreed(l, net') <=> net[c].peer \in LiveClients(t) /\ cmd = OK
           /\ net'[c].ans # <<>> => net[c].peer \in LiveClients(t) /\ Head(net'[c].ans).arg = arg
           /\ \A d \in Conn : net'[d].req = <<>>
  <1> DEFINE a == [cmd |-> cmd, arg |-> arg]
             o == net[c]
             p == [o EXCEPT !.req = Tail(o.req)]
             q == [p EXCEPT !.ans = Append(p.ans, a)]
             m == [net EXCEPT ![c] = p]
             n == IF o.peer \in LiveClients(t) THEN [net EXCEPT ![c] = q] ELSE m
  <1>1. /\ lib \in LibState /\ net \in [Conn -> Connection] /\ Talk(lib, net) /\ o \in Connection
    BY DEF Talking
  <1>2. lib.at \notin Idle /\ c = lib.con /\ o.ans = <<>> /\ Exchange(lib, o)
    <2>1. lib.at \notin Idle /\ c = lib.con
      BY <1>1 DEF Talk, Silent
    <2>2. Exchange(lib, o)
      BY <1>1, <2>1 DEF Talk
    <2> QED BY <2>1, <2>2 DEF Exchange, Silent
  <1>3. Tail(o.req) = <<>>
    BY <1>1, <1>2, OneMessage DEF Exchange, Silent
  <1>4. p \in Connection /\ p.req = <<>> /\ p.ans = <<>> /\ p.peer = o.peer
    <2> HIDE DEF o
    <2> QED BY <1>1, <1>2, <1>3 DEF Connection
  <1>5. q \in Connection /\ q.req = <<>> /\ q.ans = <<a>> /\ q.peer = o.peer
    <2>1. Append(p.ans, a) = <<a>> /\ a \in Answer
      BY <1>4, OneMessage DEF Answer
    <2> HIDE DEF p, a
    <2> QED BY <1>4, <2>1 DEF Connection
  <1>6. Becomes(n, t, f)
    <2>1. m = [net EXCEPT ![c].req = Tail(@)]
      OBVIOUS
    <2>2. [net EXCEPT ![c] = q] = [m EXCEPT ![c].ans = Append(@, a)]
      <3> HIDE DEF p, a
      <3> QED BY <1>1
    <2> HIDE DEF p, q, a
    <2> QED BY <2>1, <2>2 DEF Reply, a
  <1>7. Head(<<a>>) = a /\ a.cmd = cmd /\ a.arg = arg /\ <<a>> # <<>>
    BY OneMessage
  <1>8. \A d \in Conn \ {c} : net[d].req = <<>> /\ net[d].ans = <<>>
    BY <1>1, <1>2 DEF Talk, Silent
  <1> HIDE DEF p, q, a
  <1>9. /\ n \in [Conn -> Connection]
        /\ n[c] = IF o.peer \in LiveClients(t) THEN q ELSE p
        /\ \A d \in Conn \ {c} : n[d] = net[d]
    BY <1>1, <1>4, <1>5
  <1> HIDE DEF n, m, o
  <1>10. /\ \A d \in Conn : n[d].req = <<>>
         /\ \A d \in Conn : n[d].peer = net[d].peer
         /\ n[c].ans = IF o.peer \in LiveClients(t) THEN <<a>> ELSE <<>>
    BY <1>4, <1>5, <1>8, <1>9 DEF o
  <1>11. /\ tab' = t /\ Cutoff(n, net', t) /\ Reaped(f, sfh', t)
         /\ \A d \in Conn :
              /\ net'[d].ans = n[d].ans
              /\ net'[d].req = IF net'[d].peer = n[d].peer THEN n[d].req ELSE <<>>
    BY <1>6, <1>9, BecomesView
  <1>12. Cutoff(net, net', t)
    BY <1>10, <1>11 DEF Cutoff
  <1>13. \A d \in Conn : net'[d].req = <<>>
    BY <1>10, <1>11
  <1>14. net'[c].ans = IF net[c].peer \in LiveClients(t) THEN <<a>> ELSE <<>>
    BY <1>10, <1>11 DEF o
  <1>15. ASSUME NEW l, l.con = c
         PROVE  ~ Asked(l, net') /\ (Agreed(l, net') <=> net[c].peer \in LiveClients(t) /\ cmd = OK)
    BY <1>7, <1>13, <1>14, <1>15 DEF Asked, Agreed
  <1>16. net'[c].ans # <<>> => net[c].peer \in LiveClients(t) /\ Head(net'[c].ans).arg = arg
    BY <1>7, <1>14
  <1> QED BY <1>2, <1>11, <1>12, <1>13, <1>15, <1>16

\* The clients whose connections are kept.
LEMMA PeersCut ==
    ASSUME NEW n, NEW t, PeersLive(n, t), NEW m, NEW u, Cutoff(n, m, u)
    PROVE  /\ PeersLive(m, u)
           /\ Main(m) = Main(n) \/ (Main(m) = None /\ Main(n) \in CID /\ ~ Reached(Main(n), u))
           /\ Temp(m) = Temp(n) \/ (Temp(m) = None /\ Temp(n) \in CID /\ ~ Reached(Temp(n), u))
           /\ Main(m) \in CID => Main(m) = Main(n) /\ Reached(Main(n), u)
           /\ Temp(m) \in CID => Temp(m) = Temp(n) /\ Reached(Temp(n), u)
  <1>1. \A c \in Conn : m[c].peer = IF n[c].peer \in CID /\ ~ Reached(n[c].peer, u) THEN None ELSE n[c].peer
    BY DEF Cutoff
  <1>2. /\ Main(m) = Main(n) \/ (Main(m) = None /\ Main(n) \in CID /\ ~ Reached(Main(n), u))
        /\ Temp(m) = Temp(n) \/ (Temp(m) = None /\ Temp(n) \in CID /\ ~ Reached(Temp(n), u))
    BY <1>1 DEF Main, Temp, Conn
  <1>3. \A c \in Conn : m[c].peer \in CID => m[c].peer = n[c].peer /\ Reached(m[c].peer, u)
    BY <1>1, NewIsNoClient
  <1>4. PeersLive(m, u)
    <2>1. \A c \in Conn : m[c].peer \in CID =>
            m[c].peer # Other /\ m[c].peer \in LiveClients(u) /\ u.clients[m[c].peer].fh
      BY <1>3 DEF PeersLive, Reached
    <2>2. Main(m) \in CID => Main(m) # Temp(m)
      BY <1>2, NewIsNoClient DEF PeersLive
    <2> QED BY <2>1, <2>2 DEF PeersLive
  <1> QED BY <1>2, <1>3, <1>4 DEF Main, Temp, Conn

\* The invariant of the tables, when one stream changes and the others are as
\* they were or gone.
LEMMA RestHolds ==
    ASSUME NEW l, NEW n, NEW t, NEW f, NEW z, Holds(l, n, t, f, z),
           NEW k, NEW m, NEW u, NEW g, NEW y, z => y, NEW s,
           OwnersKnown(k, m, u, y), PeersLive(m, u), SlotsIn(k, m, u),
           Lent(k) = Lent(l), Main(m) = Main(n) \/ Main(n) \notin LiveClients(u),
           Loose(t, f) \subseteq {s},
           \A i \in SID \ LiveStreams(u) : g[i] = "none",
           \A i \in LiveStreams(u) \ {s} :
               /\ i \in LiveStreams(t) /\ g[i] = f[i]
               /\ u.streams[i].client = t.streams[i].client
               /\ u.streams[i].ready = t.streams[i].ready,
           s \in LiveStreams(u) =>
               /\ u.streams[s].ready <=> g[s] # "none"
               /\ g[s] = "other" =>
                    u.streams[s].client = Other
                    \/ (y /\ u.streams[s].client = Main(m) /\ s \in Lent(k)),
           s \in Loose(u, g) =>
               /\ Stage(k, m) # "none" /\ s = Cur(k, m)
               /\ Stage(k, m) \in {"made", "doubt"} => u.streams[s].client = Peer(k, m)
               /\ Stage(k, m) = "made" => g[s] = "none"
               /\ Stage(k, m) \in {"handed", "execed", "closing"} => g[s] = "ours",
           ~ y => Kept(k, m, u, g)
    PROVE  Holds(k, m, u, g, y)
  <1>1. HandlesKnown(l, n, t, f, z)
    BY DEF Holds
  <1>2. \A i \in LiveStreams(u) : i \in SID /\ u.streams[i].client \in LiveClients(u)
    BY OwnedParts DEF OwnersKnown
  <1>3. HandlesKnown(k, m, u, g, y)
    <2>1. \A i \in SID : i \notin LiveStreams(u) => g[i] = "none"
      OBVIOUS
    <2>2. ASSUME NEW i \in LiveStreams(u)
          PROVE  u.streams[i].ready <=> g[i] # "none"
      <3>1. CASE i = s
        BY <3>1
      <3>2. CASE i # s
        <4>1. t.streams[i].ready <=> f[i] # "none"
          BY <1>1, <3>2 DEF HandlesKnown
        <4> QED BY <3>2, <4>1
      <3> QED BY <3>1, <3>2
    <2>3. ASSUME NEW i \in LiveStreams(u), g[i] = "other"
          PROVE  u.streams[i].client = Other
                 \/ (y /\ u.streams[i].client = Main(m) /\ i \in Lent(k))
      <3>1. CASE i = s
        BY <2>3, <3>1
      <3>2. CASE i # s
        <4>1. t.streams[i].client = Other \/ (z /\ t.streams[i].client = Main(n) /\ i \in Lent(l))
          BY <1>1, <2>3, <3>2 DEF HandlesKnown
        <4> QED BY <1>2, <3>2, <4>1
      <3> QED BY <3>1, <3>2
    <2> QED BY <2>1, <2>2, <2>3 DEF HandlesKnown
  <1>4. LooseKnown(k, m, u, g)
    <2>1. ASSUME NEW i \in Loose(u, g), i # s
          PROVE  FALSE
      <3>1. i \in Loose(t, f)
        BY <2>1 DEF Loose
      <3> QED BY <2>1, <3>1
    <2> QED BY <2>1 DEF LooseKnown
  <1> QED BY <1>3, <1>4 DEF Holds

\* The stream that the program knows of, when streams and clients go.
Sinks(l, n, k, m, u, g) ==
    \/ Loose(u, g) = {}
    \/ Stage(l, n) = "none"
    \/ /\ Cur(k, m) = Cur(l, n)
       /\ Stage(l, n) \in {"made", "doubt"} =>
            Peer(k, m) = Peer(l, n) \/ Peer(l, n) \notin LiveClients(u)
       /\ \/ Stage(k, m) = Stage(l, n)
          \/ Stage(l, n) = "made" /\ Stage(k, m) = "doubt"
          \/ Stage(l, n) \in {"handed", "execed"} /\ Stage(k, m) = "closing"

\* The invariant of the tables, when streams and clients go.
LEMMA TrimHolds ==
    ASSUME NEW l, NEW n, NEW t, NEW f, NEW z, Holds(l, n, t, f, z),
           NEW k, NEW m, NEW u, NEW g, NEW y, z => y, NEW D, NEW L, Trimmed(t, u, D, L),
           Owned(u, Main(n), Lent(l)), ~ z => Owned(u, Main(n), {}),
           Cutoff(n, m, u), Reaped(f, g, u), Lent(k) = Lent(l),
           SlotsIn(k, m, u), Sinks(l, n, k, m, u, g),
           ~ y /\ Stage(k, m) \in {"made", "handed", "execed"} =>
               Stage(k, m) = Stage(l, n) /\ Cur(k, m) = Cur(l, n) /\ Cur(l, n) \notin D
    PROVE  Holds(k, m, u, g, y)
  <1> DEFINE s == Cur(l, n)
  <1>1. PeersLive(n, t) /\ LooseKnown(l, n, t, f) /\ (~ z => Kept(l, n, t, f)) /\ HandlesKnown(l, n, t, f, z)
    BY DEF Holds
  <1>2. /\ LiveClients(u) \subseteq CID
        /\ \A i \in LiveStreams(u) : i \in SID /\ u.streams[i].client \in LiveClients(u)
    BY OwnedParts
  <1>3. /\ LiveStreams(u) = LiveStreams(t) \ D
        /\ \A i \in LiveStreams(u) : u.streams[i].client = t.streams[i].client
                                     /\ u.streams[i].ready = t.streams[i].ready
        /\ \A c \in LiveClients(u) : u.clients[c].fh = t.clients[c].fh
                                     /\ u.clients[c].execed = t.clients[c].execed
    BY DEF Trimmed
  <1>4. Main(m) = Main(n) \/ (Main(m) = None /\ Main(n) \notin LiveClients(u))
    <2>1. Main(m) = Main(n) \/ (Main(m) = None /\ Main(n) \in CID /\ ~ Reached(Main(n), u))
      BY <1>1, PeersCut
    <2>2. Main(n) \in CID => t.clients[Main(n)].fh
      BY <1>1 DEF PeersLive, Main, Conn
    <2> QED BY <1>3, <2>1, <2>2 DEF Reached
  <1>5. OwnersKnown(k, m, u, y)
    <2>1. Owned(u, Main(m), Lent(k))
      BY <1>2, <1>4, OwnedBy, NewIsNoClient
    <2>2. ~ y => Owned(u, Main(m), {})
      BY <1>2, <1>4, OwnedBy, NewIsNoClient
    <2> QED BY <2>1, <2>2 DEF OwnersKnown
  <1>6. PeersLive(m, u)
    BY <1>1, PeersCut
  <1>7. \A i \in SID : g[i] = IF i \in LiveStreams(u) THEN f[i] ELSE "none"
    BY DEF Reaped
  <1>8. Loose(u, g) \subseteq Loose(t, f) /\ Loose(t, f) \subseteq {s}
    BY <1>1, <1>2, <1>3, <1>7 DEF Loose, LooseKnown
  <1>9. ASSUME s \in Loose(u, g)
        PROVE  /\ Stage(k, m) # "none" /\ s = Cur(k, m)
               /\ Stage(k, m) \in {"made", "doubt"} => u.streams[s].client = Peer(k, m)
               /\ Stage(k, m) = "made" => g[s] = "none"
               /\ Stage(k, m) \in {"handed", "execed", "closing"} => g[s] = "ours"
    <2>1. s \in LiveStreams(u) /\ s \in Loose(t, f)
      BY <1>8, <1>9 DEF Loose
    <2>2. /\ Stage(l, n) # "none"
          /\ Stage(l, n) \in {"made", "doubt"} => t.streams[s].client = Peer(l, n)
          /\ Stage(l, n) = "made" => f[s] = "none"
          /\ Stage(l, n) \in {"handed", "execed", "closing"} => f[s] = "ours"
      BY <1>1, <2>1 DEF LooseKnown
    <2>3. g[s] = f[s] /\ u.streams[s].client = t.streams[s].client /\ u.streams[s].client \in LiveClients(u)
      BY <1>2, <1>3, <1>7, <2>1
    <2>4. Loose(u, g) # {}
      BY <1>9
    <2> HIDE DEF s
    <2> QED BY <2>2, <2>3, <2>4 DEF Sinks, s
  <1>10. ASSUME ~ y
         PROVE  Kept(k, m, u, g)
    <2> SUFFICES ASSUME Stage(k, m) \in {"made", "handed", "execed"}
                 PROVE  /\ s \in Loose(u, g)
                        /\ Stage(k, m) = "handed" => u.streams[s].client = Main(m)
                        /\ Stage(k, m) = "execed" => u.clients[u.streams[s].client].execed = s
      BY <1>10 DEF Kept
    <2>1. ~ z
      BY <1>10
    <2>2. /\ s \in Loose(t, f) /\ s \notin D
          /\ Stage(k, m) = "handed" => t.streams[s].client = Main(n)
          /\ Stage(k, m) = "execed" => t.clients[t.streams[s].client].execed = s
      BY <1>1, <1>10, <2>1 DEF Kept
    <2>3. s \in LiveStreams(u) /\ f[s] \in {"none", "ours"}
      BY <1>3, <2>2 DEF Loose
    <2>4. g[s] = f[s] /\ u.streams[s].client = t.streams[s].client /\ u.streams[s].client \in LiveClients(u)
      BY <1>2, <1>3, <1>7, <2>3
    <2>5. u.clients[u.streams[s].client].execed = t.clients[t.streams[s].client].execed
      BY <1>3, <2>4
    <2> HIDE DEF s
    <2> QED BY <1>4, <2>2, <2>3, <2>4, <2>5 DEF Loose
  <1>11. \A i \in LiveStreams(u) : t.streams[i].ready <=> f[i] # "none"
    BY <1>1, <1>3 DEF HandlesKnown
  <1>12. s \in LiveStreams(u) =>
           /\ u.streams[s].ready <=> g[s] # "none"
           /\ g[s] = "other" =>
                u.streams[s].client = Other
                \/ (y /\ u.streams[s].client = Main(m) /\ s \in Lent(k))
    <2> SUFFICES ASSUME s \in LiveStreams(u)
                 PROVE  /\ u.streams[s].ready <=> g[s] # "none"
                        /\ g[s] = "other" =>
                             u.streams[s].client = Other
                             \/ (y /\ u.streams[s].client = Main(m) /\ s \in Lent(k))
      OBVIOUS
    <2>1. /\ g[s] = f[s] /\ u.streams[s].client = t.streams[s].client /\ s \in LiveStreams(t)
          /\ u.streams[s].client \in LiveClients(u) /\ u.streams[s].ready = t.streams[s].ready
      BY <1>2, <1>3, <1>7
    <2>2. f[s] = "other" =>
            t.streams[s].client = Other \/ (z /\ t.streams[s].client = Main(n) /\ s \in Lent(l))
      BY <1>1, <2>1 DEF HandlesKnown
    <2> HIDE DEF s
    <2> QED BY <1>4, <1>11, <2>1, <2>2
  <1> HIDE DEF s
  <1>13. \A i \in LiveStreams(u) \ {s} :
           /\ i \in LiveStreams(t) /\ g[i] = f[i]
           /\ u.streams[i].client = t.streams[i].client
           /\ u.streams[i].ready = t.streams[i].ready
    BY <1>2, <1>3, <1>7
  <1>14. \A i \in SID \ LiveStreams(u) : g[i] = "none"
    BY <1>7
  <1> QED BY <1>4, <1>5, <1>6, <1>8, <1>9, <1>10, <1>12, <1>13, <1>14, RestHolds

\* The server touches nothing of the library but the listen socket.
Alike(k, l) ==
    /\ k.at = l.at /\ k.con = l.con /\ k.timeout = l.timeout
    /\ k.then = l.then /\ k.id = l.id /\ k.flag = l.flag

\* The stage and the stream do not depend on that.
LEMMA AlikeSame ==
    ASSUME NEW k, NEW l, Alike(k, l), NEW n
    PROVE  /\ Asked(k, n) <=> Asked(l, n)
           /\ Agreed(k, n) <=> Agreed(l, n)
           /\ Stage(k, n) = StageOf(l, Asked(k, n), Agreed(k, n))
           /\ Cur(k, n) = IF l.at = "new_stream" /\ Agreed(k, n) THEN Head(n[l.con].ans).arg ELSE l.id
           /\ Peer(k, n) = n[l.con].peer
           /\ Leaving(k) <=> Leaving(l)
           /\ Lent(k) = Lent(l)
           /\ HighPlace(k, n) <=> HighPlace(l, n)
  <1>1. /\ k.at = l.at /\ k.con = l.con /\ k.timeout = l.timeout
        /\ k.then = l.then /\ k.id = l.id /\ k.flag = l.flag
    BY DEF Alike
  <1>2. (Asked(k, n) <=> Asked(l, n)) /\ (Agreed(k, n) <=> Agreed(l, n))
    BY <1>1 DEF Asked, Agreed
  <1>3. \A a, b : StageOf(k, a, b) = StageOf(l, a, b)
    BY <1>1 DEF StageOf, Given
  <1>4. Stage(k, n) = StageOf(l, Asked(k, n), Agreed(k, n))
    BY <1>3 DEF Stage
  <1>5. Cur(k, n) = IF l.at = "new_stream" /\ Agreed(k, n) THEN Head(n[l.con].ans).arg ELSE l.id
    BY <1>1 DEF Cur
  <1>6. Leaving(k) <=> Leaving(l)
    BY <1>1 DEF Leaving
  <1>7. Lent(k) = Lent(l)
    BY <1>1, <1>6 DEF Lent
  <1>8. HighPlace(k, n) <=> HighPlace(l, n)
    BY <1>1, <1>2 DEF HighPlace
  <1> QED BY <1>1, <1>2, <1>4, <1>5, <1>6, <1>7, <1>8 DEF Peer

\* The request on connection c has been answered, with OK or not, if there
\* still is a client to answer to; the tables are u.
Replied(c, u, f, ok, arg) ==
    /\ c = lib.con /\ Alike(lib', lib)
    /\ tab' = u /\ Cutoff(net, net', u) /\ Reaped(f, sfh', u)
    /\ ~ Asked(lib', net')
    /\ Agreed(lib', net') <=> (net[c].peer \in LiveClients(u) /\ ok)
    /\ net'[c].ans # <<>> => net[c].peer \in LiveClients(u) /\ Head(net'[c].ans).arg = arg
    /\ \A d \in Conn : net'[d].req = <<>>

\* That is what an answer does.
LEMMA Replies ==
    ASSUME SessionInv, NEW c, NEW k, NEW q, Serving(c, k, q), Alike(lib', lib),
           NEW u, NEW f, NEW cmd \in {OK, ERROR}, NEW arg \in SID \cup CID \cup {None},
           Reply(c, u, f, cmd, arg)
    PROVE  Replied(c, u, f, cmd = OK, arg)
  <1>1. Talking(lib, net) /\ c \in Conn /\ net[c].req # <<>> /\ net[c].peer \in CID
    BY DEF SessionInv, Serving
  <1>2. /\ tab' = u /\ Cutoff(net, net', u) /\ Reaped(f, sfh', u) /\ c = lib.con
        /\ \A l : l.con = c =>
             /\ ~ Asked(l, net')
             /\ Agreed(l, net') <=> net[c].peer \in LiveClients(u) /\ cmd = OK
        /\ net'[c].ans # <<>> => net[c].peer \in LiveClients(u) /\ Head(net'[c].ans).arg = arg
        /\ \A d \in Conn : net'[d].req = <<>>
    BY <1>1, ReplyView
  <1>3. lib'.con = c
    BY <1>2 DEF Alike
  <1>4. ~ Asked(lib', net') /\ (Agreed(lib', net') <=> net[c].peer \in LiveClients(u) /\ cmd = OK)
    BY <1>2, <1>3
  <1> QED BY <1>2, <1>4 DEF Replied

\* The library waits for the answer, and its stream is where it was.
LEMMA ServingSees ==
    ASSUME SessionInv, Guard, NEW c, NEW k, NEW q, Serving(c, k, q)
    PROVE  /\ c = lib.con /\ Asked(lib, net) /\ ~ Agreed(lib, net) /\ Peer(lib, net) = k
           /\ net[c].ans = <<>>
           /\ Stage(lib, net) = StageOf(lib, TRUE, FALSE)
           /\ Cur(lib, net) = lib.id
           /\ \A d \in Conn : net[d].peer # New
           /\ lib.at = "con_stream" => lib.timeout
           /\ lib.at = "select" => ~ lib.backlog
  <1>1. Talk(lib, net) /\ Control(lib, net) /\ lib \in LibState /\ c \in Conn /\ net[c].req # <<>>
        /\ net[c].peer = k /\ k \in CID /\ lib.at \notin Idle /\ Placed(lib)
    BY DEF SessionInv, Talking, Guard, Serving
  <1>2. c = lib.con
    BY <1>1 DEF Talk, Silent
  <1>3. Exchange(lib, net[c])
    BY <1>1, <1>2 DEF Talk
  <1>4. net[c].ans = <<>>
    BY <1>1, <1>3 DEF Exchange, Silent
  <1>5. Asked(lib, net) /\ ~ Agreed(lib, net)
    BY <1>1, <1>2, <1>4 DEF Asked, Agreed
  <1>6. Stage(lib, net) = StageOf(lib, TRUE, FALSE)
    BY <1>5 DEF Stage, StageOf, Given
  <1>7. \A d \in Conn : net[d].peer # New
    <2>1. ASSUME NEW d \in Conn, net[d].peer = New
          PROVE  FALSE
      BY <1>1, <1>2, <2>1, NewIsNoClient DEF Control
    <2> QED BY <2>1
  <1>8. ~ ((lib.at = "select" /\ lib.backlog) \/ (lib.at = "con_stream" /\ ~ lib.timeout))
    <2>1. lib.at \in {"select", "con_stream"} => Main(net) = k
      BY <1>1, <1>2 DEF Placed, Main
    <2> QED BY <1>1, <1>5, <2>1, NewIsNoClient DEF Control
  <1> QED BY <1>1, <1>2, <1>4, <1>5, <1>6, <1>7, <1>8 DEF Peer, Cur

\* What is left to show of an answer is what becomes of the tables.
LEMMA ReplyGuards ==
    ASSUME SessionInv, Guard, NEW c, NEW k, NEW q, Serving(c, k, q),
           NEW u, NEW f, NEW ok, NEW arg, Replied(c, u, f, ok, arg),
           lib'.at = "select" /\ lib'.backlog => lib.backlog \/ ok,
           lib.at = "whoami" => arg = k,
           lib.at = "quit" => k \notin LiveClients(u),
           lib.at = "new_stream" /\ c = "main" /\ ok => acclev[k] >= ACCLEV_PWRUSER,
           \A d \in CID :
               acclev'[d] \in {ACCLEV_NONE, ACCLEV_IDENTED, ACCLEV_GUEST, ACCLEV_PWRUSER, ACCLEV_ALL},
           acclev' = acclev \/ lib.at \in {"identify", "auth"},
           Holds(lib', net', u, sfh', lost')
    PROVE  Guard'
  <1>1. /\ Control(lib, net) /\ Cleared(lib, net, acclev) /\ PeersLive(net, tab)
        /\ c \in Conn /\ net[c].peer = k /\ k \in CID /\ lib.at \notin Idle /\ Placed(lib)
    BY DEF Guard, Holds, Serving
  <1>2. /\ c = lib.con /\ Asked(lib, net) /\ ~ Agreed(lib, net)
        /\ \A d \in Conn : net[d].peer # New
        /\ lib.at = "con_stream" => lib.timeout
        /\ lib.at = "select" => ~ lib.backlog
    BY ServingSees
  <1>3. /\ Alike(lib', lib) /\ tab' = u /\ Cutoff(net, net', u) /\ ~ Asked(lib', net')
        /\ Agreed(lib', net') <=> (k \in LiveClients(u) /\ ok)
        /\ net'[c].ans # <<>> => k \in LiveClients(u) /\ Head(net'[c].ans).arg = arg
    BY <1>1 DEF Replied
  <1>4. /\ lib'.at = lib.at /\ lib'.con = lib.con /\ lib'.timeout = lib.timeout
        /\ lib'.then = lib.then /\ lib'.flag = lib.flag /\ (Leaving(lib') <=> Leaving(lib))
        /\ HighPlace(lib', net') <=> HighPlace(lib, net')
    BY <1>3, AlikeSame DEF Alike
  <1>5. \A d \in Conn : net'[d].peer # New
    BY <1>2, <1>3, NewIsNoClient DEF Cutoff
  <1>6. /\ Main(net') = Main(net) \/ (Main(net') = None /\ Main(net) \in CID /\ ~ Reached(Main(net), u))
        /\ Main(net') \in CID => Main(net') = Main(net)
    BY <1>1, <1>3, PeersCut
  <1>7. lib.at \in {"select", "con_stream", "whoami", "attach"} => c = "main" /\ k = Main(net)
    BY <1>1, <1>2 DEF Placed, Main
  <1>8. Control(lib', net')
    <2>1. (lib'.at = "select" /\ lib'.backlog) \/ (lib'.at = "con_stream" /\ ~ lib'.timeout) =>
            Agreed(lib', net') \/ Main(net') = None
      <3> SUFFICES ASSUME (lib'.at = "select" /\ lib'.backlog) \/ (lib'.at = "con_stream" /\ ~ lib'.timeout),
                          ~ Agreed(lib', net')
                   PROVE  Main(net') = None
        OBVIOUS
      <3>1. lib.at = "select" /\ ok /\ k \notin LiveClients(u) /\ k = Main(net)
        BY <1>2, <1>3, <1>4, <1>7
      <3>2. Main(net') = IF Main(net) \in CID /\ ~ Reached(Main(net), u) THEN None ELSE Main(net)
        BY <1>3 DEF Cutoff, Main, Conn
      <3> QED BY <1>1, <3>1, <3>2 DEF Reached
    <2>2. lib'.at = "whoami" /\ Main(net') \in CID /\ net'["main"].ans # <<>> =>
            Head(net'["main"].ans).arg = Main(net')
      BY <1>3, <1>4, <1>6, <1>7
    <2>3. lib'.at = "quit" => net'[lib'.con].ans = <<>>
      BY <1>2, <1>3, <1>4
    <2>4. lib'.flag => lib'.at = "stream" \/ Leaving(lib')
      BY <1>1, <1>4 DEF Control
    <2>5. lib'.at \notin {"stream", "out"}
      BY <1>1, <1>4 DEF Idle
    <2> QED BY <1>3, <1>5, <2>1, <2>2, <2>3, <2>4, <2>5 DEF Control
  <1>9. Cleared(lib', net', acclev')
    <2>1. ASSUME HighPlace(lib', net'), Main(net') \in CID
          PROVE  acclev'[Main(net')] >= ACCLEV_PWRUSER
      <3>1. HighPlace(lib, net') /\ Main(net') = Main(net) /\ lib.con = "main" /\ k = Main(net)
        BY <1>1, <1>2, <1>4, <1>6, <2>1 DEF HighPlace, Main
      <3>2. acclev' = acclev
        BY <3>1 DEF HighPlace
      <3>3. CASE lib.at = "new_stream"
        <4>1. ok
          BY <1>3, <1>4, <2>1, <3>3 DEF HighPlace
        <4> QED BY <1>2, <3>1, <3>2, <3>3, <4>1
      <3>4. CASE lib.at # "new_stream"
        <4>1. HighPlace(lib, net)
          BY <3>1, <3>4 DEF HighPlace
        <4> QED BY <1>1, <3>1, <3>2, <4>1 DEF Cleared
      <3> QED BY <3>3, <3>4
    <2> QED BY <2>1 DEF Cleared
  <1> QED BY <1>3, <1>8, <1>9 DEF Guard

\* What the clients of the program may list does not shrink, but for a KICK.
LEMMA ReplySlots ==
    ASSUME SessionInv, Guard, NEW c, NEW k, NEW q, Serving(c, k, q),
           NEW u, NEW f, NEW ok, NEW arg, Replied(c, u, f, ok, arg)
    PROVE  /\ Stage(lib', net') = StageOf(lib, FALSE, Agreed(lib', net'))
           /\ lib.at # "new_stream" => Cur(lib', net') = lib.id
           /\ ~ (lib.at = "kick" /\ lib.then # "close") => Mine(lib, net) \subseteq Mine(lib', net')
           /\ Room(lib, net) \subseteq Room(lib', net')
           /\ lib.at \notin {"identify", "auth", "new_stream", "exec"} => Room(lib', net') = SID
           /\ Lent(lib') = Lent(lib) /\ (Leaving(lib') <=> Leaving(lib)) /\ lib'.con = lib.con
           /\ lib'.at = lib.at
  <1>1. Alike(lib', lib) /\ ~ Asked(lib', net')
    BY DEF Replied
  <1>2. /\ Stage(lib, net) = StageOf(lib, TRUE, FALSE) /\ Cur(lib, net) = lib.id
        /\ lib.at = "con_stream" => lib.timeout
    BY ServingSees
  <1>3. /\ lib.id \in SID \cup {None} /\ Placed(lib) /\ lib.at \notin Idle
        /\ lib.at = "exec" => lib.id \in SID
    BY DEF Serving, LibState, Placed
  <1>4. /\ lib'.at = lib.at /\ lib'.con = lib.con /\ lib'.then = lib.then
        /\ (Leaving(lib') <=> Leaving(lib)) /\ Lent(lib') = Lent(lib)
        /\ Cur(lib', net') = IF lib.at = "new_stream" /\ Agreed(lib', net') THEN Head(net'[lib.con].ans).arg ELSE lib.id
        /\ Stage(lib', net') = StageOf(lib, Asked(lib', net'), Agreed(lib', net'))
    BY <1>1, AlikeSame DEF Alike
  <1>5. Stage(lib', net') = StageOf(lib, FALSE, Agreed(lib', net'))
    BY <1>1, <1>4 DEF StageOf, Given
  <1>6. ASSUME ~ (lib.at = "kick" /\ lib.then # "close")
        PROVE  Mine(lib, net) \subseteq Mine(lib', net')
    <2>1. CASE Leaving(lib)
      <3>1. lib.at # "new_stream"
        BY <2>1 DEF Leaving
      <3> QED BY <1>2, <1>4, <2>1, <3>1 DEF Mine
    <2>2. CASE ~ Leaving(lib) /\ lib.con = "main" /\ Stage(lib, net) \in {"made", "doubt", "handed"}
      <3>1. lib.at \in {"passfh", "select", "con_stream", "info"}
        BY <1>2, <1>3, <1>6, <2>2 DEF StageOf, Given, Placed, Leaving, Idle
      <3>2. Stage(lib', net') \in {"made", "doubt", "handed"}
        BY <1>5, <3>1 DEF StageOf, Given
      <3> QED BY <1>2, <1>4, <2>2, <3>1, <3>2 DEF Mine
    <2>3. CASE ~ Leaving(lib) /\ ~ (lib.con = "main" /\ Stage(lib, net) \in {"made", "doubt", "handed"})
      BY <2>3 DEF Mine
    <2> QED BY <2>1, <2>2, <2>3
  <1>7. Room(lib, net) \subseteq Room(lib', net')
    <2>1. CASE lib.con = "temp" /\ lib.at \in {"identify", "auth", "new_stream"}
      <3>1. Stage(lib, net) = "none"
        BY <1>2, <2>1 DEF StageOf, Given
      <3> QED BY <2>1, <3>1 DEF Room
    <2>2. CASE lib.con = "temp" /\ lib.at = "exec"
      <3>1. Stage(lib', net') # "none" /\ Stage(lib, net) # "none"
        BY <1>2, <1>5, <2>2 DEF StageOf, Given
      <3> QED BY <1>2, <1>4, <2>2, <3>1 DEF Room
    <2>3. CASE ~ (lib.con = "temp" /\ lib.at \in {"identify", "auth", "new_stream", "exec"})
      BY <1>4, <2>3 DEF Room
    <2> QED BY <2>1, <2>2, <2>3
  <1>8. lib.at \notin {"identify", "auth", "new_stream", "exec"} => Room(lib', net') = SID
    BY <1>4 DEF Room
  <1> QED BY <1>4, <1>5, <1>6, <1>7, <1>8

\* How a stage goes on when the stream is not connected.
Falls(a, b) ==
    \/ b = a
    \/ a = "none"
    \/ a = "made" /\ b = "doubt"
    \/ a \in {"handed", "execed"} /\ b = "closing"

\* Requests that only take from the tables, and those that change nothing.
LEMMA TrimServed ==
    ASSUME SessionInv, Guard, NEW c, NEW k, NEW q, Serving(c, k, q),
           NEW u, NEW f, NEW ok, NEW arg, Replied(c, u, f, ok, arg), Reaped(sfh, sfh', u),
           NEW D, NEW L, Trimmed(tab, u, D, L), lost => lost',
           Owned(u, Main(net), Lent(lib)), ~ lost => Owned(u, Main(net), {}),
           ~ (lib.at = "kick" /\ lib.then # "close"),
           Loose(u, sfh') = {} \/ Falls(Stage(lib, net), Stage(lib', net')),
           ~ lost' /\ Stage(lib', net') \in {"made", "handed", "execed"} =>
               Stage(lib', net') = Stage(lib, net) /\ lib.id \notin D
    PROVE  Holds(lib', net', u, sfh', lost')
  <1>1. /\ Holds(lib, net, tab, sfh, lost) /\ PeersLive(net, tab) /\ SlotsIn(lib, net, tab)
        /\ c \in Conn /\ net[c].peer = k
    BY DEF Guard, Holds, Serving
  <1>2. /\ c = lib.con /\ Cur(lib, net) = lib.id /\ Peer(lib, net) = k
        /\ Stage(lib, net) = StageOf(lib, TRUE, FALSE)
    BY ServingSees
  <1>3. Cutoff(net, net', u) /\ Alike(lib', lib)
    BY DEF Replied
  <1>4. /\ lib.at # "new_stream" => Cur(lib', net') = lib.id
        /\ Mine(lib, net) \subseteq Mine(lib', net') /\ Room(lib, net) \subseteq Room(lib', net')
        /\ Lent(lib') = Lent(lib) /\ lib'.con = lib.con
    BY ReplySlots
  <1>5. /\ Main(net') \in CID => Main(net') = Main(net) /\ Reached(Main(net), u)
        /\ Temp(net') \in CID => Temp(net') = Temp(net) /\ Reached(Temp(net), u)
    BY <1>1, <1>3, PeersCut
  <1>6. SlotsIn(lib', net', u)
    <2>1. \A d \in LiveClients(u) : SlotSet(u, d) \subseteq SlotSet(tab, d)
      BY DEF Trimmed
    <2> QED BY <1>1, <1>4, <1>5, <2>1 DEF SlotsIn, Reached
  <1>7. Peer(lib', net') = k \/ k \notin LiveClients(u)
    <2>1. k \in CID /\ tab.clients[k].fh
      BY <1>1 DEF PeersLive, Serving
    <2>2. Peer(lib', net') = IF ~ Reached(k, u) THEN None ELSE k
      BY <1>1, <1>2, <1>3, <1>4, <2>1 DEF Cutoff, Peer
    <2>3. k \in LiveClients(u) => u.clients[k].fh = tab.clients[k].fh
      BY DEF Trimmed
    <2> QED BY <2>1, <2>2, <2>3 DEF Reached
  <1>8. Stage(lib, net) # "none" => Cur(lib', net') = Cur(lib, net)
    <2>1. lib.at = "new_stream" => Stage(lib, net) = "none"
      BY <1>2 DEF StageOf, Given
    <2> QED BY <1>2, <1>4, <2>1
  <1>9. Sinks(lib, net, lib', net', u, sfh')
    BY <1>2, <1>7, <1>8 DEF Sinks, Falls
  <1>10. ~ lost' /\ Stage(lib', net') \in {"made", "handed", "execed"} =>
           /\ Stage(lib', net') = Stage(lib, net)
           /\ Cur(lib', net') = Cur(lib, net) /\ Cur(lib, net) \notin D
    BY <1>2, <1>8
  <1> QED BY <1>1, <1>3, <1>4, <1>6, <1>9, <1>10, TrimHolds

\* Nothing is taken from the tables.
LEMMA NothingTrimmed ==
    ASSUME NEW t
    PROVE  Trimmed(t, t, {}, {})
BY DEF Trimmed

\* The levels that clients have.
Grades == {ACCLEV_NONE, ACCLEV_IDENTED, ACCLEV_GUEST, ACCLEV_PWRUSER, ACCLEV_ALL}

\* Answers that leave the tables alone.
LEMMA SameGuarded ==
    ASSUME SessionInv, Guard, NEW c, NEW k, NEW q, Serving(c, k, q),
           NEW cmd \in {OK, ERROR}, NEW arg \in SID \cup CID \cup {None},
           Reply(c, tab, sfh, cmd, arg), lib' = lib, lost' = lost,
           \A d \in CID : acclev'[d] \in Grades,
           acclev' = acclev \/ lib.at \in {"identify", "auth"},
           lib.at \notin {"quit"}, ~ (lib.at = "kick" /\ lib.then # "close"),
           lib.at = "whoami" => arg = k,
           cmd = ERROR \/ lib.at \in {"identify", "auth", "whoami", "info"}
    PROVE  Guard'
  <1> DEFINE ok == cmd = OK
  <1>1. Alike(lib', lib)
    BY DEF Alike
  <1>2. Replied(c, tab, sfh, ok, arg)
    BY <1>1, Replies
  <1>3. Reaped(sfh, sfh', tab) /\ (Agreed(lib', net') => ok)
    BY <1>2 DEF Replied
  <1>4. OK # ERROR
    BY DEF OK, ERROR
  <1>5. Owned(tab, Main(net), Lent(lib)) /\ (~ lost => Owned(tab, Main(net), {}))
    BY DEF Guard, Holds, OwnersKnown
  <1>6. /\ Stage(lib, net) = StageOf(lib, TRUE, FALSE)
        /\ lib.at = "con_stream" => lib.timeout
    BY ServingSees
  <1>7. Stage(lib', net') = StageOf(lib, FALSE, Agreed(lib', net'))
    BY <1>2, ReplySlots
  <1>8. lib.at \notin Idle /\ lib.at \in Idle \cup Waits \cup {"select"}
    BY DEF Serving, LibState
  <1>9. Falls(Stage(lib, net), Stage(lib', net'))
        /\ (Stage(lib', net') \in {"made", "handed", "execed"} => Stage(lib', net') = Stage(lib, net))
    BY <1>3, <1>4, <1>6, <1>7, <1>8 DEF StageOf, Given, Falls, Idle, Waits
  <1>10. Holds(lib', net', tab, sfh', lost')
    <2> HIDE DEF ok
    <2> QED BY <1>2, <1>3, <1>5, <1>9, NothingTrimmed, TrimServed
  <1>11. lib.at = "new_stream" /\ c = "main" /\ ok => acclev[k] >= ACCLEV_PWRUSER
    BY <1>4
  <1> HIDE DEF ok
  <1> QED BY <1>2, <1>10, <1>11, ReplyGuards DEF Grades

\* A request that is refused.
LEMMA ErrorGuarded ==
    ASSUME SessionInv, Guard, NEW c, NEW k, NEW q, Serving(c, k, q), Error(c),
           lib.at \notin {"quit", "whoami"}, ~ (lib.at = "kick" /\ lib.then # "close")
    PROVE  Guard'
  <1>1. Reply(c, tab, sfh, ERROR, None) /\ lib' = lib /\ acclev' = acclev /\ lost' = lost
    BY DEF Error
  <1>2. \A d \in CID : acclev'[d] \in Grades
    BY <1>1 DEF Guard, Cleared, Grades
  <1> QED BY <1>1, <1>2, SameGuarded

\* AUTH.
LEMMA AuthGuarded ==
    ASSUME SessionInv, Guard, NEW c, NEW k, NEW q, Serving(c, k, q), q.cmd = "AUTH",
           req_on_auth(c, k, q.arg)
    PROVE  Guard'
  <1>1. lib.at = "auth"
    BY DEF Serving, Asks
  <1>2. CASE q.arg \notin DOMAIN keys
    BY <1>1, <1>2, ErrorGuarded DEF req_on_auth
  <1>3. CASE q.arg \in DOMAIN keys
    <2>1. keys[q.arg] \in Grades
      BY <1>3, SessionAssumption DEF SessionInv, Grades
    <2>2. /\ Reply(c, tab, sfh, OK, None) /\ acclev' = [acclev EXCEPT ![k] = keys[q.arg]]
          /\ lib' = lib /\ lost' = lost
      BY <1>3 DEF req_on_auth
    <2>3. \A d \in CID : acclev'[d] \in Grades
      BY <2>1, <2>2 DEF Guard, Cleared, Grades, SessionInv
    <2> QED BY <1>1, <2>2, <2>3, SameGuarded
  <1> QED BY <1>2, <1>3

\* IDENTIFY.
LEMMA IdentifyGuarded ==
    ASSUME SessionInv, Guard, NEW c, NEW k, NEW q, Serving(c, k, q), q.cmd = "IDENTIFY",
           req_on_identify(c, k)
    PROVE  Guard'
  <1>1. lib.at = "identify"
    BY DEF Serving, Asks
  <1>2. /\ Reply(c, tab, sfh, OK, None) /\ acclev' = [acclev EXCEPT ![k] = ACCLEV_IDENTED]
        /\ lib' = lib /\ lost' = lost
    BY DEF req_on_identify
  <1>3. \A d \in CID : acclev'[d] \in Grades
    BY <1>2 DEF Guard, Cleared, Grades, SessionInv
  <1> QED BY <1>1, <1>2, <1>3, SameGuarded

\* Connections stay open as long as no client goes.
LEMMA PeersStay ==
    ASSUME NEW n, NEW t, PeersLive(n, t), NEW m, NEW u, Cutoff(n, m, u),
           LiveClients(t) \subseteq LiveClients(u),
           \A d \in LiveClients(t) : u.clients[d].fh = t.clients[d].fh
    PROVE  PeersLive(m, u) /\ Main(m) = Main(n) /\ Temp(m) = Temp(n)
           /\ \A d \in Conn : m[d].peer = n[d].peer
  <1>1. \A d \in Conn : m[d].peer = IF n[d].peer \in CID /\ ~ Reached(n[d].peer, u) THEN None ELSE n[d].peer
    BY DEF Cutoff
  <1>2. \A d \in Conn : n[d].peer \in CID => Reached(n[d].peer, u)
    BY DEF PeersLive, Reached
  <1>3. \A d \in Conn : m[d].peer = n[d].peer
    BY <1>1, <1>2
  <1>4. PeersLive(m, u)
    BY PeersCut
  <1> QED BY <1>3, <1>4 DEF Main, Temp, Conn

\* NEW_STREAM.
LEMMA NewStreamGuarded ==
    ASSUME SessionInv, Guard, NEW c, NEW k, NEW q, Serving(c, k, q), q.cmd = "NEW_STREAM",
           tab.clients[k].execed = None, acclev[k] >= ACCLEV_PWRUSER,
           req_on_new_stream(c, k)
    PROVE  Guard'
  <1>1. lib.at = "new_stream"
    BY DEF Serving, Asks
  <1>2. CASE Error(c)
    BY <1>1, <1>2, ErrorGuarded
  <1>3. CASE ~ Error(c)
    <2>1. PICK s \in SID :
            /\ FirstOf(FreeSIDs(tab), s) /\ CanAdd(tab, k)
            /\ Reply(c, streams_set_dir(client_stream_add(streams_new(tab, s), k, s), s, "PLAY"),
                     sfh, OK, s)
            /\ UNCHANGED <<lib, acclev, lost>>
      BY <1>3, Zenon DEF req_on_new_stream
    <2> DEFINE u == streams_set_dir(client_stream_add(streams_new(tab, s), k, s), s, "PLAY")
    <2>2. s \in FreeSIDs(tab) /\ CanAdd(tab, k) /\ s \notin LiveStreams(tab)
      BY <2>1 DEF FirstOf, FreeSIDs
    <2>3. Reply(c, u, sfh, OK, s) /\ lib' = lib /\ acclev' = acclev /\ lost' = lost
      BY <2>1
    <2>4. /\ Holds(lib, net, tab, sfh, lost) /\ PeersLive(net, tab) /\ SlotsIn(lib, net, tab)
          /\ HandlesKnown(lib, net, tab, sfh, lost) /\ LooseKnown(lib, net, tab, sfh)
          /\ Owned(tab, Main(net), Lent(lib)) /\ (~ lost => Owned(tab, Main(net), {}))
      BY DEF Guard, Holds, OwnersKnown
    <2>5. /\ c = lib.con /\ c \in Conn /\ net[c].peer = k /\ k \in CID /\ k \in LiveClients(tab)
          /\ Stage(lib, net) = "none"
      <3>1. Stage(lib, net) = StageOf(lib, TRUE, FALSE) /\ c = lib.con
        BY ServingSees
      <3> QED BY <1>1, <3>1 DEF StageOf, Given, Serving
    <2>6. SlotSet(tab, k) = {}
      <3>1. CASE c = "main"
        <4>1. Mine(lib, net) = {}
          BY <1>1, <2>5 DEF Mine, Leaving
        <4> QED BY <2>4, <2>5, <3>1, <4>1 DEF SlotsIn, Main
      <3>2. CASE c = "temp"
        <4>1. Room(lib, net) = {}
          BY <1>1, <2>5, <3>2 DEF Room
        <4> QED BY <2>4, <2>5, <3>2, <4>1 DEF SlotsIn, Temp
      <3> QED BY <2>5, <3>1, <3>2 DEF Conn
    <2>7. Owned(u, Main(net), Lent(lib)) /\ (~ lost => Owned(u, Main(net), {})) /\ Grown(tab, u, k, s)
      BY <2>2, <2>4, <2>6, OwnedNew
    <2> HIDE DEF u
    <2>8. Replied(c, u, sfh, OK = OK, s)
      <3>1. Alike(lib', lib)
        BY <2>3 DEF Alike
      <3> QED BY <2>3, <3>1, Replies
    <2>9. /\ LiveStreams(u) = LiveStreams(tab) \cup {s} /\ LiveClients(u) = LiveClients(tab)
          /\ u.streams[s].client = k /\ ~ u.streams[s].ready
          /\ \A i \in LiveStreams(tab) : u.streams[i].client = tab.streams[i].client
                                         /\ u.streams[i].ready = tab.streams[i].ready
          /\ \A d \in LiveClients(tab) : u.clients[d].fh = tab.clients[d].fh
                /\ SlotSet(u, d) = SlotSet(tab, d) \cup (IF d = k THEN {s} ELSE {})
      BY <2>7 DEF Grown
    <2>10. PeersLive(net', u) /\ Main(net') = Main(net) /\ Temp(net') = Temp(net)
           /\ \A d \in Conn : net'[d].peer = net[d].peer
      BY <2>4, <2>8, <2>9, PeersStay DEF Replied
    <2>11. Agreed(lib', net') /\ Head(net'[c].ans).arg = s
      <3>1. Agreed(lib', net') /\ (net'[c].ans # <<>> => Head(net'[c].ans).arg = s)
        BY <2>5, <2>8, <2>9 DEF Replied
      <3>2. net'[c].ans # <<>>
        BY <2>3, <2>5, <3>1 DEF Agreed
      <3> QED BY <3>1, <3>2
    <2>12. /\ Stage(lib', net') = "made" /\ Cur(lib', net') = s /\ Peer(lib', net') = k
      <3>1. Stage(lib', net') = StageOf(lib, FALSE, Agreed(lib', net'))
        BY <2>8, ReplySlots
      <3> QED BY <1>1, <2>3, <2>5, <2>10, <2>11, <3>1 DEF StageOf, Given, Cur, Peer
    <2>13. \A i \in SID : sfh'[i] = IF i \in LiveStreams(u) THEN sfh[i] ELSE "none"
      BY <2>8 DEF Replied, Reaped
    <2>14. sfh[s] = "none" /\ sfh'[s] = "none"
      BY <2>2, <2>4, <2>9, <2>13 DEF HandlesKnown
    <2>15. SlotsIn(lib', net', u)
      <3>1. Mine(lib, net) \subseteq Mine(lib', net') /\ Room(lib, net) \subseteq Room(lib', net')
        BY <1>1, <2>8, ReplySlots
      <3>2. CASE c = "main"
        <4>1. Mine(lib', net') = {s} /\ k = Main(net)
          BY <2>3, <2>5, <2>12, <3>2 DEF Mine, Main
        <4>2. Temp(net) \in CID => Temp(net) \in LiveClients(tab) /\ Temp(net) # k
          BY <2>4, <2>5, <4>1 DEF PeersLive, Temp, Conn
        <4> QED BY <2>4, <2>5, <2>6, <2>9, <2>10, <3>1, <4>1, <4>2 DEF SlotsIn
      <3>3. CASE c = "temp"
        <4>1. Room(lib', net') = {s} /\ k = Temp(net)
          BY <1>1, <2>3, <2>5, <2>12, <3>3 DEF Room, Temp
        <4>2. Main(net) \in CID => Main(net) \in LiveClients(tab) /\ Main(net) # k
          BY <2>4, <2>5, <4>1 DEF PeersLive, Main, Conn
        <4> QED BY <2>4, <2>5, <2>6, <2>9, <2>10, <3>1, <4>1, <4>2 DEF SlotsIn
      <3> QED BY <2>5, <3>2, <3>3 DEF Conn
    <2>16. Loose(tab, sfh) = {}
      BY <2>4, <2>5 DEF LooseKnown
    <2>17. OwnersKnown(lib', net', u, lost')
      BY <2>3, <2>7, <2>10 DEF OwnersKnown
    <2>18. Kept(lib', net', u, sfh')
      BY <2>9, <2>12, <2>14 DEF Kept, Loose
    <2>19. \A i \in LiveStreams(u) \ {s} :
             /\ i \in LiveStreams(tab) /\ sfh'[i] = sfh[i]
             /\ u.streams[i].client = tab.streams[i].client
             /\ u.streams[i].ready = tab.streams[i].ready
      <3>1. LiveStreams(u) \subseteq SID
        BY DEF LiveStreams
      <3> QED BY <2>9, <2>13, <3>1
    <2>20. Holds(lib', net', u, sfh', lost')
      <3>1. \A i \in SID \ LiveStreams(u) : sfh'[i] = "none"
        BY <2>13
      <3>2. u.streams[s].ready <=> sfh'[s] # "none"
        BY <2>9, <2>14
      <3>3. Lent(lib') = Lent(lib) /\ (lost => lost')
        BY <2>3
      <3> QED BY <2>4, <2>9, <2>10, <2>12, <2>14, <2>15, <2>16, <2>17, <2>18, <2>19, <3>1, <3>2, <3>3, RestHolds
    <2>21. \A d \in CID : acclev'[d] \in {ACCLEV_NONE, ACCLEV_IDENTED, ACCLEV_GUEST, ACCLEV_PWRUSER, ACCLEV_ALL}
      BY <2>3 DEF Guard, Cleared
    <2> QED BY <1>1, <2>3, <2>8, <2>20, <2>21, ReplyGuards
  <1> QED BY <1>2, <1>3

\* A stream that is connected, or not: PASSFH and CON_STREAM.
LEMMA ConnectGuarded ==
    ASSUME SessionInv, Guard, NEW c, NEW k, NEW q, Serving(c, k, q),
           lib.at \in {"passfh", "select", "con_stream"}, NEW s, s = lib.id,
           NEW outcome \in {"codec", "ready"}, NEW u, u = client_stream_set_fh(tab, k, s, outcome, "plain"),
           NEW f, f = (IF Takes(k, s, outcome) THEN [sfh EXCEPT ![s] = "ours"] ELSE sfh),
           NEW cmd \in {OK, ERROR}, Reply(c, u, f, cmd, None), Alike(lib', lib), acclev' = acclev,
           lost => lost', cmd = OK => Takes(k, s, outcome) \/ lost',
           lib'.at = "select" /\ lib'.backlog => lib.backlog \/ cmd = OK
    PROVE  Guard'
  <1> DEFINE ok == cmd = OK
  <1>1. /\ Holds(lib, net, tab, sfh, lost) /\ PeersLive(net, tab) /\ SlotsIn(lib, net, tab)
        /\ HandlesKnown(lib, net, tab, sfh, lost) /\ LooseKnown(lib, net, tab, sfh)
        /\ Owned(tab, Main(net), Lent(lib)) /\ (~ lost => Owned(tab, Main(net), {}))
    BY DEF Guard, Holds, OwnersKnown
  <1>2. /\ c = lib.con /\ c = "main" /\ net[c].peer = k /\ k \in CID /\ k \in LiveClients(tab)
        /\ k = Main(net) /\ s \in SID
        /\ Stage(lib, net) = "made" /\ Cur(lib, net) = s /\ Peer(lib, net) = k
    <2>1. Stage(lib, net) = StageOf(lib, TRUE, FALSE) /\ c = lib.con /\ Cur(lib, net) = lib.id
          /\ Peer(lib, net) = k
      BY ServingSees
    <2>2. c = "main" /\ s \in SID
      BY <2>1 DEF Serving, Placed
    <2> QED BY <2>1, <2>2 DEF StageOf, Given, Serving, Main
  <1>3. Replied(c, u, f, ok, None)
    BY Replies
  <1>4. /\ Stage(lib', net') = StageOf(lib, FALSE, Agreed(lib', net')) /\ Cur(lib', net') = s
        /\ Mine(lib, net) \subseteq Mine(lib', net') /\ Room(lib, net) \subseteq Room(lib', net')
        /\ Lent(lib') = Lent(lib) /\ lib'.con = lib.con
    BY <1>3, ReplySlots
  <1>5. Stage(lib', net') \in {"doubt", "handed"} /\ (Stage(lib', net') = "handed" => ok)
    <2>1. Agreed(lib', net') => ok
      BY <1>3 DEF Replied
    <2> QED BY <1>4, <2>1 DEF StageOf, Given
  <1>6. Lent(lib) = {}
    BY DEF Lent, Leaving
  <1>7. \A i \in Loose(tab, sfh) : i = s /\ tab.streams[i].client = k /\ sfh[i] = "none" /\ i \in LiveStreams(tab)
    BY <1>1, <1>2 DEF LooseKnown, Loose
  <1>8. s \in Loose(tab, sfh) => Lists(tab, k, s) /\ ~ tab.streams[s].ready
    <2>1. \A i \in LiveStreams(tab) : i \in SlotSet(tab, tab.streams[i].client)
      BY <1>1, OwnedParts
    <2> QED BY <1>1, <1>2, <1>7, <2>1 DEF Lists, HandlesKnown
  <1>9. Lists(tab, k, s) =>
          /\ u = streams_set_fh(tab, s, outcome, "plain")
          /\ Owned(u, Main(net), Lent(lib)) /\ (~ lost => Owned(u, Main(net), {}))
          /\ \/ u = tab /\ (s \in LiveStreams(tab) => tab.streams[s].ready)
             \/ /\ s \in LiveStreams(tab) /\ ~ tab.streams[s].ready
                /\ \/ /\ outcome = "ready" /\ Patched(tab, u, s) /\ u.streams[s].ready
                      /\ \A d : SlotSet(u, d) = SlotSet(tab, d)
                   \/ outcome = "codec" /\ Trimmed(tab, u, {s}, Become(tab, {s}))
    BY <1>1, <1>2, OwnedSetFh DEF client_stream_set_fh
  <1>10. ~ Lists(tab, k, s) => u = tab
    BY DEF client_stream_set_fh
  <1> HIDE DEF ok
  <1>11. Holds(lib', net', u, sfh', lost')
    <2>1. CASE ~ Takes(k, s, outcome)
      <3>1. Reaped(sfh, sfh', u)
        BY <1>3, <2>1 DEF Replied
      <3>2. ~ (Stage(lib', net') \in {"made", "handed", "execed"} /\ ~ lost')
        BY <1>5, <2>1 DEF ok
      <3>3. \E D, L : Trimmed(tab, u, D, L) /\ (D = {s} \/ (u = tab /\ s \notin Loose(tab, sfh)))
        <4>1. CASE Lists(tab, k, s)
          <5>1. outcome # "ready" \/ s \notin LiveStreams(tab) \/ tab.streams[s].ready
            BY <2>1, <4>1 DEF Takes
          <5>2. CASE u = tab /\ (s \in LiveStreams(tab) => tab.streams[s].ready)
            BY <1>7, <1>8, <5>2, NothingTrimmed
          <5> QED BY <1>9, <4>1, <5>1, <5>2
        <4>2. CASE ~ Lists(tab, k, s)
          BY <1>8, <1>10, <4>2, NothingTrimmed
        <4> QED BY <4>1, <4>2
      <3>4. PICK D, L : Trimmed(tab, u, D, L) /\ (D = {s} \/ (u = tab /\ s \notin Loose(tab, sfh)))
        BY <3>3
      <3>5. Loose(u, sfh') = {}
        <4>1. ASSUME NEW i \in Loose(u, sfh')
              PROVE  FALSE
          <5>1. i \in LiveStreams(u) /\ sfh'[i] \in {"none", "ours"} /\ i \in SID
            BY <4>1 DEF Loose, LiveStreams
          <5>2. sfh'[i] = sfh[i]
            BY <3>1, <5>1 DEF Reaped
          <5>3. i \in LiveStreams(tab) /\ i \notin D
            BY <3>4, <5>1 DEF Trimmed
          <5>4. i \in Loose(tab, sfh)
            BY <5>1, <5>2, <5>3 DEF Loose
          <5> QED BY <1>7, <3>4, <5>3, <5>4
        <4> QED BY <4>1
      <3>6. Owned(u, Main(net), Lent(lib)) /\ (~ lost => Owned(u, Main(net), {}))
        BY <1>1, <1>9, <1>10
      <3> QED BY <1>3, <3>1, <3>2, <3>4, <3>5, <3>6, TrimServed
    <2>2. CASE Takes(k, s, outcome)
      <3>1. Lists(tab, k, s) /\ s \in LiveStreams(tab) /\ ~ tab.streams[s].ready /\ outcome = "ready"
        BY <2>2 DEF Takes
      <3>2. /\ Owned(u, Main(net), Lent(lib)) /\ (~ lost => Owned(u, Main(net), {}))
            /\ Patched(tab, u, s) /\ u.streams[s].ready
            /\ \A d : SlotSet(u, d) = SlotSet(tab, d)
        BY <1>9, <3>1
      <3>3. tab.streams[s].client = k
        <4>1. PICK j \in Slot : tab.clients[k].streams[j] = s
          BY <3>1 DEF Lists, SlotSet
        <4>2. s # None
          BY <1>2, NoneIsNoStream
        <4>3. SlotsOwn(tab, Main(net), {})
          BY <1>1, <1>6 DEF Owned
        <4> QED BY <1>2, <4>1, <4>2, <4>3 DEF SlotsOwn, Owns
      <3>4. /\ LiveStreams(u) = LiveStreams(tab) /\ LiveClients(u) = LiveClients(tab)
            /\ u.clients = tab.clients /\ u.streams[s].client = k
            /\ \A i \in LiveStreams(tab) \ {s} :
                 u.streams[i].client = tab.streams[i].client /\ u.streams[i].ready = tab.streams[i].ready
        BY <3>1, <3>2, <3>3 DEF Patched
      <3>5. PeersLive(net', u) /\ Main(net') = Main(net) /\ Temp(net') = Temp(net)
            /\ \A d \in Conn : net'[d].peer = net[d].peer
        BY <1>1, <1>3, <3>4, PeersStay DEF Replied
      <3>6. \A i \in SID : sfh'[i] = IF i \in LiveStreams(u) THEN IF i = s THEN "ours" ELSE sfh[i] ELSE "none"
        BY <1>3, <2>2 DEF Replied, Reaped, SessionInv
      <3>7. sfh'[s] = "ours" /\ Peer(lib', net') = k
        BY <1>2, <1>4, <3>1, <3>4, <3>5, <3>6 DEF Peer, Conn
      <3>8. SlotsIn(lib', net', u)
        BY <1>1, <1>4, <3>2, <3>5 DEF SlotsIn
      <3>9. OwnersKnown(lib', net', u, lost')
        BY <1>4, <3>2, <3>5, SMTT(60) DEF OwnersKnown
      <3>10. Kept(lib', net', u, sfh')
        BY <1>2, <1>4, <1>5, <3>1, <3>4, <3>5, <3>7 DEF Kept, Loose
      <3>11. \A i \in LiveStreams(u) \ {s} :
               /\ i \in LiveStreams(tab) /\ sfh'[i] = sfh[i]
               /\ u.streams[i].client = tab.streams[i].client
               /\ u.streams[i].ready = tab.streams[i].ready
        <4>1. LiveStreams(u) \subseteq SID
          BY DEF LiveStreams
        <4> QED BY <3>4, <3>6, <4>1
      <3>12. Loose(tab, sfh) \subseteq {s}
        BY <1>7
      <3>13. \A i \in SID \ LiveStreams(u) : sfh'[i] = "none"
        BY <3>6
      <3>14. s \in LiveStreams(u) =>
               /\ u.streams[s].ready <=> sfh'[s] # "none"
               /\ sfh'[s] = "other" =>
                    u.streams[s].client = Other
                    \/ (lost' /\ u.streams[s].client = Main(net') /\ s \in Lent(lib'))
        BY <3>2, <3>7
      <3>15. s \in Loose(u, sfh') =>
               /\ Stage(lib', net') # "none" /\ s = Cur(lib', net')
               /\ Stage(lib', net') \in {"made", "doubt"} => u.streams[s].client = Peer(lib', net')
               /\ Stage(lib', net') = "made" => sfh'[s] = "none"
               /\ Stage(lib', net') \in {"handed", "execed", "closing"} => sfh'[s] = "ours"
        BY <1>4, <1>5, <3>4, <3>7
      <3>16. ~ lost' => Kept(lib', net', u, sfh')
        BY <3>10
      <3>17. Main(net') = Main(net) \/ Main(net) \notin LiveClients(u)
        BY <3>5
      <3>18. PeersLive(net', u)
        BY <3>5
      <3>19. Lent(lib') = Lent(lib) /\ Holds(lib, net, tab, sfh, lost) /\ (lost => lost')
        BY <1>1, <1>4
      <3> HIDE DEF Takes
      <3> QED BY <3>8, <3>9, <3>11, <3>12, <3>13, <3>14, <3>15, <3>16, <3>17, <3>18, <3>19, RestHolds
    <2> QED BY <2>1, <2>2
  <1>12. \A d \in CID : acclev'[d] \in {ACCLEV_NONE, ACCLEV_IDENTED, ACCLEV_GUEST, ACCLEV_PWRUSER, ACCLEV_ALL}
    BY DEF Guard, Cleared
  <1>13. lib'.at = "select" /\ lib'.backlog => lib.backlog \/ ok
    BY DEF ok
  <1> QED BY <1>3, <1>11, <1>12, <1>13, ReplyGuards

\* PASSFH.
LEMMA PassfhGuarded ==
    ASSUME SessionInv, Guard, NEW c, NEW k, NEW q, Serving(c, k, q), q.cmd = "PASSFH",
           req_on_passfh(c, k, q.arg)
    PROVE  Guard'
  <1>1. lib.at = "passfh" /\ q.arg = lib.id
    BY DEF Serving, Asks
  <1> DEFINE s == q.arg
  <1>2. PICK outcome \in Outcomes :
          LET u == client_stream_set_fh(tab, k, s, outcome, "plain") IN
          /\ IF Takes(k, s, outcome) THEN Reply(c, u, [sfh EXCEPT ![s] = "ours"], OK, None)
             ELSE Reply(c, u, sfh, ERROR, None)
          /\ UNCHANGED <<lib, acclev, lost>>
    BY Zenon DEF req_on_passfh
  <1> DEFINE u == client_stream_set_fh(tab, k, s, outcome, "plain")
             f == IF Takes(k, s, outcome) THEN [sfh EXCEPT ![s] = "ours"] ELSE sfh
             cmd == IF Takes(k, s, outcome) THEN OK ELSE ERROR
  <1>3. outcome \in {"codec", "ready"} /\ cmd \in {OK, ERROR}
    BY SessionAssumption
  <1>4. Reply(c, u, f, cmd, None) /\ lib' = lib /\ acclev' = acclev /\ lost' = lost
    BY <1>2
  <1>5. Alike(lib', lib) /\ (cmd = OK => Takes(k, s, outcome))
    BY <1>4 DEF Alike, OK, ERROR
  <1>6. lib'.at = "select" /\ lib'.backlog => lib.backlog
    BY <1>4
  <1>7. \A v, g, a : v = u /\ g = f /\ a = cmd => Reply(c, v, g, a, None)
    BY <1>4
  <1> HIDE DEF cmd
  <1> QED BY <1>1, <1>3, <1>4, <1>5, <1>6, <1>7, ConnectGuarded

\* CON_STREAM, with the connection that it makes.
LEMMA ConStreamGuarded ==
    ASSUME SessionInv, Guard, NEW c, NEW k, NEW q, Serving(c, k, q), q.cmd = "CON_STREAM",
           req_on_con_stream(c, k, q.arg)
    PROVE  Guard'
  <1>1. lib.at \in {"select", "con_stream"} /\ q.arg = lib.id /\ lib \in LibState
    BY DEF Serving, Asks
  <1> DEFINE s == q.arg
  <1>2. CASE Error(c)
    BY <1>1, <1>2, ErrorGuarded
  <1>3. CASE ~ Error(c)
    <2>1. PICK outcome \in Outcomes :
            /\ Reply(c, client_stream_set_fh(tab, k, s, outcome, "plain"),
                     IF Takes(k, s, outcome) THEN [sfh EXCEPT ![s] = "ours"] ELSE sfh, OK, None)
            /\ lost' = (lost \/ ~ Takes(k, s, outcome))
      BY <1>3, Zenon DEF req_on_con_stream
    <2> DEFINE u == client_stream_set_fh(tab, k, s, outcome, "plain")
               f == IF Takes(k, s, outcome) THEN [sfh EXCEPT ![s] = "ours"] ELSE sfh
    <2>2. Reply(c, u, f, OK, None) /\ (lost => lost') /\ (Takes(k, s, outcome) \/ lost')
      BY <2>1
    <2>3. lib' = [lib EXCEPT !.backlog = TRUE] /\ acclev' = acclev
      BY <1>3 DEF req_on_con_stream
    <2>4. Alike(lib', lib)
      BY <1>1, <2>3 DEF LibState, Alike
    <2>5. outcome \in {"codec", "ready"}
      BY SessionAssumption
    <2> QED BY <1>1, <2>2, <2>3, <2>4, <2>5, ConnectGuarded
  <1> QED BY <1>2, <1>3

\* A stream that is connected for the first time.
LEMMA ConnectedFh ==
    ASSUME NEW t, NEW m, NEW X, Owned(t, m, X), NEW s \in LiveStreams(t), s \in SID,
           ~ t.streams[s].ready, NEW outcome \in {"codec", "ready"},
           NEW u, u = streams_set_fh(t, s, outcome, "plain")
    PROVE  /\ Owned(u, m, X)
           /\ \/ /\ Patched(t, u, s) /\ u.streams[s].ready
                 /\ \A d : SlotSet(u, d) = SlotSet(t, d)
              \/ Trimmed(t, u, {s}, Become(t, {s}))
BY OwnedSetFh

\* EXEC_STREAM.
LEMMA ExecGuarded ==
    ASSUME SessionInv, Guard, NEW c, NEW k, NEW q, Serving(c, k, q), q.cmd = "EXEC_STREAM",
           req_on_exec_stream(c, k, q.arg)
    PROVE  Guard'
  <1> DEFINE s == q.arg
             ours == [sfh EXCEPT ![s] = "ours"]
  <1>1. /\ lib.at = "exec" /\ s = lib.id /\ s \in SID /\ k \in LiveClients(tab) /\ k \in CID
        /\ c \in Conn /\ net[c].peer = k /\ lib.con = "temp" /\ s # None
    BY NoneIsNoStream DEF Serving, Asks, Placed
  <1>2. /\ \/ (s \notin LiveStreams(tab) \/ tab.streams[s].ready) /\ Reply(c, clients_close(tab, k), sfh, OK, None)
           \/ Error(c)
           \/ /\ s \in LiveStreams(tab) /\ ~ tab.streams[s].ready /\ Lists(tab, k, s)
              /\ \E outcome \in Outcomes :
                    Reply(c, client_stream_exec(tab, k, s, outcome, "plain"), ours, OK, None)
        /\ lib' = lib /\ acclev' = acclev /\ lost' = lost
    BY DEF req_on_exec_stream, Error
  <1> HIDE DEF s
  <1>3. /\ Holds(lib, net, tab, sfh, lost) /\ PeersLive(net, tab) /\ SlotsIn(lib, net, tab)
        /\ HandlesKnown(lib, net, tab, sfh, lost) /\ LooseKnown(lib, net, tab, sfh)
        /\ Owned(tab, Main(net), Lent(lib)) /\ (~ lost => Owned(tab, Main(net), {}))
        /\ ~ lost => Kept(lib, net, tab, sfh)
    BY DEF Guard, Holds, OwnersKnown
  <1>4. /\ c = "temp" /\ k = Temp(net) /\ k # Main(net) /\ k # Other
        /\ Stage(lib, net) = "made" /\ Cur(lib, net) = s /\ Peer(lib, net) = k
        /\ Room(lib, net) = {s}
    <2>1. Stage(lib, net) = StageOf(lib, TRUE, FALSE) /\ c = lib.con /\ Cur(lib, net) = lib.id
          /\ Peer(lib, net) = k
      BY ServingSees
    <2>2. k = Temp(net) /\ c = "temp"
      BY <1>1, <2>1 DEF Temp
    <2>3. k # Main(net) /\ k # Other
      BY <1>1, <1>3, <2>2 DEF PeersLive, Conn, Temp
    <2>4. Stage(lib, net) = "made"
      BY <1>1, <2>1 DEF StageOf, Given
    <2> QED BY <1>1, <2>1, <2>2, <2>3, <2>4 DEF Room
  <1>5. \A i \in Loose(tab, sfh) : i = s /\ sfh[i] = "none" /\ i \in LiveStreams(tab)
    BY <1>3, <1>4 DEF LooseKnown, Loose
  <1>6. Alike(lib', lib)
    BY <1>2 DEF Alike
  <1>7. \A d \in CID : acclev'[d] \in {ACCLEV_NONE, ACCLEV_IDENTED, ACCLEV_GUEST, ACCLEV_PWRUSER, ACCLEV_ALL}
    BY <1>2 DEF Guard, Cleared
  <1>8. LiveStreams(tab) \subseteq SID /\ LiveClients(tab) \subseteq CID /\ None \notin SID /\ None \notin CID
    BY NoneIsNoStream, NewIsNoClient DEF LiveStreams, LiveClients
  <1>9. CASE (s \notin LiveStreams(tab) \/ tab.streams[s].ready) /\ Reply(c, clients_close(tab, k), sfh, OK, None)
    <2> DEFINE u == clients_close(tab, k)
    <2>1. Replied(c, u, sfh, OK = OK, None)
      BY <1>6, <1>9, Replies
    <2>2. /\ Owned(u, Main(net), Lent(lib)) /\ (~ lost => Owned(u, Main(net), {}))
          /\ u.streams = tab.streams
          /\ LiveStreams(u) = LiveStreams(tab) /\ LiveClients(u) = LiveClients(tab)
          /\ ~ u.clients[k].fh
          /\ \A d \in LiveClients(tab) : d # k => u.clients[d] = tab.clients[d]
          /\ \A d \in LiveClients(tab) : SlotSet(u, d) = SlotSet(tab, d)
      BY <1>1, <1>3, OwnedClosed
    <2> HIDE DEF u
    <2>3. Loose(tab, sfh) = {}
      BY <1>3, <1>5, <1>9 DEF HandlesKnown
    <2>4. lost /\ lost'
      BY <1>2, <1>3, <1>4, <2>3 DEF Kept
    <2>5. Cutoff(net, net', u) /\ Reaped(sfh, sfh', u)
      BY <2>1 DEF Replied
    <2>6. /\ PeersLive(net', u)
          /\ Main(net') = Main(net) \/ (Main(net') = None /\ Main(net) \in CID /\ ~ Reached(Main(net), u))
          /\ Temp(net') \in CID => Temp(net') = Temp(net) /\ Reached(Temp(net), u)
      BY <1>3, <2>5, PeersCut
    <2>7. Main(net') = Main(net)
      <3>1. Main(net) \in CID => Main(net) \in LiveClients(tab) /\ tab.clients[Main(net)].fh
        BY <1>3 DEF PeersLive, Main, Conn
      <3> QED BY <1>4, <2>2, <2>6, <3>1 DEF Reached
    <2>8. Temp(net') \notin CID
      BY <1>4, <2>2, <2>6 DEF Reached
    <2>9. Mine(lib, net) \subseteq Mine(lib', net') /\ Lent(lib') = Lent(lib)
      BY <1>1, <2>1, ReplySlots
    <2>10. SlotsIn(lib', net', u)
      <3>1. Main(net) \in CID => Main(net) \in LiveClients(tab)
        BY <1>3 DEF PeersLive, Main, Conn
      <3> QED BY <1>3, <2>2, <2>7, <2>8, <2>9, <3>1 DEF SlotsIn
    <2>11. OwnersKnown(lib', net', u, lost')
      BY <2>2, <2>4, <2>7, <2>9 DEF OwnersKnown
    <2>12. \A i \in LiveStreams(u) \ {None} :
             /\ i \in LiveStreams(tab) /\ sfh'[i] = sfh[i]
             /\ u.streams[i].client = tab.streams[i].client
             /\ u.streams[i].ready = tab.streams[i].ready
      BY <1>8, <2>2, <2>5 DEF Reaped
    <2>13. \A i \in SID \ LiveStreams(u) : sfh'[i] = "none"
      BY <2>5 DEF Reaped
    <2>14. None \notin LiveStreams(u) /\ None \notin Loose(u, sfh')
      BY <1>8, <2>2 DEF Loose
    <2>15. /\ None \in LiveStreams(u) =>
                /\ u.streams[None].ready <=> sfh'[None] # "none"
                /\ sfh'[None] = "other" =>
                     u.streams[None].client = Other
                     \/ (lost' /\ u.streams[None].client = Main(net') /\ None \in Lent(lib'))
           /\ None \in Loose(u, sfh') =>
                /\ Stage(lib', net') # "none" /\ None = Cur(lib', net')
                /\ Stage(lib', net') \in {"made", "doubt"} => u.streams[None].client = Peer(lib', net')
                /\ Stage(lib', net') = "made" => sfh'[None] = "none"
                /\ Stage(lib', net') \in {"handed", "execed", "closing"} => sfh'[None] = "ours"
      BY <2>14
    <2>16. /\ Loose(tab, sfh) \subseteq {None} /\ (lost => lost') /\ (~ lost' => Kept(lib', net', u, sfh'))
           /\ PeersLive(net', u) /\ (Main(net') = Main(net) \/ Main(net) \notin LiveClients(u))
      BY <2>3, <2>4, <2>6, <2>7
    <2>17. Holds(lib', net', u, sfh', lost')
      BY <1>3, <2>9, <2>10, <2>11, <2>12, <2>13, <2>15, <2>16, RestHolds
    <2> QED BY <1>1, <1>2, <1>7, <2>1, <2>17, ReplyGuards
  <1>10. CASE Error(c)
    BY <1>1, <1>10, ErrorGuarded
  <1>11. ASSUME NEW outcome \in Outcomes, s \in LiveStreams(tab), ~ tab.streams[s].ready, Lists(tab, k, s),
                Reply(c, client_stream_exec(tab, k, s, outcome, "plain"), ours, OK, None)
         PROVE  Guard'
    <2> DEFINE v == [tab EXCEPT !.clients[k].execed = s]
               u == client_stream_exec(tab, k, s, outcome, "plain")
    <2>1. Replied(c, u, ours, OK = OK, None)
      BY <1>6, <1>11, Replies
    <2>2. SlotSet(tab, k) = {s}
      BY <1>1, <1>3, <1>4, <1>11 DEF SlotsIn, Lists
    <2>3. /\ Owned(v, Main(net), Lent(lib)) /\ (~ lost => Owned(v, Main(net), {}))
          /\ v.streams = tab.streams
          /\ LiveStreams(v) = LiveStreams(tab) /\ LiveClients(v) = LiveClients(tab)
          /\ v.clients[k].fh = tab.clients[k].fh /\ v.clients[k].execed = s
          /\ \A d \in LiveClients(tab) : d # k => v.clients[d] = tab.clients[d]
          /\ \A d \in LiveClients(tab) : SlotSet(v, d) = SlotSet(tab, d)
      <3>1. ASSUME NEW X, Owned(tab, Main(net), X)
            PROVE  /\ Owned(v, Main(net), X)
                   /\ v.streams = tab.streams
                   /\ LiveStreams(v) = LiveStreams(tab) /\ LiveClients(v) = LiveClients(tab)
                   /\ v.clients[k].fh = tab.clients[k].fh /\ v.clients[k].execed = s
                   /\ \A d \in LiveClients(tab) : d # k => v.clients[d] = tab.clients[d]
                   /\ \A d \in LiveClients(tab) : SlotSet(v, d) = SlotSet(tab, d)
        <4>1. v = Execed(tab, k, s)
          BY DEF Execed
        <4> HIDE DEF v
        <4> QED BY <1>1, <1>4, <2>2, <3>1, <4>1, OwnedExeced
      <3> HIDE DEF v
      <3> QED BY <1>3, <3>1
    <2>4. u = streams_set_fh(v, s, outcome, "plain")
      BY <1>11 DEF client_stream_exec
    <2> HIDE DEF v, u
    <2>5. /\ Owned(u, Main(net), Lent(lib)) /\ (~ lost => Owned(u, Main(net), {}))
          /\ \/ /\ Patched(v, u, s) /\ u.streams[s].ready
                /\ \A d : SlotSet(u, d) = SlotSet(v, d)
             \/ Trimmed(v, u, {s}, Become(v, {s}))
      <3>1. outcome \in {"codec", "ready"}
        BY SessionAssumption
      <3>2. s \in LiveStreams(v) /\ ~ v.streams[s].ready
        BY <1>11, <2>3
      <3>3. ASSUME NEW X, Owned(v, Main(net), X)
            PROVE  /\ Owned(u, Main(net), X)
                   /\ \/ /\ Patched(v, u, s) /\ u.streams[s].ready
                         /\ \A d : SlotSet(u, d) = SlotSet(v, d)
                      \/ Trimmed(v, u, {s}, Become(v, {s}))
        BY <1>1, <2>4, <3>1, <3>2, <3>3, ConnectedFh
      <3> QED BY <2>3, <3>3
    <2>6. tab.streams[s].client = k
      BY <1>1, <1>3, <1>4, <2>2, OthersListLive DEF Owns
    <2>7. Cutoff(net, net', u) /\ Reaped(ours, sfh', u) /\ ~ Asked(lib', net')
          /\ (Agreed(lib', net') <=> k \in LiveClients(u))
      BY <1>1, <2>1 DEF Replied
    <2>8. \A i \in SID : sfh'[i] = IF i \in LiveStreams(u) THEN IF i = s THEN "ours" ELSE sfh[i] ELSE "none"
      BY <2>7 DEF Reaped, SessionInv
    <2>9. /\ Mine(lib, net) \subseteq Mine(lib', net') /\ Room(lib, net) \subseteq Room(lib', net')
          /\ Lent(lib') = Lent(lib) /\ Cur(lib', net') = s
          /\ Stage(lib', net') = IF k \in LiveClients(u) THEN "execed" ELSE "doubt"
      <3>1. Stage(lib', net') = StageOf(lib, FALSE, Agreed(lib', net'))
        BY <2>1, ReplySlots
      <3>2. Stage(lib', net') = IF k \in LiveClients(u) THEN "execed" ELSE "doubt"
        BY <1>1, <2>7, <3>1 DEF StageOf, Given
      <3> QED BY <1>1, <2>1, <3>2, ReplySlots
    <2>10. Loose(tab, sfh) \subseteq {s} /\ (\A i \in SID \ LiveStreams(u) : sfh'[i] = "none")
      BY <1>5, <2>8
    <2>11. CASE Patched(v, u, s) /\ u.streams[s].ready /\ \A d : SlotSet(u, d) = SlotSet(v, d)
      <3>1. /\ LiveStreams(u) = LiveStreams(tab) /\ LiveClients(u) = LiveClients(tab)
            /\ u.clients = v.clients /\ u.streams[s].client = k
            /\ \A i \in LiveStreams(tab) \ {s} :
                 u.streams[i].client = tab.streams[i].client /\ u.streams[i].ready = tab.streams[i].ready
        BY <1>11, <2>3, <2>6, <2>11 DEF Patched
      <3>2. PeersLive(net', u) /\ Main(net') = Main(net) /\ Temp(net') = Temp(net)
        <4>1. \A d \in LiveClients(tab) : u.clients[d].fh = tab.clients[d].fh
          BY <2>3, <3>1
        <4> QED BY <1>3, <2>7, <3>1, <4>1, PeersStay
      <3>3. sfh'[s] = "ours" /\ Stage(lib', net') = "execed"
        BY <1>1, <1>11, <2>8, <2>9, <3>1
      <3>4. SlotsIn(lib', net', u)
        <4>1. /\ Main(net) \in CID => Main(net) \in LiveClients(tab)
              /\ Temp(net) \in CID => Temp(net) \in LiveClients(tab)
          BY <1>3 DEF PeersLive, Main, Temp, Conn
        <4> QED BY <1>3, <2>3, <2>9, <2>11, <3>2, <4>1 DEF SlotsIn
      <3>5. OwnersKnown(lib', net', u, lost')
        BY <1>2, <2>5, <2>9, <3>2 DEF OwnersKnown
      <3>6. ~ lost' => Kept(lib', net', u, sfh')
        BY <1>11, <2>3, <2>9, <3>1, <3>3 DEF Kept, Loose
      <3>7. \A i \in LiveStreams(u) \ {s} :
              /\ i \in LiveStreams(tab) /\ sfh'[i] = sfh[i]
              /\ u.streams[i].client = tab.streams[i].client
              /\ u.streams[i].ready = tab.streams[i].ready
        BY <1>8, <2>8, <3>1
      <3>8. s \in LiveStreams(u) =>
              /\ u.streams[s].ready <=> sfh'[s] # "none"
              /\ sfh'[s] = "other" =>
                   u.streams[s].client = Other
                   \/ (lost' /\ u.streams[s].client = Main(net') /\ s \in Lent(lib'))
        BY <2>11, <3>3
      <3>9. s \in Loose(u, sfh') =>
              /\ Stage(lib', net') # "none" /\ s = Cur(lib', net')
              /\ Stage(lib', net') \in {"made", "doubt"} => u.streams[s].client = Peer(lib', net')
              /\ Stage(lib', net') = "made" => sfh'[s] = "none"
              /\ Stage(lib', net') \in {"handed", "execed", "closing"} => sfh'[s] = "ours"
        BY <2>9, <3>3
      <3>10. (lost => lost') /\ PeersLive(net', u) /\ (Main(net') = Main(net) \/ Main(net) \notin LiveClients(u))
        BY <1>2, <3>2
      <3>11. Holds(lib', net', u, sfh', lost')
        BY <1>3, <2>9, <2>10, <3>4, <3>5, <3>6, <3>7, <3>8, <3>9, <3>10, RestHolds
      <3> QED BY <1>1, <1>2, <1>7, <2>1, <3>11, ReplyGuards
    <2>12. CASE Trimmed(v, u, {s}, Become(v, {s}))
      <3>1. /\ LiveStreams(u) = LiveStreams(tab) \ {s} /\ LiveClients(u) \subseteq LiveClients(tab)
            /\ k \notin LiveClients(u)
            /\ \A i \in LiveStreams(u) :
                 u.streams[i].client = tab.streams[i].client /\ u.streams[i].ready = tab.streams[i].ready
            /\ \A d \in LiveClients(u) : u.clients[d].fh = tab.clients[d].fh /\ SlotSet(u, d) \subseteq SlotSet(tab, d)
        <4>1. k \in Become(v, {s})
          BY <1>1, <2>3 DEF Become
        <4>2. \A d \in LiveClients(u) : d \in LiveClients(tab) /\ d # k
          BY <2>3, <2>12, <4>1 DEF Trimmed
        <4>3. \A d \in LiveClients(u) : u.clients[d].fh = v.clients[d].fh /\ SlotSet(u, d) \subseteq SlotSet(v, d)
          BY <2>12 DEF Trimmed
        <4>4. \A d \in LiveClients(u) : u.clients[d].fh = tab.clients[d].fh /\ SlotSet(u, d) \subseteq SlotSet(tab, d)
          BY <2>3, <4>2, <4>3
        <4> QED BY <2>3, <2>12, <4>2, <4>4 DEF Trimmed
      <3>2. /\ PeersLive(net', u)
            /\ Main(net') = Main(net) \/ (Main(net') = None /\ Main(net) \in CID /\ ~ Reached(Main(net), u))
            /\ Main(net') \in CID => Main(net') = Main(net) /\ Reached(Main(net), u)
            /\ Temp(net') \in CID => Temp(net') = Temp(net) /\ Reached(Temp(net), u)
        BY <1>3, <2>7, PeersCut
      <3>3. Main(net') = Main(net) \/ (Main(net') = None /\ Main(net) \notin LiveClients(u))
        <4>1. Main(net) \in CID => tab.clients[Main(net)].fh
          BY <1>3 DEF PeersLive, Main, Conn
        <4> QED BY <3>1, <3>2, <4>1 DEF Reached
      <3>4. OwnersKnown(lib', net', u, lost')
        <4>1. Owned(u, Main(net'), Lent(lib'))
          BY <1>8, <2>5, <2>9, <3>1, <3>3, OwnedBy
        <4>2. ~ lost' => Owned(u, Main(net'), {})
          BY <1>2, <1>8, <2>5, <3>1, <3>3, OwnedBy
        <4> QED BY <4>1, <4>2 DEF OwnersKnown
      <3>5. SlotsIn(lib', net', u)
        BY <1>3, <1>4, <2>9, <3>1, <3>2 DEF SlotsIn, Reached
      <3>6. ~ lost' => Kept(lib', net', u, sfh')
        BY <2>9, <3>1 DEF Kept
      <3>7. \A i \in LiveStreams(u) \ {s} :
              /\ i \in LiveStreams(tab) /\ sfh'[i] = sfh[i]
              /\ u.streams[i].client = tab.streams[i].client
              /\ u.streams[i].ready = tab.streams[i].ready
        BY <1>8, <2>8, <3>1
      <3>8. s \notin LiveStreams(u) /\ s \notin Loose(u, sfh')
        BY <3>1 DEF Loose
      <3>9. (lost => lost') /\ PeersLive(net', u) /\ (Main(net') = Main(net) \/ Main(net) \notin LiveClients(u))
        BY <1>2, <3>2, <3>3
      <3>10. Holds(lib', net', u, sfh', lost')
        BY <1>3, <2>9, <2>10, <3>4, <3>5, <3>6, <3>7, <3>8, <3>9, RestHolds
      <3> QED BY <1>1, <1>2, <1>7, <2>1, <3>10, ReplyGuards
    <2> QED BY <2>5, <2>11, <2>12
  <1> QED BY <1>2, <1>9, <1>10, <1>11

\* KICK: of the stream that a call asked for, nothing is left.
LEMMA KickGuarded ==
    ASSUME SessionInv, Guard, NEW c, NEW k, NEW q, Serving(c, k, q), q.cmd = "KICK",
           req_on_kick(c, q.arg)
    PROVE  Guard'
  <1> DEFINE s == q.arg
             u == streams_delete(tab, s)
             D == {s} \cap LiveStreams(tab)
             L == Become(tab, D)
  <1>1. /\ lib.at = "kick" /\ s = lib.id /\ c = "main" /\ net[c].peer = k /\ k = Main(net)
        /\ lib.con = "main" /\ k \in LiveClients(tab) /\ s \in SID
    <2>1. c = lib.con
      BY ServingSees
    <2> QED BY <2>1 DEF Serving, Asks, Placed, Main
  <1>2. Reply(c, u, sfh, OK, None) /\ lib' = lib /\ acclev' = acclev /\ lost' = lost
    BY DEF req_on_kick
  <1>3. /\ Holds(lib, net, tab, sfh, lost) /\ SlotsIn(lib, net, tab) /\ LooseKnown(lib, net, tab, sfh)
        /\ Owned(tab, Main(net), Lent(lib)) /\ (~ lost => Owned(tab, Main(net), {}))
        /\ PeersLive(net, tab)
    BY DEF Guard, Holds, OwnersKnown
  <1>4. /\ Owned(u, Main(net), Lent(lib)) /\ (~ lost => Owned(u, Main(net), {}))
        /\ Trimmed(tab, u, D, L)
    <2>1. ASSUME NEW X, Owned(tab, Main(net), X)
          PROVE  Owned(u, Main(net), X) /\ Trimmed(tab, u, D, L)
      <3>1. CASE s \in LiveStreams(tab)
        <4>1. D = {s}
          BY <3>1
        <4> HIDE DEF D
        <4> QED BY <2>1, <3>1, <4>1, OwnedDeleters
      <3>2. CASE s \notin LiveStreams(tab)
        <4>1. D = {} /\ u = tab /\ L = {}
          BY <3>2 DEF streams_delete, Become
        <4> HIDE DEF D, L, u
        <4> QED BY <2>1, <4>1, NothingTrimmed
      <3> QED BY <3>1, <3>2
    <2> HIDE DEF u, D, L
    <2> QED BY <1>3, <2>1
  <1>5. Replied(c, u, sfh, OK = OK, None)
    <2>1. Alike(lib', lib)
      BY <1>2 DEF Alike
    <2> QED BY <1>2, <2>1, Replies
  <1> HIDE DEF s, u
  <1>6. Cutoff(net, net', u) /\ Reaped(sfh, sfh', u)
    BY <1>5 DEF Replied
  <1>7. Cur(lib, net) = s /\ Stage(lib, net) = StageOf(lib, TRUE, FALSE)
    BY <1>1, ServingSees
  <1>8. Loose(u, sfh') = {}
    <2>1. ASSUME NEW i \in Loose(u, sfh')
          PROVE  FALSE
      <3>1. i \in LiveStreams(u) /\ sfh'[i] \in {"none", "ours"} /\ i \in SID
        BY <2>1 DEF Loose, LiveStreams
      <3>2. sfh'[i] = sfh[i] /\ i \in LiveStreams(tab) /\ i # s
        BY <1>4, <1>6, <3>1 DEF Reaped, Trimmed
      <3> QED BY <1>3, <1>7, <3>1, <3>2 DEF LooseKnown, Loose
    <2> QED BY <2>1
  <1>9. Stage(lib', net') = (IF lib.then = "close" THEN "closing" ELSE "none")
    <2>1. Stage(lib', net') = StageOf(lib, FALSE, Agreed(lib', net'))
      BY <1>5, ReplySlots
    <2> QED BY <1>1, <2>1 DEF StageOf, Given
  <1>10. lost => lost'
    BY <1>2
  <1> HIDE DEF D, L
  <1>11. Holds(lib', net', u, sfh', lost')
    <2>1. CASE lib.then = "close"
      BY <1>4, <1>5, <1>6, <1>8, <1>9, <1>10, <2>1, TrimServed
    <2>2. CASE lib.then # "close"
      <3>1. Lent(lib) = {} /\ Mine(lib, net) \subseteq {s}
        BY <1>1, <1>7, <2>2 DEF Lent, Leaving, Mine
      <3>2. SlotSet(tab, k) \subseteq {s}
        <4>1. k \in CID
          BY DEF Serving
        <4> QED BY <1>1, <1>3, <3>1, <4>1 DEF SlotsIn
      <3>3. s \in SlotSet(tab, k) => s \in D /\ tab.streams[s].client = k
        <4> SUFFICES ASSUME s \in SlotSet(tab, k) PROVE s \in D /\ tab.streams[s].client = k
          OBVIOUS
        <4>1. PICK j \in Slot : tab.clients[k].streams[j] = s
          BY DEF SlotSet
        <4>2. s # None
          BY <1>1, NoneIsNoStream
        <4>3. SlotsOwn(tab, Main(net), {})
          BY <1>3, <3>1 DEF Owned
        <4> QED BY <1>1, <4>1, <4>2, <4>3 DEF SlotsOwn, Owns, D
      <3>4. k \in LiveClients(u) => SlotSet(u, k) = {}
        BY <1>4, <3>2, <3>3 DEF Trimmed
      <3>5. /\ Main(net') \in CID => Main(net') = Main(net) /\ Reached(Main(net), u)
            /\ Temp(net') \in CID => Temp(net') = Temp(net) /\ Reached(Temp(net), u)
        BY <1>3, <1>6, PeersCut
      <3>6. SlotsIn(lib', net', u)
        <4>1. Room(lib', net') = SID
          BY <1>1, <1>5, ReplySlots
        <4>2. \A d \in LiveClients(u) : SlotSet(u, d) \subseteq SID
          <5>1. u \in TablesType
            BY <1>4 DEF Owned
          <5> QED BY <5>1, EntryTypes
        <4> QED BY <1>1, <3>4, <3>5, <4>1, <4>2 DEF SlotsIn, Reached
      <3>7. Lent(lib') = Lent(lib) /\ Sinks(lib, net, lib', net', u, sfh')
        BY <1>2, <1>8 DEF Sinks
      <3>8. Stage(lib', net') \notin {"made", "handed", "execed"}
        BY <1>9, <2>2
      <3> QED BY <1>3, <1>4, <1>6, <1>10, <3>6, <3>7, <3>8, TrimHolds
    <2> QED BY <2>1, <2>2
  <1>12. \A d \in CID : acclev'[d] \in {ACCLEV_NONE, ACCLEV_IDENTED, ACCLEV_GUEST, ACCLEV_PWRUSER, ACCLEV_ALL}
    BY <1>2 DEF Guard, Cleared
  <1> QED BY <1>1, <1>2, <1>5, <1>11, <1>12, ReplyGuards

\* QUIT: the client goes with its streams and is not answered.
LEMMA QuitGuarded ==
    ASSUME SessionInv, Guard, NEW c, NEW k, NEW q, Serving(c, k, q), q.cmd = "QUIT",
           Reply(c, clients_delete(tab, k), sfh, ERROR, None), UNCHANGED <<lib, acclev, lost>>
    PROVE  Guard'
  <1> DEFINE u == clients_delete(tab, k)
             D == SlotSet(tab, k) \cap LiveStreams(tab)
             L == {k} \cup Become(tab, D)
  <1>1. lib.at = "quit" /\ c \in Conn /\ net[c].peer = k /\ k \in LiveClients(tab) /\ k \in CID
    BY DEF Serving, Asks
  <1>2. /\ PeersLive(net, tab)
        /\ Owned(tab, Main(net), Lent(lib)) /\ (~ lost => Owned(tab, Main(net), {}))
    BY DEF Guard, Holds, OwnersKnown
  <1>3. /\ Owned(u, Main(net), Lent(lib)) /\ (~ lost => Owned(u, Main(net), {}))
        /\ Trimmed(tab, u, D, L)
    <2>1. k # Other
      BY <1>1, <1>2 DEF PeersLive
    <2>2. ASSUME NEW X, Owned(tab, Main(net), X)
          PROVE  Owned(u, Main(net), X) /\ Trimmed(tab, u, D, L)
      BY <1>1, <2>1, <2>2, OwnedDeleters
    <2> HIDE DEF u, D, L
    <2> QED BY <1>2, <2>2
  <1>4. Replied(c, u, sfh, ERROR = OK, None)
    <2>1. Alike(lib', lib)
      BY DEF Alike
    <2> QED BY <2>1, Replies
  <1>5. k \notin LiveClients(u)
    BY <1>3 DEF Trimmed
  <1> HIDE DEF u, D, L
  <1>6. Reaped(sfh, sfh', u)
    BY <1>4 DEF Replied
  <1>7. Stage(lib, net) = Stage(lib', net') /\ Stage(lib, net) \in {"none", "doubt"}
    <2>1. Stage(lib, net) = StageOf(lib, TRUE, FALSE)
      BY ServingSees
    <2>2. Stage(lib', net') = StageOf(lib, FALSE, Agreed(lib', net'))
      BY <1>4, ReplySlots
    <2> QED BY <1>1, <2>1, <2>2 DEF StageOf
  <1>8. Holds(lib', net', u, sfh', lost')
    BY <1>1, <1>3, <1>4, <1>6, <1>7, TrimServed DEF Falls
  <1>9. \A d \in CID : acclev'[d] \in {ACCLEV_NONE, ACCLEV_IDENTED, ACCLEV_GUEST, ACCLEV_PWRUSER, ACCLEV_ALL}
    BY DEF Guard, Cleared
  <1> QED BY <1>1, <1>4, <1>5, <1>8, <1>9, ReplyGuards

\* An id that is the client's own after all.
LEMMA OwnedAlso ==
    ASSUME NEW t, NEW m, NEW s, Owned(t, m, {s}), Owns(t, m, s)
    PROVE  Owned(t, m, {})
BY DEF Owned, SlotsOwn

\* ATTACH: the program's client lists the stream afterwards.
LEMMA AttachGuarded ==
    ASSUME SessionInv, Guard, NEW c, NEW k, NEW q, Serving(c, k, q), q.cmd = "ATTACH",
           q = Head(net[c].req), req_on_attach(c, q.arg.stream, q.arg.client)
    PROVE  Guard'
  <1> DEFINE s == q.arg.stream
             u == client_stream_move(tab, k, s)
             cmd == IF Lists(u, k, s) THEN OK ELSE ERROR
  <1>1. /\ lib.at = "attach" /\ s = lib.id /\ c = "main" /\ net[c].peer = k /\ k = Main(net)
        /\ lib.con = "main" /\ k \in LiveClients(tab) /\ k \in CID /\ s \in SID
    <2>1. c = lib.con
      BY ServingSees
    <2> QED BY <2>1 DEF Serving, Asks, Placed, Main
  <1>2. q.arg.client = k
    <2>1. Asked(lib, net) /\ Control(lib, net)
      BY ServingSees DEF Guard
    <2> QED BY <1>1, <2>1 DEF Control
  <1>3. Reply(c, u, sfh, cmd, None) /\ lib' = lib /\ acclev' = acclev /\ lost' = lost
    BY <1>2 DEF req_on_attach
  <1>4. /\ Holds(lib, net, tab, sfh, lost) /\ PeersLive(net, tab) /\ SlotsIn(lib, net, tab)
        /\ HandlesKnown(lib, net, tab, sfh, lost) /\ LooseKnown(lib, net, tab, sfh)
        /\ Owned(tab, Main(net), Lent(lib)) /\ (~ lost => Kept(lib, net, tab, sfh))
    BY DEF Guard, Holds, OwnersKnown
  <1>5. /\ Stage(lib, net) = "execed" /\ Cur(lib, net) = s
        /\ Lent(lib) = {s} /\ Mine(lib, net) = {}
    <2>1. Stage(lib, net) = StageOf(lib, TRUE, FALSE) /\ Cur(lib, net) = lib.id
      BY ServingSees
    <2>2. Stage(lib, net) = "execed"
      BY <1>1, <2>1 DEF StageOf, Given
    <2> HIDE DEF s
    <2> QED BY <1>1, <2>1, <2>2 DEF Lent, Mine, Leaving
  <1>6. SlotSet(tab, k) = {} /\ k # Other
    <2>1. SlotSet(tab, k) = {}
      BY <1>1, <1>4, <1>5 DEF SlotsIn
    <2>2. k # Other
      BY <1>1, <1>4 DEF PeersLive, Conn
    <2> QED BY <2>1, <2>2
  <1>7. Owned(u, k, {s}) /\ ((u = tab /\ ~ Lists(u, k, s)) \/ Moved(tab, u, k, s))
    <2> HIDE DEF s
    <2> QED BY <1>1, <1>4, <1>6, OwnedMove
  <1>8. \A d \in CID : acclev'[d] \in Grades
    BY <1>3 DEF Guard, Cleared, Grades
  <1> HIDE DEF s, u
  <1>9. CASE u = tab /\ ~ Lists(u, k, s)
    BY <1>1, <1>3, <1>8, <1>9, SameGuarded
  <1>10. CASE Moved(tab, u, k, s)
    <2>1. /\ LiveStreams(u) = LiveStreams(tab) /\ LiveClients(u) \subseteq LiveClients(tab)
          /\ k \in LiveClients(u) /\ SlotSet(u, k) = {s}
          /\ s \in LiveStreams(tab) => u.streams[s].client = k
          /\ \A i \in LiveStreams(tab) :
               /\ u.streams[i].ready = tab.streams[i].ready
               /\ i # s => u.streams[i].client = tab.streams[i].client
          /\ \A d \in LiveClients(u) : u.clients[d].fh = tab.clients[d].fh
      BY <1>10 DEF Moved
    <2>2. cmd = OK
      BY <2>1 DEF Lists
    <2>3. Replied(c, u, sfh, OK = OK, None)
      <3>1. Alike(lib', lib)
        BY <1>3 DEF Alike
      <3> QED BY <1>3, <2>2, <3>1, Replies
    <2>4. Cutoff(net, net', u) /\ Reaped(sfh, sfh', u) /\ Agreed(lib', net')
      BY <1>1, <2>1, <2>3 DEF Replied
    <2>5. /\ Stage(lib', net') = "handed" /\ Cur(lib', net') = s /\ Room(lib', net') = SID
          /\ Lent(lib') = {s} /\ Lent(lib') = Lent(lib) /\ lib'.con = "main"
      <3>1. Stage(lib', net') = StageOf(lib, FALSE, Agreed(lib', net'))
        BY <2>3, ReplySlots
      <3>2. Stage(lib', net') = "handed"
        BY <1>1, <2>4, <3>1 DEF StageOf, Given
      <3> QED BY <1>1, <1>5, <2>3, <3>2, ReplySlots
    <2>6. Mine(lib', net') = {s}
      BY <2>5 DEF Mine
    <2>7. /\ PeersLive(net', u) /\ Main(net') = k
          /\ Temp(net') \in CID => Reached(Temp(net'), u)
      <3>1. /\ PeersLive(net', u)
            /\ Main(net') = Main(net) \/ (Main(net') = None /\ Main(net) \in CID /\ ~ Reached(Main(net), u))
            /\ Temp(net') \in CID => Temp(net') = Temp(net) /\ Reached(Temp(net), u)
        BY <1>4, <2>4, PeersCut
      <3>2. Reached(k, u)
        <4>1. tab.clients[k].fh
          BY <1>1, <1>4 DEF PeersLive, Conn
        <4> QED BY <2>1, <4>1 DEF Reached
      <3> QED BY <1>1, <3>1, <3>2
    <2>8. \A i \in SID : sfh'[i] = IF i \in LiveStreams(u) THEN sfh[i] ELSE "none"
      BY <2>4 DEF Reaped
    <2>9. ~ lost => s \in LiveStreams(tab) /\ sfh[s] \in {"none", "ours"}
      BY <1>4, <1>5 DEF Kept, Loose
    <2>10. OwnersKnown(lib', net', u, lost')
      <3>1. ~ lost => Owned(u, k, {})
        BY <1>7, <2>1, <2>9, OwnedAlso DEF Owns
      <3> QED BY <1>3, <1>7, <2>5, <2>7, <3>1 DEF OwnersKnown
    <2>11. SlotsIn(lib', net', u)
      <3>1. \A d \in LiveClients(u) : SlotSet(u, d) \subseteq SID
        <4>1. u \in TablesType
          BY <1>7 DEF Owned
        <4> QED BY <4>1, EntryTypes
      <3> QED BY <2>1, <2>5, <2>6, <2>7, <3>1 DEF SlotsIn, Reached
    <2>12. Loose(tab, sfh) \subseteq {s} /\ (s \in Loose(tab, sfh) => sfh[s] = "ours")
      BY <1>4, <1>5 DEF LooseKnown
    <2>13. \A i \in LiveStreams(u) \ {s} :
             /\ i \in LiveStreams(tab) /\ sfh'[i] = sfh[i]
             /\ u.streams[i].client = tab.streams[i].client
             /\ u.streams[i].ready = tab.streams[i].ready
      <3>1. LiveStreams(u) \subseteq SID
        BY DEF LiveStreams
      <3> QED BY <2>1, <2>8, <3>1
    <2>14. s \in LiveStreams(u) =>
             /\ u.streams[s].ready <=> sfh'[s] # "none"
             /\ sfh'[s] = "other" =>
                  u.streams[s].client = Other
                  \/ (lost' /\ u.streams[s].client = Main(net') /\ s \in Lent(lib'))
      <3> SUFFICES ASSUME s \in LiveStreams(u)
                   PROVE  /\ u.streams[s].ready <=> sfh'[s] # "none"
                          /\ sfh'[s] = "other" =>
                               lost' /\ u.streams[s].client = Main(net') /\ s \in Lent(lib')
        OBVIOUS
      <3>1. sfh'[s] = sfh[s] /\ s \in LiveStreams(tab) /\ u.streams[s].client = k
            /\ u.streams[s].ready = tab.streams[s].ready
        BY <1>1, <2>1, <2>8
      <3>2. tab.streams[s].ready <=> sfh[s] # "none"
        BY <1>4, <3>1 DEF HandlesKnown
      <3>3. sfh[s] = "other" => lost'
        BY <1>3, <2>9
      <3> QED BY <2>5, <2>7, <3>1, <3>2, <3>3
    <2>15. s \in Loose(u, sfh') =>
             /\ Stage(lib', net') # "none" /\ s = Cur(lib', net')
             /\ Stage(lib', net') \in {"made", "doubt"} => u.streams[s].client = Peer(lib', net')
             /\ Stage(lib', net') = "made" => sfh'[s] = "none"
             /\ Stage(lib', net') \in {"handed", "execed", "closing"} => sfh'[s] = "ours"
      <3>1. s \in Loose(u, sfh') => s \in Loose(tab, sfh) /\ sfh'[s] = sfh[s]
        BY <1>1, <2>1, <2>8 DEF Loose
      <3> QED BY <2>5, <2>12, <3>1
    <2>16. ~ lost' => Kept(lib', net', u, sfh')
      <3> SUFFICES ASSUME ~ lost' PROVE Kept(lib', net', u, sfh')
        OBVIOUS
      <3>1. s \in LiveStreams(u) /\ u.streams[s].client = k /\ sfh'[s] \in {"none", "ours"}
        BY <1>1, <1>3, <2>1, <2>8, <2>9
      <3> QED BY <2>5, <2>7, <3>1 DEF Kept, Loose
    <2>17. /\ (lost => lost') /\ (Main(net') = Main(net) \/ Main(net) \notin LiveClients(u))
           /\ (\A i \in SID \ LiveStreams(u) : sfh'[i] = "none") /\ Loose(tab, sfh) \subseteq {s}
           /\ PeersLive(net', u) /\ Lent(lib') = Lent(lib)
      BY <1>1, <1>3, <2>5, <2>7, <2>8, <2>12, SMTT(60)
    <2>18. Holds(lib', net', u, sfh', lost')
      BY <1>4, <2>10, <2>11, <2>13, <2>14, <2>15, <2>16, <2>17, RestHolds
    <2> QED BY <1>1, <1>3, <1>8, <2>3, <2>18, ReplyGuards DEF Grades
  <1> QED BY <1>7, <1>9, <1>10, SMTT(60)

\* The levels that the requests need.
LEMMA NeedsLevel ==
    /\ minacclev("WHOAMI") = ACCLEV_NONE /\ minacclev("QUIT") = ACCLEV_NONE
    /\ minacclev("KICK") = ACCLEV_PWRUSER /\ minacclev("NEW_STREAM") = ACCLEV_USER
BY DEF minacclev

\* clients_check() and command_exec().
LEMMA ServeGuarded ==
    ASSUME SessionInv, Guard, NEW c \in Conn, Serve(c)
    PROVE  Guard'
  <1> DEFINE k == net[c].peer
             q == Head(net[c].req)
  <1>1. /\ net[c].req # <<>> /\ k \in LiveClients(tab) /\ k \in CID /\ tab.clients[k].execed = None
    BY DEF Serve, LiveClients
  <1>2. Serving(c, k, q)
    <2>1. /\ lib \in LibState /\ Placed(lib) /\ Talk(lib, net)
      BY DEF SessionInv, Talking
    <2>2. lib.at \notin Idle /\ Exchange(lib, net[c])
      BY <1>1, <2>1 DEF Talk, Silent
    <2>3. \E r \in Request : net[c].req = <<r>> /\ Asks(lib, r)
      BY <1>1, <2>2 DEF Exchange, Silent
    <2>4. q \in Request /\ Asks(lib, q)
      BY <2>3, OneMessage
    <2> HIDE DEF q
    <2> QED BY <1>1, <2>1, <2>2, <2>4 DEF Serving
  <1>3. acclev[k] \in Grades /\ acclev \in [CID -> Levels]
    BY <1>1 DEF SessionInv, Guard, Cleared, Grades
  <1>4. CASE minacclev(q.cmd) > acclev[k]
    <2>1. Error(c)
      BY <1>4 DEF Serve
    <2> HIDE DEF k, q
    <2>2. q.cmd \notin {"WHOAMI", "QUIT"}
      BY <1>3, <1>4, NeedsLevel
         DEF Grades, ACCLEV_NONE, ACCLEV_IDENTED, ACCLEV_GUEST, ACCLEV_PWRUSER, ACCLEV_ALL
    <2>3. lib.at \notin {"whoami", "quit"}
      BY <1>2, <2>2 DEF Serving, Asks
    <2>4. ~ (lib.at = "kick" /\ lib.then # "close")
      <3> SUFFICES ASSUME lib.at = "kick", lib.then # "close" PROVE FALSE
        OBVIOUS
      <3>1. q.cmd = "KICK"
        BY <1>2 DEF Serving, Asks
      <3>2. c = lib.con /\ lib.con = "main" /\ k = Main(net)
        <4>1. c = lib.con
          BY <1>2, ServingSees
        <4> QED BY <1>2, <4>1 DEF Serving, Placed, Main
      <3>3. HighPlace(lib, net)
        BY <3>2 DEF HighPlace
      <3>4. acclev[k] >= ACCLEV_PWRUSER
        BY <1>1, <3>2, <3>3 DEF Guard, Cleared
      <3> QED BY <1>3, <1>4, <3>1, <3>4, NeedsLevel
             DEF Grades, ACCLEV_NONE, ACCLEV_IDENTED, ACCLEV_GUEST, ACCLEV_PWRUSER, ACCLEV_ALL
    <2> QED BY <1>2, <2>1, <2>3, <2>4, ErrorGuarded
  <1>5. CASE ~ (minacclev(q.cmd) > acclev[k])
    <2>1. CASE q.cmd = "IDENTIFY"
      <3>1. req_on_identify(c, k)
        BY <1>5, <2>1, Zenon DEF Serve
      <3> HIDE DEF k, q
      <3> QED BY <1>2, <2>1, <3>1, IdentifyGuarded
    <2>2. CASE q.cmd = "AUTH"
      <3>1. req_on_auth(c, k, q.arg)
        BY <1>5, <2>2, Zenon DEF Serve
      <3> HIDE DEF k, q
      <3> QED BY <1>2, <2>2, <3>1, AuthGuarded
    <2>3. CASE q.cmd = "NEW_STREAM"
      <3>1. req_on_new_stream(c, k)
        BY <1>5, <2>3, Zenon DEF Serve
      <3> HIDE DEF k, q
      <3>2. acclev[k] >= ACCLEV_PWRUSER
        BY <1>3, <1>5, <2>3, NeedsLevel
           DEF Grades, ACCLEV_NONE, ACCLEV_IDENTED, ACCLEV_GUEST, ACCLEV_USER, ACCLEV_PWRUSER, ACCLEV_ALL
      <3> QED BY <1>1, <1>2, <2>3, <3>1, <3>2, NewStreamGuarded
    <2>4. CASE q.cmd = "PASSFH"
      <3>1. req_on_passfh(c, k, q.arg)
        BY <1>5, <2>4, Zenon DEF Serve
      <3> HIDE DEF k, q
      <3> QED BY <1>2, <2>4, <3>1, PassfhGuarded
    <2>5. CASE q.cmd = "CON_STREAM"
      <3>1. req_on_con_stream(c, k, q.arg)
        BY <1>5, <2>5, Zenon DEF Serve
      <3> HIDE DEF k, q
      <3> QED BY <1>2, <2>5, <3>1, ConStreamGuarded
    <2>6. CASE q.cmd = "EXEC_STREAM"
      <3>1. req_on_exec_stream(c, k, q.arg)
        BY <1>5, <2>6, Zenon DEF Serve
      <3> HIDE DEF k, q
      <3> QED BY <1>2, <2>6, <3>1, ExecGuarded
    <2>7. CASE q.cmd = "KICK"
      <3>1. req_on_kick(c, q.arg)
        BY <1>5, <2>7, Zenon DEF Serve
      <3> HIDE DEF k, q
      <3> QED BY <1>2, <2>7, <3>1, KickGuarded
    <2>8. CASE q.cmd = "ATTACH"
      <3>1. req_on_attach(c, q.arg.stream, q.arg.client)
        BY <1>5, <2>8, Zenon DEF Serve
      <3>2. q = Head(net[c].req)
        OBVIOUS
      <3> HIDE DEF k, q
      <3> QED BY <1>2, <2>8, <3>1, <3>2, AttachGuarded
    <2>9. CASE q.cmd = "WHOAMI"
      <3>1. Reply(c, tab, sfh, OK, k) /\ UNCHANGED <<lib, acclev, lost>>
        BY <1>5, <2>9, Zenon DEF Serve
      <3> HIDE DEF k, q
      <3>2. lib.at = "whoami"
        BY <1>2, <2>9 DEF Serving, Asks
      <3>3. \A d \in CID : acclev'[d] \in Grades
        BY <3>1 DEF Guard, Cleared, Grades
      <3> QED BY <1>1, <1>2, <3>1, <3>2, <3>3, SameGuarded
    <2>10. CASE q.cmd = "GET_STREAM_PARA"
      <3>1. Reply(c, tab, sfh, OK, None) /\ UNCHANGED <<lib, acclev, lost>>
        BY <1>5, <2>10, Zenon DEF Serve
      <3> HIDE DEF k, q
      <3>2. lib.at = "info"
        BY <1>2, <2>10 DEF Serving, Asks
      <3>3. \A d \in CID : acclev'[d] \in Grades
        BY <3>1 DEF Guard, Cleared, Grades
      <3> QED BY <1>1, <1>2, <3>1, <3>2, <3>3, SameGuarded
    <2>11. CASE q.cmd = "QUIT"
      <3>1. Reply(c, clients_delete(tab, k), sfh, ERROR, None) /\ UNCHANGED <<lib, acclev, lost>>
        BY <1>5, <2>11, Zenon DEF Serve
      <3> HIDE DEF k, q
      <3> QED BY <1>2, <2>11, <3>1, QuitGuarded
    <2>12. q.cmd \in {"IDENTIFY", "AUTH", "NEW_STREAM", "PASSFH", "CON_STREAM", "KICK",
                      "EXEC_STREAM", "WHOAMI", "ATTACH", "GET_STREAM_PARA", "QUIT"}
      <3> HIDE DEF q
      <3> QED BY <1>2 DEF Serving, Request
    <2> QED BY <2>1, <2>2, <2>3, <2>4, <2>5, <2>6, <2>7, <2>8, <2>9, <2>10, <2>11, <2>12
  <1> QED BY <1>4, <1>5, SMTT(60)

\* The stage when the connection is closed in place of an answer.
LEMMA StageDrops ==
    ASSUME NEW l, NEW a, a = StageOf(l, TRUE, FALSE), NEW b, b = StageOf(l, FALSE, FALSE)
    PROVE  \/ b = a
           \/ a = "made" /\ b = "doubt"
           \/ a \in {"handed", "execed"} /\ b = "closing"
           \/ a = "doubt" /\ b = "none"
  <1>1. /\ l.at = "passfh" => StageOf(l, TRUE, FALSE) = "made" /\ StageOf(l, FALSE, FALSE) = "doubt"
        /\ l.at = "select" => StageOf(l, TRUE, FALSE) = "made" /\ StageOf(l, FALSE, FALSE) = "doubt"
    BY DEF StageOf, Given
  <1>2. l.at = "con_stream" => StageOf(l, TRUE, FALSE) = "made" /\ StageOf(l, FALSE, FALSE) = "doubt"
    BY DEF StageOf, Given
  <1>3. l.at = "exec" => StageOf(l, TRUE, FALSE) = "made" /\ StageOf(l, FALSE, FALSE) = "doubt"
    BY DEF StageOf, Given
  <1>4. l.at = "attach" => StageOf(l, TRUE, FALSE) = "execed" /\ StageOf(l, FALSE, FALSE) = "closing"
    BY DEF StageOf, Given
  <1>5. l.at = "kick" /\ l.then = "close" =>
          StageOf(l, TRUE, FALSE) = "handed" /\ StageOf(l, FALSE, FALSE) = "closing"
    BY DEF StageOf, Given
  <1>6. l.at = "kick" /\ l.then # "close" =>
          StageOf(l, TRUE, FALSE) = "doubt" /\ StageOf(l, FALSE, FALSE) = "none"
    BY DEF StageOf, Given
  <1>7. l.at = "new_stream" => StageOf(l, TRUE, FALSE) = "none" /\ StageOf(l, FALSE, FALSE) = "none"
    BY DEF StageOf, Given
  <1>8. l.at \notin {"passfh", "select", "con_stream", "exec", "attach", "kick", "new_stream"} =>
          StageOf(l, TRUE, FALSE) = StageOf(l, FALSE, FALSE)
    BY DEF StageOf
  <1> HIDE DEF StageOf
  <1> QED BY <1>1, <1>2, <1>3, <1>4, <1>5, <1>6, <1>7, <1>8

\* Streams and clients that go without a request of the program.
LEMMA CutGuarded ==
    ASSUME SessionInv, Guard, NEW u, Becomes(net, u, sfh), lib' = lib, acclev' = acclev, lost => lost',
           NEW D, NEW L, Trimmed(tab, u, D, L),
           Owned(u, Main(net), Lent(lib)), ~ lost => Owned(u, Main(net), {}),
           ~ lost' /\ Stage(lib, net) \in {"made", "handed", "execed"} => Cur(lib, net) \notin D
    PROVE  Guard'
  <1>1. /\ Holds(lib, net, tab, sfh, lost) /\ PeersLive(net, tab) /\ SlotsIn(lib, net, tab)
        /\ LooseKnown(lib, net, tab, sfh) /\ Control(lib, net) /\ Cleared(lib, net, acclev)
        /\ lib.con \in Conn /\ Placed(lib) /\ net \in [Conn -> Connection]
    BY DEF Guard, Holds, SessionInv, Talking, LibState
  <1>2. /\ tab' = u /\ Cutoff(net, net', u) /\ Reaped(sfh, sfh', u)
        /\ \A c \in Conn :
             /\ net'[c].ans = net[c].ans
             /\ net'[c].req = IF net'[c].peer = net[c].peer THEN net[c].req ELSE <<>>
    BY <1>1, BecomesView
  <1>3. /\ Agreed(lib', net') <=> Agreed(lib, net)
        /\ Cur(lib', net') = Cur(lib, net) /\ Lent(lib') = Lent(lib)
        /\ Asked(lib', net') => Asked(lib, net)
        /\ HighPlace(lib', net') <=> HighPlace(lib, net)
    <2>1. net'[lib.con].ans = net[lib.con].ans
      BY <1>1, <1>2
    <2>2. Agreed(lib', net') <=> Agreed(lib, net)
      BY <2>1 DEF Agreed
    <2> QED BY <1>1, <1>2, <2>1, <2>2 DEF Asked, Cur, HighPlace
  <1>4. \A c \in Conn : net'[c].peer = net[c].peer
          \/ (net'[c].peer = None /\ net[c].peer \in CID /\ net[c].peer \notin LiveClients(u))
    <2>1. ASSUME NEW c \in Conn, net[c].peer \in CID, net[c].peer \in LiveClients(u)
          PROVE  Reached(net[c].peer, u)
      BY <1>1, <2>1 DEF PeersLive, Reached, Trimmed
    <2> QED BY <1>2, <2>1 DEF Cutoff
  <1>5. /\ Main(net') \in CID => Main(net') = Main(net) /\ Reached(Main(net), u)
        /\ Temp(net') \in CID => Temp(net') = Temp(net) /\ Reached(Temp(net), u)
    BY <1>1, <1>2, PeersCut
  <1>6. \A d \in LiveClients(u) : SlotSet(u, d) \subseteq SlotSet(tab, d)
    BY DEF Trimmed
  <1>7. ASSUME Peer(lib', net') = Peer(lib, net)
        PROVE  Holds(lib', net', u, sfh', lost')
    <2>1. Asked(lib', net') <=> Asked(lib, net)
      BY <1>1, <1>2, <1>7 DEF Asked, Peer
    <2>2. Stage(lib', net') = Stage(lib, net)
      BY <1>3, <2>1 DEF Stage, StageOf, Given
    <2>3. Mine(lib', net') = Mine(lib, net) /\ Room(lib', net') = Room(lib, net)
      BY <1>3, <2>2 DEF Mine, Room
    <2>4. SlotsIn(lib', net', u)
      BY <1>1, <1>5, <1>6, <2>3 DEF SlotsIn, Reached
    <2>5. Sinks(lib, net, lib', net', u, sfh')
      BY <1>3, <1>7, <2>2 DEF Sinks
    <2>6. ~ lost' /\ Stage(lib', net') \in {"made", "handed", "execed"} =>
            Stage(lib', net') = Stage(lib, net) /\ Cur(lib', net') = Cur(lib, net) /\ Cur(lib, net) \notin D
      BY <1>3, <2>2
    <2> QED BY <1>1, <1>2, <1>3, <2>4, <2>5, <2>6, TrimHolds
  <1>8. ASSUME Peer(lib', net') # Peer(lib, net)
        PROVE  Holds(lib', net', u, sfh', lost')
    <2>1. Peer(lib', net') = None /\ Peer(lib, net) \notin LiveClients(u) /\ ~ Asked(lib', net')
      BY <1>1, <1>2, <1>4, <1>8 DEF Peer, Asked
    <2>2. Asked(lib, net) => ~ Agreed(lib, net)
      <3> SUFFICES ASSUME Asked(lib, net) PROVE net[lib.con].ans = <<>>
        BY DEF Agreed
      <3>1. Talk(lib, net)
        BY DEF SessionInv, Talking
      <3> QED BY <1>1, <3>1 DEF Talk, Exchange, Silent, Asked
    <2>3. \/ Stage(lib', net') = Stage(lib, net)
          \/ Stage(lib, net) = "made" /\ Stage(lib', net') = "doubt"
          \/ Stage(lib, net) \in {"handed", "execed"} /\ Stage(lib', net') = "closing"
          \/ Stage(lib, net) = "doubt" /\ Stage(lib', net') = "none"
      <3>1. Stage(lib', net') = StageOf(lib, FALSE, Agreed(lib, net))
        <4>1. Asked(lib', net') = FALSE /\ Agreed(lib', net') = Agreed(lib, net)
          BY <1>3, <2>1 DEF Asked, Agreed
        <4> QED BY <4>1 DEF Stage
      <3>2. CASE Asked(lib, net)
        <4>1. Asked(lib, net) = TRUE /\ Agreed(lib, net) = FALSE
          BY <2>2, <3>2 DEF Asked, Agreed
        <4>2. Stage(lib, net) = StageOf(lib, TRUE, FALSE) /\ Stage(lib', net') = StageOf(lib, FALSE, FALSE)
          BY <3>1, <4>1 DEF Stage
        <4> QED BY <4>2, StageDrops
      <3>3. CASE ~ Asked(lib, net)
        <4>1. Asked(lib, net) = FALSE
          BY <3>3 DEF Asked
        <4> QED BY <3>1, <4>1 DEF Stage
      <3> QED BY <3>2, <3>3
    <2>4. Stage(lib, net) \in {"made", "doubt"} => Loose(u, sfh') = {}
      <3> SUFFICES ASSUME Stage(lib, net) \in {"made", "doubt"}, NEW s \in Loose(u, sfh')
                   PROVE  FALSE
        OBVIOUS
      <3>1. s \in LiveStreams(u) /\ sfh'[s] \in {"none", "ours"} /\ s \in SID
        BY DEF Loose, LiveStreams
      <3>2. /\ sfh'[s] = sfh[s] /\ s \in LiveStreams(tab)
            /\ u.streams[s].client = tab.streams[s].client
        BY <1>2, <3>1 DEF Reaped, Trimmed
      <3>3. tab.streams[s].client = Peer(lib, net)
        BY <1>1, <3>1, <3>2 DEF LooseKnown, Loose
      <3>4. u.streams[s].client \in LiveClients(u)
        BY <3>1, OwnedParts
      <3> QED BY <2>1, <3>2, <3>3, <3>4
    <2>5. SlotsIn(lib', net', u)
      <3>1. CASE lib.con = "main"
        <4>1. Main(net') \notin CID /\ Room(lib', net') = SID /\ Room(lib, net) = SID
          BY <2>1, <3>1, NewIsNoClient DEF Peer, Main, Room
        <4> QED BY <1>1, <1>5, <1>6, <4>1 DEF SlotsIn, Reached
      <3>2. CASE lib.con = "temp"
        <4>1. Temp(net') \notin CID /\ Mine(lib', net') = Mine(lib, net)
          BY <1>3, <2>1, <3>2, NewIsNoClient DEF Peer, Temp, Mine
        <4> QED BY <1>1, <1>5, <1>6, <4>1 DEF SlotsIn, Reached
      <3> QED BY <1>1, <3>1, <3>2 DEF Conn
    <2>6. Sinks(lib, net, lib', net', u, sfh')
      BY <1>3, <2>1, <2>3, <2>4 DEF Sinks
    <2>7. ~ lost' /\ Stage(lib', net') \in {"made", "handed", "execed"} =>
            Stage(lib', net') = Stage(lib, net) /\ Cur(lib', net') = Cur(lib, net) /\ Cur(lib, net) \notin D
      BY <1>3, <2>3
    <2> QED BY <1>1, <1>2, <1>3, <2>5, <2>6, <2>7, TrimHolds
  <1>9. Control(lib', net')
    <2>1. ASSUME NEW c \in Conn, net'[c].peer = New
          PROVE  lib'.at = "identify" /\ lib'.con = c /\ net'[c].req # <<>>
      <3>1. net[c].peer = New
        BY <1>4, <2>1, NewIsNoClient
      <3> QED BY <1>1, <1>2, <2>1, <3>1 DEF Control
    <2>2. (lib'.at = "select" /\ lib'.backlog) \/ (lib'.at = "con_stream" /\ ~ lib'.timeout) =>
            Agreed(lib', net') \/ Main(net') = None
      BY <1>1, <1>3, <1>4, NewIsNoClient DEF Control, Main, Conn
    <2>3. lib'.at = "whoami" /\ Main(net') \in CID /\ net'["main"].ans # <<>> =>
            Head(net'["main"].ans).arg = Main(net')
      BY <1>1, <1>2, <1>5 DEF Control, Conn
    <2>4. lib'.at = "attach" /\ Asked(lib', net') => Head(net'["main"].req).arg.client = Main(net')
      <3> SUFFICES ASSUME lib.at = "attach", Asked(lib', net')
                   PROVE  Head(net'["main"].req).arg.client = Main(net')
        OBVIOUS
      <3>1. lib.con = "main" /\ Head(net["main"].req).arg.client = Main(net)
        BY <1>1, <1>3 DEF Control, Placed
      <3>2. net'["main"].req # <<>>
        BY <3>1 DEF Asked
      <3>3. net'["main"].peer = net["main"].peer /\ net'["main"].req = net["main"].req
        BY <1>2, <3>2 DEF Conn
      <3> QED BY <3>1, <3>3 DEF Main
    <2>5. lib'.at = "quit" => net'[lib'.con].ans = <<>>
      BY <1>1, <1>2 DEF Control
    <2>6. lib'.at = "out" => Main(net') = None
      BY <1>1, <1>4 DEF Control, Main, Conn
    <2>7. /\ lib'.flag => lib'.at = "stream" \/ Leaving(lib')
          /\ lib'.at = "stream" => lib'.flag /\ lib'.con = "main"
      BY <1>1 DEF Control
    <2> QED BY <2>1, <2>2, <2>3, <2>4, <2>5, <2>6, <2>7 DEF Control
  <1>10. Cleared(lib', net', acclev')
    BY <1>1, <1>3, <1>5 DEF Cleared
  <1> QED BY <1>2, <1>7, <1>8, <1>9, <1>10 DEF Guard

\* Streams whose handle was closed end.
LEMMA StreamEndsGuarded ==
    ASSUME SessionInv, Guard, NEW s \in SID, StreamEnds(s)
    PROVE  Guard'
  <1> DEFINE u == streams_delete(tab, s)
  <1>1. /\ s \in LiveStreams(tab) /\ sfh[s] = "dead" /\ Becomes(net, u, sfh)
        /\ lib' = lib /\ acclev' = acclev /\ lost' = lost
    BY DEF StreamEnds
  <1>2. /\ Owned(tab, Main(net), Lent(lib)) /\ (~ lost => Owned(tab, Main(net), {}))
        /\ ~ lost => Kept(lib, net, tab, sfh)
    BY DEF Guard, Holds, OwnersKnown
  <1>3. /\ Owned(u, Main(net), Lent(lib)) /\ (~ lost => Owned(u, Main(net), {}))
        /\ Trimmed(tab, u, {s}, Become(tab, {s}))
    <2>1. ASSUME NEW X, Owned(tab, Main(net), X)
          PROVE  Owned(u, Main(net), X) /\ Trimmed(tab, u, {s}, Become(tab, {s}))
      BY <1>1, <2>1, OwnedDeleters
    <2> HIDE DEF u
    <2> QED BY <1>2, <2>1
  <1>4. ~ lost' /\ Stage(lib, net) \in {"made", "handed", "execed"} => Cur(lib, net) \notin {s}
    BY <1>1, <1>2 DEF Kept, Loose
  <1> HIDE DEF u
  <1> QED BY <1>1, <1>3, <1>4, CutGuarded

\* Others take streams and clients away.
LEMMA OtherKicksGuarded ==
    ASSUME SessionInv, Guard, NEW u, OtherKicks(u),
           \/ \E s \in LiveStreams(tab) : u = streams_delete(tab, s)
           \/ \E k \in LiveClients(tab) \ {Other} : u = clients_delete(tab, k)
    PROVE  Guard'
  <1>1. /\ Becomes(net, u, sfh) /\ lib' = lib /\ acclev' = acclev /\ (lost => lost')
        /\ ~ lost' => \A s \in LiveStreams(tab) \ LiveStreams(u) : sfh[s] = "other"
    BY DEF OtherKicks
  <1>2. /\ Owned(tab, Main(net), Lent(lib)) /\ (~ lost => Owned(tab, Main(net), {}))
        /\ ~ lost => Kept(lib, net, tab, sfh)
    BY DEF Guard, Holds, OwnersKnown
  <1>3. \E D, L : \A X : Owned(tab, Main(net), X) => Owned(u, Main(net), X) /\ Trimmed(tab, u, D, L)
    <2>1. ASSUME NEW s \in LiveStreams(tab), u = streams_delete(tab, s), NEW X, Owned(tab, Main(net), X)
          PROVE  Owned(u, Main(net), X) /\ Trimmed(tab, u, {s}, Become(tab, {s}))
      BY <2>1, OwnedDeleters
    <2>2. ASSUME NEW k \in LiveClients(tab) \ {Other}, u = clients_delete(tab, k),
                 NEW X, Owned(tab, Main(net), X)
          PROVE  LET D == SlotSet(tab, k) \cap LiveStreams(tab) IN
                 Owned(u, Main(net), X) /\ Trimmed(tab, u, D, {k} \cup Become(tab, D))
      BY <2>2, OwnedDeleters
    <2> QED BY <2>1, <2>2
  <1>4. PICK D, L : \A X : Owned(tab, Main(net), X) => Owned(u, Main(net), X) /\ Trimmed(tab, u, D, L)
    BY <1>3
  <1>5. /\ Owned(u, Main(net), Lent(lib)) /\ (~ lost => Owned(u, Main(net), {}))
        /\ Trimmed(tab, u, D, L)
    BY <1>2, <1>4
  <1>6. ~ lost' /\ Stage(lib, net) \in {"made", "handed", "execed"} => Cur(lib, net) \notin D
    <2> SUFFICES ASSUME ~ lost', Stage(lib, net) \in {"made", "handed", "execed"}, Cur(lib, net) \in D
                 PROVE  FALSE
      OBVIOUS
    <2>1. Cur(lib, net) \in LiveStreams(tab) /\ sfh[Cur(lib, net)] \in {"none", "ours"}
      BY <1>1, <1>2 DEF Kept, Loose
    <2>2. Cur(lib, net) \in LiveStreams(tab) \ LiveStreams(u)
      BY <1>5, <2>1 DEF Trimmed
    <2> QED BY <1>1, <2>1, <2>2
  <1> QED BY <1>1, <1>5, <1>6, CutGuarded

\* What the invariant says while a connection is identified.
LEMMA IdentifyPlace ==
    ASSUME NEW l, l.at = "identify", NEW n
    PROVE  /\ Stage(l, n) = "none" /\ Lent(l) = {} /\ Mine(l, n) = {}
           /\ Room(l, n) = IF l.con = "temp" THEN {} ELSE SID
           /\ ~ HighPlace(l, n)
  <1>1. Stage(l, n) = "none"
    BY DEF Stage, StageOf
  <1>2. ~ Leaving(l)
    BY DEF Leaving
  <1> QED BY <1>1, <1>2 DEF Lent, Mine, Room, HighPlace

\* A connection that is accepted, or refused.
LEMMA AcceptGuarded ==
    ASSUME SessionInv, Guard, NEW c \in Conn, Accept(c)
    PROVE  Guard'
  <1>1. /\ Holds(lib, net, tab, sfh, lost) /\ PeersLive(net, tab) /\ SlotsIn(lib, net, tab)
        /\ HandlesKnown(lib, net, tab, sfh, lost)
        /\ LooseKnown(lib, net, tab, sfh) /\ Control(lib, net) /\ Cleared(lib, net, acclev)
        /\ Owned(tab, Main(net), Lent(lib))
        /\ net \in [Conn -> Connection] /\ sfh \in [SID -> Ends] /\ acclev \in [CID -> Levels]
    BY DEF Guard, Holds, OwnersKnown, SessionInv, Talking
  <1>2. /\ net[c].peer = New /\ lib' = lib /\ sfh' = sfh /\ lost' = lost
    BY DEF Accept
  <1>3. lib.at = "identify" /\ lib.con = c
    BY <1>1, <1>2 DEF Control
  <1>4. \A n : /\ Stage(lib, n) = "none" /\ Mine(lib, n) = {}
               /\ Room(lib, n) = IF c = "temp" THEN {} ELSE SID
               /\ ~ HighPlace(lib, n)
    BY <1>3, IdentifyPlace
  <1>5. Lent(lib) = {}
    BY <1>3, IdentifyPlace
  <1>6. net[c] \in Connection
    BY <1>1
  <1>7. \A d \in Conn \ {c} : net[d].peer # New
    BY <1>1, <1>3 DEF Control
  <1>8. ASSUME net' \in [Conn -> Connection], net'[c].peer # New, \A d \in Conn \ {c} : net'[d] = net[d]
        PROVE  Control(lib', net')
    <2>1. \A d \in Conn : net'[d].peer # New
      BY <1>7, <1>8
    <2>2. /\ lib'.flag => lib'.at = "stream" \/ Leaving(lib')
          /\ lib'.at = "identify"
      BY <1>1, <1>2, <1>3 DEF Control
    <2> QED BY <2>1, <2>2 DEF Control
  <1>9. ASSUME NEW k \in CID, FirstOf(FreeCIDs(tab), k),
               tab' = [clients_new(tab, k) EXCEPT !.clients[k].fh = TRUE],
               net' = [net EXCEPT ![c].peer = k],
               acclev' = [acclev EXCEPT ![k] = ACCLEV_NONE]
        PROVE  Guard'
    <2> DEFINE u == Admitted(tab, k)
    <2>1. k \in FreeCIDs(tab) /\ k \notin LiveClients(tab) /\ k # New
      BY <1>9, NewIsNoClient DEF FirstOf, FreeCIDs
    <2>2. net' \in [Conn -> Connection] /\ net'[c].peer = k /\ \A d \in Conn \ {c} : net'[d] = net[d]
      <3>1. [net[c] EXCEPT !.peer = k] \in Connection /\ [net[c] EXCEPT !.peer = k].peer = k
        BY <1>6 DEF Connection
      <3>2. net' = [net EXCEPT ![c] = [net[c] EXCEPT !.peer = k]]
        BY <1>9
      <3> QED BY <1>1, <3>1, <3>2
    <2>3. New \notin LiveClients(tab)
      BY NewIsNoClient DEF LiveClients
    <2>4. Main(net) \notin LiveClients(tab) \/ Main(net) # k
      BY <2>1
    <2>5. Main(net') = Main(net) \/ (Main(net') = k /\ Main(net) \notin LiveClients(tab))
      BY <1>2, <2>2, <2>3 DEF Main, Conn
    <2>6. /\ Owned(u, Main(net'), Lent(lib))
          /\ u.streams = tab.streams
          /\ LiveStreams(u) = LiveStreams(tab) /\ LiveClients(u) = LiveClients(tab) \cup {k}
          /\ u.clients[k].fh /\ SlotSet(u, k) = {}
          /\ \A d \in LiveClients(tab) : u.clients[d] = tab.clients[d] /\ SlotSet(u, d) = SlotSet(tab, d)
      BY <1>1, <2>1, <2>4, <2>5, OwnedAccept
    <2>7. tab' = u
      BY <1>9 DEF Admitted
    <2> HIDE DEF u
    <2>8. Other \in LiveClients(tab) /\ LiveStreams(tab) \subseteq SID
      BY <1>1, OwnedParts
    <2>9. \A d \in Conn : d # c /\ net'[d].peer \in CID =>
            net'[d].peer # Other /\ net'[d].peer \in LiveClients(tab) /\ tab.clients[net'[d].peer].fh
      BY <1>1, <2>2 DEF PeersLive
    <2>10. PeersLive(net', u)
      <3>1. \A d \in Conn : net'[d].peer \in CID =>
              net'[d].peer # Other /\ net'[d].peer \in LiveClients(u) /\ u.clients[net'[d].peer].fh
        BY <2>1, <2>2, <2>6, <2>8, <2>9
      <3>2. Main(net') \in CID => Main(net') # Temp(net')
        BY <2>1, <2>2, <2>9 DEF Main, Temp, Conn
      <3> QED BY <3>1, <3>2 DEF PeersLive
    <2>11. SlotsIn(lib', net', u)
      <3>1. CASE c = "main"
        <4>1. Main(net') = k /\ Temp(net') = Temp(net) /\ Room(lib, net') = SID /\ Room(lib, net) = SID
          BY <1>4, <2>2, <3>1 DEF Main, Temp, Conn
        <4>2. Temp(net) \in CID => Temp(net) \in LiveClients(tab)
          BY <1>1 DEF PeersLive, Temp, Conn
        <4> QED BY <1>1, <1>2, <2>6, <4>1, <4>2 DEF SlotsIn
      <3>2. CASE c = "temp"
        <4>1. Temp(net') = k /\ Main(net') = Main(net) /\ Mine(lib, net') = {} /\ Mine(lib, net) = {}
          BY <1>4, <2>2, <3>2 DEF Main, Temp, Conn
        <4>2. Main(net) \in CID => Main(net) \in LiveClients(tab)
          BY <1>1 DEF PeersLive, Main, Conn
        <4> QED BY <1>1, <1>2, <2>6, <4>1, <4>2 DEF SlotsIn
      <3> QED BY <3>1, <3>2 DEF Conn
    <2>12. OwnersKnown(lib', net', u, lost')
      BY <1>2, <1>5, <2>6 DEF OwnersKnown
    <2>13. HandlesKnown(lib', net', u, sfh', lost')
      BY <1>1, <1>2, <1>5, <2>6 DEF HandlesKnown
    <2>14. Loose(u, sfh') = {}
      <3>1. Loose(tab, sfh) = {}
        BY <1>1, <1>4 DEF LooseKnown
      <3> QED BY <1>2, <2>6, <3>1 DEF Loose
    <2>15. LooseKnown(lib', net', u, sfh') /\ Kept(lib', net', u, sfh')
      BY <1>2, <1>4, <2>14 DEF LooseKnown, Kept
    <2>16. Holds(lib', net', tab', sfh', lost')
      BY <2>7, <2>10, <2>11, <2>12, <2>13, <2>15 DEF Holds
    <2>17. Cleared(lib', net', acclev')
      <3>1. \A d \in CID : acclev'[d] \in {ACCLEV_NONE, ACCLEV_IDENTED, ACCLEV_GUEST, ACCLEV_PWRUSER, ACCLEV_ALL}
        BY <1>1, <1>9 DEF Cleared
      <3> QED BY <1>2, <1>4, <3>1 DEF Cleared
    <2> QED BY <1>8, <2>1, <2>2, <2>16, <2>17 DEF Guard
  <1>10. ASSUME net' = [net EXCEPT ![c].peer = None, ![c].req = <<>>], tab' = tab, acclev' = acclev
         PROVE  Guard'
    <2>1. net' \in [Conn -> Connection] /\ net'[c].peer = None /\ \A d \in Conn \ {c} : net'[d] = net[d]
      <3>1. Cut(net[c]) \in Connection /\ Cut(net[c]).peer = None
        BY <1>6 DEF Cut, Connection
      <3>2. net' = [net EXCEPT ![c] = Cut(net[c])]
        BY <1>1, <1>10 DEF Cut
      <3> QED BY <1>1, <3>1, <3>2
    <2>2. /\ Main(net') = Main(net) \/ (Main(net) \notin CID /\ Main(net') \notin CID)
          /\ Temp(net') = Temp(net) \/ Temp(net') \notin CID
      BY <1>2, <2>1, NewIsNoClient DEF Main, Temp, Conn
    <2>3. Stays(lib, net, lib', net')
      BY <1>2, <1>4, <2>2 DEF Stays
    <2>4. Flows(lib, net, lib', net', sfh, sfh')
      BY <1>2, <1>4 DEF Flows
    <2>5. Holds(lib', net', tab, sfh', lost')
      BY <1>1, <1>2, <2>3, <2>4, HoldsOn
    <2>6. Cleared(lib', net', acclev')
      BY <1>1, <1>2, <1>4, <1>10 DEF Cleared
    <2> QED BY <1>8, <1>10, <2>1, <2>5, <2>6, NewIsNoClient DEF Guard
  <1> QED BY <1>9, <1>10 DEF Accept

\* A new stream of another client.
LEMMA OtherStreamGuarded ==
    ASSUME SessionInv, Guard, OtherStream
    PROVE  Guard'
  <1>1. PICK s \in SID :
          /\ FirstOf(FreeSIDs(tab), s) /\ CanAdd(tab, Other)
          /\ tab' = LET v == client_stream_add(streams_new(tab, s), Other, s)
                    IN  streams_set_fh(streams_set_dir(v, s, "PLAY"), s, "ready", "plain")
          /\ sfh' = [sfh EXCEPT ![s] = "other"]
    BY Zenon DEF OtherStream
  <1> DEFINE v == streams_set_dir(client_stream_add(streams_new(tab, s), Other, s), s, "PLAY")
             u == streams_set_fh(v, s, "ready", "plain")
  <1>2. tab' = u /\ s \in FreeSIDs(tab) /\ s \notin LiveStreams(tab) /\ CanAdd(tab, Other)
    BY <1>1 DEF FirstOf, FreeSIDs
  <1>3. lib' = lib /\ net' = net /\ acclev' = acclev /\ lost' = lost
    BY DEF OtherStream
  <1>4. /\ Holds(lib, net, tab, sfh, lost) /\ PeersLive(net, tab) /\ SlotsIn(lib, net, tab)
        /\ HandlesKnown(lib, net, tab, sfh, lost) /\ LooseKnown(lib, net, tab, sfh)
        /\ Owned(tab, Main(net), Lent(lib)) /\ (~ lost => Owned(tab, Main(net), {}))
        /\ ~ lost => Kept(lib, net, tab, sfh)
        /\ Control(lib, net) /\ Cleared(lib, net, acclev) /\ sfh \in [SID -> Ends]
    BY DEF Guard, Holds, OwnersKnown, SessionInv
  <1>5. /\ Other \in LiveClients(tab) /\ Other \in CID
        /\ \A i \in LiveStreams(tab) : i \in SID /\ tab.streams[i].client \in LiveClients(tab)
        /\ tab.clients[Other].execed = None
    BY <1>4, OwnedParts
  <1>6. Other # Main(net)
    BY <1>4, <1>5 DEF PeersLive, Main, Conn
  <1>7. s \notin SlotSet(tab, Other)
    BY <1>2, <1>4, <1>5, <1>6, OthersListLive DEF Owns
  <1>8. ASSUME NEW X, Owned(tab, Main(net), X)
        PROVE  /\ Owned(u, Main(net), X)
               /\ Grown(tab, v, Other, s) /\ Patched(v, u, s) /\ u.streams[s].ready
               /\ \A c : SlotSet(u, c) = SlotSet(v, c)
    <2>1. Owned(v, Main(net), X) /\ Grown(tab, v, Other, s)
      BY <1>2, <1>5, <1>7, <1>8, OwnedNew
    <2>2. s \in LiveStreams(v) /\ ~ v.streams[s].ready
      BY <2>1 DEF Grown
    <2> HIDE DEF v
    <2>3. /\ Owned(u, Main(net), X)
          /\ \/ u = v /\ (s \in LiveStreams(v) => v.streams[s].ready)
             \/ /\ s \in LiveStreams(v) /\ ~ v.streams[s].ready
                /\ \/ /\ "ready" = "ready" /\ Patched(v, u, s) /\ u.streams[s].ready
                      /\ \A c : SlotSet(u, c) = SlotSet(v, c)
                   \/ "ready" = "codec" /\ Trimmed(v, u, {s}, Become(v, {s}))
      BY <2>1, OwnedSetFh
    <2> HIDE DEF u
    <2> QED BY <2>1, <2>2, <2>3
  <1> HIDE DEF u, v
  <1>9. /\ Owned(u, Main(net), Lent(lib)) /\ (~ lost => Owned(u, Main(net), {}))
        /\ Grown(tab, v, Other, s) /\ Patched(v, u, s) /\ u.streams[s].ready
        /\ \A c : SlotSet(u, c) = SlotSet(v, c)
    BY <1>4, <1>8
  <1>10. /\ LiveStreams(u) = LiveStreams(tab) \cup {s} /\ LiveClients(u) = LiveClients(tab)
         /\ u.streams[s].client = Other
         /\ \A i \in LiveStreams(tab) : u.streams[i].client = tab.streams[i].client
                                        /\ u.streams[i].ready = tab.streams[i].ready
         /\ \A d \in LiveClients(tab) : u.clients[d].fh = tab.clients[d].fh
               /\ u.clients[d].execed = tab.clients[d].execed
               /\ (d # Other => SlotSet(u, d) = SlotSet(tab, d))
    <2>1. /\ LiveStreams(v) = LiveStreams(tab) \cup {s} /\ LiveClients(v) = LiveClients(tab)
          /\ v.streams[s].client = Other
          /\ \A i \in LiveStreams(tab) : v.streams[i].client = tab.streams[i].client
                                         /\ v.streams[i].ready = tab.streams[i].ready
          /\ \A d \in LiveClients(tab) : v.clients[d].fh = tab.clients[d].fh
                /\ v.clients[d].execed = tab.clients[d].execed
                /\ (d # Other => SlotSet(v, d) = SlotSet(tab, d))
      <3>1. \A d \in LiveClients(tab) :
              SlotSet(v, d) = SlotSet(tab, d) \cup (IF d = Other THEN {s} ELSE {})
        BY <1>9 DEF Grown
      <3>2. \A d \in LiveClients(tab) : d # Other => SlotSet(v, d) = SlotSet(tab, d)
        BY <3>1
      <3> QED BY <1>9, <3>2, Zenon DEF Grown
    <2>2. /\ LiveStreams(u) = LiveStreams(v) /\ LiveClients(u) = LiveClients(v)
          /\ u.clients = v.clients
          /\ \A i \in LiveStreams(v) : u.streams[i].client = v.streams[i].client
                                       /\ (i # s => u.streams[i].ready = v.streams[i].ready)
      BY <1>9 DEF Patched
    <2> QED BY <1>2, <1>9, <2>1, <2>2
  <1>11. sfh'[s] = "other" /\ \A i \in SID \ {s} : sfh'[i] = sfh[i]
    BY <1>1, <1>4
  <1>12. Loose(u, sfh') = Loose(tab, sfh)
    BY <1>2, <1>5, <1>10, <1>11 DEF Loose
  <1>13. OwnersKnown(lib', net', u, lost')
    BY <1>3, <1>9 DEF OwnersKnown
  <1>14. PeersLive(net', u)
    BY <1>3, <1>4, <1>10 DEF PeersLive
  <1>15. SlotsIn(lib', net', u)
    <2>1. /\ Main(net) \in CID => Main(net) # Other /\ Main(net) \in LiveClients(tab)
          /\ Temp(net) \in CID => Temp(net) # Other /\ Temp(net) \in LiveClients(tab)
      BY <1>4 DEF PeersLive, Main, Temp, Conn
    <2> QED BY <1>3, <1>4, <1>10, <2>1 DEF SlotsIn
  <1>16. HandlesKnown(lib', net', u, sfh', lost')
    <2>1. \A i \in SID : i \notin LiveStreams(u) => sfh'[i] = "none"
      BY <1>4, <1>10, <1>11 DEF HandlesKnown
    <2>2. \A i \in LiveStreams(u) : u.streams[i].ready <=> sfh'[i] # "none"
      <3>1. u.streams[s].ready <=> sfh'[s] # "none"
        BY <1>9, <1>11
      <3>2. \A i \in LiveStreams(tab) : i # s /\ i \in SID /\ (tab.streams[i].ready <=> sfh[i] # "none")
        BY <1>2, <1>4, <1>5 DEF HandlesKnown
      <3> QED BY <1>10, <1>11, <3>1, <3>2
    <2>3. \A i \in LiveStreams(u) : sfh'[i] = "other" =>
            u.streams[i].client = Other \/ (lost /\ u.streams[i].client = Main(net) /\ i \in Lent(lib))
      <3>1. \A i \in LiveStreams(tab) : i # s /\ i \in SID /\ (sfh[i] = "other" =>
              tab.streams[i].client = Other \/ (lost /\ tab.streams[i].client = Main(net) /\ i \in Lent(lib)))
        BY <1>2, <1>4, <1>5 DEF HandlesKnown
      <3> QED BY <1>10, <1>11, <3>1
    <2> QED BY <1>3, <2>1, <2>2, <2>3 DEF HandlesKnown
  <1>17. \A i \in Loose(tab, sfh) :
           i \in LiveStreams(tab) /\ sfh'[i] = sfh[i] /\ u.streams[i].client = tab.streams[i].client
           /\ u.clients[u.streams[i].client].execed = tab.clients[tab.streams[i].client].execed
    BY <1>2, <1>5, <1>10, <1>11, SMTT(60) DEF Loose
  <1>18. LooseKnown(lib', net', u, sfh')
    BY <1>3, <1>4, <1>12, <1>17 DEF LooseKnown
  <1>19. ~ lost' => Kept(lib', net', u, sfh')
    BY <1>3, <1>4, <1>12, <1>17 DEF Kept
  <1>20. Holds(lib', net', tab', sfh', lost')
    BY <1>2, <1>13, <1>14, <1>15, <1>16, <1>18, <1>19 DEF Holds
  <1> QED BY <1>3, <1>4, <1>20 DEF Guard

\* The first state: the tables hold nothing but the other client.
LEMMA GuardInit == Init => Guard
  <1> SUFFICES ASSUME Init PROVE Guard
    OBVIOUS
  <1>1. PICK type \in Types : lib = Out(type)
    BY DEF Init
  <1>2. lib.at = "out" /\ ~ lib.flag /\ lib.con = "main"
    BY <1>1 DEF Out
  <1>3. \A c \in Conn : net[c].peer = None
    BY DEF Init, NoConn
  <1>4. \A s \in SID : tab.streams[s] = NULL /\ sfh[s] = "none"
    BY DEF Init
  <1>5. Other \in CID /\ tab \in TablesType
    BY SessionAssumption, TablesAssumption, SessionInit DEF CID, Other, SessionInv
  <1>6. LiveStreams(tab) = {}
    BY <1>4 DEF LiveStreams
  <1> DEFINE r == [NewClient EXCEPT !.fh = TRUE]
  <1>7. r \in Client /\ r.execed = None /\ \A k \in Slot : r.streams[k] = None
    BY DEF NewClient, Client
  <1>8. tab.clients = [c \in CID |-> IF c = Other THEN r ELSE NULL]
    BY DEF Init
  <1> HIDE DEF r
  <1>9. LiveClients(tab) = {Other} /\ tab.clients[Other] = r
    <2>1. r # NULL
      BY <1>7, TablesAssumption
    <2> QED BY <1>5, <1>8, <2>1 DEF LiveClients
  <1>10. Stage(lib, net) = "none" /\ Lent(lib) = {}
    BY <1>2 DEF Stage, StageOf, Lent, Leaving
  <1>11. Main(net) = None /\ Temp(net) = None /\ None \notin CID /\ New # None
    BY <1>3, NewIsNoClient DEF Main, Temp, Conn
  <1>12. Owned(tab, Main(net), {})
    <2>1. Plain(tab) /\ Listed(tab)
      BY <1>6 DEF Plain, Listed
    <2>2. SlotsOwn(tab, Main(net), {})
      BY <1>7, <1>9 DEF SlotsOwn
    <2>3. ExecedAlone(tab, Main(net))
      BY <1>7, <1>9 DEF ExecedAlone
    <2> QED BY <1>5, <1>9, <2>1, <2>2, <2>3 DEF Owned
  <1>13. PeersLive(net, tab) /\ SlotsIn(lib, net, tab)
    BY <1>3, <1>11 DEF PeersLive, SlotsIn
  <1>14. HandlesKnown(lib, net, tab, sfh, lost) /\ LooseKnown(lib, net, tab, sfh) /\ Kept(lib, net, tab, sfh)
    BY <1>4, <1>6, <1>10 DEF HandlesKnown, LooseKnown, Loose, Kept
  <1>15. Holds(lib, net, tab, sfh, lost)
    BY <1>10, <1>12, <1>13, <1>14 DEF Holds, OwnersKnown
  <1>16. Control(lib, net)
    BY <1>2, <1>3, <1>11 DEF Control
  <1>17. Cleared(lib, net, acclev)
    BY <1>11 DEF Init, Cleared
  <1> QED BY <1>15, <1>16, <1>17 DEF Guard

\* Every step keeps the guard.
LEMMA GuardStep == SessionInv /\ Guard /\ [Next]_vars => Guard'
  <1> SUFFICES ASSUME SessionInv, Guard, [Next]_vars PROVE Guard'
    OBVIOUS
  <1>1. CASE Library \/ (\E type \in Types : roar_vs_new(type)) \/ roar_vs_stream
               \/ \E killit \in BOOLEAN : roar_vs_close(killit)
    BY <1>1, LibraryGuarded
  <1>2. ASSUME NEW c \in Conn, Serve(c) \/ Accept(c)
        PROVE  Guard'
    BY <1>2, ServeGuarded, AcceptGuarded
  <1>3. CASE \E s \in SID : StreamEnds(s)
    BY <1>3, StreamEndsGuarded
  <1>4. CASE Others
    <2>1. CASE OtherStream
      BY <2>1, OtherStreamGuarded
    <2>2. ASSUME NEW s \in LiveStreams(tab), OtherKicks(streams_delete(tab, s))
          PROVE  Guard'
      BY <2>2, OtherKicksGuarded
    <2>3. ASSUME NEW k \in LiveClients(tab) \ {Other}, OtherKicks(clients_delete(tab, k))
          PROVE  Guard'
      BY <2>3, OtherKicksGuarded
    <2> QED BY <1>4, <2>1, <2>2, <2>3 DEF Others
  <1>5. CASE UNCHANGED vars
    BY <1>5 DEF vars, Guard
  <1> QED BY <1>1, <1>2, <1>3, <1>4, <1>5 DEF Next

\* At every moment the stream that the library has asked for is the only one
\* that nobody else takes care of, it is where the place of the library says,
\* and, unless something was lost to others, it is there when the library
\* counts on it.
THEOREM GuardInvariance == Spec => [](SessionInv /\ Guard)
  <1> QED BY SessionInit, SessionStep, GuardInit, GuardStep, PTL DEF Spec

\* An object without a stream has left nothing at the server that the server
\* does not delete by itself: neither a timeout, a refused request, a failed
\* fallback nor a connection that was closed leaves a stream without an end,
\* over each way to connect a stream and whatever other clients do.
THEOREM NoOrphansCorrect == Spec => []NoOrphans
  <1>1. SessionInv /\ Guard => NoOrphans
    <2> SUFFICES ASSUME SessionInv, Guard, lib.at \in {"out", "connected"},
                        NEW s \in LiveStreams(tab), sfh[s] # "other"
                 PROVE  sfh[s] = "dead" /\ \E k \in LiveClients(tab) : Lists(tab, k, s)
      BY DEF NoOrphans
    <2>1. /\ Owned(tab, Main(net), Lent(lib)) /\ LooseKnown(lib, net, tab, sfh)
          /\ sfh \in [SID -> Ends]
      BY DEF Guard, Holds, OwnersKnown, SessionInv
    <2>2. Stage(lib, net) = "none"
      BY DEF Stage, StageOf
    <2>3. s \notin Loose(tab, sfh)
      BY <2>1, <2>2 DEF LooseKnown
    <2>4. s \in SID /\ tab.streams[s].client \in LiveClients(tab) /\ s \in SlotSet(tab, tab.streams[s].client)
      BY <2>1, OwnedParts
    <2>5. sfh[s] = "dead"
      BY <2>1, <2>3, <2>4 DEF Loose, Ends
    <2> QED BY <2>4, <2>5 DEF Lists
  <1> QED BY <1>1, GuardInvariance, PTL

\* A VS object with FLAG_STREAM has a stream of its own client at the server,
\* connected to the handle it writes to, as long as others take nothing from
\* it: passed over a UNIX socket, connected back, or made of the second
\* connection, and also when that was the fallback after a timeout.
THEOREM StreamIsOursCorrect == Spec => []StreamIsOurs
  <1>1. SessionInv /\ Guard => StreamIsOurs
    <2> SUFFICES ASSUME SessionInv, Guard, lib.at = "stream", ~ lost
                 PROVE  /\ lib.flag
                        /\ lib.id \in LiveStreams(tab)
                        /\ tab.streams[lib.id].ready
                        /\ sfh[lib.id] = "ours"
                        /\ Lists(tab, net["main"].peer, lib.id)
      BY DEF StreamIsOurs
    <2>1. /\ Owned(tab, Main(net), Lent(lib)) /\ LooseKnown(lib, net, tab, sfh)
          /\ HandlesKnown(lib, net, tab, sfh, lost) /\ Kept(lib, net, tab, sfh) /\ Control(lib, net)
      BY DEF Guard, Holds, OwnersKnown
    <2>2. Stage(lib, net) = "handed" /\ Cur(lib, net) = lib.id
      BY DEF Stage, StageOf, Cur
    <2>3. /\ lib.id \in Loose(tab, sfh) /\ lib.id \in LiveStreams(tab)
          /\ tab.streams[lib.id].client = Main(net)
      BY <2>1, <2>2 DEF Kept, Loose
    <2>4. sfh[lib.id] = "ours"
      BY <2>1, <2>2, <2>3 DEF LooseKnown
    <2>5. tab.streams[lib.id].ready
      BY <2>1, <2>3, <2>4 DEF HandlesKnown
    <2>6. Lists(tab, Main(net), lib.id)
      <3>1. /\ tab.streams[lib.id].client \in LiveClients(tab)
            /\ lib.id \in SlotSet(tab, tab.streams[lib.id].client)
        BY <2>1, <2>3, OwnedParts
      <3> QED BY <2>3, <3>1 DEF Lists
    <2> QED BY <2>1, <2>3, <2>4, <2>5, <2>6 DEF Control, Main
  <1> QED BY <1>1, GuardInvariance, PTL

-----------------------------------------------------------------------------
(* What a step does to the streams of others *)

\* The streams of others stay, with their handles.
OthersRemain ==
    \A s \in LiveStreams(tab) : sfh[s] = "other" => s \in LiveStreams(tab') /\ sfh'[s] = "other"

\* An answer, when the tables it comes with have the streams of others.
LEMMA ReplyRemains ==
    ASSUME NEW c, NEW u, NEW f, NEW cmd, NEW arg, Reply(c, u, f, cmd, arg),
           \A s \in LiveStreams(tab) : sfh[s] = "other" => s \in LiveStreams(u) /\ f[s] = "other"
    PROVE  OthersRemain
  <1>1. /\ tab' = u
        /\ sfh' = [s \in SID |-> IF s \in LiveStreams(u) THEN f[s] ELSE "none"]
    <2>1. PICK n : Becomes(n, u, f)
      BY Zenon DEF Reply
    <2> QED BY <2>1, Zenon DEF Becomes
  <1>2. LiveStreams(u) \subseteq SID
    BY DEF LiveStreams
  <1> QED BY <1>1, <1>2 DEF OthersRemain

\* The tables with a new stream.
LEMMA MadeRemains ==
    ASSUME NEW t \in TablesType, NEW s \in FreeSIDs(t), NEW c, CanAdd(t, c), NEW u,
           u = streams_set_dir(client_stream_add(streams_new(t, s), c, s), s, "PLAY")
    PROVE  LiveStreams(t) \subseteq LiveStreams(u)
  <1> DEFINE v == streams_new(t, s)
             w == client_stream_add(v, c, s)
  <1>1. /\ s \in SID /\ v \in TablesType /\ LiveStreams(v) = LiveStreams(t) \cup {s}
    BY NewStreamLeaves DEF FreeSIDs
  <1> HIDE DEF v
  <1>2. w \in TablesType /\ LiveStreams(w) = LiveStreams(v)
    <2>1. CASE CanAdd(v, c)
      BY <1>1, <2>1, AddLeaves DEF Added
    <2>2. CASE ~ CanAdd(v, c)
      BY <1>1, <2>2 DEF client_stream_add
    <2> QED BY <2>1, <2>2
  <1>3. u = streams_set_dir(w, s, "PLAY") /\ "PLAY" \in Dir
    BY DEF v, Dir
  <1> HIDE DEF w
  <1>4. LiveStreams(streams_set_dir(w, s, "PLAY")) = LiveStreams(w)
    BY <1>1, <1>2, <1>3, SetDirLeaves, ZenonT(60)
  <1> QED BY <1>1, <1>2, <1>3, <1>4

\* A request of the library is served.
LEMMA Handled ==
    ASSUME SessionInv, NEW c \in Conn, Serve(c), NEW k, k = net[c].peer, NEW q, q = Head(net[c].req)
    PROVE  /\ Serving(c, k, q)
           /\ \/ Reply(c, tab, sfh, OK, None) \/ Reply(c, tab, sfh, OK, k) \/ Error(c)
              \/ q.cmd = "NEW_STREAM" /\ req_on_new_stream(c, k)
              \/ q.cmd = "PASSFH" /\ req_on_passfh(c, k, q.arg)
              \/ q.cmd = "CON_STREAM" /\ req_on_con_stream(c, k, q.arg)
              \/ q.cmd = "EXEC_STREAM" /\ req_on_exec_stream(c, k, q.arg)
              \/ q.cmd = "KICK" /\ req_on_kick(c, q.arg)
              \/ q.cmd = "ATTACH" /\ req_on_attach(c, q.arg.stream, q.arg.client)
              \/ q.cmd = "QUIT" /\ Reply(c, clients_delete(tab, k), sfh, ERROR, None)
                 /\ UNCHANGED <<lib, acclev, lost>>
  <1>1. net[c].req # <<>> /\ k \in LiveClients(tab) /\ k \in CID
    BY DEF Serve, LiveClients
  <1>2. Serving(c, k, q)
    <2>1. /\ lib \in LibState /\ Placed(lib) /\ Talk(lib, net)
      BY DEF SessionInv, Talking
    <2>2. lib.at \notin Idle /\ Exchange(lib, net[c])
      BY <1>1, <2>1 DEF Talk, Silent
    <2>3. \E r \in Request : net[c].req = <<r>> /\ Asks(lib, r)
      BY <1>1, <2>2 DEF Exchange, Silent
    <2>4. q \in Request /\ Asks(lib, q)
      BY <2>3, OneMessage
    <2> QED BY <1>1, <2>1, <2>2, <2>4 DEF Serving
  <1>3. q.cmd \in {"IDENTIFY", "AUTH", "NEW_STREAM", "PASSFH", "CON_STREAM", "KICK",
                   "EXEC_STREAM", "WHOAMI", "ATTACH", "GET_STREAM_PARA", "QUIT"}
    BY <1>2 DEF Serving, Request
  <1>4. \/ Error(c)
        \/ q.cmd = "IDENTIFY" /\ req_on_identify(c, k)
        \/ q.cmd = "AUTH" /\ req_on_auth(c, k, q.arg)
        \/ q.cmd = "NEW_STREAM" /\ req_on_new_stream(c, k)
        \/ q.cmd = "PASSFH" /\ req_on_passfh(c, k, q.arg)
        \/ q.cmd = "CON_STREAM" /\ req_on_con_stream(c, k, q.arg)
        \/ q.cmd = "EXEC_STREAM" /\ req_on_exec_stream(c, k, q.arg)
        \/ q.cmd = "KICK" /\ req_on_kick(c, q.arg)
        \/ q.cmd = "ATTACH" /\ req_on_attach(c, q.arg.stream, q.arg.client)
        \/ q.cmd = "WHOAMI" /\ Reply(c, tab, sfh, OK, k)
        \/ q.cmd = "GET_STREAM_PARA" /\ Reply(c, tab, sfh, OK, None)
        \/ q.cmd = "QUIT" /\ Reply(c, clients_delete(tab, k), sfh, ERROR, None)
           /\ UNCHANGED <<lib, acclev, lost>>
    <2> DEFINE does == ~ (minacclev(q.cmd) > acclev[k])
    <2>1. ~ does => Error(c)
      BY Zenon DEF Serve
    <2>2. does /\ q.cmd = "IDENTIFY" => req_on_identify(c, k)
      BY Zenon DEF Serve
    <2>3. does /\ q.cmd = "AUTH" => req_on_auth(c, k, q.arg)
      BY Zenon DEF Serve
    <2>4. does /\ q.cmd = "NEW_STREAM" => req_on_new_stream(c, k)
      BY Zenon DEF Serve
    <2>5. does /\ q.cmd = "PASSFH" => req_on_passfh(c, k, q.arg)
      BY Zenon DEF Serve
    <2>6. does /\ q.cmd = "CON_STREAM" => req_on_con_stream(c, k, q.arg)
      BY Zenon DEF Serve
    <2>7. does /\ q.cmd = "EXEC_STREAM" => req_on_exec_stream(c, k, q.arg)
      BY Zenon DEF Serve
    <2>8. does /\ q.cmd = "KICK" => req_on_kick(c, q.arg)
      BY Zenon DEF Serve
    <2>9. does /\ q.cmd = "ATTACH" => req_on_attach(c, q.arg.stream, q.arg.client)
      BY Zenon DEF Serve
    <2>10. does /\ q.cmd = "WHOAMI" => Reply(c, tab, sfh, OK, k)
      BY Zenon DEF Serve
    <2>11. does /\ q.cmd = "GET_STREAM_PARA" => Reply(c, tab, sfh, OK, None)
      BY Zenon DEF Serve
    <2>12. does /\ q.cmd = "QUIT" => Reply(c, clients_delete(tab, k), sfh, ERROR, None) /\ UNCHANGED <<lib, acclev, lost>>
      BY Zenon DEF Serve
    <2> HIDE DEF does
    <2> QED BY <1>3, <2>1, <2>2, <2>3, <2>4, <2>5, <2>6, <2>7, <2>8, <2>9, <2>10, <2>11, <2>12
  <1>5. /\ req_on_identify(c, k) => Reply(c, tab, sfh, OK, None)
        /\ req_on_auth(c, k, q.arg) => Error(c) \/ Reply(c, tab, sfh, OK, None)
    BY Zenon DEF req_on_identify, req_on_auth
  <1> QED BY <1>2, <1>4, <1>5, Zenon

\* A stream that takes its handle has none before.
LEMMA SetFhRemains ==
    ASSUME Guard, NEW t, Owned(t, Main(net), Lent(lib)), t.streams = tab.streams,
           LiveStreams(t) = LiveStreams(tab), NEW s \in SID, NEW outcome \in {"codec", "ready"},
           NEW u, u = streams_set_fh(t, s, outcome, "plain"), NEW i \in LiveStreams(tab), sfh[i] = "other"
    PROVE  /\ i \in LiveStreams(u)
           /\ s \in LiveStreams(tab) /\ ~ tab.streams[s].ready => i # s
  <1>1. s \in LiveStreams(tab) /\ ~ tab.streams[s].ready => sfh[s] = "none"
    BY DEF Guard, Holds, HandlesKnown
  <1>2. \/ u = t
        \/ /\ s \in LiveStreams(t) /\ ~ t.streams[s].ready
           /\ Patched(t, u, s) \/ Trimmed(t, u, {s}, Become(t, {s}))
    BY OwnedSetFh
  <1>3. CASE u = t
    BY <1>1, <1>3
  <1>4. CASE /\ s \in LiveStreams(t) /\ ~ t.streams[s].ready
             /\ Patched(t, u, s) \/ Trimmed(t, u, {s}, Become(t, {s}))
    BY <1>1, <1>4 DEF Patched, Trimmed
  <1> QED BY <1>2, <1>3, <1>4

\* PASSFH and CON_STREAM.
LEMMA ConnectRemains ==
    ASSUME SessionInv, Guard, NEW c, NEW k, NEW s \in SID, NEW outcome \in {"codec", "ready"},
           NEW u, u = client_stream_set_fh(tab, k, s, outcome, "plain"), NEW f,
           f = (IF Takes(k, s, outcome) THEN [sfh EXCEPT ![s] = "ours"] ELSE sfh),
           NEW cmd, NEW arg, Reply(c, u, f, cmd, arg)
    PROVE  OthersRemain
  <1>1. Owned(tab, Main(net), Lent(lib)) /\ sfh \in [SID -> Ends]
    BY DEF Guard, Holds, OwnersKnown, SessionInv
  <1>2. ASSUME NEW i \in LiveStreams(tab), sfh[i] = "other"
        PROVE  i \in LiveStreams(u) /\ f[i] = "other"
    <2>1. i \in SID
      BY DEF LiveStreams
    <2>2. /\ i \in LiveStreams(streams_set_fh(tab, s, outcome, "plain"))
          /\ s \in LiveStreams(tab) /\ ~ tab.streams[s].ready => i # s
      BY <1>1, <1>2, SetFhRemains
    <2>3. i \in LiveStreams(u)
      BY <2>2 DEF client_stream_set_fh
    <2>4. f[i] = "other"
      BY <1>1, <1>2, <2>1, <2>2 DEF Takes
    <2> QED BY <2>3, <2>4
  <1> QED BY <1>2, ReplyRemains

\* EXEC_STREAM.
LEMMA ExecRemains ==
    ASSUME SessionInv, Guard, NEW c, NEW k, NEW q, Serving(c, k, q), q.cmd = "EXEC_STREAM",
           req_on_exec_stream(c, k, q.arg)
    PROVE  OthersRemain
  <1> DEFINE s == q.arg
             ours == [sfh EXCEPT ![s] = "ours"]
  <1>1. /\ lib.at = "exec" /\ s = lib.id /\ s \in SID /\ k \in LiveClients(tab) /\ k \in CID
        /\ c \in Conn /\ net[c].peer = k /\ lib.con = "temp"
    BY DEF Serving, Asks, Placed
  <1>2. \/ Reply(c, clients_close(tab, k), sfh, OK, None)
        \/ Error(c)
        \/ /\ s \in LiveStreams(tab) /\ ~ tab.streams[s].ready /\ Lists(tab, k, s)
           /\ \E outcome \in Outcomes :
                 Reply(c, client_stream_exec(tab, k, s, outcome, "plain"), ours, OK, None)
    BY DEF req_on_exec_stream, Error
  <1> HIDE DEF s
  <1>3. /\ PeersLive(net, tab) /\ SlotsIn(lib, net, tab)
        /\ Owned(tab, Main(net), Lent(lib)) /\ sfh \in [SID -> Ends]
    BY DEF Guard, Holds, OwnersKnown, SessionInv
  <1>4. /\ k = Temp(net) /\ k # Main(net) /\ k # Other /\ Room(lib, net) = {s}
    <2>1. Stage(lib, net) = StageOf(lib, TRUE, FALSE) /\ c = lib.con /\ Cur(lib, net) = lib.id
      BY ServingSees
    <2>2. k = Temp(net)
      BY <1>1, <2>1 DEF Temp
    <2>3. k # Main(net) /\ k # Other
      BY <1>1, <1>3, <2>2 DEF PeersLive, Conn, Temp
    <2>4. Stage(lib, net) = "made"
      BY <1>1, <2>1 DEF StageOf, Given
    <2> QED BY <1>1, <2>1, <2>2, <2>3, <2>4 DEF Room
  <1>5. CASE Reply(c, clients_close(tab, k), sfh, OK, None)
    <2>1. LiveStreams(clients_close(tab, k)) = LiveStreams(tab)
      BY <1>1, <1>3, OwnedClosed
    <2> QED BY <1>5, <2>1, ReplyRemains
  <1>6. CASE Error(c)
    <2>1. Reply(c, tab, sfh, ERROR, None)
      BY <1>6 DEF Error
    <2> QED BY <2>1, ReplyRemains
  <1>7. ASSUME NEW outcome \in Outcomes, s \in LiveStreams(tab), ~ tab.streams[s].ready, Lists(tab, k, s),
               Reply(c, client_stream_exec(tab, k, s, outcome, "plain"), ours, OK, None)
        PROVE  OthersRemain
    <2> DEFINE v == Execed(tab, k, s)
               u == client_stream_exec(tab, k, s, outcome, "plain")
    <2>1. SlotSet(tab, k) = {s}
      BY <1>1, <1>3, <1>4, <1>7 DEF SlotsIn, Lists
    <2>2. Owned(v, Main(net), Lent(lib)) /\ v.streams = tab.streams /\ LiveStreams(v) = LiveStreams(tab)
      <3> HIDE DEF v
      <3>1. v = Execed(tab, k, s)
        BY DEF v
      <3> QED BY <1>1, <1>3, <1>4, <2>1, <3>1, OwnedExeced
    <2>3. u = streams_set_fh(v, s, outcome, "plain")
      BY <1>7 DEF client_stream_exec, Execed
    <2>4. outcome \in {"codec", "ready"}
      BY SessionAssumption
    <2>5. Reply(c, u, ours, OK, None)
      BY <1>7
    <2> HIDE DEF v, u
    <2>6. ASSUME NEW i \in LiveStreams(tab), sfh[i] = "other"
          PROVE  i \in LiveStreams(u) /\ ours[i] = "other"
      <3>1. i \in LiveStreams(u) /\ i # s
        BY <1>1, <1>7, <2>2, <2>3, <2>4, <2>6, SetFhRemains
      <3>2. i \in SID
        BY DEF LiveStreams
      <3> QED BY <1>3, <2>6, <3>1, <3>2
    <2> HIDE DEF ours
    <2> QED BY <2>5, <2>6, ReplyRemains
  <1> QED BY <1>2, <1>5, <1>6, <1>7

\* KICK of the stream that the object is closed with.
LEMMA KickRemains ==
    ASSUME SessionInv, Guard, NEW c, NEW k, NEW q, Serving(c, k, q), q.cmd = "KICK",
           req_on_kick(c, q.arg), ~ lost', ~ (lib.at = "kick" /\ lib.then \in {"fail", "fallback"})
    PROVE  OthersRemain
  <1> DEFINE s == q.arg
             u == streams_delete(tab, s)
  <1>1. lib.at = "kick" /\ lib.then = "close" /\ s = lib.id
    BY DEF Serving, Asks, LibState
  <1>2. Reply(c, u, sfh, OK, None) /\ ~ lost
    BY DEF req_on_kick
  <1>3. Owned(tab, Main(net), Lent(lib)) /\ Kept(lib, net, tab, sfh)
    BY <1>2 DEF Guard, Holds, OwnersKnown
  <1>4. Stage(lib, net) = "handed" /\ Cur(lib, net) = s
    <2>1. Stage(lib, net) = StageOf(lib, TRUE, FALSE) /\ Cur(lib, net) = lib.id
      BY ServingSees
    <2> HIDE DEF s
    <2> QED BY <1>1, <2>1 DEF StageOf, Given
  <1> HIDE DEF s
  <1>5. s \in LiveStreams(tab) /\ sfh[s] \in {"none", "ours"}
    BY <1>3, <1>4 DEF Kept, Loose
  <1>6. Trimmed(tab, u, {s}, Become(tab, {s}))
    BY <1>3, <1>5, OwnedDeleters
  <1> HIDE DEF u
  <1>7. \A i \in LiveStreams(tab) : sfh[i] = "other" => i \in LiveStreams(u) /\ sfh[i] = "other"
    BY <1>5, <1>6 DEF Trimmed
  <1> QED BY <1>2, <1>7, ReplyRemains

\* QUIT, which takes the streams of the client along.
LEMMA QuitRemains ==
    ASSUME SessionInv, Guard, NEW c, NEW k, NEW q, Serving(c, k, q),
           Reply(c, clients_delete(tab, k), sfh, ERROR, None), ~ lost
    PROVE  OthersRemain
  <1> DEFINE u == clients_delete(tab, k)
             D == SlotSet(tab, k) \cap LiveStreams(tab)
  <1>1. c \in Conn /\ net[c].peer = k /\ k \in LiveClients(tab) /\ k \in CID
    BY DEF Serving
  <1>2. Owned(tab, Main(net), {}) /\ PeersLive(net, tab) /\ HandlesKnown(lib, net, tab, sfh, lost)
    BY DEF Guard, Holds, OwnersKnown
  <1>3. k # Other
    BY <1>1, <1>2 DEF PeersLive
  <1>4. Trimmed(tab, u, D, {k} \cup Become(tab, D))
    BY <1>1, <1>2, <1>3, OwnedDeleters
  <1>5. \A i \in D : tab.streams[i].client = k
    <2> SUFFICES ASSUME NEW i \in SlotSet(tab, k) PROVE tab.streams[i].client = k
      OBVIOUS
    <2>1. PICK j \in Slot : tab.clients[k].streams[j] = i /\ i # None
      BY DEF SlotSet
    <2>2. SlotsOwn(tab, Main(net), {})
      BY <1>2 DEF Owned
    <2>3. Owns(tab, k, i)
      BY <1>1, <2>1, <2>2 DEF SlotsOwn
    <2> QED BY <2>3 DEF Owns
  <1> HIDE DEF u, D
  <1>6. \A i \in LiveStreams(tab) : sfh[i] = "other" => i \in LiveStreams(u) /\ sfh[i] = "other"
    <2>1. \A i \in LiveStreams(tab) : sfh[i] = "other" => tab.streams[i].client = Other
      BY <1>2 DEF HandlesKnown
    <2> QED BY <1>3, <1>4, <1>5, <2>1 DEF Trimmed
  <1>7. Reply(c, u, sfh, ERROR, None)
    BY DEF u
  <1> QED BY <1>6, <1>7, ReplyRemains

\* ATTACH.
LEMMA AttachRemains ==
    ASSUME SessionInv, Guard, NEW c, NEW k, NEW q, Serving(c, k, q), q.cmd = "ATTACH",
           q = Head(net[c].req), req_on_attach(c, q.arg.stream, q.arg.client)
    PROVE  OthersRemain
  <1> DEFINE s == q.arg.stream
             u == client_stream_move(tab, k, s)
  <1>1. /\ lib.at = "attach" /\ s = lib.id /\ c = "main" /\ net[c].peer = k /\ k = Main(net)
        /\ lib.con = "main" /\ k \in LiveClients(tab) /\ k \in CID /\ s \in SID
    <2>1. c = lib.con
      BY ServingSees
    <2> QED BY <2>1 DEF Serving, Asks, Placed, Main
  <1>2. q.arg.client = k
    <2>1. Asked(lib, net) /\ Control(lib, net)
      BY ServingSees DEF Guard
    <2> QED BY <1>1, <2>1 DEF Control
  <1>3. \E cmd : Reply(c, u, sfh, cmd, None)
    BY <1>2 DEF req_on_attach
  <1>4. PeersLive(net, tab) /\ SlotsIn(lib, net, tab) /\ Owned(tab, Main(net), Lent(lib))
    BY DEF Guard, Holds, OwnersKnown
  <1>5. Mine(lib, net) = {}
    <2>1. Stage(lib, net) = StageOf(lib, TRUE, FALSE)
      BY ServingSees
    <2>2. Stage(lib, net) = "execed"
      BY <1>1, <2>1 DEF StageOf, Given
    <2> QED BY <1>1, <2>2 DEF Mine, Leaving
  <1>6. SlotSet(tab, k) = {} /\ k # Other
    BY <1>1, <1>4, <1>5 DEF SlotsIn, PeersLive, Conn
  <1>7. u = tab \/ Moved(tab, u, k, s)
    <2> HIDE DEF s
    <2> QED BY <1>1, <1>4, <1>6, OwnedMove
  <1> HIDE DEF u, s
  <1>8. LiveStreams(u) = LiveStreams(tab)
    BY <1>7 DEF Moved
  <1> QED BY <1>3, <1>8, ReplyRemains, SMTT(60)

\* Requests of the library, as long as its own stream is there.
LEMMA ServeRemains ==
    ASSUME SessionInv, Guard, NEW c \in Conn, Serve(c), ~ lost',
           ~ (lib.at = "kick" /\ lib.then \in {"fail", "fallback"})
    PROVE  OthersRemain
  <1>1. PICK k, q : k = net[c].peer /\ q = Head(net[c].req)
    OBVIOUS
  <1>2. /\ Serving(c, k, q)
        /\ \/ Reply(c, tab, sfh, OK, None) \/ Reply(c, tab, sfh, OK, k) \/ Error(c)
           \/ q.cmd = "NEW_STREAM" /\ req_on_new_stream(c, k)
           \/ q.cmd = "PASSFH" /\ req_on_passfh(c, k, q.arg)
           \/ q.cmd = "CON_STREAM" /\ req_on_con_stream(c, k, q.arg)
           \/ q.cmd = "EXEC_STREAM" /\ req_on_exec_stream(c, k, q.arg)
           \/ q.cmd = "KICK" /\ req_on_kick(c, q.arg)
           \/ q.cmd = "ATTACH" /\ req_on_attach(c, q.arg.stream, q.arg.client)
           \/ q.cmd = "QUIT" /\ Reply(c, clients_delete(tab, k), sfh, ERROR, None)
              /\ UNCHANGED <<lib, acclev, lost>>
    BY <1>1, Handled
  <1>3. ASSUME NEW cmd, NEW arg, Reply(c, tab, sfh, cmd, arg)
        PROVE  OthersRemain
    BY <1>3, ReplyRemains
  <1>4. CASE Reply(c, tab, sfh, OK, None) \/ Reply(c, tab, sfh, OK, k)
    BY <1>3, <1>4
  <1>5. ASSUME Error(c)
        PROVE  OthersRemain
    <2>1. Reply(c, tab, sfh, ERROR, None)
      BY <1>5 DEF Error
    <2> QED BY <1>3, <2>1
  <1>6. CASE q.cmd = "NEW_STREAM" /\ req_on_new_stream(c, k)
    <2>1. CASE Error(c)
      BY <1>5, <2>1
    <2>2. CASE ~ Error(c)
      <3>1. PICK s \in SID :
              /\ FirstOf(FreeSIDs(tab), s) /\ CanAdd(tab, k)
              /\ Reply(c, streams_set_dir(client_stream_add(streams_new(tab, s), k, s), s, "PLAY"),
                       sfh, OK, s)
        BY <1>6, <2>2, Zenon DEF req_on_new_stream
      <3> DEFINE u == streams_set_dir(client_stream_add(streams_new(tab, s), k, s), s, "PLAY")
      <3>2. s \in FreeSIDs(tab) /\ tab \in TablesType /\ Reply(c, u, sfh, OK, s)
        BY <3>1 DEF FirstOf, SessionInv
      <3>3. LiveStreams(tab) \subseteq LiveStreams(u)
        BY <3>1, <3>2, MadeRemains
      <3> HIDE DEF u
      <3> QED BY <3>2, <3>3, ReplyRemains
    <2> QED BY <2>1, <2>2
  <1>7. CASE q.cmd = "PASSFH" /\ req_on_passfh(c, k, q.arg)
    <2>1. q.arg \in SID
      BY <1>2, <1>7 DEF Serving, Asks, Placed
    <2>2. PICK outcome \in Outcomes :
            LET u == client_stream_set_fh(tab, k, q.arg, outcome, "plain") IN
            IF Takes(k, q.arg, outcome) THEN Reply(c, u, [sfh EXCEPT ![q.arg] = "ours"], OK, None)
            ELSE Reply(c, u, sfh, ERROR, None)
      BY <1>7, Zenon DEF req_on_passfh
    <2> DEFINE u == client_stream_set_fh(tab, k, q.arg, outcome, "plain")
               f == IF Takes(k, q.arg, outcome) THEN [sfh EXCEPT ![q.arg] = "ours"] ELSE sfh
    <2>3. \E cmd : Reply(c, u, f, cmd, None)
      BY <2>2
    <2>4. outcome \in {"codec", "ready"}
      BY SessionAssumption
    <2> QED BY <2>1, <2>3, <2>4, ConnectRemains
  <1>8. CASE q.cmd = "CON_STREAM" /\ req_on_con_stream(c, k, q.arg)
    <2>1. q.arg \in SID
      BY <1>2, <1>8 DEF Serving, Asks, Placed
    <2>2. CASE Error(c)
      BY <1>5, <2>2
    <2>3. CASE ~ Error(c)
      <3>1. PICK outcome \in Outcomes :
              Reply(c, client_stream_set_fh(tab, k, q.arg, outcome, "plain"),
                    IF Takes(k, q.arg, outcome) THEN [sfh EXCEPT ![q.arg] = "ours"] ELSE sfh, OK, None)
        BY <1>8, <2>3, Zenon DEF req_on_con_stream
      <3>2. outcome \in {"codec", "ready"}
        BY SessionAssumption
      <3> QED BY <2>1, <3>1, <3>2, ConnectRemains
    <2> QED BY <2>2, <2>3
  <1>9. CASE q.cmd = "EXEC_STREAM" /\ req_on_exec_stream(c, k, q.arg)
    BY <1>2, <1>9, ExecRemains
  <1>10. CASE q.cmd = "KICK" /\ req_on_kick(c, q.arg)
    BY <1>2, <1>10, KickRemains, SMTT(60)
  <1>11. CASE q.cmd = "ATTACH" /\ req_on_attach(c, q.arg.stream, q.arg.client)
    BY <1>1, <1>2, <1>11, AttachRemains
  <1>12. CASE /\ q.cmd = "QUIT" /\ Reply(c, clients_delete(tab, k), sfh, ERROR, None)
              /\ UNCHANGED <<lib, acclev, lost>>
    <2>1. ~ lost
      BY <1>12
    <2> QED BY <1>2, <1>12, <2>1, QuitRemains
  <1> QED BY <1>2, <1>4, <1>5, <1>6, <1>7, <1>8, <1>9, <1>10, <1>11, <1>12

\* Others that take away no client leave the connections as they are.
LEMMA KicksQuietly ==
    ASSUME SessionInv, Guard, NEW u, OtherKicks(u), ~ lost',
           \/ \E s \in LiveStreams(tab) : u = streams_delete(tab, s)
           \/ \E k \in LiveClients(tab) \ {Other} : u = clients_delete(tab, k)
    PROVE  net' = net
  <1>1. Becomes(net, u, sfh) /\ LiveClients(u) = LiveClients(tab)
    BY DEF OtherKicks
  <1>2. /\ Owned(tab, Main(net), Lent(lib)) /\ PeersLive(net, tab) /\ net \in [Conn -> Connection]
    BY DEF Guard, Holds, OwnersKnown, SessionInv, Talking
  <1>3. \A d \in LiveClients(u) : u.clients[d].fh = tab.clients[d].fh
    <2>1. \E D, L : Trimmed(tab, u, D, L)
      <3>1. ASSUME NEW s \in LiveStreams(tab), u = streams_delete(tab, s)
            PROVE  Trimmed(tab, u, {s}, Become(tab, {s}))
        BY <1>2, <3>1, OwnedDeleters
      <3>2. ASSUME NEW k \in LiveClients(tab) \ {Other}, u = clients_delete(tab, k)
            PROVE  LET D == SlotSet(tab, k) \cap LiveStreams(tab) IN
                   Trimmed(tab, u, D, {k} \cup Become(tab, D))
        BY <1>2, <3>2, OwnedDeleters
      <3> QED BY <3>1, <3>2
    <2> QED BY <2>1 DEF Trimmed
  <1>4. /\ Cutoff(net, net', u)
        /\ \A c \in Conn : net'[c].peer = net[c].peer => net'[c] = net[c]
        /\ net' = [c \in Conn |-> net'[c]]
    BY <1>1, <1>2, BecomesView
  <1>5. \A c \in Conn : net'[c].peer = net[c].peer
    BY <1>1, <1>2, <1>3, <1>4, PeersStay
  <1>6. \A c \in Conn : net'[c] = net[c]
    BY <1>4, <1>5
  <1> QED BY <1>2, <1>4, <1>6

\* No step of the program, of the server or of a stream that ends takes a
\* stream from others.
LEMMA StepRemains ==
    ASSUME SessionInv, Guard, Next, net' # net, ~ lost',
           ~ (lib.at = "kick" /\ lib.then \in {"fail", "fallback"})
    PROVE  OthersRemain
  <1>1. CASE Library \/ (\E type \in Types : roar_vs_new(type)) \/ roar_vs_stream
               \/ \E killit \in BOOLEAN : roar_vs_close(killit)
    <2>1. tab' = tab /\ (sfh' = sfh \/ sfh' = HungUp(sfh))
      BY <1>1, LibraryGuarded
    <2>2. LiveStreams(tab) \subseteq SID
      BY DEF LiveStreams
    <2> QED BY <2>1, <2>2 DEF OthersRemain, HungUp
  <1>2. ASSUME NEW c \in Conn, Serve(c)
        PROVE  OthersRemain
    BY <1>2, ServeRemains
  <1>3. ASSUME NEW c \in Conn, Accept(c)
        PROVE  OthersRemain
    <2>1. sfh' = sfh
      BY <1>3 DEF Accept
    <2>2. LiveStreams(tab') = LiveStreams(tab)
      <3>1. ASSUME NEW k \in CID, FirstOf(FreeCIDs(tab), k),
                   tab' = [clients_new(tab, k) EXCEPT !.clients[k].fh = TRUE]
            PROVE  LiveStreams(tab') = LiveStreams(tab)
        <4>1. k \in FreeCIDs(tab) /\ tab \in TablesType
          BY <3>1 DEF FirstOf, SessionInv
        <4>2. LiveStreams([clients_new(tab, k) EXCEPT !.clients[k].fh = TRUE]) = LiveStreams(tab)
          BY <4>1, AcceptLeaves
        <4> QED BY <3>1, <4>2
      <3>2. CASE tab' = tab
        BY <3>2
      <3> QED BY <1>3, <3>1, <3>2 DEF Accept
    <2> QED BY <2>1, <2>2 DEF OthersRemain
  <1>4. ASSUME NEW s \in SID, StreamEnds(s)
        PROVE  OthersRemain
    <2> DEFINE u == streams_delete(tab, s)
    <2>1. s \in LiveStreams(tab) /\ sfh[s] = "dead" /\ Becomes(net, u, sfh)
      BY <1>4 DEF StreamEnds
    <2>2. Owned(tab, Main(net), Lent(lib)) /\ net \in [Conn -> Connection]
      BY DEF Guard, Holds, OwnersKnown, SessionInv, Talking
    <2>3. Trimmed(tab, u, {s}, Become(tab, {s}))
      BY <2>1, <2>2, OwnedDeleters
    <2> HIDE DEF u
    <2>4. tab' = u /\ Reaped(sfh, sfh', u)
      BY <2>1, <2>2, BecomesView
    <2>5. LiveStreams(u) \subseteq SID /\ LiveStreams(u) = LiveStreams(tab) \ {s}
      BY <2>3 DEF LiveStreams, Trimmed
    <2> QED BY <2>1, <2>4, <2>5 DEF OthersRemain, Reaped
  <1>5. ~ Others
    <2> SUFFICES ASSUME Others PROVE FALSE
      OBVIOUS
    <2>1. CASE OtherStream
      BY <2>1 DEF OtherStream
    <2>2. ASSUME NEW s \in LiveStreams(tab), OtherKicks(streams_delete(tab, s))
          PROVE  FALSE
      BY <2>2, KicksQuietly
    <2>3. ASSUME NEW k \in LiveClients(tab) \ {Other}, OtherKicks(clients_delete(tab, k))
          PROVE  FALSE
      BY <2>3, KicksQuietly
    <2> QED BY <2>1, <2>2, <2>3 DEF Others
  <1> QED BY <1>1, <1>2, <1>3, <1>4, <1>5 DEF Next

\* No request of the library, and no connection of it that is closed, takes a
\* stream of others away or moves it to another client, as long as nothing of
\* this session was lost; the KICK that cleans up after a failure is excepted.
THEOREM HurtsNobodyCorrect == Spec => HurtsNobody
  <1> DEFINE Spares ==
        net' # net =>
            \/ lost'
            \/ lib.at = "kick" /\ lib.then \in {"fail", "fallback"}
            \/ \A s \in LiveStreams(tab) : sfh[s] = "other" =>
                s \in LiveStreams(tab') /\ Lists(tab', Other, s)
  <1>1. SessionInv /\ Guard /\ [Next]_vars => [Spares]_vars
    <2> SUFFICES ASSUME SessionInv, Guard, Next, net' # net, ~ lost',
                        ~ (lib.at = "kick" /\ lib.then \in {"fail", "fallback"}),
                        NEW s \in LiveStreams(tab), sfh[s] = "other"
                 PROVE  s \in LiveStreams(tab') /\ Lists(tab', Other, s)
      OBVIOUS
    <2>1. s \in LiveStreams(tab') /\ sfh'[s] = "other"
      BY StepRemains DEF OthersRemain
    <2>2. Guard'
      BY GuardStep
    <2>3. HandlesKnown(lib', net', tab', sfh', lost') /\ Owned(tab', Main(net'), Lent(lib'))
      BY <2>2 DEF Guard, Holds, OwnersKnown
    <2>4. tab'.streams[s].client = Other
      BY <2>1, <2>3 DEF HandlesKnown
    <2>5. Other \in LiveClients(tab') /\ s \in SlotSet(tab', tab'.streams[s].client)
      BY <2>1, <2>3, OwnedParts
    <2> QED BY <2>1, <2>4, <2>5 DEF Lists
  <1>2. [][Spares]_vars => HurtsNobody
    BY DEF HurtsNobody
  <1> HIDE DEF Spares
  <1> QED BY <1>1, <1>2, GuardInvariance, PTL DEF Spec
=============================================================================
