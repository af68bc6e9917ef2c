------------------------------ MODULE MainLoop ------------------------------
(***************************************************************************)
(* The end of the server: main_loop() of roard/loop.c, the EXIT command    *)
(* and the signals.  A server that is told to terminate closes its listen  *)
(* sockets and goes on until nobody is connected and nothing is played.    *)
(*                                                                         *)
(* One action is one stage of a turn of the loop, or one request, event or *)
(* signal that arrives in it.  Signal handlers run between any two stages. *)
(***************************************************************************)
EXTENDS Integers, FiniteSets

CONSTANTS
    Conn,    \* entries of the client table for remote clients
    Stream,  \* entries of the stream table for input streams
    Options, \* command lines: pairs <<g_terminate, g_no_listen>>
    self,    \* the server's own client, which owns the sources
    NULL

ASSUME MainLoopAssumption ==
    /\ Options \subseteq BOOLEAN \X BOOLEAN
    /\ \A o \in Options : o[2] => o[1]
    /\ IsFiniteSet(Conn)
    /\ self \notin Conn
    /\ NULL \notin [owner : Conn \cup {self}, silent : BOOLEAN]

VARIABLES
    pc,          \* stage of the loop
    listening,   \* some g_listen[] is in use
    have_listen, \* local to main_loop()
    have,        \* what clients_check_all() will return
    term,        \* local to main_loop()
    alive, g_terminate, g_no_listen,
    client,      \* "open": has a connection; "closed": only its streams are left
    stream       \* input streams; silent is PAUSE or MUTE

vars == <<pc, listening, have_listen, have, term, alive, g_terminate, g_no_listen,
          client, stream>>

MTypeOK ==
    /\ pc \in {"listen", "accept", "check", "serve", "mix", "tail", "left", "exited"}
    /\ {listening, have_listen, term, alive, g_terminate, g_no_listen} \subseteq BOOLEAN
    /\ have \in Int
    /\ client \in [Conn -> {"none", "open", "closed"}]
    /\ stream \in [Stream -> [owner : Conn \cup {self}, silent : BOOLEAN] \cup {NULL}]

Open == {c \in Conn : client[c] = "open"}
Live == {s \in Stream : stream[s] # NULL}

\* The sources of the command line play; --client-fh may have made a client.
Init ==
    /\ pc = "listen"
    /\ \E o \in Options : g_terminate = o[1] /\ g_no_listen = o[2]
    /\ listening = ~ g_no_listen
    /\ have_listen = FALSE /\ have = 0 /\ term = FALSE /\ alive = TRUE
    /\ client \in [Conn -> {"none", "open"}]
    /\ stream \in [Stream -> {NULL, [owner |-> self, silent |-> FALSE]}]

-----------------------------------------------------------------------------
(* The stages of main_loop() *)

Listen ==
    /\ pc = "listen"
    /\ have_listen' = listening
    /\ pc' = IF listening THEN "accept" ELSE "check"
    /\ UNCHANGED <<listening, have, term, alive, g_terminate, g_no_listen, client, stream>>

\* net_check_listen() looks at the sockets again.
Accept ==
    /\ pc = "accept"
    /\ \/ UNCHANGED client
       \/ \E c \in Conn :
            listening /\ client[c] = "none" /\ client' = [client EXCEPT ![c] = "open"]
    /\ pc' = "check"
    /\ UNCHANGED <<listening, have_listen, have, term, alive, g_terminate, g_no_listen, stream>>

\* clients_check_all() counts the connections first.  select() may fail when
\* a signal arrives, if there is anything to select.  Its second select() is
\* called only when there are connections: its failure makes no difference.
CheckBegin ==
    /\ pc = "check"
    /\ have' \in {Cardinality(Open)} \cup (IF Open = {} /\ Live = {} THEN {} ELSE {-1})
    /\ pc' = "serve"
    /\ UNCHANGED <<listening, have_listen, term, alive, g_terminate, g_no_listen, client, stream>>

\* Mutant of CheckEnd: a failed select() is taken for "no clients".
CheckEnd_ErrorIsNone ==
    /\ pc = "serve"
    /\ term' = (term \/ (have < 1 /\ g_terminate /\ ~ have_listen))
    /\ pc' = "mix"
    /\ UNCHANGED <<listening, have_listen, have, alive, g_terminate, g_no_listen, client, stream>>

CheckEnd ==
    /\ pc = "serve"
    /\ term' = (term \/ (have = 0 /\ g_terminate /\ ~ have_listen))
    /\ pc' = "mix"
    /\ UNCHANGED <<listening, have_listen, have, alive, g_terminate, g_no_listen, client, stream>>

\* What streams_get_mixbuffers() returns.
Mixed == Cardinality({s \in Live : ~ stream[s].silent})

\* Mutant of Mix: only an error of the mixer ends the loop.
Mix_ErrorOnly ==
    /\ pc = "mix"
    /\ alive' = (alive /\ ~ (term /\ Mixed < 0))
    /\ pc' = "tail"
    /\ UNCHANGED <<listening, have_listen, have, term, g_terminate, g_no_listen, client, stream>>

Mix ==
    /\ pc = "mix"
    /\ alive' = (alive /\ ~ (term /\ Mixed < 1))
    /\ pc' = "tail"
    /\ UNCHANGED <<listening, have_listen, have, term, g_terminate, g_no_listen, client, stream>>

\* Mutant of Tail: the loop goes on until it terminates by itself.
Tail_UntilTerm ==
    /\ pc = "tail"
    /\ alive' \in {alive, FALSE}
    /\ pc' = IF alive' \/ ~ term THEN "listen" ELSE "left"
    /\ UNCHANGED <<listening, have_listen, have, term, g_terminate, g_no_listen, client, stream>>

\* waveform_update_mixer() or plugins_update() may fail.
Tail ==
    /\ pc = "tail"
    /\ alive' \in {alive, FALSE}
    /\ pc' = IF alive' THEN "listen" ELSE "left"
    /\ UNCHANGED <<listening, have_listen, have, term, g_terminate, g_no_listen, client, stream>>

\* clean_quit_prep() and the end of main(), or clean_quit().
Exit ==
    /\ pc' = "exited"
    /\ alive' = FALSE
    /\ listening' = FALSE
    /\ client' = [c \in Conn |-> "none"]
    /\ stream' = [s \in Stream |-> NULL]
    /\ UNCHANGED <<have_listen, have, term, g_terminate, g_no_listen>>

Left == pc = "left" /\ Exit

-----------------------------------------------------------------------------
(* What clients_check_all() serves *)

Serving == pc = "serve" /\ have # -1

Loop == <<pc, have_listen, have, term, g_no_listen>>

\* req_on_exit() with the terminate flag.
ReqTerminate(c) ==
    /\ Serving /\ c \in Open
    /\ listening' = FALSE
    /\ g_terminate' = TRUE
    /\ UNCHANGED <<Loop, alive, client, stream>>

\* req_on_exit() without it.
ReqExit(c) ==
    /\ Serving /\ c \in Open
    /\ alive' = FALSE
    /\ UNCHANGED <<Loop, listening, g_terminate, client, stream>>

\* Mutant of ReqNewStream: the new stream is given to nobody.
ReqNewStream_NoOwner(c) ==
    /\ Serving /\ c \in Open
    /\ ~ (g_terminate /\ ~ g_no_listen)
    /\ \E s \in Stream \ Live :
        stream' = [stream EXCEPT ![s] = [owner |-> NULL, silent |-> FALSE]]
    /\ UNCHANGED <<Loop, listening, alive, g_terminate, client>>

\* streams_new() refuses while the server drains.
ReqNewStream(c) ==
    /\ Serving /\ c \in Open
    /\ ~ (g_terminate /\ ~ g_no_listen)
    /\ \E s \in Stream \ Live :
        stream' = [stream EXCEPT ![s] = [owner |-> c, silent |-> FALSE]]
    /\ UNCHANGED <<Loop, listening, alive, g_terminate, client>>

\* SET_STREAM_PARA: any client may pause and mute any stream.
ReqFlag(c) ==
    /\ Serving /\ c \in Open
    /\ \E s \in Live, b \in BOOLEAN : stream' = [stream EXCEPT ![s].silent = b]
    /\ UNCHANGED <<Loop, listening, alive, g_terminate, client>>

\* EXEC of a stream that is ready: the connection is closed, the client stays.
ReqClose(c) ==
    /\ Serving /\ c \in Open
    /\ client' = [client EXCEPT ![c] = "closed"]
    /\ UNCHANGED <<Loop, listening, alive, g_terminate, stream>>

\* PASSFH of a connection.
ReqPass(c) ==
    /\ Serving /\ c \in Open
    /\ \E d \in Conn : client[d] = "none" /\ client' = [client EXCEPT ![d] = "open"]
    /\ UNCHANGED <<Loop, listening, alive, g_terminate, stream>>

\* PASSFH of a listen socket: a free g_listen[] takes it, also when the server was
\* told to terminate.
ReqListen(c) ==
    /\ Serving /\ c \in Open
    /\ listening' = TRUE
    /\ UNCHANGED <<Loop, alive, g_terminate, client, stream>>

\* Streams that are not selectable are checked before select() is called, and
\* clients_send_mon() writes to streams: both may meet the end of one.
Ending == pc \in {"serve", "tail"}

\* The connection failed, the client was kicked or asked to quit, or the
\* stream it became has ended.  clients_delete() takes its streams along.
Disconnect(c) ==
    /\ Ending /\ client[c] # "none"
    /\ client' = [client EXCEPT ![c] = "none"]
    /\ stream' = [s \in Stream |->
                    IF s \in Live /\ stream[s].owner = c THEN NULL ELSE stream[s]]
    /\ UNCHANGED <<Loop, listening, alive, g_terminate>>

StreamEnds(s) ==
    /\ Ending
    /\ s \in Live
    /\ stream' = [stream EXCEPT ![s] = NULL]
    /\ UNCHANGED <<Loop, listening, alive, g_terminate, client>>

-----------------------------------------------------------------------------
(* Signals, and the end of a primary stream *)

Running == pc \notin {"left", "exited"}

on_sig_usr1 ==
    /\ Running
    /\ listening' = FALSE
    /\ g_terminate' = TRUE
    /\ UNCHANGED <<Loop, alive, client, stream>>

clean_quit == Running /\ Exit

Exited == pc = "exited" /\ UNCHANGED vars

LoopStep == Listen \/ Accept \/ CheckBegin \/ CheckEnd \/ Mix \/ Tail \/ Left

Next ==
    \/ LoopStep
    \/ \E c \in Conn :
        \/ ReqTerminate(c) \/ ReqExit(c) \/ ReqNewStream(c) \/ ReqFlag(c)
        \/ ReqClose(c) \/ ReqPass(c) \/ ReqListen(c) \/ Disconnect(c)
    \/ \E s \in Stream : StreamEnds(s)
    \/ on_sig_usr1 \/ clean_quit \/ Exited

\* The loop never waits for long: every select() has a timeout.  Nothing is
\* assumed about clients, streams and signals.
Spec == Init /\ [][Next]_vars /\ WF_vars(LoopStep)

-----------------------------------------------------------------------------
(* Correctness *)

\* Once main_loop() has made up its mind to stop, no client is connected and
\* none can connect any more, whatever signals and requests came in between
\* the looks at the listen sockets, the connections and g_terminate.
TermMeansAlone == term => Open = {} /\ ~ listening

\* What TermMeansAlone rests on.  have_listen may be stale: a client may pass a
\* listen socket after main_loop() has looked for one.  But then there was a
\* connection to count in the same turn: a count of no connections stays right
\* until main_loop() looks at it, and with it a have_listen that is false.
LoopInv ==
    /\ MTypeOK
    /\ TermMeansAlone
    /\ pc \in {"accept", "check"} /\ ~ have_listen => ~ listening
    /\ pc = "serve" /\ have = 0 => Open = {}
    /\ pc = "serve" /\ have = 0 /\ ~ have_listen => ~ listening

\* A server that is told to terminate does so when it stays without clients
\* and without input streams.
DrainedServerExits ==
    <>[](g_terminate /\ ~ listening /\ Open = {} /\ Live = {}) => <>(pc = "exited")

\* EXIT and the errors of the loop end the server.
DeadServerExits == ~ alive ~> pc = "exited"

\* roar_terminate() lets the server quit as soon as all clients disconnects
\* and all input streams ended: not before.
QuitsAfterLastStream ==
    [][(pc = "mix" /\ alive /\ ~ alive' /\ pc' = "tail") => Live = {}]_vars

\* --terminate: when there were clients, the server terminates after the last
\* of them has quit.
TerminatesAfterLastClient ==
    <>(Open # {}) /\ <>[](g_terminate /\ Open = {} /\ Live = {}) => <>(pc = "exited")
=============================================================================
