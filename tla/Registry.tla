------------------------------ MODULE Registry ------------------------------
(***************************************************************************)
(* The life of the clients and streams of roard: connections come and go,  *)
(* clients create, connect, EXEC, move and kick streams, codecfilters add  *)
(* virtual streams, I/O errors end streams, and the end of a primary       *)
(* stream ends the server.                                                 *)
(*                                                                         *)
(* roard has a single thread: one action is one call that clients_check(), *)
(* net_check_listen() or the audio path makes from the main loop.  The     *)
(* interleaving is that of the requests of different clients and of the    *)
(* I/O events of the streams.                                              *)
(***************************************************************************)
EXTENDS Tables

CONSTANTS
    NewRequests,   \* pairs <<dir, pos_rel_id>> that NEW_STREAM asks for
    FhOutcomes,    \* ways in which connecting a stream may end
    CodecKinds,    \* codecfilters a stream may be connected with
    AttachTargets, \* clients that ATTACH names
    FlagRequests   \* sets of flags that SET_STREAM_PARA asks for

ASSUME RegistryAssumption ==
    /\ NewRequests \subseteq (Dir \ {"UNSET"}) \X (SID \cup {None})
    /\ FhOutcomes \subseteq FhOutcome
    /\ CodecKinds \subseteq Codec /\ CodecKinds # {}
    /\ AttachTargets \subseteq CID
    /\ FlagRequests \subseteq SUBSET {"PRIMARY", "VIRTUAL"}
    /\ CLIENTS_MAX > 0 /\ STREAMS_MAX > 0 /\ STREAMS_PER_CLIENT > 0

VARIABLES
    g_streams,        \* the stream table
    g_clients,        \* the client table
    counters,         \* numbers of streams and of clients
    streams_thru_num, \* number of THRU streams
    alive,            \* the main loop runs
    stuck             \* a request is in a call that never returns

vars == <<g_streams, g_clients, counters, streams_thru_num, alive, stuck>>

Now == [streams  |-> g_streams,         clients  |-> g_clients,
        nstreams |-> counters.streams,  nclients |-> counters.clients,
        thru     |-> streams_thru_num,  alive    |-> alive]

Store(t) ==
    /\ g_streams' = t.streams
    /\ g_clients' = t.clients
    /\ counters' = [streams |-> t.nstreams, clients |-> t.nclients]
    /\ streams_thru_num' = t.thru
    /\ alive' = t.alive

Become(t) == Store(t) /\ UNCHANGED stuck

\* The only thread is back in the main loop.
Runs == alive /\ ~ stuck

TypeOK ==
    /\ g_streams \in [SID -> Stream \cup {NULL}]
    /\ g_clients \in [CID -> Client \cup {NULL}]
    /\ counters \in [streams : Int, clients : Int]
    /\ streams_thru_num \in Int
    /\ alive \in BOOLEAN
    /\ stuck \in BOOLEAN

-----------------------------------------------------------------------------
(* Start: the server's own client, g_self_client, with the waveform mixer.  *)

self == 0

MixerStream ==
    [NewStream EXCEPT !.dir = "MIXING", !.client = self,
                      !.immutable = TRUE, !.primary = TRUE]

Init ==
    /\ g_streams = [s \in SID |-> IF s = 0 THEN MixerStream ELSE NULL]
    /\ g_clients = [c \in CID |->
           IF c = self
           THEN [NewClient EXCEPT !.streams = [k \in Slot |-> IF k = 0 THEN 0 ELSE None]]
           ELSE NULL]
    /\ counters = [streams |-> 1, clients |-> 1]
    /\ streams_thru_num = 0
    /\ alive = TRUE
    /\ stuck = FALSE

-----------------------------------------------------------------------------
(* Connections *)

\* net_check_listen(), and the client form of PASSFH.
Accept ==
    /\ Runs
    /\ \E c \in CID :
        /\ FirstOf(FreeCIDs(Now), c)
        /\ Become([clients_new(Now, c) EXCEPT !.clients[c].fh = TRUE])

\* clients_check() and clients_check_all(): the connection failed.
Disconnect(c) ==
    /\ Runs
    /\ g_clients[c] # NULL /\ g_clients[c].fh
    /\ Become(clients_delete(Now, c))

\* clients_check_all() reads a request from c.
Requests(c) ==
    /\ Runs
    /\ g_clients[c] # NULL
    /\ g_clients[c].fh
    /\ g_clients[c].execed = None

-----------------------------------------------------------------------------
(* Requests *)

\* The checks of req_on_new_stream(); a FILTER stream must also match the
\* parameters of its source, which match says.
NewAccepted(t, s, match) ==
    LET rel == t.streams[s].pos_rel_id
        relLive == rel # None /\ rel # s /\ rel \in LiveStreams(t)
    IN  CASE t.streams[s].dir = "RAW_IN" ->
                 relLive /\ t.streams[rel].dir = "RAW_OUT"
          [] t.streams[s].dir = "THRU"   -> relLive
          [] t.streams[s].dir = "FILTER" ->
                 match /\ (rel = None \/ rel \in LiveStreams(t))
          [] OTHER -> TRUE

\* RAW_IN and THRU requests that name no other stream lose their relation
\* before the refused stream is deleted.
Refuse(t, s) ==
    LET rel == t.streams[s].pos_rel_id
        drop == \/ t.streams[s].dir = "THRU" /\ rel \in {None, s}
                \/ t.streams[s].dir = "RAW_IN"
    IN  streams_delete(IF drop THEN [t EXCEPT !.streams[s].pos_rel_id = None] ELSE t, s)

\* The stream is added, loaded from the message and given its direction,
\* whatever it is relative to.
Loaded(t, c, s, dir, rel) ==
    LET added == client_stream_add(streams_new(t, s), c, s)
    IN  streams_set_dir([added EXCEPT !.streams[s].pos_rel_id = rel], s, dir)

\* req_on_new_stream() when it returns.
Create(t, c, s, dir, rel, match) ==
    LET loaded == Loaded(t, c, s, dir, rel)
    IN  IF ~ CanAdd(t, c)                THEN streams_delete(streams_new(t, s), s)
        ELSE IF NewAccepted(loaded, s, match) THEN loaded
        ELSE Refuse(loaded, s)

\* A THRU stream that names the id it is about to get itself is not refused:
\* the server never comes to the checks.
Req_new_stream(c) ==
    /\ Requests(c)
    /\ \E s \in SID, r \in NewRequests :
        /\ FirstOf(FreeSIDs(Now), s)
        /\ LET t == Loaded(Now, c, s, r[1], r[2]) IN
           IF CanAdd(Now, c) /\ Endless(t, s)
           THEN Store(t) /\ stuck' = TRUE
           ELSE \E match \in (IF r[1] = "FILTER" THEN BOOLEAN ELSE {TRUE}) :
                    Become(Create(Now, c, s, r[1], r[2], match))

\* A stream that is ready, or does not exist, only closes the connection.
Req_exec_stream(c) ==
    /\ Requests(c)
    /\ \E s \in SID, outcome \in FhOutcomes, cf \in CodecKinds :
        Become(IF g_streams[s] = NULL \/ g_streams[s].ready
               THEN clients_close(Now, c)
               ELSE client_stream_exec(Now, c, s, outcome, cf))

\* req_on_con_stream(), and the stream form of PASSFH.
Req_con_stream(c) ==
    /\ Requests(c)
    /\ \E s \in SID, outcome \in FhOutcomes, cf \in CodecKinds :
        Become(client_stream_set_fh(Now, c, s, outcome, cf))

Req_attach(c) ==
    /\ Requests(c)
    /\ \E s \in SID, k \in AttachTargets : Become(client_stream_move(Now, k, s))

\* Kicking a stream is refused when it is immutable; a client, never.
Req_kick(c) ==
    /\ Requests(c)
    /\ \/ \E k \in CID : Become(clients_delete(Now, k))
       \/ \E s \in LiveStreams(Now) :
            ~ g_streams[s].immutable /\ Become(streams_delete(Now, s))

\* streams_set_flag(): PRIMARY is stored first; VIRTUAL then fails, as no
\* codecfilter modelled here answers VIRTUAL_NEW.
Req_set_flag(c) ==
    /\ Requests(c)
    /\ \E s \in LiveStreams(Now), flags \in FlagRequests :
        Become([Now EXCEPT !.streams[s].primary = @ \/ "PRIMARY" \in flags])

\* Mutant of Req_reset_flag: the flags of immutable streams are not protected.
Req_reset_flag_Unprotected(c) ==
    /\ Requests(c)
    /\ \E s \in LiveStreams(Now), flags \in FlagRequests :
        Become([Now EXCEPT
            !.streams[s].primary = @ /\ "PRIMARY" \notin flags,
            !.streams[s].virtual = @ /\ "VIRTUAL" \notin flags])

\* streams_reset_flag(): an immutable stream stays primary.
Req_reset_flag(c) ==
    /\ Requests(c)
    /\ \E s \in LiveStreams(Now), flags \in FlagRequests :
        Become([Now EXCEPT
            !.streams[s].primary = @ /\ (g_streams[s].immutable \/ "PRIMARY" \notin flags),
            !.streams[s].virtual = @ /\ "VIRTUAL" \notin flags])

\* QUIT is clients_delete() itself.
Req_quit(c) == Requests(c) /\ Become(clients_delete(Now, c))

\* req_on_exit() without the terminate flag: the main loop is left.
Req_exit(c) == Requests(c) /\ Become(Quit)

-----------------------------------------------------------------------------
(* The audio path *)

\* A read, a write or the copy to a THRU stream failed, or the peer is gone.
StreamFails(s) ==
    /\ Runs
    /\ g_streams[s] # NULL /\ g_streams[s].fh
    /\ g_streams[s].dir = "THRU" \/ \E c \in LiveClients(Now) : s \in SlotSet(Now, c)
    /\ Become(streams_delete(Now, s))

\* streams_new_virtual() for the container stream p.
NewVirtual(t, p, v) ==
    LET added == client_stream_add(streams_new(t, v), t.streams[p].client, v)
        dired == streams_set_dir(added, v, t.streams[p].dir)
    IN  IF CanAdd(t, t.streams[p].client)
        THEN [dired EXCEPT !.streams[v].pos_rel_id = p, !.streams[v].virtual = TRUE]
        ELSE streams_delete(streams_new(t, v), v)

\* cf_wave_read() met the header: the data now flows through a virtual
\* stream, and the container stream gives up its handle.  When this fails
\* streams_check() deletes the container stream, unless errno says EAGAIN.
\* The codec the header names may be "unknown": the virtual stream was made
\* and is not connected then.
OpenWave(t, p, v, outcome, again) ==
    LET u == NewVirtual(t, p, v)
        w == IF v \in LiveStreams(u) /\ outcome # "unknown"
             THEN streams_set_fh(u, v, outcome, "plain") ELSE u
    IN  IF v \in LiveStreams(w) /\ w.streams[v].ready
        THEN [w EXCEPT !.streams[p].fh = FALSE]
        ELSE IF again THEN w ELSE streams_delete(w, p)

WaveHeader(p) ==
    /\ Runs
    /\ g_streams[p] # NULL /\ g_streams[p].cf = "wave" /\ g_streams[p].fh
    /\ g_streams[p].client # None
    /\ \E v \in SID, outcome \in FhOutcomes \cup {"unknown"}, again \in BOOLEAN :
        /\ FirstOf(FreeSIDs(Now), v)
        /\ Become(OpenWave(Now, p, v, outcome, again))

Exited == ~ Runs /\ UNCHANGED vars

Next ==
    \/ Accept
    \/ \E c \in CID :
        \/ Disconnect(c)
        \/ Req_new_stream(c) \/ Req_exec_stream(c) \/ Req_con_stream(c)
        \/ Req_attach(c) \/ Req_kick(c)
        \/ Req_set_flag(c) \/ Req_reset_flag(c)
        \/ Req_quit(c) \/ Req_exit(c)
    \/ \E s \in SID : StreamFails(s) \/ WaveHeader(s)
    \/ Exited

Spec == Init /\ [][Next]_vars

-----------------------------------------------------------------------------
(* Correctness *)

\* No chain of copies runs in a circle while the server runs, and it is stuck
\* only with a THRU stream that was asked to be its own copy.
CopiesEnd ==
    IF stuck
    THEN \E s \in LiveStreams(Now) : g_streams[s].dir = "THRU" /\ g_streams[s].pos_rel_id = s
    ELSE ThruLinked(Now)

\* The counters are those of the tables.
Counted(t) ==
    /\ t.nstreams = Cardinality(LiveStreams(t))
    /\ t.nclients = Cardinality(LiveClients(t))
    /\ t.thru = Cardinality({s \in LiveStreams(t) : t.streams[s].dir = "THRU"})

\* The counters of counters.h and streams_thru_num count the table entries,
\* although every path of the recursive deletion changes them one by one.
CountersExact == Counted(Now)

\* The relations of the streams outside X lead to live streams.
Related(t, X) ==
    \A i \in LiveStreams(t) \ X :
        LET rel == t.streams[i].pos_rel_id IN
        /\ t.streams[i].dir \in {"THRU", "RAW_IN"} \/ t.streams[i].virtual =>
               rel \in LiveStreams(t)
        /\ t.streams[i].dir = "RAW_IN" => t.streams[rel].dir = "RAW_OUT"
        /\ t.streams[i].dir = "FILTER" => rel \in LiveStreams(t) \cup {None}

\* A stream that exists only relative to another one (THRU, RAW_IN, virtual)
\* never outlives it: streams_delete() takes it along before the id of the
\* parent can be given to another stream.  A FILTER stream stays, and forgets
\* the stream it filtered.
RelationsLive == Related(Now, {})

\* Both sides agree who owns a stream: a slot of a client names a live
\* stream whose client field names the client back, in that slot only, and
\* no stream names a client that does not list it.
OwnershipAgrees ==
    /\ \A c \in LiveClients(Now), k \in Slot :
        LET s == g_clients[c].streams[k] IN
        s # None =>
            /\ s \in LiveStreams(Now)
            /\ g_streams[s].client = c
            /\ \A j \in Slot : g_clients[c].streams[j] = s => j = k
    /\ \A s \in LiveStreams(Now) :
        /\ g_streams[s].client \in LiveClients(Now)
        /\ s \in SlotSet(Now, g_streams[s].client)

\* A client that was turned into a stream by EXEC lists that stream: the end
\* of the one is then always the end of the other.
ExecedIsListed ==
    \A c \in LiveClients(Now) :
        g_clients[c].execed # None => g_clients[c].execed \in SlotSet(Now, c)

\* An immutable stream goes only when the server goes, whatever is kicked,
\* moved or deleted around it.
ImmutableOutlivesServer ==
    [][\A s \in SID :
        g_streams[s] # NULL /\ g_streams[s].immutable /\ g_streams'[s] = NULL
            => ~ alive']_vars

\* A stream that a client lists stays listed by some client until it is
\* deleted.
StaysAttached ==
    [][\A s \in SID :
        /\ g_streams[s] # NULL /\ g_streams'[s] # NULL
        /\ \E c \in LiveClients(Now) : s \in SlotSet(Now, c)
        => \E c \in LiveClients(Now)' : s \in SlotSet(Now, c)']_vars
=============================================================================
