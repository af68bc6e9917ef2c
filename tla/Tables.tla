------------------------------- MODULE Tables -------------------------------
(***************************************************************************)
(* The two object tables of roard, g_clients[] and g_streams[], and the    *)
(* functions of roard/clients.c and roard/streams.c that create, link and  *)
(* destroy their entries.  Every function of the code is an operator that  *)
(* maps the tables before the call to the tables after it; the modules     *)
(* that EXTEND this one turn them into actions.                            *)
(*                                                                         *)
(* streams_delete() and clients_delete() call each other recursively.      *)
(* Their joint effect is stated here without recursion, as the least set   *)
(* of streams closed under "the deletion of s also deletes i".  Module     *)
(* DeleteStack runs the recursion step by step and is checked against it.  *)
(***************************************************************************)
EXTENDS Integers, FiniteSets

CONSTANTS
    CLIENTS_MAX,         \* ROAR_CLIENTS_MAX
    STREAMS_MAX,         \* ROAR_STREAMS_MAX
    STREAMS_PER_CLIENT,  \* ROAR_CLIENTS_MAX_STREAMS_PER_CLIENT
    NULL                 \* an unused table entry

CID  == 0 .. CLIENTS_MAX - 1
SID  == 0 .. STREAMS_MAX - 1
Slot == 0 .. STREAMS_PER_CLIENT - 1
None == -1

(***************************************************************************)
(* The directions that creation and deletion tell apart.  "PLAY" stands    *)
(* for every direction they treat alike, "UNSET" for the zero of memset(). *)
(***************************************************************************)
Dir == {"UNSET", "PLAY", "FILTER", "THRU", "RAW_OUT", "RAW_IN", "MIXING"}

(***************************************************************************)
(* cf is the open codecfilter: "wave" stands for the filters that answer   *)
(* VIRTUAL_DELETE by deleting their own stream (RIFF/WAVE and AU).         *)
(***************************************************************************)
Codec == {"none", "plain", "wave"}

Stream == [dir : Dir, pos_rel_id : SID \cup {None}, client : CID \cup {None},
           fh : BOOLEAN, ready : BOOLEAN, cf : Codec,
           virtual : BOOLEAN, immutable : BOOLEAN, primary : BOOLEAN]

Client == [fh : BOOLEAN, execed : SID \cup {None},
           streams : [Slot -> SID \cup {None}]]

ASSUME TablesAssumption ==
    /\ CLIENTS_MAX \in Nat
    /\ STREAMS_MAX \in Nat
    /\ STREAMS_PER_CLIENT \in Nat
    /\ NULL \notin Stream
    /\ NULL \notin Client

(***************************************************************************)
(* The tables, with the counters the code keeps beside them: counters      *)
(* (streams, clients), streams_thru_num, and the flag alive of the main    *)
(* loop.                                                                   *)
(***************************************************************************)
TablesType ==
    [streams  : [SID -> Stream \cup {NULL}],
     clients  : [CID -> Client \cup {NULL}],
     nstreams : Int,
     nclients : Int,
     thru     : Int,
     alive    : BOOLEAN]

LiveStreams(t) == {s \in SID : t.streams[s] # NULL}
LiveClients(t) == {c \in CID : t.clients[c] # NULL}
SlotSet(t, c)  == {t.clients[c].streams[k] : k \in Slot} \ {None}

-----------------------------------------------------------------------------
(* Deletion *)

\* Mutant of Dependent: RAW_IN streams are left behind.
Dependent_RawInStays(t, i, s) ==
    /\ t.streams[i].pos_rel_id = s
    /\ i # s
    /\ t.streams[i].dir = "THRU" \/ t.streams[i].virtual

\* Mutant of Dependent: THRU streams are left behind.
Dependent_ThruStays(t, i, s) ==
    /\ t.streams[i].pos_rel_id = s
    /\ i # s
    /\ t.streams[i].dir = "RAW_IN" \/ t.streams[i].virtual

\* Stream i goes when stream s, to which it is relative, goes.
Dependent(t, i, s) ==
    /\ t.streams[i].pos_rel_id = s
    /\ i # s
    /\ t.streams[i].dir \in {"THRU", "RAW_IN"} \/ t.streams[i].virtual

\* The virtual stream s takes the container stream p with it.
TakesParent(t, s, p) ==
    /\ t.streams[s].virtual
    /\ t.streams[s].pos_rel_id = p
    /\ t.streams[p].cf = "wave"

\* Stream s is the one its client c has been turned into by EXEC.
ExecedBy(t, s, c) ==
    /\ t.streams[s].client = c
    /\ c \in LiveClients(t)
    /\ s \in SlotSet(t, c)
    /\ t.clients[c].execed = s

Triggers(t, s, i) ==
    \/ Dependent(t, i, s)
    \/ TakesParent(t, s, i)
    \/ \E c \in CID : ExecedBy(t, s, c) /\ i \in SlotSet(t, c)

Closed(t, D) ==
    \A s \in D, i \in LiveStreams(t) \ D : ~ Triggers(t, s, i)

\* The streams that are gone when the deletion of those in R has returned:
\* those that no closed set with R in it spares.
Doomed(t, R) ==
    LiveStreams(t) \
        UNION {LiveStreams(t) \ D :
                 D \in {D \in SUBSET LiveStreams(t) :
                          R \cap LiveStreams(t) \subseteq D /\ Closed(t, D)}}

\* Mutant of FreedSlots: client_stream_delete() is not called.
FreedSlots_Kept(t, c, D) == t.clients[c].streams

\* client_stream_delete() for every stream of D: the first slot that holds it.
FreedSlots(t, c, D) ==
    [k \in Slot |->
        IF \E s \in D : /\ t.streams[s].client = c
                        /\ t.clients[c].streams[k] = s
                        /\ \A j \in Slot : j < k => t.clients[c].streams[j] # s
        THEN None
        ELSE t.clients[c].streams[k]]

ThruAmong(t, D) == Cardinality({s \in D : t.streams[s].dir = "THRU"})

\* Mutant of Unrelated: STREAMS_MAX marks the stream that lost its relation.
Unrelated_WrongMark(r) == [r EXCEPT !.pos_rel_id = STREAMS_MAX]

\* A stream that was relative to a deleted one and stays.
Unrelated(r) == [r EXCEPT !.pos_rel_id = None]

\* What is left when the streams of D and the clients of K have been freed.
Remove(t, D, K) ==
    [streams |-> [s \in SID |->
        IF s \in D THEN NULL
        ELSE IF s \in LiveStreams(t) /\ t.streams[s].pos_rel_id \in D
             THEN Unrelated(t.streams[s])
             ELSE t.streams[s]],
     clients |-> [c \in CID |->
        IF c \in K THEN NULL
        ELSE IF c \in LiveClients(t)
             THEN [t.clients[c] EXCEPT !.streams = FreedSlots(t, c, D)]
             ELSE NULL],
     nstreams |-> t.nstreams - Cardinality(D),
     nclients |-> t.nclients - Cardinality(K),
     thru     |-> t.thru - ThruAmong(t, D),
     alive    |-> t.alive]

\* clean_quit(): everything is deleted and the process exits.
Quit ==
    [streams |-> [s \in SID |-> NULL], clients |-> [c \in CID |-> NULL],
     nstreams |-> 0, nclients |-> 0, thru |-> 0, alive |-> FALSE]

\* Mutant of Delete: the client that became a stream stays without it.
Delete_ClientStays(t, R, K) ==
    LET D == Doomed(t, R)
    IN  IF t.alive /\ \E s \in D : t.streams[s].primary
        THEN Quit
        ELSE Remove(t, D, K)

\* The deletion of the streams R and of the clients K with all that follows.
Delete(t, R, K) ==
    LET D == Doomed(t, R)
        L == K \cup {c \in CID : \E s \in D : ExecedBy(t, s, c)}
    IN  IF t.alive /\ \E s \in D : t.streams[s].primary
        THEN Quit
        ELSE Remove(t, D, L)

streams_delete(t, s) ==
    IF s \in LiveStreams(t) THEN Delete(t, {s}, {}) ELSE t

\* Mutant of clients_delete: the streams of the client are not deleted.
clients_delete_StreamsStay(t, c) ==
    IF c \in LiveClients(t) THEN Delete(t, {}, {c}) ELSE t

clients_delete(t, c) ==
    IF c \in LiveClients(t) THEN Delete(t, SlotSet(t, c), {c}) ELSE t

-----------------------------------------------------------------------------
(* Creation *)

FirstOf(S, id) == id \in S /\ \A j \in S : id <= j

FreeCIDs(t) == CID \ LiveClients(t)
FreeSIDs(t) == SID \ LiveStreams(t)
FreeSlots(t, c) == {k \in Slot : t.clients[c].streams[k] = None}

NewClient == [fh |-> FALSE, execed |-> None, streams |-> [k \in Slot |-> None]]

NewStream ==
    [dir |-> "UNSET", pos_rel_id |-> None, client |-> None, fh |-> FALSE,
     ready |-> FALSE, cf |-> "none", virtual |-> FALSE, immutable |-> FALSE,
     primary |-> FALSE]

clients_new(t, c) ==
    [t EXCEPT !.clients[c] = NewClient, !.nclients = @ + 1]

streams_new(t, s) ==
    [t EXCEPT !.streams[s] = NewStream, !.nstreams = @ + 1]

\* streams_get_subsys() asks a THRU stream's relation, and does not return when
\* that leads, over THRU streams only, back to where it has been.
Endless(t, s) ==
    \E X \in SUBSET LiveStreams(t) :
        /\ s \in X
        /\ \A i \in X : t.streams[i].dir = "THRU" /\ t.streams[i].pos_rel_id \in X

\* Mutant of streams_set_dir: a THRU stream is not counted.
streams_set_dir_NotCounted(t, s, dir) ==
    [t EXCEPT !.streams[s].dir = dir]

\* The tables when streams_set_dir() comes to ask for the subsystem, and when
\* it returns, if it does.
streams_set_dir(t, s, dir) ==
    [t EXCEPT !.streams[s].dir = dir,
              !.thru = IF dir = "THRU" THEN @ + 1 ELSE @]

-----------------------------------------------------------------------------
(* Ownership *)

streams_set_client(t, s, c) ==
    IF s \in LiveStreams(t) THEN [t EXCEPT !.streams[s].client = c] ELSE t

\* client_stream_add() fails when there is no such client or no free slot.
CanAdd(t, c) == c \in LiveClients(t) /\ FreeSlots(t, c) # {}

\* Mutant of client_stream_add: streams_set_client() is not called.
client_stream_add_OneSided(t, c, s) ==
    LET k == CHOOSE j \in Slot : FirstOf(FreeSlots(t, c), j)
    IN  IF CanAdd(t, c) THEN [t EXCEPT !.clients[c].streams[k] = s] ELSE t

client_stream_add(t, c, s) ==
    LET k == CHOOSE j \in Slot : FirstOf(FreeSlots(t, c), j)
    IN  IF CanAdd(t, c)
        THEN streams_set_client([t EXCEPT !.clients[c].streams[k] = s], s, c)
        ELSE t

\* client_stream_delete() fails when c does not list s.
Lists(t, c, s) == c \in LiveClients(t) /\ s \in SlotSet(t, c)

client_stream_delete(t, c, s) ==
    LET k == CHOOSE j \in Slot :
                 FirstOf({i \in Slot : t.clients[c].streams[i] = s}, j)
        u == [t EXCEPT !.clients[c].streams[k] = None]
    IN  IF ~ Lists(t, c, s) THEN t
        ELSE IF t.clients[c].execed = s THEN clients_delete(u, c) ELSE u

\* A stream id that is not in use has no client: it is added all the same.
client_stream_move(t, c, s) ==
    LET old == IF s \in LiveStreams(t) THEN t.streams[s].client ELSE None
    IN  IF old = None THEN client_stream_add(t, c, s)
        ELSE IF Lists(t, old, s)
             THEN client_stream_add(client_stream_delete(t, old, s), c, s)
             ELSE t

-----------------------------------------------------------------------------
(* Connecting a stream *)

\* How streams_set_fh() ends: the codecfilter does not open, the handle can
\* not be set non-blocking, or the stream is ready.
FhOutcome == {"codec", "nonblock", "ready"}

streams_set_fh(t, s, outcome, cf) ==
    LET raw == t.streams[s].dir \in {"THRU", "RAW_IN", "RAW_OUT"}
        u   == [t EXCEPT !.streams[s].fh = TRUE]
    IN  IF s \notin LiveStreams(t) \/ t.streams[s].ready THEN t
        ELSE IF outcome = "codec" /\ ~ raw THEN streams_delete(u, s)
        ELSE [u EXCEPT !.streams[s].cf = IF raw THEN "none" ELSE cf,
                       !.streams[s].ready = outcome # "nonblock"]

client_stream_set_fh(t, c, s, outcome, cf) ==
    IF Lists(t, c, s) THEN streams_set_fh(t, s, outcome, cf) ELSE t

client_stream_exec(t, c, s, outcome, cf) ==
    IF Lists(t, c, s)
    THEN streams_set_fh([t EXCEPT !.clients[c].execed = s], s, outcome, cf)
    ELSE t

\* clients_close() with nocheck set, as clients_check() calls it.
clients_close(t, c) == [t EXCEPT !.clients[c].fh = FALSE]

-----------------------------------------------------------------------------
(***************************************************************************)
(* Ownership.  A slot of a client names a live stream that names the       *)
(* client back, and does so once; a stream outside X is in a slot of the   *)
(* client it names; and a client that became a stream lists it.  X are the *)
(* streams that were made and are not given to a client yet.               *)
(***************************************************************************)
SlotsAgree(t) ==
    \A c \in LiveClients(t), k \in Slot :
        t.clients[c].streams[k] # None =>
            /\ t.clients[c].streams[k] \in LiveStreams(t)
            /\ t.streams[t.clients[c].streams[k]].client = c
            /\ \A j \in Slot : t.clients[c].streams[j] = t.clients[c].streams[k] => j = k

StreamsAgree(t, X) ==
    \A s \in LiveStreams(t) \ X :
        /\ t.streams[s].client \in LiveClients(t)
        /\ s \in SlotSet(t, t.streams[s].client)

ExecedListed(t) ==
    \A c \in LiveClients(t) :
        t.clients[c].execed # None => t.clients[c].execed \in SlotSet(t, c)

Tidy(t, X) == t \in TablesType /\ SlotsAgree(t) /\ StreamsAgree(t, X) /\ ExecedListed(t)

-----------------------------------------------------------------------------
(***************************************************************************)
(* Copies.  A THRU stream has the stream that it copies, and what goes     *)
(* with a THRU stream is a THRU stream itself.                             *)
(***************************************************************************)

\* No THRU stream is, over any number of others, a copy of itself.
NoCircle(t) ==
    \A S \in (SUBSET LiveStreams(t)) \ {{}} :
        \E i \in S : t.streams[i].dir # "THRU" \/ t.streams[i].pos_rel_id \notin S

ThruLinked(t) ==
    /\ \A i \in LiveStreams(t) :
        t.streams[i].dir = "THRU" =>
            /\ ~ t.streams[i].virtual
            /\ t.streams[i].pos_rel_id \in LiveStreams(t)
            /\ \A j \in LiveStreams(t) : Dependent(t, j, i) => t.streams[j].dir = "THRU"
    /\ NoCircle(t)
=============================================================================
