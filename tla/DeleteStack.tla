---------------------------- MODULE DeleteStack ----------------------------
(***************************************************************************)
(* streams_delete() and clients_delete() as the code runs them: a stack of *)
(* C calls that change the tables while their callers are still using      *)
(* them.  A stream asks its dependants, its container and its client to    *)
(* go, and each of them may come back to it.                               *)
(*                                                                         *)
(* The variables of Registry keep the tables as they were when the stack   *)
(* was last empty; mem are the tables in memory.  The specification is     *)
(* checked to implement that of Registry, in which a deletion is one step. *)
(***************************************************************************)
EXTENDS Registry, Sequences

VARIABLES
    mem,      \* the tables as the calls see them
    closing,  \* streams in state ROAR_STREAMSTATE_CLOSING
    stack     \* the active calls, innermost first

dvars == <<vars, mem, closing, stack>>

(***************************************************************************)
(* A call: function, argument, place in the function, loop index, and the  *)
(* two values streams_delete() saves while the stream is un-grouped.       *)
(***************************************************************************)
Frame ==
    [fn : {"streams_delete", "clients_delete"}, id : SID \cup CID \cup {None},
     pc : {"enter", "children", "virtual", "regroup", "client", "streams", "free"},
     i : Nat, rel : SID \cup {None}, client : CID \cup {None}]

Call(fn, id) ==
    [fn |-> fn, id |-> id, pc |-> "enter", i |-> 0, rel |-> None, client |-> None]

DTypeOK ==
    /\ mem \in TablesType
    /\ closing \subseteq SID
    /\ stack \in Seq(Frame)

DInit == Init /\ mem = Now /\ closing = {} /\ stack = <<>>

-----------------------------------------------------------------------------
(* Stepping the innermost call *)

Top == Head(stack)
At(fn, pc) == stack # <<>> /\ Top.fn = fn /\ Top.pc = pc

Goto(pc)         == stack' = <<[Top EXCEPT !.pc = pc]>> \o Tail(stack)
CallFrom(f, g)   == stack' = <<g, f>> \o Tail(stack)
Return           == stack' = Tail(stack)

\* The outermost call returned: the main loop sees the tables again.
Settle == IF stack' = <<>> THEN Become(mem') ELSE UNCHANGED vars

\* Mutant of StreamEnter: the state CLOSING is not looked at.
StreamEnter_NotClosing ==
    /\ At("streams_delete", "enter")
    /\ IF Top.id \notin LiveStreams(mem)
       THEN Return /\ UNCHANGED <<mem, closing>>
       ELSE /\ closing' = closing \cup {Top.id}
            /\ mem' = [mem EXCEPT !.nstreams = @ - 1]
            /\ Goto("children")
    /\ Settle

\* Mutant of StreamEnter: an unused slot of a client is not told apart.
StreamEnter_NoLookup ==
    /\ At("streams_delete", "enter")
    /\ IF Top.id \in closing
       THEN Return /\ UNCHANGED <<mem, closing>>
       ELSE /\ closing' = closing \cup {Top.id}
            /\ mem' = [mem EXCEPT !.nstreams = @ - 1]
            /\ Goto("children")
    /\ Settle

StreamEnter ==
    /\ At("streams_delete", "enter")
    /\ IF Top.id \notin LiveStreams(mem) \/ Top.id \in closing
       THEN Return /\ UNCHANGED <<mem, closing>>
       ELSE /\ closing' = closing \cup {Top.id}
            /\ mem' = [mem EXCEPT !.nstreams = @ - 1]
            /\ Goto("children")
    /\ Settle

\* One turn of the loop over the streams that are relative to this one.
StreamChildren ==
    /\ At("streams_delete", "children")
    /\ LET next == [Top EXCEPT !.i = @ + 1] IN
       IF Top.i = STREAMS_MAX
       THEN /\ mem' = [mem EXCEPT !.thru =
                          IF mem.streams[Top.id].dir = "THRU" THEN @ - 1 ELSE @]
            /\ Goto("virtual")
       ELSE IF Top.i \in LiveStreams(mem) /\ Dependent(mem, Top.i, Top.id)
       THEN CallFrom(next, Call("streams_delete", Top.i)) /\ UNCHANGED mem
       ELSE /\ mem' = IF /\ Top.i \in LiveStreams(mem)
                         /\ mem.streams[Top.i].pos_rel_id = Top.id
                         /\ mem.streams[Top.i].dir \notin {"THRU", "RAW_IN"}
                         /\ ~ mem.streams[Top.i].virtual
                      THEN [mem EXCEPT !.streams[Top.i].pos_rel_id = None]
                      ELSE mem
            /\ stack' = <<next>> \o Tail(stack)
    /\ UNCHANGED closing
    /\ Settle

\* A virtual stream is un-grouped and its container is told.
StreamVirtual ==
    /\ At("streams_delete", "virtual")
    /\ LET s == mem.streams[Top.id]
           f == [Top EXCEPT !.pc = "regroup", !.rel = s.pos_rel_id, !.client = s.client]
       IN
       IF s.virtual /\ s.pos_rel_id # None
       THEN /\ mem' = [mem EXCEPT !.streams[Top.id].pos_rel_id = None,
                                  !.streams[Top.id].client = None]
            /\ IF /\ s.pos_rel_id \in LiveStreams(mem)
                  /\ mem.streams[s.pos_rel_id].cf = "wave"
               THEN CallFrom(f, Call("streams_delete", s.pos_rel_id))
               ELSE stack' = <<f>> \o Tail(stack)
       ELSE Goto("client") /\ UNCHANGED mem
    /\ UNCHANGED closing
    /\ Settle

StreamRegroup ==
    /\ At("streams_delete", "regroup")
    /\ mem' = [mem EXCEPT !.streams[Top.id].pos_rel_id = Top.rel,
                          !.streams[Top.id].client = Top.client]
    /\ Goto("client")
    /\ UNCHANGED closing
    /\ Settle

\* The codecfilter is closed and client_stream_delete() is called.
StreamClient ==
    /\ At("streams_delete", "client")
    /\ LET c == mem.streams[Top.id].client
           k == CHOOSE j \in Slot :
                    FirstOf({i \in Slot : mem.clients[c].streams[i] = Top.id}, j)
           f == [Top EXCEPT !.pc = "free"]
           u == [mem EXCEPT !.streams[Top.id].cf = "none"]
       IN
       IF Lists(mem, c, Top.id)
       THEN /\ mem' = [u EXCEPT !.clients[c].streams[k] = None]
            /\ IF mem.clients[c].execed = Top.id
               THEN CallFrom(f, Call("clients_delete", c))
               ELSE stack' = <<f>> \o Tail(stack)
       ELSE stack' = <<f>> \o Tail(stack) /\ mem' = u
    /\ UNCHANGED closing
    /\ Settle

\* Mutant of StreamFree: the entry is freed and the server goes on.
StreamFree_NoQuit ==
    /\ At("streams_delete", "free")
    /\ closing' = closing \ {Top.id}
    /\ mem' = [mem EXCEPT !.streams[Top.id] = NULL]
    /\ Return
    /\ Settle

StreamFree ==
    /\ At("streams_delete", "free")
    /\ closing' = closing \ {Top.id}
    /\ IF mem.streams[Top.id].primary /\ mem.alive
       THEN mem' = Quit /\ stack' = <<>>
       ELSE mem' = [mem EXCEPT !.streams[Top.id] = NULL] /\ Return
    /\ Settle

ClientEnter ==
    /\ At("clients_delete", "enter")
    /\ IF Top.id \notin LiveClients(mem)
       THEN Return /\ UNCHANGED mem
       ELSE /\ mem' = [mem EXCEPT !.nclients = @ - 1, !.clients[Top.id].execed = None]
            /\ Goto("streams")
    /\ UNCHANGED closing
    /\ Settle

\* Mutant of ClientStreams: a slot is tried until it is empty.
ClientStreams_UntilEmpty ==
    /\ At("clients_delete", "streams")
    /\ IF Top.i = STREAMS_PER_CLIENT
       THEN Goto("free")
       ELSE LET s == mem.clients[Top.id].streams[Top.i] IN
            CallFrom([Top EXCEPT !.i = IF s = None THEN @ + 1 ELSE @],
                     Call("streams_delete", s))
    /\ UNCHANGED <<mem, closing>>
    /\ Settle

\* One turn of the loop over the slots of the client.
ClientStreams ==
    /\ At("clients_delete", "streams")
    /\ IF Top.i = STREAMS_PER_CLIENT
       THEN Goto("free")
       ELSE CallFrom([Top EXCEPT !.i = @ + 1],
                     Call("streams_delete", mem.clients[Top.id].streams[Top.i]))
    /\ UNCHANGED <<mem, closing>>
    /\ Settle

ClientFree ==
    /\ At("clients_delete", "free")
    /\ mem' = [mem EXCEPT !.clients[Top.id] = NULL]
    /\ Return
    /\ UNCHANGED closing
    /\ Settle

-----------------------------------------------------------------------------
(* The main loop starts a deletion *)

Start(fn, id, t) ==
    /\ stack = <<>>
    /\ stack' = <<Call(fn, id)>>
    /\ mem' = t
    /\ UNCHANGED <<vars, closing>>

StartClient ==
    \/ \E c \in CID :
        \/ Runs /\ g_clients[c] # NULL /\ g_clients[c].fh /\ Start("clients_delete", c, mem)
        \/ Requests(c) /\ \E k \in CID : Start("clients_delete", k, mem)

StartStream ==
    \/ \E c \in CID, s \in LiveStreams(mem) :
        Requests(c) /\ ~ g_streams[s].immutable /\ Start("streams_delete", s, mem)
    \/ \E s \in LiveStreams(mem) :
        /\ Runs /\ g_streams[s].fh
        /\ g_streams[s].dir = "THRU" \/ \E c \in LiveClients(Now) : s \in SlotSet(Now, c)
        /\ Start("streams_delete", s, mem)

\* EXEC or CON_STREAM whose codecfilter does not open.
StartUnready ==
    \E c \in CID, s \in LiveStreams(mem) :
        /\ Requests(c) /\ Lists(mem, c, s) /\ ~ g_streams[s].ready
        /\ "codec" \in FhOutcomes
        /\ g_streams[s].dir \notin {"THRU", "RAW_IN", "RAW_OUT"}
        /\ \E execed \in {g_clients[c].execed, s} :
            Start("streams_delete", s,
                  [mem EXCEPT !.clients[c].execed = execed, !.streams[s].fh = TRUE])

\* The other requests, and the deletion of a stream that was made in the same
\* call, are single steps as in Registry.
Other ==
    /\ stack = <<>>
    /\ \/ Accept
       \/ \E c \in CID :
            \/ Req_new_stream(c) \/ Req_exec_stream(c) \/ Req_con_stream(c)
            \/ Req_set_flag(c) \/ Req_reset_flag(c) \/ Req_exit(c)
       \/ \E s \in SID : WaveHeader(s)
    /\ mem' = Now'
    /\ UNCHANGED <<closing, stack>>

DStep ==
    \/ StreamEnter \/ StreamChildren \/ StreamVirtual \/ StreamRegroup
    \/ StreamClient \/ StreamFree
    \/ ClientEnter \/ ClientStreams \/ ClientFree

DNext == DStep \/ StartClient \/ StartStream \/ StartUnready \/ Other

\* A call that was made runs on: nothing else uses the thread.
DSpec == DInit /\ [][DNext]_dvars /\ WF_dvars(DStep)

-----------------------------------------------------------------------------
(* Correctness *)

\* No call works on an object another call has freed or is deleting as well:
\* what a call still touches after the calls it made have returned is there.
NoUseAfterFree ==
    \A m \in DOMAIN stack :
        stack[m].pc # "enter" =>
            /\ IF stack[m].fn = "streams_delete"
               THEN stack[m].id \in LiveStreams(mem)
               ELSE stack[m].id \in LiveClients(mem)
            /\ \A n \in DOMAIN stack :
                (/\ n # m /\ stack[n].pc # "enter"
                 /\ stack[n].fn = stack[m].fn) => stack[n].id # stack[m].id

\* The recursion comes to an end, whatever refers to whatever.
DeletionReturns == []<>(stack = <<>>)

\* When the outermost call returns, exactly the streams and clients that
\* Tables!Delete says are gone, and the counters agree.
RefinesRegistry == Spec
=============================================================================
