------------------------------ MODULE DataPath ------------------------------
(***************************************************************************)
(* The data of the streams, turn by turn of main_loop(): streams_check()   *)
(* and raw_check_stream() read from the clients, every read and write is   *)
(* copied to the THRU streams of the stream, the mixer takes a period from *)
(* the buffers of each input stream, and streams_send_mon() writes the     *)
(* result to the monitors.                                                 *)
(*                                                                         *)
(* stream_vio_s_read() and stream_vio_s_write() call each other and        *)
(* streams_delete() while they go through the table; stack holds the       *)
(* active calls.  A THRU stream that can not take a copy is deleted, with  *)
(* all that Tables!Delete takes along, under the feet of the callers.      *)
(*                                                                         *)
(* Streams have the format and volume of the server: a unit of data leaves *)
(* the buffers as it came in, and what is said is where it goes.           *)
(***************************************************************************)
EXTENDS Tables, Buffer

CONSTANTS
    Setups,      \* servers to look at: their tables, which streams are monitors
                 \* with a header to write, which want it (PRETHRU), and which
                 \* are paused or get data by request
    PERIOD,      \* units of a period, ROAR_OUTPUT_CALC_OUTBUFSIZE()
    Unit,        \* data units: those of a client are numbered, modulo Unit
    MaxSent,     \* bound: units a client may have in flight
    MaxBacklog   \* bound: units buffered when a client stops or adds to a stream

\* RAW_IN streams have the stream they are for, which is RAW_OUT.
RawLinked(t) ==
    \A s \in LiveStreams(t) :
        t.streams[s].dir = "RAW_IN" =>
            /\ t.streams[s].pos_rel_id \in LiveStreams(t) \ {s}
            /\ t.streams[t.streams[s].pos_rel_id].dir = "RAW_OUT"

\* Theorems RelationsCorrect and CopiesCorrect of module Registry_proofs show
\* that the tables are linked like this as long as the server comes back to its
\* main loop, which is what runs the data path.  Monitors are one of the
\* directions that PLAY stands for, and only they have a header to write.
ASSUME DataPathAssumption ==
    /\ PERIOD \in Nat \ {0} /\ Unit \in Nat \ {0}
    /\ MaxSent \in Nat /\ MaxBacklog \in Nat
    /\ \A u \in Setups :
        /\ u.tab \in TablesType /\ RawLinked(u.tab) /\ ThruLinked(u.tab)
        /\ u.monitors \cup u.headed \cup u.prethru \cup u.asked \subseteq SID
        /\ \A s \in u.monitors \cap LiveStreams(u.tab) : u.tab.streams[s].dir = "PLAY"
        /\ u.headed \subseteq u.monitors

Tag    == 0 .. Unit - 1
Header == <<Unit>>       \* what cf_wave_write() and cf_au_write() begin with
Mixed  == <<Unit + 1>>   \* a period of the mixer's output
Unset  == Unit + 2       \* memory that was never written
Datum  == 0 .. Unit + 2

VARIABLES
    setup,    \* the chosen member of Setups, but for its tables
    tab,      \* the tables
    paused,   \* ROAR_FLAG_PAUSE of the streams
    old,      \* streams in state OLD; the others are NEW
    buffer,   \* chains of buffered input
    output,   \* what each place of the output buffer of a stream holds
    prethru,  \* the stream's header for late THRU streams
    opened,   \* codecfilters that have written their header
    number,   \* number of the next unit of each client
    sent,     \* units that the client sent and nobody read
    closed,   \* streams whose client has closed its end
    stage,    \* stage of the turn
    todo,     \* streams this stage has yet to look at
    job,      \* the stream looked at and how far
    stack,    \* active calls of stream_vio_s_read() and stream_vio_s_write()
    errno,    \* "none", "again" or "other"
    passed,   \* data of the calls for each stream during job
    copied,   \* data written in full to each stream during job
    lagged,   \* streams that were paused or added to with data in their buffers
    crash     \* a freed stream was used

vars == <<setup, tab, paused, old, buffer, output, prethru, opened, number, sent, closed,
          stage, todo, job, stack, errno, passed, copied, lagged, crash>>

tables == <<setup, tab, old, prethru, opened>>
calls  == <<stack, errno, passed, copied, crash>>
peers  == <<paused, number, sent, closed, lagged>>
audio  == <<buffer, output>>

Live    == LiveStreams(tab)
Monitor == setup.monitors

Idle == [kind |-> "none", id |-> None, got |-> <<>>, at |-> "done", new |-> {}]

Frame == [fn : {"read", "write"}, id : SID, data : Seq(Datum), i : 0 .. STREAMS_MAX,
          at : {"look", "header", "again", "data"}]

\* The tables, buffers and calls are well formed.
DPTypeOK ==
    /\ tab \in TablesType
    /\ old \subseteq SID /\ paused \subseteq SID /\ closed \subseteq SID
    /\ \A s \in SID :
        /\ \A k \in DOMAIN buffer[s] :
            LET b == buffer[s][k] IN
            b.offset >= 0 /\ b.user_len > 0 /\ b.offset + b.user_len <= Len(b.data)
        /\ s \notin Live => buffer[s] = <<>> /\ prethru[s] = <<>>
        /\ output[s] \in [1 .. PERIOD -> {"unset", "new", "old", "zero"}]
        /\ sent[s] \in Seq(Tag) /\ Len(sent[s]) <= MaxSent
    /\ stage \in {"check", "mix", "mon"}
    /\ todo \subseteq SID
    /\ \A k \in DOMAIN stack : stack[k] \in Frame
    /\ errno \in {"none", "again", "other"}
    /\ crash \in BOOLEAN

Init ==
    /\ \E u \in Setups :
        /\ setup = [monitors |-> u.monitors, headed |-> u.headed,
                    prethru |-> u.prethru, asked |-> u.asked]
        /\ tab = u.tab
    /\ paused = {} /\ old = {} /\ closed = {} /\ lagged = {} /\ opened = {}
    /\ buffer = [s \in SID |-> <<>>]
    /\ output = [s \in SID |-> [k \in 1 .. PERIOD |-> "unset"]]
    /\ prethru = [s \in SID |-> <<>>]
    /\ number = [s \in SID |-> 0]
    /\ sent = [s \in SID |-> <<>>]
    /\ stage = "mon" /\ todo = {}
    /\ job = Idle /\ stack = <<>> /\ errno = "none"
    /\ passed = [s \in SID |-> <<>>]
    /\ copied = [s \in SID |-> <<>>]
    /\ crash = FALSE

-----------------------------------------------------------------------------
(* The clients' side, external.  Data and the end of it come at any time,   *)
(* but nobody can tell before the server looks.                             *)

Looks ==
    /\ stack = <<>>
    /\ \/ job.at = "read"
       \/ job = Idle /\ stage = "mon" /\ todo = {}

\* Input streams that are read by streams_check() and taken from by the mixer.
IsInput(t, s) == t.streams[s].dir = "PLAY" /\ s \notin Monitor

Send(s) ==
    /\ Looks /\ ~ crash
    /\ s \in Live \ closed
    /\ tab.streams[s].ready
    /\ IsInput(tab, s) \/ tab.streams[s].dir = "RAW_IN"
    /\ Len(sent[s]) < MaxSent
    /\ sent' = [sent EXCEPT ![s] = Append(@, number[s])]
    /\ number' = [number EXCEPT ![s] = (@ + 1) % Unit]
    /\ UNCHANGED <<tables, audio, paused, closed, lagged, stage, todo, job, calls>>

Close(s) ==
    /\ Looks /\ ~ crash
    /\ s \in Live \ closed /\ tab.streams[s].ready
    /\ closed' = closed \cup {s}
    /\ UNCHANGED <<tables, audio, paused, number, sent, lagged, stage, todo, job, calls>>

-----------------------------------------------------------------------------
(* Requests, which are served between the streams of the first stage.       *)

Serving == stage = "check" /\ job = Idle /\ ~ crash

\* CON_STREAM or PASSFH for a stream that was created and not connected.
Connect(s) ==
    /\ Serving
    /\ s \in Live /\ ~ tab.streams[s].ready
    /\ tab' = [tab EXCEPT !.streams[s].fh = TRUE, !.streams[s].ready = TRUE]
    /\ UNCHANGED <<setup, old, prethru, opened, audio, peers, stage, todo, job,
                   calls>>

Backlog(s) == Len(Content(buffer[s]))

\* SET_STREAM_PARA with the flag PAUSE, which means nothing to THRU streams.
Pause(s) ==
    /\ Serving
    /\ s \in Live \cap setup.asked /\ tab.streams[s].dir # "THRU"
    /\ s \notin paused => Backlog(s) <= MaxBacklog
    /\ paused' = IF s \in paused THEN paused \ {s} ELSE paused \cup {s}
    /\ lagged' = IF Backlog(s) > 0 THEN lagged \cup {s} ELSE lagged
    /\ UNCHANGED <<tables, audio, number, sent, closed, stage, todo, job, calls>>

\* Mutant of stream_add_buffer: the buffer that was there is lost.
stream_add_buffer_Replaces(s, b) == buffer' = [buffer EXCEPT ![s] = <<b>>]

stream_add_buffer(s, b) == buffer' = [buffer EXCEPT ![s] = roar_buffer_add(@, b)]

\* req_on_add_data(): a client adds data to a stream by request.  What other
\* streams than inputs get stays in their buffers for good.
AddData(s) ==
    /\ Serving
    /\ s \in Live \cap setup.asked /\ IsInput(tab, s) /\ Backlog(s) < MaxBacklog
    /\ stream_add_buffer(s, roar_buffer_new(<<number[s]>>))
    /\ number' = [number EXCEPT ![s] = (@ + 1) % Unit]
    /\ lagged' = lagged \cup {s}
    /\ UNCHANGED <<tables, output, paused, sent, closed, stage, todo, job, calls>>

-----------------------------------------------------------------------------
(* Stages of the turn *)

\* clients_check_all() has asked select() which streams have data.
BeginTurn ==
    /\ stage = "mon" /\ todo = {} /\ job = Idle /\ ~ crash
    /\ stage' = "check"
    /\ todo' = {s \in Live : tab.streams[s].ready /\ (sent[s] # <<>> \/ s \in closed)}
    /\ UNCHANGED <<tables, audio, peers, job, calls>>

Start(kind, s, at) ==
    /\ job' = [kind |-> kind, id |-> s, got |-> <<>>, at |-> at, new |-> Live \ old]
    /\ todo' = todo \ {s}

\* streams_check(): PLAY streams and RAW_IN streams are read.
Check(s) ==
    /\ stage = "check" /\ job = Idle /\ ~ crash
    /\ s \in todo
    /\ IF s \in Live \ paused /\ (IsInput(tab, s) \/ tab.streams[s].dir = "RAW_IN")
       THEN Start(IF tab.streams[s].dir = "RAW_IN" THEN "raw" ELSE "check", s, "read")
       ELSE todo' = todo \ {s} /\ job' = job
    /\ UNCHANGED <<tables, audio, peers, stage, calls>>

\* The streams that streams_get_mixbuffers() takes data from.
Inputs == {s \in Live \ paused : IsInput(tab, s)}

\* The output buffer after len units were put at its head: it is neither
\* cleared nor is what the stream could not fill.
Filled(o, len) ==
    [k \in 1 .. PERIOD |->
        IF k <= len THEN "new" ELSE IF o[k] = "new" THEN "old" ELSE o[k]]

\* streams_get_mixbuffers() and streams_fill_mixbuffer2() for every input.
Mix ==
    /\ stage = "check" /\ job = Idle /\ todo = {} /\ ~ crash
    /\ LET shifted == [s \in Inputs |-> roar_buffer_shift_out(buffer[s], PERIOD)]
           fed     == {s \in Inputs : buffer[s] # <<>>}
       IN  /\ buffer' = [s \in SID |-> IF s \in fed THEN shifted[s].rest ELSE buffer[s]]
           /\ output' = [s \in SID |->
                  IF s \in fed THEN Filled(output[s], Len(shifted[s].data))
                  ELSE IF s \in Inputs THEN [k \in 1 .. PERIOD |-> "zero"]
                  ELSE output[s]]
           /\ old' = old \cup fed
    /\ stage' = "mon"
    /\ todo' = {s \in Live \cap Monitor : tab.streams[s].ready}
    /\ UNCHANGED <<setup, tab, prethru, opened, peers, job, calls>>

\* streams_send_mon(); cf_wave_write() and cf_au_write() add their header to
\* the prethru chain before they write it.
SendMon(s) ==
    /\ stage = "mon" /\ job = Idle /\ ~ crash
    /\ s \in todo
    /\ IF s \in Live \ paused
       THEN Start("mon", s, IF s \in setup.headed \ opened THEN "header" ELSE "first")
       ELSE todo' = todo \ {s} /\ job' = job
    /\ prethru' = IF s \in Live \ paused /\ s \in setup.headed \ opened
                  THEN [prethru EXCEPT ![s] = <<roar_buffer_new(Header)>>]
                  ELSE prethru
    /\ UNCHANGED <<setup, tab, old, opened, audio, peers, stage, calls>>

-----------------------------------------------------------------------------
(* Deletion during a job *)

\* streams_delete(): the tables, and what hung on the streams that are gone.
Gone(t) ==
    LET kept == LiveStreams(t)
        Keep(f, none) == [s \in SID |-> IF s \in kept THEN f[s] ELSE none]
    IN  /\ tab' = t
        /\ buffer' = Keep(buffer, <<>>)
        /\ prethru' = Keep(prethru, <<>>)
        /\ output' = Keep(output, [k \in 1 .. PERIOD |-> "unset"])
        /\ number' = Keep(number, 0)
        /\ sent' = Keep(sent, <<>>)
        /\ closed' = closed \cap kept
        /\ paused' = paused \cap kept
        /\ lagged' = lagged \cap kept

NothingGone == UNCHANGED <<tab, buffer, prethru, output, peers>>

\* The call from the main loop is over.
Over ==
    /\ job' = Idle
    /\ stack' = <<>>
    /\ errno' = "none"
    /\ passed' = [t \in SID |-> <<>>]
    /\ copied' = [t \in SID |-> <<>>]

-----------------------------------------------------------------------------
(* stream_vio_s_read() and stream_vio_s_write() *)

Call(fn, s, data) == [fn |-> fn, id |-> s, data |-> data, i |-> 0, at |-> "look"]

Top == stack[Len(stack)]

\* Stream i gets a copy of what is read from or written to s.
Copies(i, s) ==
    /\ i \in Live
    /\ tab.streams[i].pos_rel_id = s
    /\ tab.streams[i].dir = "THRU"
    /\ tab.streams[i].ready

Push(frames, fn, s, data) ==
    /\ stack' = Append(frames, Call(fn, s, data))
    /\ passed' = [passed EXCEPT ![s] = @ \o data]
    /\ errno' = "none"

\* The next THRU stream of the stream of f that the loop meets.
NextCopy(f, i) ==
    /\ Copies(i, f.id) /\ f.i <= i
    /\ \A k \in f.i .. i - 1 : ~ Copies(k, f.id)

\* stream_prethru_send() is called for a new THRU stream that asks for it.
WantsHeader(f, i) ==
    /\ f.fn = "write" /\ f.at = "look"
    /\ i \notin old /\ i \in setup.prethru
    /\ prethru[f.id] # <<>>

CopyTo ==
    /\ stack # <<>> /\ ~ crash /\ Top.id \in Live
    /\ \E i \in SID :
        /\ NextCopy(Top, i)
        /\ LET kind == IF WantsHeader(Top, i) THEN "header" ELSE "data"
               f    == [Top EXCEPT !.i = i, !.at = kind]
           IN  Push([stack EXCEPT ![Len(stack)] = f], "write", i,
                    IF kind = "header" THEN Content(prethru[Top.id]) ELSE Top.data)
    /\ UNCHANGED <<tables, audio, peers, stage, todo, job, copied, crash>>

\* What the loop does when the write to THRU stream f.i returned.
Copied(f, ok) ==
    IF ok /\ f.at = "header" THEN [f EXCEPT !.at = "again"]
    ELSE [f EXCEPT !.at = "look", !.i = @ + 1]

\* Ways in which write() ends: what of a client that is gone, and of nothing
\* to write, is known.
Outcome(s, data) ==
    IF s \in closed THEN {"full", "error"}
    ELSE IF data = <<>> THEN {"full"}
    ELSE {"full", "short", "again"}

Errno(outcome) ==
    CASE outcome = "again" -> "again"
      [] outcome = "error" -> "other"
      [] OTHER -> errno

\* Mutant of WriteEnds: a stream that did not take all of it stays.
WriteEnds_Stays(f, outcome) ==
    LET caller == stack[Len(stack) - 1] IN
    /\ stack' = Append(SubSeq(stack, 1, Len(stack) - 2), Copied(caller, outcome = "full"))
    /\ copied' = IF outcome = "full" THEN [copied EXCEPT ![f.id] = @ \o f.data] ELSE copied
    /\ NothingGone
    /\ old' = IF caller.at = "header" THEN old ELSE old \cup {caller.i}
    /\ errno' = Errno(outcome)

\* Mutant of WriteEnds: the stream that is copied is deleted, not the copy.
WriteEnds_WrongStream(f, outcome) ==
    LET caller == stack[Len(stack) - 1] IN
    /\ stack' = Append(SubSeq(stack, 1, Len(stack) - 2), Copied(caller, outcome = "full"))
    /\ copied' = IF outcome = "full" THEN [copied EXCEPT ![f.id] = @ \o f.data] ELSE copied
    /\ IF outcome = "full" THEN NothingGone ELSE Gone(streams_delete(tab, caller.id))
    /\ old' = IF caller.at = "header" THEN old ELSE old \cup {caller.i}
    /\ errno' = Errno(outcome)

\* The write to the THRU stream at the top of the stack ends; a stream that
\* did not take all of it is deleted.
WriteEnds(f, outcome) ==
    LET caller == stack[Len(stack) - 1]
        i      == caller.i
    IN  /\ stack' = Append(SubSeq(stack, 1, Len(stack) - 2), Copied(caller, outcome = "full"))
        /\ IF outcome = "full"
           THEN /\ copied' = [copied EXCEPT ![f.id] = @ \o f.data]
                /\ NothingGone
                /\ old' = IF caller.at = "header" THEN old ELSE old \cup {i}
                /\ errno' = errno
           ELSE /\ Gone(streams_delete(tab, i))
                /\ old' = old
                /\ errno' \in {Errno(outcome), "other"}
                /\ copied' = copied

\* All copies are made, and the stream itself is written to.
NoMoreCopies(f) == \A i \in SID : ~ NextCopy(f, i)

WriteCopy ==
    /\ Len(stack) > 1 /\ ~ crash
    /\ Top.id \in Live /\ NoMoreCopies(Top)
    /\ \E outcome \in Outcome(Top.id, Top.data) : WriteEnds(Top, outcome)
    /\ UNCHANGED <<setup, opened, stage, todo, job, passed, crash>>

-----------------------------------------------------------------------------
(* The callers *)

\* One call of stream_vio_s_read() by streams_check() or raw_check_stream():
\* nothing there is the error EAGAIN, nothing and the end of it is no data.
ReadData ==
    LET s    == job.id
        left == PERIOD - Len(job.got)
        n    == IF Len(sent[s]) < left THEN Len(sent[s]) ELSE left
        data == SubSeq(sent[s], 1, n)
        more == job.kind = "check" /\ n \in 1 .. left - 1
    IN  /\ job.at = "read" /\ stack = <<>> /\ ~ crash /\ s \in Live
        /\ IF n = 0 /\ s \notin closed
           THEN /\ job' = [job EXCEPT !.at = "end"]
                /\ errno' = "again"
                /\ UNCHANGED <<stack, passed, sent>>
           ELSE /\ job' = [job EXCEPT !.at = IF more THEN "read" ELSE "end",
                                     !.got = @ \o data]
                /\ Push(<<>>, "read", s, data)
                /\ sent' = [sent EXCEPT ![s] = SubSeq(@, n + 1, Len(@))]
        /\ UNCHANGED <<tables, audio, paused, number, closed, lagged, stage, todo, copied, crash>>

\* The loop, or the write behind it, looks at a stream that was freed.
UsesFreed(f) ==
    /\ f.id \notin Live
    /\ f.fn = "write" \/ \E i \in Live : f.i <= i

ReadReturns ==
    /\ Len(stack) = 1 /\ ~ crash
    /\ Top.fn = "read" /\ NoMoreCopies(Top) /\ ~ UsesFreed(Top)
    /\ stack' = <<>>
    /\ UNCHANGED <<tables, audio, peers, stage, todo, job, errno, passed, copied, crash>>

\* The buffer of streams_check(): memory for a period, of which got is used.
Got(got) ==
    roar_buffer_set_len(
        roar_buffer_new([k \in 1 .. PERIOD |-> IF k <= Len(got) THEN got[k] ELSE Unset]),
        Len(got))

\* Mutant of CheckEnds: the end of the data is not the end of the stream.
CheckEnds_Stays ==
    /\ job.kind = "check" /\ job.at = "end" /\ stack = <<>> /\ ~ crash
    /\ IF job.got = <<>>
       THEN NothingGone
       ELSE /\ job.id \in Live
            /\ stream_add_buffer(job.id, Got(job.got))
            /\ UNCHANGED <<tab, prethru, output, peers>>
    /\ Over
    /\ UNCHANGED <<setup, old, opened, stage, todo, crash>>

\* The rest of streams_check(): without data, anything but EAGAIN is the end.
CheckEnds ==
    /\ job.kind = "check" /\ job.at = "end" /\ stack = <<>> /\ ~ crash
    /\ IF job.got # <<>>
       THEN /\ job.id \in Live
            /\ stream_add_buffer(job.id, Got(job.got))
            /\ UNCHANGED <<tab, prethru, output, peers>>
       ELSE IF errno = "again" THEN NothingGone ELSE Gone(streams_delete(tab, job.id))
    /\ Over
    /\ UNCHANGED <<setup, old, opened, stage, todo, crash>>

\* The rest of raw_check_stream(): the data goes to the stream it is for.
RawEnds ==
    /\ job.kind = "raw" /\ job.at = "end" /\ stack = <<>> /\ ~ crash
    /\ IF job.got = <<>>
       THEN Gone(streams_delete(tab, job.id)) /\ Over
       ELSE /\ job.id \in Live
            /\ Push(<<>>, "write", tab.streams[job.id].pos_rel_id, job.got)
            /\ job' = [job EXCEPT !.at = "write"]
            /\ NothingGone /\ copied' = copied
    /\ UNCHANGED <<setup, old, opened, stage, todo, crash>>

\* streams_send_mon() or its codecfilter calls stream_vio_s_write().
MonWrites ==
    /\ job.kind = "mon" /\ stack = <<>> /\ ~ crash
    /\ Push(<<>>, "write", job.id, IF job.at = "header" THEN Header ELSE Mixed)
    /\ UNCHANGED <<tables, audio, peers, stage, todo, job, copied, crash>>

\* What streams_send_mon() makes of a write: it goes on with at, or is done.
MonReacts(outcome, e) ==
    IF outcome = "full" THEN IF job.at = "header" THEN "headed" ELSE "good"
    ELSE IF outcome = "short" /\ e = "none" /\ job.at = "first" THEN "good"
    ELSE IF e = "again" THEN IF job.at = "retry" THEN "skipped" ELSE "retry"
    ELSE "delete"

MonWritten(outcome) ==
    LET next == MonReacts(outcome, Errno(outcome)) IN
    /\ job.kind = "mon"
    /\ IF next \in {"headed", "retry"}
       THEN /\ job' = [job EXCEPT !.at = next]
            /\ stack' = <<>>
            /\ UNCHANGED <<errno, passed, copied>>
       ELSE Over
    /\ opened' = IF next = "headed" THEN opened \cup {job.id} ELSE opened
    /\ old' = IF next = "good" THEN old \cup {job.id} ELSE old
    /\ IF next = "delete" THEN Gone(streams_delete(tab, job.id)) ELSE NothingGone

RawWritten(outcome) ==
    /\ job.kind = "raw"
    /\ outcome # "full" => job.id \in Live
    /\ Over
    /\ IF outcome = "full"
       THEN NothingGone
       ELSE Gone(streams_delete(tab, tab.streams[job.id].pos_rel_id))
    /\ UNCHANGED <<old, opened>>

\* The write to the caller's own stream, behind all copies.
Written ==
    /\ Len(stack) = 1 /\ ~ crash
    /\ Top.fn = "write" /\ Top.id \in Live /\ NoMoreCopies(Top)
    /\ \E outcome \in Outcome(Top.id, Top.data) :
        MonWritten(outcome) \/ RawWritten(outcome)
    /\ UNCHANGED <<setup, stage, todo, crash>>

\* A function goes on with the pointer to a stream that was freed below it.
UseAfterFree ==
    /\ job # Idle /\ ~ crash
    /\ IF stack # <<>>
       THEN \/ UsesFreed(Top)
            \/ /\ Len(stack) = 1 /\ job.kind = "raw" /\ Top.fn = "write"
               /\ Top.id \in Live /\ NoMoreCopies(Top) /\ job.id \notin Live
       ELSE job.id \notin Live /\ (job.at = "read" \/ job.got # <<>>)
    /\ crash' = TRUE
    /\ UNCHANGED <<tables, audio, peers, stage, todo, job, stack, errno, passed, copied>>

Crashed == crash /\ UNCHANGED vars

Server ==
    \/ BeginTurn \/ Mix
    \/ \E s \in SID : Check(s) \/ SendMon(s)
    \/ ReadData \/ ReadReturns \/ CheckEnds \/ RawEnds
    \/ MonWrites \/ Written \/ CopyTo \/ WriteCopy \/ UseAfterFree

Next ==
    \/ Server
    \/ \E s \in SID : Send(s) \/ Close(s) \/ Connect(s) \/ Pause(s) \/ AddData(s)
    \/ Crashed

\* Weak fairness of the server, which always has a step to take until it
\* crashes: no call of the loop waits, since all handles are non-blocking.
Fairness == []<><<Server>>_vars \/ <>[]crash

Spec == Init /\ [][Next]_vars /\ Fairness

-----------------------------------------------------------------------------
(* Correctness *)

Q == INSTANCE Queue WITH Id <- SID, Unit <- Tag, Period <- PERIOD,
                         queue <- [s \in SID |-> Content(buffer[s])]

\* The chains of buffers, with their offsets and partly used buffers, are
\* queues: a read appends, the mixer takes a period from the front, and
\* nothing else changes them but the end of the stream.
RefinesQueue == Q!QSpec

\* When the call from the main loop is over, every THRU stream that is still
\* there has got all that was read from or written to its stream, in order,
\* behind the header it asked for: short reads, retried writes, copies of
\* copies and the deletion of other THRU streams on the way leave no gap.
ThruComplete ==
    [][job # Idle /\ job' = Idle =>
        \A t \in Live' :
            LET r == tab'.streams[t].pos_rel_id
                header == IF t \in setup.prethru \cap job.new /\ passed[r] # <<>>
                          THEN Content(prethru[r]) ELSE <<>>
            IN  tab'.streams[t].dir = "THRU" /\ tab'.streams[t].ready
                    => copied[t] = header \o passed[r]]_vars

\* The output buffer of a stream is not cleared between the turns.  What an
\* earlier turn left there is mixed again only when the stream has run dry.
OldDataOnlyWhenDry ==
    stage = "mon" =>
        \A s \in Inputs :
            (\E k \in 1 .. PERIOD : output[s][k] \in {"old", "unset"}) => buffer[s] = <<>>

\* streams_check() deletes a stream at the end of its data, buffers and all.
\* Nothing is lost by that: the turns before have mixed all that came, unless
\* the stream was paused with data in its buffers or got data by request.
DrainedAtEof ==
    [][job.kind = "check" /\ job' = Idle /\ job.id \in Live \ Live' =>
        job.id \in lagged \/ buffer[job.id] = <<>>]_vars

\* The streams that active calls hold pointers to.
InUse == ({job.id} \cup {stack[k].id : k \in DOMAIN stack}) \ {None}

\* A copy that fails deletes its THRU stream, never the stream that a caller
\* is reading or writing; that happens only to a client that let itself be
\* turned into a THRU stream by EXEC, whose end takes its other streams along,
\* and when the THRU stream was primary, whose end is that of the server.
CallersKeepStreams ==
    [][job' # Idle /\ ~ InUse' \cap Live \subseteq Live' =>
        \/ tab.alive /\ ~ tab'.alive
        \/ \E c \in LiveClients(tab) \ LiveClients(tab') :
            /\ tab.clients[c].execed # None
            /\ tab.streams[tab.clients[c].execed].dir = "THRU"]_vars

\* The client has closed its end of an input stream.
Ended(s) ==
    /\ s \in Live \cap closed
    /\ IsInput(tab, s) \/ tab.streams[s].dir = "RAW_IN"

\* A client that closes its end of an input stream is rid of the stream, as
\* long as nobody pauses it: errno, which THRU copies of the last read set,
\* never hides the end for ever.
EndedStreamGoes ==
    \A s \in SID : Ended(s) ~> (s \notin Live \/ s \in paused \/ crash)
=============================================================================
