# TLA+ model of roard, the RoarAudio sound server

roard mixes the audio of its clients and plays it. It is one process with one
thread: `main_loop()` accepts connections, reads requests, reads and mixes
streams and writes the result, over and over. What is hard about it is not
parallelism but the web of objects the requests weave: clients own streams,
streams refer to streams, events call back into clients, and the deletion of
any of them sets off the deletion of others while callers up the C stack still
use them. This directory models that web, the loop that finds out who has to be
served, the way of the audio data through the server, the notify lists behind
the WAIT command, the way the server comes to its end, and the client library
that talks to it.

Paths below are relative to the repository; `roard/streams.c` is
`src/roard/streams.c` in `PROJECT.json`, which maps every definition to lines.

## 1. Inventory

| Component | State | Operations | Talks to | Hard part | Correct when |
|---|---|---|---|---|---|
| Client table (`roard/clients.c`) | `g_clients[]`: handle, `execed`, slots for streams, `waits`, `blockc` | new, delete, close, EXEC, add/delete/move stream, wait | stream table (calls both ways), notify core | recursive deletion, full slots, half failed moves | slots and stream entries name each other; a client that became a stream ends with it |
| Polling (`clients_check_all()`) | handle sets, `streamless[]` | two passes, second look | client and stream table, requests | handle numbers and ids are given out again while the sets keep them | reads only what is ready, serves everybody |
| Stream table (`roard/streams.c`) | `g_streams[]`: direction, relation, owner, handle, codecfilter, flags, state; `streams_thru_num`, counters | new, delete, set_dir, set_fh, new_virtual, set/reset flag, check | client table, codecfilters, buffers | cascades of dependent streams, half made streams | nothing outlives what it depends on; counters are exact |
| Requests (`roard/req.c`, `roard/commands.c`) | none of its own | one handler per command | all others | checks that come after the effects | a refused request leaves nothing behind |
| Container codecfilters (`codecfilter_wave.c`, `codecfilter_au.c`) | opened flag, virtual stream | read (header), ctl | stream table | creates a stream from inside a read, deletes its own from inside a delete | container and virtual stream go together |
| Notify core (`libroar/notify.c`) and WAIT | hashed lists of subscribers | subscribe, unsubscribe, emit | WAIT callback | lists change under the cursor of emit | nobody is called back after its WAIT, nobody is skipped |
| Main loop and termination (`loop.c`, `signals.c`, `roard.c`) | `alive`, `g_terminate`, `g_listen[]`, local `term`, `have_listen` | stages of a turn, EXIT, SIGUSR1, SIGTERM | all others | values read at different times of a turn | terminates when and only when alone |
| Waveform mixer (`mixer.c`, `waveform.c`) | one immutable stream of the server's own client | update | stream table | must survive what clients do to streams | never lost before the server ends |
| Buffers (`libroar/buffer.c`) | linked buffers | new, add, offset, length, shift out | streams | partly used buffers | data comes out in order, once |
| Data path (`streams.c`, `raw.c`) | buffers, output buffer, prethru chain, NEW/OLD of each stream | check, mix, monitor, THRU copies, raw data | buffers, deletion | copies call and delete each other; `errno` | copies have no gaps, ended streams go after their data |
| Access control (`auth.c`, `commands.c`) | level of each client, keys | AUTH, test per command | requests | order of keys, failed AUTH | the library gets along with every keyring |
| Client library (`basic.c`, `proto.c`, `auth.c`, `stream.c`, `ctl.c`, `simple.c`, `vs.c`) | connection, stream id and handle, FLAG_STREAM | connect, identify, authenticate, three ways to get a stream, kick, attach, close | server (requests and answers), other clients | timeouts, fallback, ids of streams that are gone | in step with the server, leaves nothing behind |
| Metadata (`meta.c`) | slots per stream | set, clear, finalize | streams, LIST | full table | the written value is read |
| MIDI, synth, light, RDTCS, beeper | device state | update, check | streams, buffers | optional parts | not modelled |
| Drivers, hardware mixers, data codecs, foreign protocols, plugins | device or library state | I/O | streams | outside TLC's reach | not modelled |
| DSP library, compatibility libraries, tools | per process | requests, samples | server | runs elsewhere | not modelled |

What a test would hardly reach is listed, line by line, under `hazards` in
`PROJECT.json`, with the properties that would catch it or the reason why none
does yet.

## 2. Modules

| Module | Models |
|---|---|
| `Tables` | both tables and the functions of `clients.c` and `streams.c` on them, as operators from tables to tables |
| `Registry` | the server's life: one action per request, connection event and stream event (EXTENDS `Tables`) |
| `DeleteStack` | the same, with the recursion of `streams_delete()`/`clients_delete()` run call by call (EXTENDS `Registry`, refines it) |
| `Poll` | `clients_check_all()` pass by pass, with handles (EXTENDS `Tables`) |
| `Buffer` | the linked buffers of `libroar/buffer.c`, as operators |
| `DataPath` | reading, buffering, mixing, raw data, monitors and THRU copies (EXTENDS `Tables`, `Buffer`; refines `Queue`) |
| `Queue` | abstract specification: what the buffers of the streams promise |
| `Session` | the client library against the server's tables (EXTENDS `Tables`) |
| `Notify` | lists of subscribers, `roar_notify_core_emit()`, WAIT |
| `MainLoop` | stages of `main_loop()`, EXIT, signals, termination |
| `Tables_proofs` | lemmas on the functions of `Tables` |
| `Registry_proofs`, `DeleteStack_proofs`, `Poll_proofs`, `DataPath_proofs`, `Session_proofs`, `Notify_proofs`, `MainLoop_proofs` | theorems about these modules |
| `MCRegistry`, `MCDeleteStack`, `MCPoll`, `MCDataPath`, `MCSession`, `MCNotify`, `MCMainLoop` | constants for TLC |

Operators named `X_Something` and introduced as "Mutant of X" are wrong
versions of `X`. They are used by nothing; putting one in the place of `X`
makes the property that `PROJECT.json` names for it fail, which shows that the
property can tell.

### Tables and Registry

`g_streams` and `g_clients` are functions from ids to records or `NULL`. A
record keeps the fields that creation, linking and deletion look at: for a
stream `dir`, `pos_rel_id`, `client`, whether it has a handle (`fh`), `ready`,
the kind of its codecfilter, `virtual`, `immutable`, `primary`; for a client
`fh`, `execed` and the slots. Directions that these functions do not
tell apart are one value, `PLAY`. The state `CLOSING` exists only inside a
deletion and appears in `DeleteStack`.

Every C function is an operator of the same name: `client_stream_add(t, c, s)`
is the table after the call. `Become(t)` makes it the next state.

One call does not return. `streams_set_dir()` asks for the subsystem of the
stream, and `streams_get_subsys()` asks a THRU stream for that of the stream it
copies. A NEW_STREAM for a THRU stream that names the id it is about to get has
loaded that relation by then (`Loaded`), the recursion has no end (`Endless`), and
the checks that would refuse the request come later. The server is then `stuck`:
the tables are those of the moment (`Store`), and nothing happens any more. All
properties are about that state too. The recursive
deletion is stated without recursion: `Doomed(t, R)` is the least set of streams
that contains `R` and is closed under `Triggers`, the union of the three ways in
which the deletion of one stream deletes another (dependants, the container of a
virtual stream, the streams of the client that became the stream). The end of a
primary stream is `clean_quit()`, `Quit`.

| Action | Code |
|---|---|
| `Accept` | `net_check_listen()`, `net_get_new_client()`; PASSFH of a connection |
| `Disconnect` | the errors of `clients_check()` and `clients_check_all()` |
| `Req_new_stream` | `req_on_new_stream()`: creates, links, loads, sets the direction (`Loaded`), where it may never return, then checks (`NewAccepted`) and undoes (`Refuse`) |
| `Req_exec_stream`, `Req_con_stream` | `req_on_exec_stream()`, `req_on_con_stream()` and PASSFH of a stream, with the outcomes of `streams_set_fh()` |
| `Req_attach`, `Req_kick`, `Req_quit`, `Req_exit` | the handlers of the same name |
| `Req_set_flag`, `Req_reset_flag` | SET_STREAM_PARA through `streams_set_flag()` and `streams_reset_flag()` |
| `StreamFails` | `streams_check()` and the writing side: the stream is deleted |
| `WaveHeader` | `cf_wave_read()` meets its header: `streams_new_virtual()`, then a codec that may be unknown, `streams_set_fh()`, every way to fail |

Properties:

* `CountersExact`: the counters of `counters.h` and `streams_thru_num` equal
  what is in the tables.
* `RelationsLive`: THRU, RAW_IN and virtual streams never outlive the stream
  they are relative to; a FILTER stream forgets it; RAW_IN hangs on RAW_OUT.
  Every refused NEW_STREAM has undone what it did by then.
* `OwnershipAgrees`: slots and `client` fields name each other, exactly once.
* `ExecedIsListed`: a client that became a stream lists that stream.
* `ImmutableOutlivesServer`: whatever is kicked, moved, flagged or deleted, an
  immutable stream goes only with the server.
* `StaysAttached`: a stream that some client lists stays with some client.
* `CopiesEnd` (proved only): no chain of copies runs in a circle while the server
  runs, and it is stuck only with a THRU stream that was asked to be its own copy.

ATTACH is what these two ownership properties do not survive (see section 5),
so `OwnershipAgrees` and `StaysAttached` are checked without it, and the run
`attach` checks what holds with it.

### DeleteStack

`mem` are the tables as the C code changes them, `stack` the active calls with
their program counters, loop indices and saved values, `closing` the streams in
state `CLOSING`. The variables of `Registry` keep the tables of the moment when
the stack was last empty, and change when it becomes empty again: that is the
refinement mapping, and `RefinesRegistry` is the specification of `Registry`
itself. Besides, `NoUseAfterFree` says that no active call works on an entry
that is gone or that another active call is deleting too, and `DeletionReturns`
that the recursion ends. Requests that delete nothing are single steps as in
`Registry`. `clean_quit()` ends the process, and is one step.

### Notify

A list node is `linked`, `freed`, or `leaked`: `roar_notify_core_unsubscribe()`
frees every node but the first of its list. `walk` is the running
`roar_notify_core_emit()`; its callback `clients_ncb_wait()` cancels all
subscriptions of the client, the one under the cursor included, and emit then
reads `cur->next` from a node that is no longer in the list. The model keeps
what that memory holds: `free()` of the C library the code is built with
overwrites the first words of a node, which hold `event`, `emitter` and
`target`, and leaves `next`, `cb` and `userdata`, so that the test of a freed
node may go either way (`Outcomes`) and the walk goes on. Nothing is allocated
between `free()` and the read: the callback only sends a message.

`roar_notify_core_emit()` first calls the proxy of the core, which the server
sets to `roar_notify_proxy_std()`. That emits the group events of the event by
nested calls, ANY_EVENT first (all `ROAR_EGRP_ANY_*_EVENT` have the same value),
and these call no proxy. Only then does emit read the head of the event's own
list. So one emit is a sequence of walks (`Emits`), over the lists of the groups
(constant `proxy`) and at last over the event's own; `walk.at` counts them,
`ProxyEmitted` goes on to the next, and a callback of an earlier walk may cancel
subscriptions that a later one would have found. Requests and other events come
only when the outermost emit is done.

`SubscribersWait`: the lists hold the subscriptions of clients that wait, and
nothing else. `BlockedWhileWaiting`: `blockc` is one while a client waits and
zero otherwise. `NobodyOversleeps`: when emit is done nobody still waits for the
event it emitted or for one of its groups. `AnswersMatch`: a WAIT ends by an event
it asked for, by that event or by a group, and by the group when it asked for both.
`CrashNeedsOverlap`: the callback runs for a client that is gone or answered
only when one WAIT has two events in the same list. Then the second node may be
freed by the callback of the first and be tested afterwards, and the callback
follows the NULL of `cs->waits`; the model goes on up to that crash. A WAIT
whose events are in different lists is safe whatever the others do.

### Poll

Every client and stream has a handle, a number that the system gives out again,
lowest first, once it is closed. `r` is the set of handles that `select()` left,
`streamless` the table of clients without streams, `at` the position of a pass,
`listen` the handles in `g_listen[]`. A handle is `quiet`, `ready`, `gone`, or
one that listens. Data and the end of a peer may come at
any time; since nobody can tell before the server asks, they come before a
`select()`, or while the server waits in a read.

| Action | Code |
|---|---|
| `Accept` | `net_check_listen()` and `net_get_new_client()`, also for protocols it does not know |
| `Select` | the first pass with the checks of sources that can not be selected on, and `select()` |
| `ServeClient`, `ServeStream` | the second pass: `clients_check()` with the requests that open, close or hand over handles, `streams_check()` |
| `Req_passfh`, `Req_listen`, `Req_exit` (in `clients_check`) | PASSFH of a client, with the error paths that leave the handle open; PASSFH of a listen socket for any protocol; EXIT that closes the listen sockets |
| `ServedAll`, `SelectAgain`, `ServeAgain`, `ServedAgain` | the second look at clients without streams |

* `HandlesOwned`: an open handle has one owner that will close it, or a client
  and the stream it became; only a handle that came with a malformed PASSFH, or
  one for a client that was refused (protocol, byte order, full table), is owned
  by nobody (`leaked`; `req.c:401`, `408`, `416` and `429` do not close it).
* `ReadsOnlyReady`: `clients_check()` is never called for a client that became a
  stream, nor for a quiet handle, unless that handle was opened in the same
  turn. Handles of clients block, so such a read would stop the server.
* `EveryoneServed`: whoever sends something is read, although `streamless[]` is
  limited and `select()` may fail, unless the server waits in a read for ever, or
  the first `select()` fails for ever (`Deaf`).

The first two hold until a connection of an unknown protocol comes (`kept`).
PASSFH of a listen socket does not look at the protocol, and `net_get_new_client()`
closes a connection of one it does not know (`network.c:186`), but the client
stays, with the number of the closed handle: it is one of the `ghosts`. `select()`
then fails with EBADF and nobody is served, until another handle gets the number;
from then on it has two owners. `EveryoneServed` and `PTypeOK` are about servers
with ghosts too.

The exceptions are what the code does: KICK closes a handle, PASSFH in the same
turn opens the same number for another client, and the set still says that it
can be read. `fresh` names those handles. Also, `streamless[]` may name a handle
that is closed by then; the second `select()` fails with EBADF and the rest of
the turn is skipped, which costs the others one turn. Out-of-band data (the set
`e`) is left out. So is a socket that can not be set non-blocking
(`PollAssumption`): `req_on_con_stream()` would then close a handle that the
stream keeps (`req.c:342`).

### Buffer, DataPath and Queue

`Buffer` has the linked buffers as sequences of records with memory, offset and
length. `DataPath` runs the turn of the main loop on them: the streams that have
data are checked (`Check`, `ReadData`, `CheckEnds`; `RawEnds` for RAW_IN), the
mixer takes a period of each input (`Mix`), monitors get the result (`SendMon`).
Every read and write goes through `stream_vio_s_read()` or
`stream_vio_s_write()`, which copy it to the THRU streams first, whose writes do
the same for theirs: `stack` holds the active calls, `CopyTo` makes one,
`WriteCopy` ends one, and a write that is short or fails deletes the THRU stream
with all that `Tables!Delete` takes along. `read()` and `write()` have every
outcome that a non-blocking handle has. The volume and format of a stream are
those of the server: a unit leaves the buffers as it came, and the properties
are about where it goes.

* `RefinesQueue`: with `queue[s]` mapped to the content of the chain of `s`, the
  module implements `Queue`: reads append, the mixer takes from the front, and
  only the end of a stream drops anything.
* `ThruComplete`: when the call from the main loop is over, every THRU stream
  that is still there has got all data of its stream in order, behind the
  header it asked for by PRETHRU.
* `DrainedAtEof`: the end of the data deletes the stream with its buffers, and
  they are empty by then, unless the stream was paused with data in them or got
  data by ADD_DATA.
* `EndedStreamGoes`: a client that closes its end gets rid of the stream. The
  test for the end is `errno != EAGAIN`, after THRU copies may have set it.
* `OldDataOnlyWhenDry`: the output buffer is not cleared between the turns; what
  an earlier turn left there is mixed again only when the stream has run dry.
* `CallersKeepStreams`: the deletion of a THRU stream never frees a stream that
  a caller holds a pointer to, but when the client of that stream has itself
  become a THRU stream of it by EXEC, and when the THRU stream was primary, which
  ends the server. `UseAfterFree` is what the code would then do; the behaviour
  ends there.

What the model shows besides, without anything in the repository that says
otherwise: a monitor whose write meets EAGAIN retries the whole block, which its
THRU streams then get twice; a THRU stream with PRETHRU that is there before the
header is written gets the header twice, since the header is added to the
prethru chain before it is written; data of ADD_DATA and of a paused stream is
lost at its end.

### Session

`lib` is the library inside one call of a program that uses `vs.c`: `at` is the
answer it waits for, or one of `Idle`. `net` has the two connections that may
exist with requests and answers under way. The server has the tables of
`Tables`, the access level of each client, and for each stream whose end its
handle leads to. Client 0 stands for all others, who create streams and kick
streams and clients, those of the program included.

| Action | Code |
|---|---|
| `roar_vs_new`, `roar_vs_stream`, `roar_vs_close` | the calls of the program |
| `Answered` | the library goes on with an answer: one operator for each function that waits for one |
| `Accepted`, `TimedOut` | the `select()` of `roar_simple_new_stream_obj()` |
| `Serve` | `clients_check()`, `command_exec()` with its levels, and the handlers |
| `Accept`, `StreamEnds`, `Others` | connections, ends of streams, other clients |

Streams are connected in the three ways the library has: a socket pair (UNIX),
a connection back from the server (INET), which after ten seconds is given up
for the third, and a second connection that becomes the stream by EXEC and is
then ATTACHed (EXECED, also on request of the configuration).

* `InStep`: between two calls nothing is under way. The call that times out
  reads the late answer on every path.
* `NoOrphans`: an object without a stream has left no stream at the server but
  those that the server will delete by itself, also when others took away
  clients or streams of the session meanwhile. It says nothing of clients: one
  whose connection an EXEC of a ready stream closed stays in the table.
* `StreamIsOurs`: an object with FLAG_STREAM has a stream of its own client,
  connected to the handle it writes to.
* `HurtsNobody`: as long as its own stream is there no request hits a stream of
  somebody else.
* `CallsReturn`: every call returns.

`lost` says that others took away a stream or the connection, or that the
stream did not take the handle of CON_STREAM. That last case is answered with OK
(`req.c:344` returns 1): the library returns a handle at its end, and a later
`roar_vs_close()` kicks an id that may have been given away. `HurtsNobody` also
leaves out the KICK after a failure, which may come when the server has already
deleted the stream and reused its id. Other things the model shows: a second
connection that fails to authenticate is not closed (`simple.c:74`), and
`roar_vs_close()` without `killit` still ends the connection, which deletes the
stream, whatever is left in its buffers. The level USER is excluded
(`SessionAssumption`): it may create streams and not connect them.

### MainLoop

`pc` is the stage of the turn: `listen` (reads `g_listen[]`), `accept`, `check`
(counts connections), `serve` (requests, disconnects, ends of streams; any
number of them), `mix`, `tail`, and `left` and `exited` behind the loop.
Signals may arrive in every stage. Streams are input streams; `silent` is PAUSE
or MUTE. A client is `closed` when EXEC of a ready stream has closed its
connection. Requests of clients that became streams are not told apart from
those of others, so the model has more behaviours than the code there.

`ReqListen` is the PASSFH that puts a listen socket into a free `g_listen[]`, also
of a server that terminates.

`TermMeansAlone`: when `term` is set, no client is connected and none can
connect, although `have_listen`, the count of connections and `g_terminate` are
read at three different times and a socket may be opened in between. `DrainedServerExits` and `DeadServerExits` are
the liveness side.

Fairness: `WF(LoopStep)`, the next stage is eventually taken. Every `select()` of
the loop has a timeout, handles are non-blocking, and serving requests ends with
`clients_check_all()`. Nothing is assumed of clients, streams or signals. In
`DeleteStack`, `WF(DStep)`: the innermost call goes on, since nothing else uses
the thread. In `Poll` and `DataPath` the server takes a step again and again
unless it waits in a read, or has crashed. In `Poll` it may also have nothing to
do because `select()` reports nothing or fails (`Idle`): the fairness is
`[]<><<Server>>_vars \/ []<>(Stalled \/ Idle)`, which is weak fairness of `Server`
written without ENABLED, and a server whose `select()` fails for ever is among its
behaviours. `Session` assumes `WF(Library)` and that every connection and
request is come to. That is what `EveryoneServed` of `Poll` shows of a server that
neither waits in a read for ever nor is `Deaf`, so `CallsReturn` is about such
servers; nothing is assumed of the program or of other clients.

## 3. Runs

| Run | Instance | Distinct states | Shows |
|---|---|---|---|
| `life` | 3 clients, 3 streams, 2 slots; all kinds of streams and flags | 178 288 | all table properties without ATTACH |
| `cascade` | 2 clients, 4 streams, 3 slots; PLAY, THRU, FILTER, containers | 140 518 | ownership after the deletion of chains and fans, from every point |
| `attach` | 2 clients, 3 streams, 2 slots; ATTACH to every client | 175 059 | relations with ATTACH |
| `move` | 3 clients, 3 streams, 2 slots | violation | finding 1 |
| `stack` | 3 clients, 3 streams, 2 slots; PLAY, THRU, containers | 226 052 | recursion is safe, ends, and does what `Registry` says |
| `wait` | 3 clients, 4 nodes, events and groups in 2 lists, WAITs with two events of one list too | 480 880 | all notify properties |
| `audio` | 3 streams in 5 servers: input, copy of a copy, two copies, raw, monitor with header; period 2 | 265 606 | buffers are queues, copies are complete, ends are noticed |
| `poll` | 3 clients, 2 streams, 5 handles, 2 listen sockets, `streamless[]` of 2, 3 changes | 117 386 | only ready requests are read, and all are |
| `session` | 3 clients, 2 streams, 1 slot, four keyrings, all three ways | 65 852 | the library stays in step and leaves nothing behind |
| `loop` | 2 connections, 2 streams, three command lines | 72 508 | termination, safety and liveness |
| `drain`, `terminate` | the same | violation | findings 2 and 3 |

Bounds. Three streams are the mixer, a parent and a dependant; four add a second
dependant or a chain of three, the smallest in which a cascade passes through a
stream in the middle. Two slots are the least that can be full while a stream of
the client exists, so that every "no free slot" path is taken; three clients give
the server's own, the one that asks and the one that is asked about. Id 0 is the
mixer in all runs, as in the server without sources. The relation of new streams
is any id but 0, used or not, its own included. Three clients and four nodes are
the least for a walk that has passed one waiting client, stands on a second and
has a third ahead. The sizes of the real tables (64 clients, 64 streams, 12
slots) are covered by the theorems, which hold for any. `cascade` and `attach`
check only what is not proved, or would not be met otherwise: counters,
relations and the mixer are theorems of section 4.

In `audio` a period of two units is the least that a buffer can end in the
middle of; three units in flight are a full read and a short one. Units are
numbered modulo two, so that a unit lost, doubled or swapped changes what a
queue holds. In `poll` the bound on changes limits requests that change the
tables, not requests; with three, a client can be kicked, another take its id
and handle, and a stream be connected in one turn; five handles are one or two
listen sockets, two clients and one or two that are free. One server starts with a
listen socket for an unknown protocol, so that three changes are left for what
follows from it. `streamless[]` of two is smaller than the number of clients. In
`session` two streams and one slot let the program and the others fill both, and
three clients are just enough for both connections of the program, so that one
left over from an attempt that failed makes the next meet a full table. The
keyrings are those of a server that trusts the user, one open to all, one that
lets guests only look, and one that lets nobody in.

Deadlock is not checked in the runs of `Registry` and `DeleteStack`: EXEC of a
ready stream leaves a client without a connection in its entry, and with the
table full of those the server does have nothing left to do.

## 4. Proofs

Every theorem holds for all sizes of the tables and all values of the other
constants that satisfy the named assumptions. `Tables_proofs` has the lemmas on
the functions of `clients.c` and `streams.c` that the others rest on: what each
leaves of well formed tables, what a deletion takes and what it does not touch.

### Registry

* `TypeCorrect` (`TypeOK`), `CountersCorrect` (`CountersExact`),
  `RelationsCorrect` (`RelationsLive`), `ImmutableCorrect`
  (`ImmutableOutlivesServer`), all from `Invariance`;
* without ATTACH (`AttachTargets = {}`): `OwnershipCorrect` (`OwnershipAgrees`),
  `ExecedCorrect` (`ExecedIsListed`), `AttachedCorrect` (`StaysAttached`), from
  `OwnersInvariance`. With ATTACH the first and the last are false (finding 1);
* `CopiesCorrect` (`CopiesEnd`): while the server runs every THRU stream has its
  stream, only THRU streams depend on it, and no chain of THRU streams runs in a
  circle (`ThruLinked`). Relations are set once, to a stream that is there, and
  only deletion changes them: what a step leaves is `Thins` of what was there but
  for at most one new stream, and that one is `Placed` above others, never below
  (`GrowLinked`). The step that gets `stuck` is the exception, and the new stream
  is its own copy then: nothing else is relative to an id that is free, so a
  circle through the new stream has no other stream in it (`EndlessSelf`).

Assumptions: `TablesAssumption` (sizes are natural numbers, `NULL` is no record)
and `RegistryAssumption` (the tables are not empty, requests are well formed,
there is some codecfilter).

The invariant is `Good(Now, {})`. `Good(t, X)` says of the tables `t`: they are
well typed; the counters are exact; the relations of all streams but those of
`X` lead to live streams; an immutable stream is primary; and a container is no
THRU, RAW_IN or RAW_OUT stream. The last two are what the others need: without
the first, the deletion of an immutable stream would not be the end of the
server; without the second, a virtual stream could inherit a direction whose
relation nothing keeps alive. `X` is there because `req_on_new_stream()` links a
stream before it looks at its relation: in the middle of the call the relation of
that one stream may be anything. The call that never returns stops in that middle;
its stream names itself, which is there, so that `Good(Now, {})` is true of the
server that is stuck as well. `Keeps(t, u)` says that a call loses no
immutable stream unless the server ended.

The argument goes function by function. `DoomedClosed` shows that the set of
streams that go is closed under `Triggers`; `RemoveRelated` and `RemoveCounted`
that taking a closed set out leaves the other relations alone and counts it off;
`DeleteGood` joins them; one lemma for each operator (`PutGood`, `NewStreamGood`,
`SetDirGood`, `AddGood`, `MoveGood`, `SetFhGood`, `CreateGood`, `NewVirtualGood`,
`OpenWaveGood`, ...) carries `Good` and `Keeps` through the calls of a request;
`NextSound` goes through the actions.

For ownership the same way is gone once more with `Tidy(t, X)`: slots name live
streams of their client, each once, every stream but those of `X` is in a slot
of its client, and `execed` is in a slot. `X` is the stream that has been made
and not yet been listed. The removal of a set of streams keeps `Tidy` only
because it is closed: a client that goes takes all streams of its slots along.

### DeleteStack

* `NoUseCorrect` (`NoUseAfterFree`), `DTypesCorrect` (`DTypeOK`) and
  `RegistryRefined` (`RefinesRegistry`), from `DeletionInvariance`.

The recursion of `streams_delete()` and `clients_delete()` is a depth first
search over `Triggers`. `DInv` says that with an empty stack the tables in memory
are those of `Registry`, and that otherwise the stack belongs to some request or
event that may start a deletion (`Origin`), on tables `t`, and that the active
calls, indexed by the entry they work on (`S`, `Q`), have made this `Progress`:

* `Needed`: all that was reached, by a call that is done, active or just made, is
  in the least closed set of the roots;
* `Covered`: what a call has left behind it was reached. A stream past the loop
  over its dependants has called for each of them, one past `virtual` for its
  container, one past `client` for the client that became it, a client for the
  slots before its index. When no call is left this says that the streams that
  are gone are closed, hence, with `Needed`, that they are the least closed set
  (`AllGone`);
* `StreamsSame`, `ClientsSame`, `CountedOff`: how memory differs from `t`, entry
  by entry. A stream that no call works on differs at most in a relation that a
  deleted stream took from it; one that is un-grouped has its relation and its
  client in its frame; a client lacks the slots of the streams past `client`; the
  counters are off by the calls that have begun, not by those that are done.

These make the tests of the code, which look at memory half way through,
equivalent to `Triggers` on `t`: a call that finds the relation of a stream
erased, or a slot empty, finds it so because somebody else has been there
(`RelationSame`, `NextErased`, `LostSlots`). One lemma for each place in the two
functions (`StreamBegins`, `ChildCalled`, `ChildPassed`, `ChildrenDone`,
`VirtualTold`, `Regrouped`, `StreamUnlisted`, `StreamFreed`, `ClientBegins`,
`SlotTried`, `SlotsDone`, `ClientFreed`) carries `Progress` on; `Finished` shows
that at the end memory is what `Tables!Delete` computes, and `OriginStep` that
this is the step of `Registry` that the request stands for. The proof needs no
induction over the depth of the recursion, since `S` and `Q` hold all active
calls at once.

### Poll

* `HandlesCorrect` (`HandlesOwned`), `ReadsCorrect` (`ReadsOnlyReady`) and
  `PTypesCorrect` (`PTypeOK`), from `PollInvariance`.

`PollInv` has the types, which hold always, and `Strict`, which holds until a
connection of an unknown protocol is closed and kept (`kept`). `Strict` has a part
about the objects and one about the turn. `Owned` says of
the tables and handles: owners agree (`Tidy`), a handle is open when and only
when a client, a stream or nobody who knows holds it, and the handles of two
objects differ but for a client and the stream it became (`Apart`). A stream
that is not connected has no handle (`Unready`), which is why EXEC and
CON_STREAM never overwrite one. The part about the turn is what the sets and
`streamless[]` may be relied on for: entries are of different clients, each of
which has the handle of its entry or one that came in this turn (`EntriesKept`);
a client whose position the second pass has not reached, whose handle is in `r`
and who is no stream, can be read from (`AllLeft`); and the same for the entries
that the third pass has not reached (`AgainLeft`).

`ShrinkOwned` shows that deletions, whatever they take along, close exactly the
handles of nobody who stays: a client that became a stream and that stream go
together (`ShrunkTogether`), so the handle they share is closed once. One lemma
for each way a handle changes hands (`GivenOwned`, `TakenOwned`, `SharedOwned`,
`ClosedOwned`, `LeakedOwned`) carries `Owned` through the requests. EXEC with a
codecfilter that does not open is seen as an EXEC that succeeded and a deletion.
What a request for client `c` may do to the turn is `Mild(c)`: the others keep
their handles and what there was to read from them, or have a handle that came
in this turn. `CheckMild` and `StreamMild` show it of every request and every
check of a stream, and `ServeInv` that the turn needs no more. `RankExists`
(there is a client with n others below it) shows that `streamless[]` is filled
with different clients.

Assumption: `PollAssumption`. Of the servers to start from it asks what `Owned`
and `Unready` say (`Startable`); for the owners that is `OwnershipCorrect`.

### DataPath

* `DataTypesCorrect` (`DPTypeOK`), `DryCorrect` (`OldDataOnlyWhenDry`),
  `DrainedCorrect` (`DrainedAtEof`), `QueueRefined` (`RefinesQueue`), from
  `DataInvariance`.
* `CallersCorrect` (`CallersKeepStreams`), from `CallsNested`.
* `ThruCorrect` (`ThruComplete`), from `CopiesFed`.

`DPInv` is `Stored` (chains hold no empty buffer, and nothing is kept for a
stream that is gone), `Calling` (a call that waits for another waits at a
stream), `Turn` (what is read is an input, and only before it is mixed), `Queued`
and `OldDataOnlyWhenDry`. `Queued` is the heart: a stream that was neither paused
with data nor given data by request has data in its buffers only between its read
and the mixer, and not more than a period. From that follows that the end of
the data finds the buffers empty, and that a part of the output buffer which
was not written means that the chain was too short.

A chain of buffers is a sequence, and `Content` and `roar_buffer_shift_out()` go
along it. `RunExists` and `UpTo` (a set of numbers that holds 0 and the successor
of what it holds, from the well-foundedness of the order) stand for induction: a
loop of n rounds is a function on `0 .. n`, and the set of rounds after which the
claim holds is all of `0 .. n`. That is how `QueueRefined` gets that taking a
period from a chain with offsets and partly used buffers takes it from the
front of its content.

`Nested` follows the stack: each call but the first is a write to a THRU stream of
the stream of the call below, with the data that call hands on, unless that
stream is gone. The streams of the stack are then a `Way` along relations. Since no
chain of copies runs in a circle (`NoCircle`: every set of streams has one that is
no copy of another in it), they are all different (`WayOnce`), and when the last
one is there all are (`WayLive`). What goes with a failing copy are copies of it,
and copies of those (`DoomedAreCopies`), none of which is on the way to it
(`WaySpared`): that is `CallersKeepStreams`, and the two exceptions of the property
are the two places where the argument needs them.

`AllFed` is the account of the copies. For a THRU stream `t` of `r`: without a call
for `r` it has all that was passed on for `r` (`Served`); with one (there is one at
most) it has all of it if the loop is past `t`, all but the data of this call if
the loop has yet to reach it (`Pending`), and while the loop waits for `t`
(`Waits`), what it has with the header and the data that are still to come is
all. `Served` also says that the state OLD of a stream that was new when the job
began tells whether it got data, since that is what decides about the header
(`WantsHeader`). One lemma for each kind of step that `CallEffects` tells apart
carries it on; in a deletion the accounts of those who stay do not change.

Assumption: `DataPathAssumption`. Of the servers to start from it asks that the
tables are well formed, that RAW_IN streams have their stream, which
`RelationsCorrect` shows of all servers, that THRU streams have theirs without
circles, which `CopiesCorrect` shows, and that monitors are of a direction that
`PLAY` stands for and only they have headers.

### Session

* `InStepCorrect` (`InStep`) and `SessionTypesCorrect` (`STypeOK`), from
  `SessionInvariance`.
* `NoOrphansCorrect` (`NoOrphans`), `StreamIsOursCorrect` (`StreamIsOurs`) and
  `HurtsNobodyCorrect` (`HurtsNobody`), from `GuardInvariance`.

`SessionInv` says that the library, when it waits, waits at one connection
(`Placed` names it for each place), that on this connection there is one request
of the kind the library sent, or one answer that it can make use of (`Fits`), or
the connection has ended, and that the other connection is silent (`Talk`). The
call that times out keeps waiting for its answer and does so at the same
connection; that is why the answer does not stay behind. One lemma for each
function that goes on with an answer, and one for each request that the server
serves, shows that it leaves the dialogue in that form.

`Guard` adds what the tables have to do with the place of the library. The stream
that a call asks for has a `Stage`, which the place, the request under way and the
answer determine: `made` (the server has it, without a handle), `handed` (the
program's client lists it and its handle leads to the program), `execed` (the
second connection became it), in `doubt` (connecting it failed, or may have),
`closing`, or none. `Loose` streams are those without a handle or with one that
the program has open. `LooseKnown` says that there is at most one, the one the
library knows of, and what its stage says of its handle and client: that gives
`NoOrphans`, because a library without a stream is in no stage. `Kept` says that
it is there in the stages that count on it, as long as nothing was lost: that
gives `StreamIsOurs`. `HandlesKnown` ties handles to `ready` and says that
streams of others are listed by others, `SlotsIn` what the two clients of the
program may list, and `OwnersKnown` that slots and client fields of all tables
agree (`Owned`). For `Owned` there is an exception: after an ATTACH of an id whose
stream others have deleted, the program's client may list an id (`Lent`) that a
new stream of somebody else then takes. With nothing lost that cannot be, and so
QUIT deletes no stream of others; that is the core of `HurtsNobody`.

The proof needs three facts that no property of the runs states: a connection
that was not accepted yet is the one the library identifies (`Control`), a client
that made a stream has the level to connect and kick it, by `SessionAssumption`
(`Cleared`; with the level USER `NoOrphans` is false), and the id in an ATTACH is
that of the client that WHOAMI found. Steps of the library leave the tables alone
and only move the stage (`HoldsOn`, `Flows`); answers of the server change at most
one stream (`RestHolds`) or take streams and clients away (`TrimHolds`, `Sinks`).

### Notify

* `NotifyTypesCorrect` (`NTypeOK`), `SubscribersCorrect` (`SubscribersWait`),
  `BlockedCorrect` (`BlockedWhileWaiting`), `CrashCorrect`
  (`CrashNeedsOverlap`), `OversleepCorrect` (`NobodyOversleeps`),
  `AnswersCorrect` (`AnswersMatch`), from `NotifyInvariance`.

`NInv` says: the lists hold the linked nodes, each once and in the list of its
pattern (`Sound`); the nodes of a waiting client are those in its `waits`
(`Owned`); unlinked nodes belong to nobody who waits, and point into their list
or to a node that was in it (`Forgotten`), and exist only during an emit
(`Settled`). For the walk itself there is a `rank` of all nodes, linked or not,
that the lists are ordered by: everybody who waits for the event is at the
cursor or behind it (`Ahead`), and when the cursor is on a node that was unlinked
under it, no linked node lies between it and what it points to (`Astray`). The
walks of one emit follow each other: the walk is the one its place says
(`InPlace`), and nobody waits any more for what the earlier ones have emitted
(`Heard`), which later callbacks, that only cancel subscriptions, can not change. The
rank is what lets memory of freed nodes be compared with the list they were in.

### MainLoop

`TermCorrect` (`TermMeansAlone`) and `TypesCorrect` (`MTypeOK`), for any finite
set of connections and any set of streams, from `LoopInv`. A `have_listen` that is
false may be stale, since a client can pass a listen socket after it was read.
But only a connected client can do that, or bring another connection, while
requests are served: a count of zero connections stays right until it is looked at,
and in such a turn a false `have_listen` is true to the sockets.

### Only model-checked

All liveness properties (`DeletionReturns`, `EndedStreamGoes`, `EveryoneServed`,
`CallsReturn`, `DrainedServerExits`, `DeadServerExits`): the prover has neither
fairness nor `ENABLED`. Every safety property of a run that passes is stated by a
theorem.

## 5. Findings

1. `move`: `include/roaraudio/proto.h` says that ATTACH moves a stream from one
   client to another. `client_stream_move()` takes it from the old client before
   it can fail to give it to the new one, and then it belongs to nobody.
2. `drain`: `doc/man3/roar_exit.3` says that `roar_terminate()` lets the server
   quit when all input streams ended. The loop asks for streams that are mixed,
   which a paused or muted stream is not.
3. `terminate`: the usage text says of `--terminate` "Terminate after last
   client quited". With a listen socket open the server never does, and refuses
   new streams meanwhile.

## 6. Not modelled

Volumes, mixing arithmetic, sample rates and codecs; names, pids and host
strings; the reading of messages (a request arrives whole); metadata; drivers,
hardware mixers, foreign protocols, plugins, MIDI, synthesizer and light
control; the virtual I/O of the client library, its queries and the wrappers
around it; the command line programs. Most of the repository's lines are of
these kinds: arithmetic on samples, device and library calls, tables of names,
and translations between interfaces that keep no state of their own. `NULL`
results of `malloc()` are modelled where the code undoes something for them
(WAIT), not elsewhere. Ids are those of the tables. SIGTERM inside a deletion is
not modelled: it ends the process. The ring buffer of `libroar/buffer.c` has no
callers. Reference counts of the notify core are left out, and so is
`dbg_notify_cb()` (`roard.c:132`), an optional subscriber of ANY_EVENT that is never
cancelled and only prints.

In `Session` a message is sent and received whole, `socketpair()` may fail and
`send_fh()` may not, and both connections lead to the same server, while
`simple.c:115` opens the second to the default one.

Streams that parts of the server set up for its own client at start (sources,
MIDI, synthesizer) are input streams of `self` in `MainLoop` and absent from
`Registry`. Two of them are linked differently there (`midi.c:675` lists another
stream, `ssynth.c:56` sets a client without a slot), so `OwnershipAgrees` speaks
of servers without those parts.

## 7. Plan

Done: `Tables`, `Registry`, `DeleteStack`, `Poll`, `Buffer`, `DataPath` with
`Queue`, `Session`, `Notify`, `MainLoop`; the proofs of section 4.

Modules that could follow: the flags of streams with RECSOURCE and the hardware
mixer, metadata, `light.c` and `midi.c`.
