------------------------------- MODULE Notify -------------------------------
(***************************************************************************)
(* The notify core of libroar and the WAIT command of roard.  A client     *)
(* that WAITs is subscribed to some events and gets its answer from the    *)
(* callback of the first one that is emitted.  The callback cancels every  *)
(* subscription of the client, while roar_notify_core_emit() is walking    *)
(* the list that holds them: the list node under the cursor is unlinked    *)
(* and, when it was not the first of the list, freed.                      *)
(*                                                                         *)
(* emit() first calls the proxy of the core, roar_notify_proxy_std(), which*)
(* emits group events (ANY_EVENT, then the groups of the event) by nested  *)
(* calls; only then does it read the list of its own event.                *)
(***************************************************************************)
EXTENDS Naturals, SequencesExt

CONSTANTS
    Client,       \* entries of g_clients[]
    Node,         \* memory for subscribers
    Event,        \* events, with emitter and target
    Group,        \* those that only the proxy emits
    proxy,        \* the group events of every other event, in their order
    Bucket,       \* the lists of the core
    hash,         \* the list of every event, _hash_event()
    NewEvent,     \* emitted for a new client
    DeleteEvent,  \* emitted for a deleted client
    WaitEvent,    \* emitted for the command WAIT itself
    WaitRequests, \* what WAIT may ask for: sequences of patterns
    NIL

\* What a subscriber waits for: the events of its list that pass the test.
Pattern == [hash : Bucket, events : SUBSET Event]

\* A running roar_notify_core_emit(), the at-th of those that emit of makes:
\* those of its proxy, and at last the walk over the list of its own event.
Walk == [of : Event \ Group, at : Nat, event : Event, cur : Node \cup {NIL}]

ASSUME NotifyAssumption ==
    /\ hash \in [Event -> Bucket]
    /\ Group \subseteq Event
    /\ proxy \in [Event \ Group -> Seq(Group)]
    /\ {NewEvent, DeleteEvent, WaitEvent} \subseteq Event \ Group
    /\ \A r \in WaitRequests : r \in Seq(Pattern)
    /\ NIL \notin Node \cup Client \cup Pattern \cup Walk
    /\ NIL \notin Seq(Node)

VARIABLES
    lists,   \* core->lists[]
    node,    \* the memory of the subscribers
    clients, \* clients that exist
    waits,   \* their cs->waits, NIL for NULL
    blockc,  \* their cs->blockc
    walk,    \* the running roar_notify_core_emit(): its event and cur, its caller
    crashed  \* a NULL or dangling pointer was followed

vars == <<lists, node, clients, waits, blockc, walk, crashed>>

(***************************************************************************)
(* "leaked": unlinked but never freed.  next is the pointer an unlinked    *)
(* node still holds; that of a linked node follows from its list.  free()  *)
(* overwrites the first words of a node, which the test of emit() reads,   *)
(* and not next, cb and userdata, which lie behind them.                   *)
(***************************************************************************)
Subscriber ==
    [state : {"unused", "linked", "leaked", "freed"},
     pattern : Pattern \cup {NIL}, client : Client \cup {NIL}, next : Node \cup {NIL}]

Unused == [state |-> "unused", pattern |-> NIL, client |-> NIL, next |-> NIL]

NTypeOK ==
    /\ \A b \in Bucket : lists[b] \in Seq(Node)
    /\ node \in [Node -> Subscriber]
    /\ clients \subseteq Client
    /\ \A c \in Client : waits[c] = NIL \/ waits[c] \in Seq(Node)
    /\ blockc \in [Client -> Nat]
    /\ walk = NIL \/ walk \in Walk
    /\ crashed \in BOOLEAN

Init ==
    /\ lists = [b \in Bucket |-> <<>>]
    /\ node = [n \in Node |-> Unused]
    /\ clients = {}
    /\ waits = [c \in Client |-> NIL]
    /\ blockc = [c \in Client |-> 0]
    /\ walk = NIL
    /\ crashed = FALSE

-----------------------------------------------------------------------------
(* The lists, as operators on the memory m = [lists, node] *)

Memory == [lists |-> lists, node |-> node]

Index(l, n) == CHOOSE j \in DOMAIN l : l[j] = n

\* The next pointer of n.
Next(m, n) ==
    LET l == m.lists[m.node[n].pattern.hash]
        i == Index(l, n)
    IN  IF m.node[n].state # "linked" THEN m.node[n].next
        ELSE IF i = Len(l) THEN NIL ELSE l[i + 1]

\* roar_notify_core_subscribe(): n goes to the end of its list.
subscribe(m, n, c, p) ==
    [lists |-> [m.lists EXCEPT ![p.hash] = Append(@, n)],
     node  |-> [m.node EXCEPT ![n] =
                   [state |-> "linked", pattern |-> p, client |-> c, next |-> NIL]]]

\* Mutant of unsubscribe: the removed node forgets what came behind it.
unsubscribe_CutsOff(m, n) ==
    LET b == m.node[n].pattern.hash
        l == m.lists[b]
    IN  IF ~ Contains(l, n) THEN m
        ELSE [lists |-> [m.lists EXCEPT ![b] = RemoveAt(l, Index(l, n))],
              node  |-> [m.node EXCEPT
                            ![n].state = IF Head(l) = n THEN "leaked" ELSE "freed",
                            ![n].next  = NIL]]

\* roar_notify_core_unsubscribe(): the first node of a list is not freed.
unsubscribe(m, n) ==
    LET b == m.node[n].pattern.hash
        l == m.lists[b]
    IN  IF ~ Contains(l, n) THEN m
        ELSE [lists |-> [m.lists EXCEPT ![b] = RemoveAt(l, Index(l, n))],
              node  |-> [m.node EXCEPT
                            ![n].state = IF Head(l) = n THEN "leaked" ELSE "freed",
                            ![n].next  = Next(m, n)]]

UnsubscribeAll(m, s) ==
    LET upto[k \in 0 .. Len(s)] == IF k = 0 THEN m ELSE unsubscribe(upto[k - 1], s[k])
    IN  upto[Len(s)]

\* The subscriptions of one WAIT, in the order of the request.
SubscribeAll(m, s, c, r) ==
    LET upto[k \in 0 .. Len(s)] == IF k = 0 THEN m ELSE subscribe(upto[k - 1], s[k], c, r[k])
    IN  upto[Len(s)]

Store(m) == lists' = m.lists /\ node' = m.node

-----------------------------------------------------------------------------
(* The server.  Requests and other events come when no emit() is running: *)
(* what runs inside an emit() are the emit()s of its proxy.               *)

Idle == walk = NIL /\ ~ crashed

\* Mutant of Emits: the list of the event is walked before the proxy is called.
Emits_ProxyLast(e) == <<e>> \o proxy[e]

\* The events of one emit(): roar_notify_proxy_std() emits the groups of e before
\* the list of e is read, and for its own events the proxy is not called again.
Emits(e) == Append(proxy[e], e)

\* The k-th emit() of emit(e) reads the head of the list of its event.
WalkFrom(l, e, k) ==
    LET f == Emits(e)[k] IN
    [of |-> e, at |-> k, event |-> f,
     cur |-> IF l[hash[f]] = <<>> THEN NIL ELSE Head(l[hash[f]])]

\* roar_notify_core_emit(e).
Emitting(e, l) == walk' = WalkFrom(l, e, 1)

Connect(c) ==
    /\ Idle
    /\ c \notin clients
    /\ clients' = clients \cup {c}
    /\ waits' = [waits EXCEPT ![c] = NIL]
    /\ blockc' = [blockc EXCEPT ![c] = 0]
    /\ Emitting(NewEvent, lists)
    /\ UNCHANGED <<lists, node, crashed>>

\* Mutant of Delete: the subscriptions outlive the client.
Delete_StillSubscribed(c) ==
    /\ Idle
    /\ c \in clients
    /\ clients' = clients \ {c}
    /\ waits' = [waits EXCEPT ![c] = NIL]
    /\ Emitting(DeleteEvent, lists)
    /\ UNCHANGED <<lists, node, blockc, crashed>>

\* clients_delete(): subscriptions are cancelled before the event is emitted.
Delete(c) ==
    /\ Idle
    /\ c \in clients
    /\ Store(IF waits[c] = NIL THEN Memory ELSE UnsubscribeAll(Memory, waits[c]))
    /\ clients' = clients \ {c}
    /\ waits' = [waits EXCEPT ![c] = NIL]
    /\ Emitting(DeleteEvent, lists')
    /\ UNCHANGED <<blockc, crashed>>

\* clients_wait(): every event of the request gets a subscriber.
Wait(c) ==
    /\ Idle
    /\ c \in clients
    /\ waits[c] = NIL
    /\ \E r \in WaitRequests : \E s \in [DOMAIN r -> {n \in Node : node[n].state = "unused"}] :
        /\ \A i, j \in DOMAIN s : i # j => s[i] # s[j]
        /\ Store(SubscribeAll(Memory, s, c, r))
        /\ waits' = [waits EXCEPT ![c] = s]
    /\ blockc' = [blockc EXCEPT ![c] = @ + 1]
    /\ Emitting(WaitEvent, lists')
    /\ UNCHANGED <<clients, crashed>>

\* Mutant of WaitFails: the error path unblocks the client twice.
WaitFails_UnblocksTwice(c) ==
    /\ Idle
    /\ c \in clients
    /\ waits[c] = NIL
    /\ blockc' = [blockc EXCEPT ![c] = (@ + 1) - 2]
    /\ Emitting(WaitEvent, lists)
    /\ UNCHANGED <<lists, node, clients, waits, crashed>>

\* clients_wait() without memory for subscriber k: the others are cancelled.
WaitFails(c) ==
    /\ Idle
    /\ c \in clients
    /\ waits[c] = NIL
    /\ \E r \in WaitRequests : \E k \in DOMAIN r :
        \E s \in [1 .. k - 1 -> {n \in Node : node[n].state = "unused"}] :
            /\ \A i, j \in DOMAIN s : i # j => s[i] # s[j]
            /\ Store(UnsubscribeAll(SubscribeAll(Memory, s, c, r), s))
    /\ blockc' = [blockc EXCEPT ![c] = (@ + 1) - 1]
    /\ Emitting(WaitEvent, lists')
    /\ UNCHANGED <<clients, waits, crashed>>

\* Every other event, and a WAIT that is refused.
Emit(e) ==
    /\ Idle
    /\ Emitting(e, lists)
    /\ UNCHANGED <<lists, node, clients, waits, blockc, crashed>>

-----------------------------------------------------------------------------
(* roar_notify_core_emit() and its callback clients_ncb_wait() *)

\* free() has overwritten what the test reads: it may say anything.
Outcomes(n) ==
    IF node[n].state = "freed" THEN BOOLEAN ELSE {walk.event \in node[n].pattern.events}

Skip ==
    /\ walk # NIL /\ walk.cur # NIL
    /\ FALSE \in Outcomes(walk.cur)
    /\ walk' = [walk EXCEPT !.cur = Next(Memory, @)]
    /\ UNCHANGED <<lists, node, clients, waits, blockc, crashed>>

\* Mutant of clients_ncb_wait: only the subscription that fired is cancelled.
clients_ncb_wait_CancelsOne ==
    LET c == node[walk.cur].client
        m == unsubscribe(Memory, walk.cur)
    IN
    /\ walk # NIL /\ walk.cur # NIL
    /\ TRUE \in Outcomes(walk.cur)
    /\ c \in clients /\ waits[c] # NIL
    /\ Store(m)
    /\ waits' = [waits EXCEPT ![c] = NIL]
    /\ blockc' = [blockc EXCEPT ![c] = @ - 1]
    /\ walk' = [walk EXCEPT !.cur = Next(m, @)]
    /\ UNCHANGED <<clients, crashed>>

\* Mutant of clients_ncb_wait: the answered client stays blocked.
clients_ncb_wait_StaysBlocked ==
    LET c == node[walk.cur].client
        m == UnsubscribeAll(Memory, waits[c])
    IN
    /\ walk # NIL /\ walk.cur # NIL
    /\ TRUE \in Outcomes(walk.cur)
    /\ c \in clients /\ waits[c] # NIL
    /\ Store(m)
    /\ waits' = [waits EXCEPT ![c] = NIL]
    /\ walk' = [walk EXCEPT !.cur = Next(m, @)]
    /\ UNCHANGED <<clients, blockc, crashed>>

clients_ncb_wait ==
    LET c == node[walk.cur].client
        m == UnsubscribeAll(Memory, waits[c])
    IN
    /\ walk # NIL /\ walk.cur # NIL
    /\ TRUE \in Outcomes(walk.cur)
    /\ c \in clients /\ waits[c] # NIL
    /\ Store(m)
    /\ waits' = [waits EXCEPT ![c] = NIL]
    /\ blockc' = [blockc EXCEPT ![c] = @ - 1]
    /\ walk' = [walk EXCEPT !.cur = Next(m, @)]
    /\ UNCHANGED <<clients, crashed>>

\* The callback of a client that is gone, or waits for nothing any more.
Crash ==
    /\ walk # NIL /\ walk.cur # NIL
    /\ TRUE \in Outcomes(walk.cur)
    /\ node[walk.cur].client \notin clients \/ waits[node[walk.cur].client] = NIL
    /\ crashed' = TRUE
    /\ walk' = NIL
    /\ UNCHANGED <<lists, node, clients, waits, blockc>>

\* Memory that nobody points to any more is as good as new.
Recycle == node' = [n \in Node |-> IF node[n].state = "linked" THEN node[n] ELSE Unused]

\* An emit() of the proxy returns: the next one begins, or that of the event.
ProxyEmitted ==
    /\ walk # NIL /\ walk.cur = NIL
    /\ walk.at < Len(Emits(walk.of))
    /\ walk' = WalkFrom(lists, walk.of, walk.at + 1)
    /\ Recycle
    /\ UNCHANGED <<lists, clients, waits, blockc, crashed>>

Emitted ==
    /\ walk # NIL /\ walk.cur = NIL
    /\ walk.at = Len(Emits(walk.of))
    /\ walk' = NIL
    /\ Recycle
    /\ UNCHANGED <<lists, clients, waits, blockc, crashed>>

Dead == crashed /\ UNCHANGED vars

NNext ==
    \/ \E c \in Client : Connect(c) \/ Delete(c) \/ Wait(c) \/ WaitFails(c)
    \/ \E e \in Event \ Group : Emit(e)
    \/ Skip \/ clients_ncb_wait \/ Crash \/ ProxyEmitted \/ Emitted
    \/ Dead

Spec == Init /\ [][NNext]_vars

-----------------------------------------------------------------------------
(* Correctness *)

\* The lists hold the subscriptions of the waiting clients and no other: no
\* subscriber outlives its client or the WAIT it was made for, although they
\* are cancelled by the callback, by clients_delete() and by a failed WAIT.
SubscribersWait ==
    /\ \A b \in Bucket : \A i \in DOMAIN lists[b] :
        LET c == node[lists[b][i]].client IN
        c \in clients /\ waits[c] # NIL /\ Contains(waits[c], lists[b][i])
    /\ \A c \in clients : waits[c] # NIL =>
        \A i \in DOMAIN waits[c] :
            /\ node[waits[c][i]].state = "linked"
            /\ Contains(lists[node[waits[c][i]].pattern.hash], waits[c][i])

\* A client is blocked as long as it waits, and no longer: blockc is counted
\* up by clients_wait() and down by the callback or the error path.
BlockedWhileWaiting ==
    \A c \in clients : blockc[c] = IF waits[c] = NIL THEN 0 ELSE 1

\* The callback runs for a client that is gone or was answered only when one
\* WAIT of that client asked for two events of the same list: emit() can then
\* reach the second subscriber after the callback of the first has freed it.
\* The emit()s of the proxy add no other way: their callbacks free subscribers
\* of the list of the event too, but its head is read after they returned.
CrashNeedsOverlap ==
    [][~ crashed /\ crashed' =>
        \E n \in Node \ {walk.cur} :
            /\ node[n].pattern # NIL
            /\ node[n].client = node[walk.cur].client
            /\ node[n].pattern.hash = node[walk.cur].pattern.hash]_vars

\* When an event has been emitted nobody goes on waiting for it or for a group
\* it belongs to: cancelling subscribers under the cursor hides none of those
\* behind them, and no answer of the proxy hides one of a later list.
NobodyOversleeps ==
    [][(walk # NIL /\ walk' = NIL /\ ~ crashed') =>
        \A e \in {walk.of} \cup Range(proxy[walk.of]) : \A c \in clients : waits[c] # NIL =>
            \A i \in DOMAIN waits[c] :
                LET p == node[waits[c][i]].pattern IN
                p.hash = hash[e] => e \notin p.events]_vars

\* A WAIT is answered by an event it asked for, the one that happened or one of
\* its groups, and by the groups first.
AnswersMatch ==
    [][\A c \in clients \cap clients' : (waits[c] # NIL /\ waits'[c] = NIL) =>
        /\ walk # NIL
        /\ walk.event \in {walk.of} \cup Range(proxy[walk.of])
        /\ \E i \in DOMAIN waits[c] : walk.event \in node[waits[c][i]].pattern.events
        /\ walk.event = walk.of =>
            \A g \in Range(proxy[walk.of]) : \A i \in DOMAIN waits[c] :
                LET p == node[waits[c][i]].pattern IN
                p.hash = hash[g] => g \notin p.events]_vars
=============================================================================
