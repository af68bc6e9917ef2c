------------------------- MODULE DeleteStack_proofs -------------------------
(***************************************************************************)
(* Proofs about module DeleteStack, for every size of the tables: no call  *)
(* of the recursion works on an entry that is gone, and when the outermost *)
(* one returns the tables are those that Tables!Delete computes from the   *)
(* least closed set.                                                       *)
(*                                                                         *)
(* The recursion is a depth first search over Triggers.  The invariant     *)
(* bounds what it has reached from both sides: all of it is in the least   *)
(* closed set, and what a call has left behind it is closed already, but   *)
(* for calls that have not returned.  Besides it says entry by entry how   *)
(* the tables in memory differ from those at the start.                    *)
(***************************************************************************)
EXTENDS DeleteStack, Registry_proofs, SequenceTheorems

-----------------------------------------------------------------------------
(* The inductive invariant.  t are the tables at the start of the deletion, *)
(* m those in memory, S and Q the active calls of streams_delete() and      *)
(* clients_delete() by the stream or client they work on.                   *)

StreamCalls(S) ==
    /\ DOMAIN S \subseteq SID
    /\ \A s \in DOMAIN S :
        /\ S[s] \in Frame /\ S[s].fn = "streams_delete" /\ S[s].id = s
        /\ S[s].pc \in {"children", "virtual", "regroup", "client", "free"}

ClientCalls(Q) ==
    /\ DOMAIN Q \subseteq CID
    /\ \A c \in DOMAIN Q :
        /\ Q[c] \in Frame /\ Q[c].fn = "clients_delete" /\ Q[c].id = c
        /\ Q[c].pc \in {"streams", "free"} /\ Q[c].i <= STREAMS_PER_CLIENT

\* The calls of fn on the stack, but for one that has just been made.
CallsOf(st, fn, S) ==
    /\ \A n \in DOMAIN st : st[n].fn = fn /\ st[n].pc # "enter" =>
        st[n].id \in DOMAIN S /\ st[n] = S[st[n].id]
    /\ \A n, k \in DOMAIN st :
        (/\ n # k /\ st[n].fn = fn /\ st[k].fn = fn
         /\ st[n].pc # "enter" /\ st[k].pc # "enter") => st[n].id # st[k].id
    /\ \A s \in DOMAIN S : \E n \in DOMAIN st : st[n] = S[s]

Calls(st, S, Q) ==
    /\ st \in Seq(Frame)
    /\ \A n \in DOMAIN st : st[n].pc = "enter" => n = 1
    /\ CallsOf(st, "streams_delete", S) /\ CallsOf(st, "clients_delete", Q)

\* A call that has just been made has done nothing.
Fresh(st) == st # <<>> /\ st[1].pc = "enter" => st[1] = Call(st[1].fn, st[1].id)

\* What the call that has just been made is for.
Asked(st, fn) ==
    IF st # <<>> /\ st[1].fn = fn /\ st[1].pc = "enter" THEN {st[1].id} ELSE {}

Gone(t, m) == LiveStreams(t) \ LiveStreams(m)
Left(t, m) == LiveClients(t) \ LiveClients(m)

\* How far the calls have come: p has dealt with the stream s that may depend
\* on it; s has told its container; s has been taken from its client; c has
\* dealt with its slot k.
Passed(t, m, S, p, s) ==
    \/ p \in Gone(t, m)
    \/ p \in DOMAIN S /\ (S[p].pc # "children" \/ s < S[p].i)

Told(t, m, S) ==
    Gone(t, m) \cup {s \in DOMAIN S : S[s].pc \in {"regroup", "client", "free"}}

Unlisted(t, m, S) == Gone(t, m) \cup {s \in DOMAIN S : S[s].pc = "free"}

Tried(t, m, Q, c, k) ==
    \/ c \in Left(t, m)
    \/ c \in DOMAIN Q /\ (Q[c].pc = "free" \/ k < Q[c].i)

\* The streams and clients that some call was made for.
Reached(t, m, S, P)  == Gone(t, m) \cup DOMAIN S \cup P
ReachedC(t, m, Q, P) == Left(t, m) \cup DOMAIN Q \cup P

\* The roots of a deletion that begins with the call fn(id).
Roots(t, fn, id) ==
    IF fn = "streams_delete" THEN {id}
    ELSE IF id \in LiveClients(t) THEN SlotSet(t, id) ELSE {}

RootClients(t, fn, id) == IF fn = "clients_delete" THEN {id} \cap LiveClients(t) ELSE {}

\* The clients that go with the streams of the least closed set.
Lost(t, fn, id) ==
    RootClients(t, fn, id) \cup
    {c \in CID : \E s \in Doomed(t, Roots(t, fn, id)) : ExecedBy(t, s, c)}

Shaped(t, m, S, Q) ==
    /\ t \in TablesType /\ m \in TablesType /\ StreamCalls(S) /\ ClientCalls(Q)
    /\ LiveStreams(m) \subseteq LiveStreams(t) /\ LiveClients(m) \subseteq LiveClients(t)
    /\ DOMAIN S \subseteq LiveStreams(m) /\ DOMAIN Q \subseteq LiveClients(m)

\* Nothing is reached that does not have to go, and no client twice.
Needed(t, fn, id, PS, PC, m, S, Q) ==
    /\ Reached(t, m, S, PS) \cap LiveStreams(t) \subseteq Doomed(t, Roots(t, fn, id))
    /\ ReachedC(t, m, Q, PC) \cap LiveClients(t) \subseteq Lost(t, fn, id)
    /\ PC \cap DOMAIN Q = {}

\* What calls have left behind them is reached.
Covered(t, fn, id, PS, PC, m, S, Q) ==
    /\ \A p, s \in LiveStreams(t) :
        Passed(t, m, S, p, s) /\ Dependent(t, s, p) => s \in Reached(t, m, S, PS)
    /\ \A s \in Told(t, m, S), p \in LiveStreams(t) :
        TakesParent(t, s, p) => p \in Reached(t, m, S, PS)
    /\ \A s \in Unlisted(t, m, S), c \in CID :
        ExecedBy(t, s, c) => c \in ReachedC(t, m, Q, PC)
    /\ \A c \in LiveClients(t), k \in Slot :
        /\ Tried(t, m, Q, c, k)
        /\ t.clients[c].streams[k] \in LiveStreams(t)
        => t.clients[c].streams[k] \in Reached(t, m, S, PS)
    /\ fn = "streams_delete" /\ id \in LiveStreams(t) => id \in Reached(t, m, S, PS)
    /\ fn = "clients_delete" /\ id \in LiveClients(t) => id \in ReachedC(t, m, Q, PC)

\* The stream s has lost its relation to a stream that goes before it.
Erased(t, m, S, s) ==
    /\ Passed(t, m, S, t.streams[s].pos_rel_id, s)
    /\ ~ Dependent(t, s, t.streams[s].pos_rel_id)

\* Streams that no call works on are as they were, but for their relation; of
\* the others, what is still to be looked at is.
StreamsSame(t, m, S) ==
    /\ \A s \in LiveStreams(m) \ DOMAIN S :
        m.streams[s] = IF Erased(t, m, S, s) THEN Unrelated(t.streams[s]) ELSE t.streams[s]
    /\ \A s \in DOMAIN S :
        /\ m.streams[s].dir = t.streams[s].dir
        /\ m.streams[s].virtual = t.streams[s].virtual
        /\ m.streams[s].primary = t.streams[s].primary
        /\ IF S[s].pc = "regroup"
           THEN S[s].rel = t.streams[s].pos_rel_id /\ S[s].client = t.streams[s].client
           ELSE /\ m.streams[s].client = t.streams[s].client
                /\ t.streams[s].virtual => m.streams[s].pos_rel_id = t.streams[s].pos_rel_id

ClientsSame(t, m, S, Q) ==
    \A c \in LiveClients(m) :
        /\ m.clients[c].fh = t.clients[c].fh
        /\ m.clients[c].execed = IF c \in DOMAIN Q THEN None ELSE t.clients[c].execed
        /\ m.clients[c].streams = FreedSlots(t, c, Unlisted(t, m, S))

CountedOff(t, m, S, Q) ==
    /\ m.nstreams = t.nstreams - Cardinality(Gone(t, m) \cup DOMAIN S)
    /\ m.nclients = t.nclients - Cardinality(Left(t, m) \cup DOMAIN Q)
    /\ m.thru = t.thru -
        ThruAmong(t, Gone(t, m) \cup {s \in DOMAIN S : S[s].pc # "children"})
    /\ m.alive = t.alive
    /\ \A s \in Gone(t, m) : ~ (t.alive /\ t.streams[s].primary)

Progress(t, fn, id, PS, PC, m, S, Q) ==
    /\ Shaped(t, m, S, Q) /\ Needed(t, fn, id, PS, PC, m, S, Q)
    /\ Covered(t, fn, id, PS, PC, m, S, Q)
    /\ StreamsSame(t, m, S) /\ ClientsSame(t, m, S, Q) /\ CountedOff(t, m, S, Q)

\* The requests and events that lead to the call fn(id) with the tables t.
ClientAsked(t, fn, id) ==
    /\ fn = "clients_delete" /\ t = Now /\ id \in CID
    /\ \/ Runs /\ g_clients[id] # NULL /\ g_clients[id].fh
       \/ \E c \in CID : Requests(c)

StreamAsked(t, fn, id) ==
    /\ fn = "streams_delete" /\ t = Now /\ id \in LiveStreams(Now)
    /\ \/ \E c \in CID : Requests(c) /\ ~ g_streams[id].immutable
       \/ /\ Runs /\ g_streams[id].fh
          /\ g_streams[id].dir = "THRU" \/ \E c \in LiveClients(Now) : id \in SlotSet(Now, c)

Unready(t, id, c, execed) ==
    /\ c \in CID /\ Requests(c) /\ Lists(Now, c, id)
    /\ execed \in {g_clients[c].execed, id}
    /\ t = [Now EXCEPT !.clients[c].execed = execed, !.streams[id].fh = TRUE]

StreamUnready(t, fn, id) ==
    /\ fn = "streams_delete" /\ id \in LiveStreams(Now)
    /\ ~ g_streams[id].ready /\ "codec" \in FhOutcomes
    /\ g_streams[id].dir \notin {"THRU", "RAW_IN", "RAW_OUT"}
    /\ \E c, execed : Unready(t, id, c, execed)

Origin(t, fn, id) ==
    ClientAsked(t, fn, id) \/ StreamAsked(t, fn, id) \/ StreamUnready(t, fn, id)

Running(t, fn, id, S, Q) ==
    /\ Origin(t, fn, id) /\ closing = DOMAIN S /\ Calls(stack, S, Q) /\ Fresh(stack)
    /\ Progress(t, fn, id, Asked(stack, "streams_delete"), Asked(stack, "clients_delete"),
                mem, S, Q)

\* The inductive invariant.
DInv ==
    /\ Inv /\ closing \subseteq SID
    /\ stack = <<>> => mem = Now /\ (alive => closing = {})
    /\ stack # <<>> => \E t, fn, id, S, Q : Running(t, fn, id, S, Q)

-----------------------------------------------------------------------------
(* The stack                                                                *)

\* A call is entered or goes on, and one that is done is left.
With(S, s, f) == [x \in DOMAIN S \cup {s} |-> IF x = s THEN f ELSE S[x]]
Drop(S, s)    == [x \in DOMAIN S \ {s} |-> S[x]]

\* What is where when the innermost call goes on, makes another, or returns.
LEMMA TopChanges ==
    ASSUME NEW st \in Seq(Frame), st # <<>>, NEW f \in Frame, NEW g \in Frame
    PROVE  /\ <<f>> \o Tail(st) \in Seq(Frame)
           /\ DOMAIN (<<f>> \o Tail(st)) = DOMAIN st
           /\ (<<f>> \o Tail(st))[1] = f
           /\ \A n \in DOMAIN st : n # 1 => (<<f>> \o Tail(st))[n] = st[n]
           /\ <<g, f>> \o Tail(st) \in Seq(Frame)
           /\ DOMAIN (<<g, f>> \o Tail(st)) = {1} \cup {n + 1 : n \in DOMAIN st}
           /\ (<<g, f>> \o Tail(st))[1] = g
           /\ (<<g, f>> \o Tail(st))[2] = f
           /\ \A n \in DOMAIN st : n # 1 => (<<g, f>> \o Tail(st))[n + 1] = st[n]
           /\ Tail(st) \in Seq(Frame)
           /\ {n + 1 : n \in DOMAIN Tail(st)} = DOMAIN st \ {1}
           /\ \A n \in DOMAIN Tail(st) : Tail(st)[n] = st[n + 1]
           /\ 1 \in DOMAIN st /\ DOMAIN st \subseteq Nat /\ Head(st) = st[1] /\ st[1] \in Frame
<1>1. Len(st) \in Nat \ {0} /\ DOMAIN st = 1 .. Len(st) /\ 1 \in DOMAIN st
  BY EmptySeq, LenProperties
<1>2. /\ Head(st) = st[1] /\ st[1] \in Frame
      /\ Tail(st) \in Seq(Frame) /\ Len(Tail(st)) = Len(st) - 1
      /\ \A n \in 1 .. Len(Tail(st)) : Tail(st)[n] = st[n + 1]
  BY <1>1, HeadTailProperties, ElementOfSeq
<1>3. DOMAIN Tail(st) = 1 .. Len(st) - 1
  BY <1>2, LenProperties
<1> DEFINE u == Tail(st)
<1> HIDE DEF u
<1>4. /\ <<f>> \in Seq(Frame) /\ Len(<<f>>) = 1 /\ <<f>>[1] = f
      /\ <<g, f>> \in Seq(Frame) /\ Len(<<g, f>>) = 2 /\ <<g, f>>[1] = g /\ <<g, f>>[2] = f
  OBVIOUS
<1>5. /\ <<f>> \o u \in Seq(Frame) /\ Len(<<f>> \o u) = Len(st)
      /\ \A n \in 1 .. Len(st) : (<<f>> \o u)[n] = IF n <= 1 THEN <<f>>[n] ELSE u[n - 1]
  BY <1>1, <1>2, <1>4, ConcatProperties DEF u
<1>6. /\ <<g, f>> \o u \in Seq(Frame) /\ Len(<<g, f>> \o u) = Len(st) + 1
      /\ \A n \in 1 .. Len(st) + 1 : (<<g, f>> \o u)[n] = IF n <= 2 THEN <<g, f>>[n] ELSE u[n - 2]
  BY <1>1, <1>2, <1>4, ConcatProperties, SMTT(60) DEF u
<1>7. DOMAIN (<<f>> \o u) = DOMAIN st /\ DOMAIN (<<g, f>> \o u) = 1 .. Len(st) + 1
  BY <1>1, <1>5, <1>6, LenProperties
<1>8. \A n \in 2 .. Len(st) : u[n - 1] = st[n]
  BY <1>1, <1>2 DEF u
<1>9. \A n \in DOMAIN st : n # 1 => (<<f>> \o u)[n] = st[n]
  BY <1>1, <1>5, <1>8
<1>10. \A n \in DOMAIN st : n # 1 => (<<g, f>> \o u)[n + 1] = st[n]
  BY <1>1, <1>6, <1>8
<1>11. /\ (<<f>> \o u)[1] = f /\ (<<g, f>> \o u)[1] = g /\ (<<g, f>> \o u)[2] = f
  BY <1>1, <1>4, <1>5, <1>6
<1>12. 1 .. Len(st) + 1 = {1} \cup {n + 1 : n \in 1 .. Len(st)}
       /\ {n + 1 : n \in 1 .. Len(st) - 1} = (1 .. Len(st)) \ {1}
  <2>1. ASSUME NEW k \in 1 .. Len(st) + 1, k # 1
        PROVE  k \in {n + 1 : n \in 1 .. Len(st)}
    <3>1. k - 1 \in 1 .. Len(st) /\ k = (k - 1) + 1
      BY <1>1, <2>1
    <3> QED BY <3>1
  <2>2. ASSUME NEW k \in 1 .. Len(st), k # 1
        PROVE  k \in {n + 1 : n \in 1 .. Len(st) - 1}
    <3>1. k - 1 \in 1 .. Len(st) - 1 /\ k = (k - 1) + 1
      BY <1>1, <2>2
    <3> QED BY <3>1
  <2>3. \A n \in 1 .. Len(st) : n + 1 \in 1 .. Len(st) + 1
    BY <1>1
  <2>4. \A n \in 1 .. Len(st) - 1 : n + 1 \in 1 .. Len(st) /\ n + 1 # 1
    BY <1>1
  <2>5. 1 \in 1 .. Len(st) + 1
    BY <1>1
  <2>6. 1 .. Len(st) + 1 = {1} \cup {n + 1 : n \in 1 .. Len(st)}
    BY <2>1, <2>3, <2>5, Zenon
  <2>7. {n + 1 : n \in 1 .. Len(st) - 1} = (1 .. Len(st)) \ {1}
    BY <2>2, <2>4, Zenon
  <2> QED BY <2>6, <2>7
<1>13. <<f>> \o Tail(st) = <<f>> \o u /\ <<g, f>> \o Tail(st) = <<g, f>> \o u
  BY DEF u
<1>14. DOMAIN (<<g, f>> \o Tail(st)) = {1} \cup {n + 1 : n \in DOMAIN st}
       /\ {n + 1 : n \in DOMAIN Tail(st)} = DOMAIN st \ {1}
  BY <1>1, <1>3, <1>7, <1>12, <1>13, Zenon
<1>15. \A n \in DOMAIN Tail(st) : Tail(st)[n] = st[n + 1]
  BY <1>2, <1>3
<1>16. DOMAIN st \subseteq Nat
  BY <1>1
<1>17. /\ <<f>> \o Tail(st) \in Seq(Frame) /\ <<g, f>> \o Tail(st) \in Seq(Frame)
       /\ DOMAIN (<<f>> \o Tail(st)) = DOMAIN st
  BY <1>5, <1>6, <1>7, <1>13, Zenon
<1>18. /\ (<<f>> \o Tail(st))[1] = f
       /\ \A n \in DOMAIN st : n # 1 => (<<f>> \o Tail(st))[n] = st[n]
       /\ (<<g, f>> \o Tail(st))[1] = g
       /\ (<<g, f>> \o Tail(st))[2] = f
       /\ \A n \in DOMAIN st : n # 1 => (<<g, f>> \o Tail(st))[n + 1] = st[n]
  BY <1>9, <1>10, <1>11, <1>13, Zenon
<1> QED BY <1>1, <1>2, <1>14, <1>15, <1>16, <1>17, <1>18, Zenon

\* st2 is st with f as its innermost call; with g inside it; without it.
Went(st, st2, f)    == /\ DOMAIN st2 = DOMAIN st /\ st2[1] = f
                       /\ \A n \in DOMAIN st : n # 1 => st2[n] = st[n]
Entered(st, st2, g) == /\ DOMAIN st2 = {1} \cup {n + 1 : n \in DOMAIN st} /\ st2[1] = g
                       /\ \A n \in DOMAIN st : st2[n + 1] = st[n]
Returned(st, st2)   == /\ {n + 1 : n \in DOMAIN st2} = DOMAIN st \ {1}
                       /\ \A n \in DOMAIN st2 : st2[n] = st[n + 1]

\* The calls S are calls of fn that have begun.
FramesOf(S, fn) == \A s \in DOMAIN S : S[s].fn = fn /\ S[s].id = s /\ S[s].pc # "enter"

\* The innermost call, of fn, begins or goes on.
LEMMA CallGoesOn ==
    ASSUME NEW st, NEW st2, NEW fn, NEW S, NEW f,
           1 \in DOMAIN st, Went(st, st2, f), CallsOf(st, fn, S), FramesOf(S, fn),
           st[1].fn = fn, f.fn = fn, f.id = st[1].id, f.pc # "enter",
           st[1].pc # "enter" \/ f.id \notin DOMAIN S
    PROVE  CallsOf(st2, fn, With(S, f.id, f)) /\ FramesOf(With(S, f.id, f), fn)
<1> DEFINE W == With(S, f.id, f)
<1>1. DOMAIN W = DOMAIN S \cup {f.id} /\ W[f.id] = f /\ \A x \in DOMAIN S : x # f.id => W[x] = S[x]
  BY DEF With
<1> HIDE DEF W
<1>2. ASSUME NEW n \in DOMAIN st, n # 1, st[n].fn = fn, st[n].pc # "enter"
      PROVE  st[n].id \in DOMAIN S /\ st[n] = S[st[n].id] /\ st[n].id # f.id
  BY <1>2 DEF CallsOf
<1>3. ASSUME NEW s \in DOMAIN W
      PROVE  \E n \in DOMAIN st2 : st2[n] = W[s]
  <2>1. CASE s = f.id
    BY <1>1, <2>1 DEF Went
  <2>2. CASE s # f.id
    <3>1. s \in DOMAIN S /\ W[s] = S[s]
      BY <1>1, <1>3, <2>2
    <3>2. PICK n \in DOMAIN st : st[n] = S[s]
      BY <3>1 DEF CallsOf
    <3>3. n # 1
      BY <2>2, <3>1, <3>2 DEF FramesOf
    <3> QED BY <3>1, <3>2, <3>3 DEF Went
  <2> QED BY <2>1, <2>2
<1>4. \A n \in DOMAIN st2 : st2[n].fn = fn /\ st2[n].pc # "enter" =>
        st2[n].id \in DOMAIN W /\ st2[n] = W[st2[n].id]
  BY <1>1, <1>2 DEF Went
<1>5. \A n, k \in DOMAIN st2 :
        (/\ n # k /\ st2[n].fn = fn /\ st2[k].fn = fn
         /\ st2[n].pc # "enter" /\ st2[k].pc # "enter") => st2[n].id # st2[k].id
  BY <1>2 DEF Went, CallsOf
<1>6. FramesOf(W, fn)
  BY <1>1 DEF FramesOf
<1> QED BY <1>3, <1>4, <1>5, <1>6 DEF CallsOf, W

\* The innermost call, of another function, begins or goes on.
LEMMA OtherGoesOn ==
    ASSUME NEW st, NEW st2, NEW fn, NEW S, NEW f,
           1 \in DOMAIN st, Went(st, st2, f), CallsOf(st, fn, S), FramesOf(S, fn),
           st[1].fn # fn, f.fn # fn
    PROVE  CallsOf(st2, fn, S)
<1>1. ASSUME NEW s \in DOMAIN S
      PROVE  \E n \in DOMAIN st2 : st2[n] = S[s]
  BY DEF CallsOf, FramesOf, Went
<1> QED BY <1>1 DEF CallsOf, Went

\* A call is made.
LEMMA CallMade ==
    ASSUME NEW st, NEW st2, NEW fn, NEW S, NEW g, DOMAIN st \subseteq Nat,
           Entered(st, st2, g), CallsOf(st, fn, S), g.pc = "enter"
    PROVE  CallsOf(st2, fn, S)
<1>1. ASSUME NEW n \in DOMAIN st2, st2[n].pc # "enter"
      PROVE  \E k \in DOMAIN st : n = k + 1 /\ st2[n] = st[k]
  BY <1>1 DEF Entered
<1>2. ASSUME NEW s \in DOMAIN S
      PROVE  \E n \in DOMAIN st2 : st2[n] = S[s]
  BY DEF CallsOf, Entered
<1>3. ASSUME NEW n \in DOMAIN st2, st2[n].fn = fn, st2[n].pc # "enter"
      PROVE  st2[n].id \in DOMAIN S /\ st2[n] = S[st2[n].id]
  BY <1>1, <1>3 DEF CallsOf
<1>4. ASSUME NEW n \in DOMAIN st2, NEW k \in DOMAIN st2, n # k,
             st2[n].fn = fn, st2[k].fn = fn, st2[n].pc # "enter", st2[k].pc # "enter"
      PROVE  st2[n].id # st2[k].id
  <2>1. PICK i \in DOMAIN st : n = i + 1 /\ st2[n] = st[i]
    BY <1>1, <1>4
  <2>2. PICK j \in DOMAIN st : k = j + 1 /\ st2[k] = st[j]
    BY <1>1, <1>4
  <2> QED BY <1>4, <2>1, <2>2 DEF CallsOf
<1> QED BY <1>2, <1>3, <1>4 DEF CallsOf

\* The innermost call returns at once, or is of another function.
LEMMA OtherReturns ==
    ASSUME NEW st, NEW st2, NEW fn, NEW S, DOMAIN st \subseteq Nat, DOMAIN st2 \subseteq Nat,
           Returned(st, st2), CallsOf(st, fn, S), FramesOf(S, fn),
           st[1].pc = "enter" \/ st[1].fn # fn
    PROVE  CallsOf(st2, fn, S)
<1>1. \A n \in DOMAIN st2 : n + 1 \in DOMAIN st /\ st2[n] = st[n + 1]
  BY DEF Returned
<1>2. ASSUME NEW s \in DOMAIN S
      PROVE  \E n \in DOMAIN st2 : st2[n] = S[s]
  <2>1. PICK k \in DOMAIN st : st[k] = S[s]
    BY DEF CallsOf
  <2>2. k # 1
    BY <2>1 DEF FramesOf
  <2> QED BY <2>1, <2>2 DEF Returned
<1>3. ASSUME NEW n \in DOMAIN st2, NEW k \in DOMAIN st2, n # k
      PROVE  n + 1 # k + 1
  BY <1>3
<1>4. \A n, k \in DOMAIN st2 :
        (/\ n # k /\ st2[n].fn = fn /\ st2[k].fn = fn
         /\ st2[n].pc # "enter" /\ st2[k].pc # "enter") => st2[n].id # st2[k].id
  BY <1>1, <1>3 DEF CallsOf
<1> QED BY <1>1, <1>2, <1>4 DEF CallsOf

\* The innermost call, of fn, returns.
LEMMA CallReturns ==
    ASSUME NEW st, NEW st2, NEW fn, NEW S, DOMAIN st \subseteq Nat, DOMAIN st2 \subseteq Nat,
           1 \in DOMAIN st, Returned(st, st2), CallsOf(st, fn, S), FramesOf(S, fn),
           st[1].pc # "enter", st[1].fn = fn
    PROVE  CallsOf(st2, fn, Drop(S, st[1].id)) /\ FramesOf(Drop(S, st[1].id), fn)
<1> DEFINE W == Drop(S, st[1].id)
<1>0. DOMAIN W = DOMAIN S \ {st[1].id} /\ \A x \in DOMAIN W : W[x] = S[x]
  BY DEF Drop
<1> HIDE DEF W
<1>1. \A n \in DOMAIN st2 : n + 1 \in DOMAIN st /\ st2[n] = st[n + 1] /\ n + 1 # 1
  BY DEF Returned
<1>2. ASSUME NEW s \in DOMAIN W
      PROVE  \E n \in DOMAIN st2 : st2[n] = W[s]
  <2>1. PICK k \in DOMAIN st : st[k] = S[s]
    BY <1>0 DEF CallsOf
  <2>2. k # 1
    BY <1>0, <2>1 DEF FramesOf
  <2> QED BY <1>0, <2>1, <2>2 DEF Returned
<1>3. ASSUME NEW n \in DOMAIN st2, NEW k \in DOMAIN st2, n # k
      PROVE  n + 1 # k + 1
  BY <1>3
<1>4. \A n, k \in DOMAIN st2 :
        (/\ n # k /\ st2[n].fn = fn /\ st2[k].fn = fn
         /\ st2[n].pc # "enter" /\ st2[k].pc # "enter") => st2[n].id # st2[k].id
  BY <1>1, <1>3 DEF CallsOf
<1>5. \A n \in DOMAIN st2 : st2[n].fn = fn /\ st2[n].pc # "enter" =>
        st2[n].id \in DOMAIN W /\ st2[n] = W[st2[n].id]
  BY <1>0, <1>1 DEF CallsOf
<1>6. FramesOf(W, fn)
  BY <1>0 DEF FramesOf
<1> QED BY <1>2, <1>4, <1>5, <1>6 DEF CallsOf, W

\* A call that is going on is not one that has just been made.
NotAsked(st) == \A fn : Asked(st, fn) = {}

\* The stacks that the steps of the innermost call, which is or becomes f, lead
\* to: it goes on, and it may make a call g.
Goes(st, f, S, Q) ==
    /\ Calls(<<f>> \o Tail(st), S, Q)
    /\ NotAsked(<<f>> \o Tail(st))
    /\ \A g \in Frame : g.pc = "enter" =>
        /\ Calls(<<g, f>> \o Tail(st), S, Q)
        /\ \A fn : Asked(<<g, f>> \o Tail(st), fn) = IF fn = g.fn THEN {g.id} ELSE {}
        /\ <<g, f>> \o Tail(st) # <<>> /\ (<<g, f>> \o Tail(st))[1] = g
    /\ <<f>> \o Tail(st) # <<>>

\* The parts of the above, whatever function the call is of.
LEMMA StackGoes ==
    ASSUME NEW st \in Seq(Frame), st # <<>>, NEW f \in Frame, f.pc # "enter",
           \A n \in DOMAIN st : st[n].pc = "enter" => n = 1,
           NEW S, NEW Q,
           CallsOf(<<f>> \o Tail(st), "streams_delete", S),
           CallsOf(<<f>> \o Tail(st), "clients_delete", Q)
    PROVE  Goes(st, f, S, Q)
<1> DEFINE u == <<f>> \o Tail(st)
<1>1. /\ u \in Seq(Frame) /\ DOMAIN u = DOMAIN st /\ u[1] = f /\ 1 \in DOMAIN st
      /\ \A n \in DOMAIN st : n # 1 => u[n] = st[n]
      /\ DOMAIN st \subseteq Nat
  BY TopChanges
<1> HIDE DEF u
<1>2. Calls(u, S, Q)
  BY <1>1 DEF Calls, u
<1>3. NotAsked(u)
  BY <1>1 DEF NotAsked, Asked
<1>4. u # <<>>
  BY <1>1
<1>5. ASSUME NEW g \in Frame, g.pc = "enter"
      PROVE  /\ Calls(<<g, f>> \o Tail(st), S, Q)
             /\ \A fn : Asked(<<g, f>> \o Tail(st), fn) = IF fn = g.fn THEN {g.id} ELSE {}
             /\ <<g, f>> \o Tail(st) # <<>> /\ (<<g, f>> \o Tail(st))[1] = g
  <2> DEFINE v == <<g, f>> \o Tail(st)
  <2>1. /\ v \in Seq(Frame) /\ DOMAIN v = {1} \cup {n + 1 : n \in DOMAIN st} /\ v[1] = g
        /\ v[2] = f /\ \A n \in DOMAIN st : n # 1 => v[n + 1] = st[n]
    BY TopChanges, SMTT(60)
  <2> HIDE DEF v
  <2>2. \A n \in DOMAIN st : v[n + 1] = u[n]
    BY <1>1, <2>1
  <2>3. Entered(u, v, g)
    BY <1>1, <2>1, <2>2 DEF Entered
  <2>4. CallsOf(v, "streams_delete", S) /\ CallsOf(v, "clients_delete", Q)
    BY <1>1, <1>5, <2>3, CallMade DEF u
  <2>5. \A n \in DOMAIN v : v[n].pc = "enter" => n = 1
    BY <1>1, <2>1, <2>2, SMTT(60)
  <2>6. v # <<>>
    <3>1. 1 \in DOMAIN v
      BY <2>1
    <3> QED BY <3>1
  <2> QED BY <1>5, <2>1, <2>4, <2>5, <2>6 DEF Calls, Asked, v
<1> QED BY <1>2, <1>3, <1>4, <1>5 DEF Goes, u

\* A call of streams_delete() begins or goes on.
LEMMA StreamCallGoes ==
    ASSUME NEW st, NEW S, NEW Q, Calls(st, S, Q), StreamCalls(S), ClientCalls(Q), st # <<>>,
           NEW f \in Frame, f.fn = "streams_delete", f.pc # "enter",
           st[1].fn = "streams_delete", f.id = st[1].id,
           st[1].pc # "enter" \/ f.id \notin DOMAIN S
    PROVE  Goes(st, f, With(S, f.id, f), Q)
<1> DEFINE u == <<f>> \o Tail(st)
<1>1. st \in Seq(Frame) /\ \A n \in DOMAIN st : st[n].pc = "enter" => n = 1
  BY DEF Calls
<1>2. Went(st, u, f) /\ 1 \in DOMAIN st
  BY <1>1, TopChanges, ZenonT(60) DEF Went
<1> HIDE DEF u
<1>3. FramesOf(S, "streams_delete") /\ FramesOf(Q, "clients_delete")
  BY DEF StreamCalls, ClientCalls, FramesOf
<1>4. CallsOf(u, "streams_delete", With(S, f.id, f))
  BY <1>2, <1>3, CallGoesOn DEF Calls
<1>5. CallsOf(u, "clients_delete", Q)
  BY <1>2, <1>3, OtherGoesOn DEF Calls
<1> QED BY <1>1, <1>4, <1>5, StackGoes DEF u

\* A call of clients_delete() begins or goes on.
LEMMA ClientCallGoes ==
    ASSUME NEW st, NEW S, NEW Q, Calls(st, S, Q), StreamCalls(S), ClientCalls(Q), st # <<>>,
           NEW f \in Frame, f.fn = "clients_delete", f.pc # "enter",
           st[1].fn = "clients_delete", f.id = st[1].id,
           st[1].pc # "enter" \/ f.id \notin DOMAIN Q
    PROVE  Goes(st, f, S, With(Q, f.id, f))
<1> DEFINE u == <<f>> \o Tail(st)
<1>1. st \in Seq(Frame) /\ \A n \in DOMAIN st : st[n].pc = "enter" => n = 1
  BY DEF Calls
<1>2. Went(st, u, f) /\ 1 \in DOMAIN st
  BY <1>1, TopChanges, ZenonT(60) DEF Went
<1> HIDE DEF u
<1>3. FramesOf(S, "streams_delete") /\ FramesOf(Q, "clients_delete")
  BY DEF StreamCalls, ClientCalls, FramesOf
<1>4. CallsOf(u, "clients_delete", With(Q, f.id, f))
  BY <1>2, <1>3, CallGoesOn DEF Calls
<1>5. CallsOf(u, "streams_delete", S)
  BY <1>2, <1>3, OtherGoesOn DEF Calls
<1> QED BY <1>1, <1>4, <1>5, StackGoes DEF u

\* The innermost call returns.
LEMMA TopReturns ==
    ASSUME NEW st, NEW S, NEW Q, Calls(st, S, Q), StreamCalls(S), ClientCalls(Q), st # <<>>
    PROVE  /\ NotAsked(Tail(st))
           /\ st[1].pc = "enter" => Calls(Tail(st), S, Q)
           /\ st[1].pc # "enter" /\ st[1].fn = "streams_delete" =>
                Calls(Tail(st), Drop(S, st[1].id), Q)
           /\ st[1].pc # "enter" /\ st[1].fn = "clients_delete" =>
                Calls(Tail(st), S, Drop(Q, st[1].id))
<1> DEFINE u == Tail(st)
<1>1. st \in Seq(Frame) /\ \A n \in DOMAIN st : st[n].pc = "enter" => n = 1
  BY DEF Calls
<1>2. /\ u \in Seq(Frame) /\ Returned(st, u) /\ 1 \in DOMAIN st /\ DOMAIN st \subseteq Nat
  <2>1. Head(st) \in Frame
    BY <1>1, HeadTailProperties
  <2> QED BY <1>1, <2>1, TopChanges DEF Returned
<1> HIDE DEF u
<1>3. DOMAIN u \subseteq Nat
  BY <1>2, LenProperties
<1>4. FramesOf(S, "streams_delete") /\ FramesOf(Q, "clients_delete")
  BY DEF StreamCalls, ClientCalls, FramesOf
<1>5. \A n \in DOMAIN u : u[n].pc # "enter"
  BY <1>1, <1>2, <1>3 DEF Returned
<1>6. NotAsked(u)
  <2>1. u # <<>> => 1 \in DOMAIN u
    BY <1>2, EmptySeq, LenProperties
  <2> QED BY <1>5, <2>1 DEF NotAsked, Asked
<1>7. CASE st[1].pc = "enter"
  BY <1>2, <1>3, <1>4, <1>5, <1>6, <1>7, OtherReturns DEF Calls, u
<1>8. CASE st[1].pc # "enter" /\ st[1].fn = "streams_delete"
  BY <1>2, <1>3, <1>4, <1>5, <1>6, <1>8, OtherReturns, CallReturns DEF Calls, u
<1>9. CASE st[1].pc # "enter" /\ st[1].fn = "clients_delete"
  BY <1>2, <1>3, <1>4, <1>5, <1>6, <1>9, OtherReturns, CallReturns DEF Calls, u
<1> QED BY <1>6, <1>7, <1>8, <1>9 DEF u

-----------------------------------------------------------------------------
(* What is reached                                                          *)

\* Nothing but the least closed set goes.
LEMMA DoomedLeast ==
    ASSUME NEW t, NEW R, NEW D \in SUBSET LiveStreams(t),
           R \cap LiveStreams(t) \subseteq D, Closed(t, D)
    PROVE  Doomed(t, R) \subseteq D
BY DEF Doomed

\* What a stream that goes asks to go, goes.
LEMMA TriggersDoom ==
    ASSUME NEW t, NEW R, NEW s \in Doomed(t, R), NEW i \in LiveStreams(t), Triggers(t, s, i)
    PROVE  i \in Doomed(t, R)
BY DoomedClosed DEF Closed

\* The streams of a client that goes, go.
LEMMA LostSlots ==
    ASSUME NEW t \in TablesType, NEW fn, NEW id, NEW c \in Lost(t, fn, id), NEW k \in Slot,
           t.clients[c].streams[k] \in LiveStreams(t)
    PROVE  t.clients[c].streams[k] \in Doomed(t, Roots(t, fn, id))
<1> DEFINE i == t.clients[c].streams[k]
           D == Doomed(t, Roots(t, fn, id))
<1>1. i \in SlotSet(t, c)
  BY NoneIsNoStream DEF SlotSet, LiveStreams
<1>2. CASE c \in RootClients(t, fn, id)
  <2>1. fn = "clients_delete" /\ c = id /\ id \in LiveClients(t)
    BY <1>2 DEF RootClients
  <2>2. Roots(t, fn, id) = SlotSet(t, c)
    BY <2>1 DEF Roots
  <2> QED BY <1>1, <2>2, DoomedClosed
<1>3. ASSUME NEW s \in D, ExecedBy(t, s, c)
      PROVE  i \in D
  <2>1. c \in CID
    BY <1>3 DEF ExecedBy, LiveClients
  <2>2. Triggers(t, s, i)
    BY <1>1, <1>3, <2>1 DEF Triggers
  <2> QED BY <2>2, TriggersDoom
<1> QED BY <1>2, <1>3 DEF Lost

\* Covered stays when nothing that is reached is forgotten and what the calls
\* leave behind them in the step is reached.
LEMMA CoveredStep ==
    ASSUME NEW t, NEW fn, NEW id, NEW PS, NEW PC, NEW m, NEW S, NEW Q,
           NEW PS2, NEW PC2, NEW m2, NEW S2, NEW Q2,
           Covered(t, fn, id, PS, PC, m, S, Q),
           Reached(t, m, S, PS) \cap LiveStreams(t) \subseteq Reached(t, m2, S2, PS2),
           ReachedC(t, m, Q, PC) \cap LiveClients(t) \subseteq ReachedC(t, m2, Q2, PC2),
           \A p, s \in LiveStreams(t) :
                Passed(t, m2, S2, p, s) /\ Dependent(t, s, p) =>
                    Passed(t, m, S, p, s) \/ s \in Reached(t, m2, S2, PS2),
           \A s \in Told(t, m2, S2), p \in LiveStreams(t) :
                TakesParent(t, s, p) => s \in Told(t, m, S) \/ p \in Reached(t, m2, S2, PS2),
           \A s \in Unlisted(t, m2, S2), c \in CID :
                ExecedBy(t, s, c) =>
                    s \in Unlisted(t, m, S) \/ c \in ReachedC(t, m2, Q2, PC2),
           \A c \in LiveClients(t), k \in Slot :
                Tried(t, m2, Q2, c, k) /\ t.clients[c].streams[k] \in LiveStreams(t) =>
                    \/ Tried(t, m, Q, c, k)
                    \/ t.clients[c].streams[k] \in Reached(t, m2, S2, PS2)
    PROVE  Covered(t, fn, id, PS2, PC2, m2, S2, Q2)
<1>1. \A p, s \in LiveStreams(t) :
        Passed(t, m2, S2, p, s) /\ Dependent(t, s, p) => s \in Reached(t, m2, S2, PS2)
  BY DEF Covered
<1>2. \A s \in Told(t, m2, S2), p \in LiveStreams(t) :
        TakesParent(t, s, p) => p \in Reached(t, m2, S2, PS2)
  BY DEF Covered
<1>3. \A s \in Unlisted(t, m2, S2), c \in CID :
        ExecedBy(t, s, c) => c \in ReachedC(t, m2, Q2, PC2)
  <2>1. \A s, c : ExecedBy(t, s, c) => c \in LiveClients(t)
    BY DEF ExecedBy
  <2> QED BY <2>1 DEF Covered
<1>4. \A c \in LiveClients(t), k \in Slot :
        Tried(t, m2, Q2, c, k) /\ t.clients[c].streams[k] \in LiveStreams(t) =>
            t.clients[c].streams[k] \in Reached(t, m2, S2, PS2)
  BY DEF Covered
<1>5. /\ fn = "streams_delete" /\ id \in LiveStreams(t) => id \in Reached(t, m2, S2, PS2)
      /\ fn = "clients_delete" /\ id \in LiveClients(t) => id \in ReachedC(t, m2, Q2, PC2)
  BY DEF Covered
<1> QED BY <1>1, <1>2, <1>3, <1>4, <1>5 DEF Covered

\* S2 is S with f for the call on s; no entry was freed from m to m2.
Moved(t, m, m2, S, s, f, S2) ==
    /\ DOMAIN S2 = DOMAIN S \cup {s} /\ S2[s] = f
    /\ \A x \in DOMAIN S : x # s => S2[x] = S[x]
    /\ Gone(t, m2) = Gone(t, m) /\ s \notin Gone(t, m)
    /\ \A p, x : p # s => (Passed(t, m2, S2, p, x) <=> Passed(t, m, S, p, x))
    /\ \A x : Passed(t, m2, S2, s, x) <=> f.pc # "children" \/ x < f.i
    /\ \A x : x # s => (x \in Told(t, m2, S2) <=> x \in Told(t, m, S))
    /\ s \in Told(t, m2, S2) <=> f.pc \in {"regroup", "client", "free"}
    /\ \A x : x # s => (x \in Unlisted(t, m2, S2) <=> x \in Unlisted(t, m, S))
    /\ s \in Unlisted(t, m2, S2) <=> f.pc = "free"

\* With moves the call on s and no other.
LEMMA WithMoves ==
    ASSUME NEW t, NEW m, NEW m2, NEW S, NEW s \in LiveStreams(m), NEW f,
           LiveStreams(m2) = LiveStreams(m)
    PROVE  Moved(t, m, m2, S, s, f, With(S, s, f))
<1> DEFINE S2 == With(S, s, f)
<1>1. /\ DOMAIN S2 = DOMAIN S \cup {s} /\ S2[s] = f
      /\ \A x \in DOMAIN S : x # s => S2[x] = S[x]
  BY DEF With
<1> HIDE DEF S2
<1>2. Gone(t, m2) = Gone(t, m) /\ s \notin Gone(t, m)
  BY DEF Gone
<1>3. \A p, x : p # s => (Passed(t, m2, S2, p, x) <=> Passed(t, m, S, p, x))
  BY <1>1, <1>2 DEF Passed
<1>4. \A x : Passed(t, m2, S2, s, x) <=> f.pc # "children" \/ x < f.i
  BY <1>1, <1>2 DEF Passed
<1>5. \A x : x # s => (x \in Told(t, m2, S2) <=> x \in Told(t, m, S))
  BY <1>1, <1>2 DEF Told
<1>6. s \in Told(t, m2, S2) <=> f.pc \in {"regroup", "client", "free"}
  BY <1>1, <1>2 DEF Told
<1>7. \A x : x # s => (x \in Unlisted(t, m2, S2) <=> x \in Unlisted(t, m, S))
  BY <1>1, <1>2 DEF Unlisted
<1>8. s \in Unlisted(t, m2, S2) <=> f.pc = "free"
  BY <1>1, <1>2 DEF Unlisted
<1> QED BY <1>1, <1>2, <1>3, <1>4, <1>5, <1>6, <1>7, <1>8 DEF Moved, S2

\* A call that finds nothing to do returns.
LEMMA StreamAgain ==
    ASSUME NEW t, NEW fn, NEW id, NEW m, NEW S, NEW Q, NEW s,
           Progress(t, fn, id, {s}, {}, m, S, Q), s \notin LiveStreams(m) \/ s \in DOMAIN S
    PROVE  Progress(t, fn, id, {}, {}, m, S, Q)
<1>1. Reached(t, m, S, {s}) \cap LiveStreams(t) \subseteq Reached(t, m, S, {})
  BY DEF Reached, Gone
<1>2. Covered(t, fn, id, {}, {}, m, S, Q)
  BY <1>1, CoveredStep DEF Progress
<1>3. Needed(t, fn, id, {}, {}, m, S, Q)
  BY DEF Progress, Needed, Reached
<1> QED BY <1>2, <1>3 DEF Progress

\* The call that begins with the stream s.
Begun(s) == [Call("streams_delete", s) EXCEPT !.pc = "children"]

\* streams_delete() begins with a stream.
LEMMA StreamBegins ==
    ASSUME NEW t, NEW fn, NEW id, NEW m, NEW S, NEW Q, NEW s \in LiveStreams(m),
           Progress(t, fn, id, {s}, {}, m, S, Q), s \notin DOMAIN S
    PROVE  Progress(t, fn, id, {}, {}, [m EXCEPT !.nstreams = @ - 1], With(S, s, Begun(s)), Q)
<1> DEFINE m2 == [m EXCEPT !.nstreams = @ - 1]
           f  == Begun(s)
           S2 == With(S, s, f)
<1>1. /\ t \in TablesType /\ m \in TablesType /\ s \in SID /\ s \in LiveStreams(t)
      /\ Shaped(t, m, S, Q)
  BY DEF Progress, Shaped, LiveStreams
<1>2. /\ m2 \in TablesType /\ m2.streams = m.streams /\ m2.clients = m.clients
      /\ m2.nstreams = m.nstreams - 1 /\ m2.nclients = m.nclients
      /\ m2.thru = m.thru /\ m2.alive = m.alive
  BY <1>1 DEF TablesType
<1>3. f \in Frame /\ f.fn = "streams_delete" /\ f.id = s /\ f.pc = "children" /\ f.i = 0
  BY <1>1 DEF Begun, Call, Frame
<1> HIDE DEF m2, f
<1>4. LiveStreams(m2) = LiveStreams(m) /\ LiveClients(m2) = LiveClients(m)
  BY <1>2 DEF LiveStreams, LiveClients
<1>5. Moved(t, m, m2, S, s, f, S2)
  BY <1>4, WithMoves
<1> HIDE DEF S2
<1>6. Shaped(t, m2, S2, Q)
  BY <1>1, <1>2, <1>3, <1>4, <1>5 DEF Shaped, StreamCalls, Moved
<1>7. \A x : Passed(t, m, S, s, x) <=> FALSE
  BY <1>5 DEF Moved, Passed
<1>8. \A x \in SID : Passed(t, m2, S2, s, x) <=> FALSE
  BY <1>3, <1>5, TablesAssumption DEF Moved, SID
<1>9. /\ Reached(t, m2, S2, {}) = Reached(t, m, S, {s})
      /\ ReachedC(t, m2, Q, {}) = ReachedC(t, m, Q, {})
  BY <1>4, <1>5 DEF Reached, ReachedC, Moved, Left
<1>10. Needed(t, fn, id, {}, {}, m2, S2, Q)
  BY <1>9 DEF Needed, Progress
<1>11. Covered(t, fn, id, {}, {}, m2, S2, Q)
  <2>1. \A p, x \in LiveStreams(t) : Passed(t, m2, S2, p, x) => Passed(t, m, S, p, x)
    BY <1>5, <1>8 DEF Moved, LiveStreams
  <2>2. \A x \in Told(t, m2, S2) : x \in Told(t, m, S)
    BY <1>3, <1>5 DEF Moved
  <2>3. \A x \in Unlisted(t, m2, S2) : x \in Unlisted(t, m, S)
    BY <1>3, <1>5 DEF Moved
  <2>4. \A c, k : Tried(t, m2, Q, c, k) => Tried(t, m, Q, c, k)
    BY <1>4 DEF Tried, Left
  <2> QED BY <1>9, <2>1, <2>2, <2>3, <2>4, CoveredStep DEF Progress
<1>12. StreamsSame(t, m2, S2)
  <2>1. \A x \in SID : Erased(t, m2, S2, x) <=> Erased(t, m, S, x)
    BY <1>5, <1>7, <1>8 DEF Moved, Erased
  <2>2. \A x \in LiveStreams(m2) \ DOMAIN S2 :
          m2.streams[x] = IF Erased(t, m2, S2, x) THEN Unrelated(t.streams[x]) ELSE t.streams[x]
    BY <1>2, <1>4, <1>5, <2>1 DEF Progress, StreamsSame, Moved, LiveStreams
  <2>3. t.streams[s] \in Stream
    BY <1>1 DEF TablesType, LiveStreams
  <2>4. t.streams[s].virtual => ~ Erased(t, m, S, s)
    BY <1>7 DEF Erased, Dependent
  <2>5. m.streams[s] = IF Erased(t, m, S, s) THEN Unrelated(t.streams[s]) ELSE t.streams[s]
    BY DEF Progress, StreamsSame
  <2>6. /\ m.streams[s].dir = t.streams[s].dir
        /\ m.streams[s].virtual = t.streams[s].virtual
        /\ m.streams[s].primary = t.streams[s].primary
        /\ m.streams[s].client = t.streams[s].client
        /\ t.streams[s].virtual => m.streams[s].pos_rel_id = t.streams[s].pos_rel_id
    BY <2>3, <2>4, <2>5 DEF Unrelated, Stream
  <2> QED BY <1>2, <1>3, <1>5, <2>2, <2>6 DEF Progress, StreamsSame, Moved
<1>13. ClientsSame(t, m2, S2, Q)
  <2>1. Unlisted(t, m2, S2) = Unlisted(t, m, S)
    BY <1>3, <1>5 DEF Moved, Unlisted
  <2> QED BY <1>2, <1>4, <2>1 DEF Progress, ClientsSame
<1>14. CountedOff(t, m2, S2, Q)
  <2> DEFINE G == Gone(t, m) \cup DOMAIN S
  <2>1. G \in SUBSET SID /\ s \notin G
    BY <1>1, <1>5 DEF Shaped, StreamCalls, Gone, LiveStreams, Moved
  <2>2. Cardinality(G \cup {s}) = Cardinality(G) + 1
    BY <2>1, IdsFinite, FS_AddElement
  <2>3. Gone(t, m2) \cup DOMAIN S2 = G \cup {s}
    BY <1>5 DEF Moved
  <2>4. {x \in DOMAIN S2 : S2[x].pc # "children"} = {x \in DOMAIN S : S[x].pc # "children"}
    BY <1>3, <1>5 DEF Moved
  <2>5. Cardinality(G) \in Nat /\ t.nstreams \in Int /\ m.nstreams = t.nstreams - Cardinality(G)
    BY <1>1, <2>1, IdsFinite DEF Progress, CountedOff, TablesType
  <2> HIDE DEF G
  <2>6. m2.nstreams = t.nstreams - Cardinality(Gone(t, m2) \cup DOMAIN S2)
    <3>1. Cardinality(Gone(t, m2) \cup DOMAIN S2) = Cardinality(G) + 1
      BY <2>2, <2>3
    <3> QED BY ONLY <1>2, <2>5, <3>1
  <2>7. Left(t, m2) = Left(t, m) /\ Gone(t, m2) = Gone(t, m)
    BY <1>4, <1>5 DEF Left, Moved
  <2> QED BY <1>2, <2>4, <2>6, <2>7 DEF Progress, CountedOff
<1> QED BY <1>6, <1>10, <1>11, <1>12, <1>13, <1>14 DEF Progress, m2, f, S2

\* A call of streams_delete() goes on as f, and frees nothing: what it leaves
\* behind it is reached, and what it calls has to go.
LEMMA StreamStep ==
    ASSUME NEW t, NEW fn, NEW id, NEW m, NEW S, NEW Q, NEW s \in DOMAIN S,
           NEW f \in Frame, NEW m2 \in TablesType, NEW PS, NEW PC,
           Progress(t, fn, id, {}, {}, m, S, Q),
           f.fn = "streams_delete", f.id = s,
           f.pc \in {"children", "virtual", "regroup", "client", "free"},
           LiveStreams(m2) = LiveStreams(m), LiveClients(m2) = LiveClients(m),
           PS \cap LiveStreams(t) \subseteq Doomed(t, Roots(t, fn, id)),
           PC \cap LiveClients(t) \subseteq Lost(t, fn, id), PC \cap DOMAIN Q = {},
           \A x \in LiveStreams(t) :
                Dependent(t, x, s) /\ (f.pc # "children" \/ x < f.i) =>
                    S[s].pc # "children" \/ x < S[s].i \/ x \in Reached(t, m, S, PS),
           \A p \in LiveStreams(t) :
                TakesParent(t, s, p) /\ f.pc \in {"regroup", "client", "free"} =>
                    S[s].pc \in {"regroup", "client", "free"} \/ p \in Reached(t, m, S, PS),
           \A c \in CID :
                ExecedBy(t, s, c) /\ f.pc = "free" =>
                    S[s].pc = "free" \/ c \in ReachedC(t, m, Q, PC)
    PROVE  LET S2 == With(S, s, f) IN
           /\ Moved(t, m, m2, S, s, f, S2)
           /\ Shaped(t, m2, S2, Q)
           /\ Needed(t, fn, id, PS, PC, m2, S2, Q)
           /\ Covered(t, fn, id, PS, PC, m2, S2, Q)
<1> DEFINE S2 == With(S, s, f)
<1>1. /\ Shaped(t, m, S, Q) /\ s \in LiveStreams(m) /\ s \in SID /\ s \in LiveStreams(t)
  BY DEF Progress, Shaped, StreamCalls
<1>2. Moved(t, m, m2, S, s, f, S2)
  BY <1>1, WithMoves
<1> HIDE DEF S2
<1>3. DOMAIN S2 = DOMAIN S
  BY <1>2 DEF Moved
<1>4. Shaped(t, m2, S2, Q)
  BY <1>1, <1>2, <1>3 DEF Shaped, StreamCalls, Moved
<1>5. /\ Reached(t, m2, S2, PS) = Reached(t, m, S, PS)
      /\ ReachedC(t, m2, Q, PC) = ReachedC(t, m, Q, PC)
  BY <1>2, <1>3 DEF Reached, ReachedC, Moved, Left
<1>6. Needed(t, fn, id, PS, PC, m2, S2, Q)
  BY <1>5 DEF Needed, Progress, Reached, ReachedC
<1>7. Reached(t, m, S, {}) \subseteq Reached(t, m2, S2, PS)
      /\ ReachedC(t, m, Q, {}) \subseteq ReachedC(t, m2, Q, PC)
  BY <1>5 DEF Reached, ReachedC
<1>8. ASSUME NEW p \in LiveStreams(t), NEW x \in LiveStreams(t),
             Passed(t, m2, S2, p, x), Dependent(t, x, p)
      PROVE  Passed(t, m, S, p, x) \/ x \in Reached(t, m2, S2, PS)
  <2>1. CASE p # s
    BY <1>2, <1>8, <2>1 DEF Moved
  <2>2. CASE p = s
    BY <1>2, <1>5, <1>8, <2>2 DEF Moved, Passed
  <2> QED BY <2>1, <2>2
<1>9. ASSUME NEW x \in Told(t, m2, S2), NEW p \in LiveStreams(t), TakesParent(t, x, p)
      PROVE  x \in Told(t, m, S) \/ p \in Reached(t, m2, S2, PS)
  BY <1>2, <1>5, <1>9 DEF Moved, Told
<1>10. ASSUME NEW x \in Unlisted(t, m2, S2), NEW c \in CID, ExecedBy(t, x, c)
       PROVE  x \in Unlisted(t, m, S) \/ c \in ReachedC(t, m2, Q, PC)
  BY <1>2, <1>5, <1>10 DEF Moved, Unlisted
<1>11. \A c, k : Tried(t, m2, Q, c, k) => Tried(t, m, Q, c, k)
  BY DEF Tried, Left
<1>12. Covered(t, fn, id, PS, PC, m2, S2, Q)
  BY <1>7, <1>8, <1>9, <1>10, <1>11, CoveredStep DEF Progress
<1> QED BY <1>2, <1>4, <1>6, <1>12 DEF S2

\* Clients and counters stay as they are between the loop over the dependants
\* of a stream and its removal from its client.
LEMMA StreamRest ==
    ASSUME NEW t, NEW fn, NEW id, NEW m, NEW S, NEW Q, NEW s \in DOMAIN S,
           NEW f, NEW m2, NEW S2,
           Progress(t, fn, id, {}, {}, m, S, Q), Moved(t, m, m2, S, s, f, S2),
           m2.clients = m.clients, m2.nstreams = m.nstreams, m2.nclients = m.nclients,
           m2.alive = m.alive, m2.thru = m.thru,
           f.pc # "free", S[s].pc # "free", f.pc = "children" <=> S[s].pc = "children"
    PROVE  ClientsSame(t, m2, S2, Q) /\ CountedOff(t, m2, S2, Q)
<1>1. LiveClients(m2) = LiveClients(m)
  BY DEF LiveClients
<1>2. Gone(t, m2) = Gone(t, m) /\ Left(t, m2) = Left(t, m) /\ DOMAIN S2 = DOMAIN S
  BY <1>1 DEF Moved, Left
<1>3. Unlisted(t, m2, S2) = Unlisted(t, m, S)
  BY <1>2 DEF Moved, Unlisted
<1>4. {x \in DOMAIN S2 : S2[x].pc # "children"} = {x \in DOMAIN S : S[x].pc # "children"}
  BY <1>2 DEF Moved
<1>5. ClientsSame(t, m2, S2, Q)
  BY <1>1, <1>3 DEF Progress, ClientsSame
<1>6. CountedOff(t, m2, S2, Q)
  BY <1>2, <1>4 DEF Progress, CountedOff
<1> QED BY <1>5, <1>6

\* A stream that s has not looked at yet is relative to s if it was at first.
LEMMA RelationSame ==
    ASSUME NEW t, NEW fn, NEW id, NEW m, NEW S, NEW Q, NEW s \in DOMAIN S,
           NEW i \in LiveStreams(m) \ DOMAIN S,
           Progress(t, fn, id, {}, {}, m, S, Q), S[s].pc = "children", ~ (i < S[s].i)
    PROVE  /\ m.streams[i].pos_rel_id = s <=> t.streams[i].pos_rel_id = s
           /\ t.streams[i].pos_rel_id = s => m.streams[i] = t.streams[i]
           /\ m.streams[i].dir = t.streams[i].dir
           /\ m.streams[i].virtual = t.streams[i].virtual
           /\ Dependent(m, i, s) <=> Dependent(t, i, s)
<1>1. s \in SID /\ s \in LiveStreams(m) /\ s # None
  BY NoneIsNoStream DEF Progress, Shaped, StreamCalls
<1>2. t.streams[i] \in Stream
  BY DEF Progress, Shaped, TablesType, LiveStreams
<1>3. m.streams[i] = IF Erased(t, m, S, i) THEN Unrelated(t.streams[i]) ELSE t.streams[i]
  BY DEF Progress, StreamsSame
<1>4. t.streams[i].pos_rel_id = s => ~ Erased(t, m, S, i)
  BY <1>1 DEF Erased, Passed, Gone
<1>5. /\ m.streams[i].pos_rel_id = s <=> t.streams[i].pos_rel_id = s
      /\ t.streams[i].pos_rel_id = s => m.streams[i] = t.streams[i]
      /\ m.streams[i].dir = t.streams[i].dir
      /\ m.streams[i].virtual = t.streams[i].virtual
  BY <1>1, <1>2, <1>3, <1>4 DEF Unrelated, Stream
<1> QED BY <1>5 DEF Dependent

\* What the other streams lose while s looks at the stream i.
LEMMA NextErased ==
    ASSUME NEW t, NEW fn, NEW id, NEW m, NEW S, NEW Q, NEW s \in DOMAIN S,
           NEW f, NEW m2, NEW S2,
           Progress(t, fn, id, {}, {}, m, S, Q), Moved(t, m, m2, S, s, f, S2),
           S[s].pc = "children", f.pc = "children", f.i = S[s].i + 1
    PROVE  /\ \A x \in LiveStreams(m) : x # S[s].i \/ t.streams[x].pos_rel_id # s =>
                (Erased(t, m2, S2, x) <=> Erased(t, m, S, x))
           /\ \A x \in LiveStreams(m) : x = S[s].i /\ t.streams[x].pos_rel_id = s =>
                (Erased(t, m2, S2, x) <=> ~ Dependent(t, x, s))
<1>1. S[s].i \in Nat /\ s \in LiveStreams(m)
  BY DEF Progress, Shaped, StreamCalls, Frame
<1>2. \A x \in LiveStreams(m) : x \in Int
  BY TablesAssumption DEF LiveStreams, SID
<1>3. \A x : Passed(t, m, S, s, x) <=> x < S[s].i
  BY <1>1 DEF Passed, Gone
<1>4. \A x \in LiveStreams(m) : Passed(t, m2, S2, s, x) <=> x < S[s].i \/ x = S[s].i
  BY <1>1, <1>2 DEF Moved
<1>5. \A p, x : p # s => (Passed(t, m2, S2, p, x) <=> Passed(t, m, S, p, x))
  BY DEF Moved
<1>6. \A x \in LiveStreams(m) : x # S[s].i \/ t.streams[x].pos_rel_id # s =>
        (Passed(t, m2, S2, t.streams[x].pos_rel_id, x)
            <=> Passed(t, m, S, t.streams[x].pos_rel_id, x))
  BY <1>3, <1>4, <1>5
<1>7. \A x \in LiveStreams(m) : x = S[s].i /\ t.streams[x].pos_rel_id = s =>
        Passed(t, m2, S2, t.streams[x].pos_rel_id, x)
  BY <1>4
<1> QED BY <1>6, <1>7 DEF Erased

\* A dependent stream is called for.
LEMMA ChildCalled ==
    ASSUME NEW t, NEW fn, NEW id, NEW m, NEW S, NEW Q, NEW s \in DOMAIN S,
           Progress(t, fn, id, {}, {}, m, S, Q), S[s].pc = "children",
           S[s].i \in LiveStreams(m), Dependent(m, S[s].i, s)
    PROVE  Progress(t, fn, id, {S[s].i}, {}, m, With(S, s, [S[s] EXCEPT !.i = @ + 1]), Q)
<1> DEFINE i == S[s].i
           f == [S[s] EXCEPT !.i = @ + 1]
           S2 == With(S, s, f)
<1>1. /\ m \in TablesType /\ S[s] \in Frame /\ S[s].fn = "streams_delete" /\ S[s].id = s
      /\ i \in Nat /\ s \in LiveStreams(t) /\ i \in LiveStreams(t)
  BY DEF Progress, Shaped, StreamCalls, Frame
<1>2. /\ f \in Frame /\ f.fn = "streams_delete" /\ f.id = s /\ f.pc = "children" /\ f.i = i + 1
  BY <1>1 DEF Frame
<1> HIDE DEF f, i
<1>3. i \notin DOMAIN S => Dependent(t, i, s)
  <2>1. ~ (i < S[s].i)
    BY <1>1 DEF i
  <2> QED BY <2>1, RelationSame DEF i
<1>4. i \in Doomed(t, Roots(t, fn, id))
  <2>1. CASE i \in DOMAIN S
    BY <1>1, <2>1 DEF Progress, Needed, Reached
  <2>2. CASE i \notin DOMAIN S
    <3>1. s \in Doomed(t, Roots(t, fn, id))
      BY <1>1 DEF Progress, Needed, Reached
    <3> QED BY <1>1, <1>3, <2>2, <3>1, TriggersDoom DEF Triggers
  <2> QED BY <2>1, <2>2
<1>5. \A x \in LiveStreams(t) : x < f.i => x < S[s].i \/ x = i
  <2>1. \A x \in LiveStreams(t) : x \in Int
    BY TablesAssumption DEF LiveStreams, SID
  <2> QED BY <1>1, <1>2, <2>1 DEF i
<1>6. /\ Moved(t, m, m, S, s, f, S2) /\ Shaped(t, m, S2, Q)
      /\ Needed(t, fn, id, {i}, {}, m, S2, Q) /\ Covered(t, fn, id, {i}, {}, m, S2, Q)
  <2>1. \A x \in LiveStreams(t) :
            Dependent(t, x, s) /\ (f.pc # "children" \/ x < f.i) =>
                S[s].pc # "children" \/ x < S[s].i \/ x \in Reached(t, m, S, {i})
    BY <1>2, <1>5 DEF Reached
  <2>2. f.pc \notin {"regroup", "client", "free"} /\ f.pc # "free"
        /\ f.pc \in {"children", "virtual", "regroup", "client", "free"}
    BY <1>2
  <2>3. /\ {i} \cap LiveStreams(t) \subseteq Doomed(t, Roots(t, fn, id))
        /\ {} \cap LiveClients(t) \subseteq Lost(t, fn, id) /\ {} \cap DOMAIN Q = {}
    BY <1>4
  <2> QED BY <1>1, <1>2, <2>1, <2>2, <2>3, StreamStep
<1> HIDE DEF S2
<1>7. ClientsSame(t, m, S2, Q) /\ CountedOff(t, m, S2, Q)
  BY <1>2, <1>6, StreamRest
<1>8. StreamsSame(t, m, S2)
  <2>1. DOMAIN S2 = DOMAIN S
    BY <1>6 DEF Moved
  <2>2. \A x \in LiveStreams(m) : x # S[s].i \/ t.streams[x].pos_rel_id # s =>
            (Erased(t, m, S2, x) <=> Erased(t, m, S, x))
    BY <1>2, <1>6, NextErased DEF i
  <2>3. i \in LiveStreams(m) \ DOMAIN S => ~ Erased(t, m, S, i) /\ ~ Erased(t, m, S2, i)
    BY <1>3 DEF Erased, Dependent
  <2>4. \A x \in LiveStreams(m) \ DOMAIN S : Erased(t, m, S2, x) <=> Erased(t, m, S, x)
    BY <2>2, <2>3 DEF i
  <2> QED BY <1>2, <1>6, <2>1, <2>4 DEF Progress, StreamsSame, Moved
<1> QED BY <1>6, <1>7, <1>8 DEF Progress, S2, f, i

\* The stream i, if it is relative to s and does not depend on it, forgets s.
Forgets(m, s, i) ==
    IF /\ i \in LiveStreams(m)
       /\ m.streams[i].pos_rel_id = s
       /\ m.streams[i].dir \notin {"THRU", "RAW_IN"}
       /\ ~ m.streams[i].virtual
    THEN [m EXCEPT !.streams[i].pos_rel_id = None]
    ELSE m

\* What that leaves in the tables.
LEMMA ForgetsLeaves ==
    ASSUME NEW m \in TablesType, NEW s, NEW i
    PROVE  LET u == Forgets(m, s, i) IN
           /\ u \in TablesType
           /\ LiveStreams(u) = LiveStreams(m) /\ LiveClients(u) = LiveClients(m)
           /\ u.clients = m.clients /\ u.nstreams = m.nstreams /\ u.nclients = m.nclients
           /\ u.thru = m.thru /\ u.alive = m.alive
           /\ \A x \in LiveStreams(m) :
                /\ x # i => u.streams[x] = m.streams[x]
                /\ u.streams[x] = m.streams[x] \/ u.streams[x] = Unrelated(m.streams[x])
                /\ m.streams[x].virtual => u.streams[x] = m.streams[x]
                /\ (/\ x = i /\ m.streams[i].pos_rel_id = s
                    /\ m.streams[i].dir \notin {"THRU", "RAW_IN"}
                    /\ ~ m.streams[i].virtual) => u.streams[x] = Unrelated(m.streams[x])
           /\ i \in LiveStreams(m) /\ m.streams[i].pos_rel_id # s => u = m
<1> DEFINE u == Forgets(m, s, i)
           r == Unrelated(m.streams[i])
<1>1. CASE u = m /\ ~ (/\ i \in LiveStreams(m) /\ m.streams[i].pos_rel_id = s
                       /\ m.streams[i].dir \notin {"THRU", "RAW_IN"}
                       /\ ~ m.streams[i].virtual)
  BY <1>1
<1>2. CASE /\ i \in LiveStreams(m) /\ m.streams[i].pos_rel_id = s
           /\ m.streams[i].dir \notin {"THRU", "RAW_IN"}
           /\ ~ m.streams[i].virtual
  <2>1. m.streams[i] \in Stream /\ i \in SID
    BY <1>2 DEF TablesType, LiveStreams
  <2>2. r \in Stream
    BY <2>1 DEF Unrelated, Stream
  <2>3. u = Put(m, i, r)
    BY <1>2, <2>1 DEF Forgets, Put, Unrelated, TablesType
  <2> HIDE DEF u, r
  <2>4. LiveStreams(m) \subseteq SID
    BY DEF LiveStreams
  <2> QED BY <1>2, <2>2, <2>3, <2>4, PutLeaves DEF u, r
<1>3. ~ (/\ i \in LiveStreams(m) /\ m.streams[i].pos_rel_id = s
         /\ m.streams[i].dir \notin {"THRU", "RAW_IN"}
         /\ ~ m.streams[i].virtual) => u = m
  BY DEF Forgets
<1> QED BY <1>1, <1>2, <1>3

\* A stream that is not called for is passed.
LEMMA ChildPassed ==
    ASSUME NEW t, NEW fn, NEW id, NEW m, NEW S, NEW Q, NEW s \in DOMAIN S,
           Progress(t, fn, id, {}, {}, m, S, Q), S[s].pc = "children",
           ~ (S[s].i \in LiveStreams(m) /\ Dependent(m, S[s].i, s))
    PROVE  Progress(t, fn, id, {}, {}, Forgets(m, s, S[s].i),
                    With(S, s, [S[s] EXCEPT !.i = @ + 1]), Q)
<1> DEFINE i == S[s].i
           f == [S[s] EXCEPT !.i = @ + 1]
           S2 == With(S, s, f)
           m2 == Forgets(m, s, i)
<1>1. /\ m \in TablesType /\ S[s] \in Frame /\ S[s].fn = "streams_delete" /\ S[s].id = s
      /\ i \in Nat /\ s \in LiveStreams(t) /\ LiveStreams(m) \subseteq LiveStreams(t)
      /\ t \in TablesType
  BY DEF Progress, Shaped, StreamCalls, Frame
<1>2. /\ f \in Frame /\ f.fn = "streams_delete" /\ f.id = s /\ f.pc = "children" /\ f.i = i + 1
  BY <1>1 DEF Frame
<1> HIDE DEF f, i
<1>3. /\ m2 \in TablesType
      /\ LiveStreams(m2) = LiveStreams(m) /\ LiveClients(m2) = LiveClients(m)
      /\ m2.clients = m.clients /\ m2.nstreams = m.nstreams /\ m2.nclients = m.nclients
      /\ m2.thru = m.thru /\ m2.alive = m.alive
      /\ \A x \in LiveStreams(m) :
            /\ x # i => m2.streams[x] = m.streams[x]
            /\ m2.streams[x] = m.streams[x] \/ m2.streams[x] = Unrelated(m.streams[x])
            /\ m.streams[x].virtual => m2.streams[x] = m.streams[x]
            /\ (/\ x = i /\ m.streams[i].pos_rel_id = s
                /\ m.streams[i].dir \notin {"THRU", "RAW_IN"}
                /\ ~ m.streams[i].virtual) => m2.streams[x] = Unrelated(m.streams[x])
      /\ i \in LiveStreams(m) /\ m.streams[i].pos_rel_id # s => m2 = m
  BY <1>1, ForgetsLeaves
<1> HIDE DEF m2
<1>4. i \in LiveStreams(m) \ DOMAIN S =>
        /\ m.streams[i].pos_rel_id = s <=> t.streams[i].pos_rel_id = s
        /\ t.streams[i].pos_rel_id = s => m.streams[i] = t.streams[i]
        /\ ~ Dependent(t, i, s)
  <2>1. ~ (i < S[s].i)
    BY <1>1 DEF i
  <2> QED BY <2>1, RelationSame DEF i
<1>5. \A x \in LiveStreams(t) : x < f.i => x < S[s].i \/ x = i
  <2>1. \A x \in LiveStreams(t) : x \in Int
    BY TablesAssumption DEF LiveStreams, SID
  <2> QED BY <1>1, <1>2, <2>1 DEF i
<1>6. /\ Moved(t, m, m2, S, s, f, S2) /\ Shaped(t, m2, S2, Q)
      /\ Needed(t, fn, id, {}, {}, m2, S2, Q) /\ Covered(t, fn, id, {}, {}, m2, S2, Q)
  <2>1. \A x \in LiveStreams(t) :
            Dependent(t, x, s) /\ (f.pc # "children" \/ x < f.i) =>
                S[s].pc # "children" \/ x < S[s].i \/ x \in Reached(t, m, S, {})
    BY <1>2, <1>4, <1>5 DEF Reached, Gone
  <2>2. f.pc \notin {"regroup", "client", "free"} /\ f.pc # "free"
        /\ f.pc \in {"children", "virtual", "regroup", "client", "free"}
    BY <1>2
  <2>3. /\ {} \cap LiveStreams(t) \subseteq Doomed(t, Roots(t, fn, id))
        /\ {} \cap LiveClients(t) \subseteq Lost(t, fn, id) /\ {} \cap DOMAIN Q = {}
    OBVIOUS
  <2> QED BY <1>2, <1>3, <2>1, <2>2, <2>3, StreamStep
<1> HIDE DEF S2
<1>7. ClientsSame(t, m2, S2, Q) /\ CountedOff(t, m2, S2, Q)
  BY <1>2, <1>3, <1>6, StreamRest
<1>8. StreamsSame(t, m2, S2)
  <2>1. DOMAIN S2 = DOMAIN S
    BY <1>6 DEF Moved
  <2>2. /\ \A x \in LiveStreams(m) : x # i \/ t.streams[x].pos_rel_id # s =>
            (Erased(t, m2, S2, x) <=> Erased(t, m, S, x))
        /\ \A x \in LiveStreams(m) : x = i /\ t.streams[x].pos_rel_id = s =>
            (Erased(t, m2, S2, x) <=> ~ Dependent(t, x, s))
    BY <1>2, <1>6, NextErased DEF i
  <2>3. \A x \in LiveStreams(m) \ DOMAIN S :
            m.streams[x] = IF Erased(t, m, S, x) THEN Unrelated(t.streams[x]) ELSE t.streams[x]
    BY DEF Progress, StreamsSame
  <2>4. ASSUME NEW x \in LiveStreams(m) \ DOMAIN S
        PROVE  m2.streams[x] = IF Erased(t, m2, S2, x) THEN Unrelated(t.streams[x]) ELSE t.streams[x]
    <3>1. CASE x # i
      BY <1>3, <2>2, <2>3, <3>1
    <3>2. CASE x = i /\ t.streams[x].pos_rel_id # s
      BY <1>3, <1>4, <2>2, <2>3, <3>2
    <3>3. CASE x = i /\ t.streams[x].pos_rel_id = s
      <4>1. m.streams[i] = t.streams[i] /\ ~ Dependent(t, i, s) /\ i # s
        BY <1>4, <3>3
      <4>2. m.streams[i].dir \notin {"THRU", "RAW_IN"} /\ ~ m.streams[i].virtual
        BY <3>3, <4>1 DEF Dependent
      <4> QED BY <1>3, <2>2, <3>3, <4>1, <4>2
    <3> QED BY <3>1, <3>2, <3>3
  <2>5. ASSUME NEW x \in DOMAIN S
        PROVE  /\ m2.streams[x].dir = m.streams[x].dir
               /\ m2.streams[x].virtual = m.streams[x].virtual
               /\ m2.streams[x].primary = m.streams[x].primary
               /\ m2.streams[x].client = m.streams[x].client
               /\ m.streams[x].virtual => m2.streams[x].pos_rel_id = m.streams[x].pos_rel_id
    <3>1. x \in LiveStreams(m) /\ m.streams[x] \in Stream
      BY <1>1 DEF Progress, Shaped, TablesType, LiveStreams
    <3> QED BY <1>3, <3>1 DEF Unrelated, Stream
  <2>6. \A x \in DOMAIN S : S2[x].pc = S[x].pc /\ S2[x].rel = S[x].rel /\ S2[x].client = S[x].client
    <3>1. f.rel = S[s].rel /\ f.client = S[s].client /\ f.pc = S[s].pc
      BY <1>1 DEF f, Frame
    <3> QED BY <1>6, <3>1 DEF Moved
  <2> QED BY <1>3, <2>1, <2>4, <2>5, <2>6 DEF Progress, StreamsSame
<1> QED BY <1>6, <1>7, <1>8 DEF Progress, S2, f, i, m2

\* The loop over the dependants is done.
LEMMA ChildrenDone ==
    ASSUME NEW t, NEW fn, NEW id, NEW m, NEW S, NEW Q, NEW s \in DOMAIN S,
           Progress(t, fn, id, {}, {}, m, S, Q), S[s].pc = "children", S[s].i = STREAMS_MAX
    PROVE  Progress(t, fn, id, {}, {},
                    [m EXCEPT !.thru = IF m.streams[s].dir = "THRU" THEN @ - 1 ELSE @],
                    With(S, s, [S[s] EXCEPT !.pc = "virtual"]), Q)
<1> DEFINE f == [S[s] EXCEPT !.pc = "virtual"]
           S2 == With(S, s, f)
           m2 == [m EXCEPT !.thru = IF m.streams[s].dir = "THRU" THEN @ - 1 ELSE @]
<1>1. /\ m \in TablesType /\ S[s] \in Frame /\ S[s].fn = "streams_delete" /\ S[s].id = s
      /\ s \in LiveStreams(t) /\ LiveStreams(m) \subseteq LiveStreams(t) /\ t \in TablesType
      /\ s \in LiveStreams(m) /\ DOMAIN S \subseteq SID
  BY DEF Progress, Shaped, StreamCalls
<1>2. /\ f \in Frame /\ f.fn = "streams_delete" /\ f.id = s /\ f.pc = "virtual"
      /\ f.rel = S[s].rel /\ f.client = S[s].client
  BY <1>1 DEF Frame
<1>3. /\ m2 \in TablesType /\ m2.streams = m.streams /\ m2.clients = m.clients
      /\ m2.nstreams = m.nstreams /\ m2.nclients = m.nclients /\ m2.alive = m.alive
      /\ m2.thru = IF m.streams[s].dir = "THRU" THEN m.thru - 1 ELSE m.thru
  BY <1>1 DEF TablesType
<1> HIDE DEF f, m2
<1>4. LiveStreams(m2) = LiveStreams(m) /\ LiveClients(m2) = LiveClients(m)
  BY <1>3 DEF LiveStreams, LiveClients
<1>5. \A x \in SID : x < S[s].i
  BY TablesAssumption DEF SID
<1>6. /\ Moved(t, m, m2, S, s, f, S2) /\ Shaped(t, m2, S2, Q)
      /\ Needed(t, fn, id, {}, {}, m2, S2, Q) /\ Covered(t, fn, id, {}, {}, m2, S2, Q)
  <2>1. \A x \in LiveStreams(t) :
            Dependent(t, x, s) /\ (f.pc # "children" \/ x < f.i) =>
                S[s].pc # "children" \/ x < S[s].i \/ x \in Reached(t, m, S, {})
    BY <1>5 DEF LiveStreams
  <2>2. f.pc \notin {"regroup", "client", "free"} /\ f.pc # "free"
        /\ f.pc \in {"children", "virtual", "regroup", "client", "free"}
    BY <1>2
  <2>3. /\ {} \cap LiveStreams(t) \subseteq Doomed(t, Roots(t, fn, id))
        /\ {} \cap LiveClients(t) \subseteq Lost(t, fn, id) /\ {} \cap DOMAIN Q = {}
    OBVIOUS
  <2> QED BY <1>2, <1>3, <1>4, <2>1, <2>2, <2>3, StreamStep
<1> HIDE DEF S2
<1>7. DOMAIN S2 = DOMAIN S /\ Gone(t, m2) = Gone(t, m) /\ Left(t, m2) = Left(t, m)
  BY <1>4, <1>6 DEF Moved, Left
<1>8. ClientsSame(t, m2, S2, Q)
  <2>1. Unlisted(t, m2, S2) = Unlisted(t, m, S)
    BY <1>2, <1>6, <1>7 DEF Moved, Unlisted
  <2> QED BY <1>3, <1>4, <2>1 DEF Progress, ClientsSame
<1>9. StreamsSame(t, m2, S2)
  <2>1. \A x \in LiveStreams(m) : Passed(t, m2, S2, s, x) <=> Passed(t, m, S, s, x)
    BY <1>2, <1>5, <1>6 DEF Moved, Passed, LiveStreams
  <2>2. \A x \in LiveStreams(m) : Erased(t, m2, S2, x) <=> Erased(t, m, S, x)
    BY <1>6, <2>1 DEF Moved, Erased
  <2> QED BY <1>2, <1>3, <1>4, <1>6, <1>7, <2>2 DEF Progress, StreamsSame, Moved
<1>10. CountedOff(t, m2, S2, Q)
  <2> DEFINE A == Gone(t, m) \cup {x \in DOMAIN S : S[x].pc # "children"}
             T == {x \in A : t.streams[x].dir = "THRU"}
  <2>1. A \in SUBSET SID /\ s \notin A
    BY <1>1 DEF Gone, LiveStreams
  <2>2. {x \in DOMAIN S2 : S2[x].pc # "children"} = {x \in DOMAIN S : S[x].pc # "children"} \cup {s}
    BY <1>2, <1>6 DEF Moved
  <2>3. Gone(t, m2) \cup {x \in DOMAIN S2 : S2[x].pc # "children"} = A \cup {s}
    BY <1>7, <2>2
  <2>4. T \in SUBSET SID /\ s \notin T /\ Cardinality(T) \in Nat
        /\ Cardinality(T \cup {s}) = Cardinality(T) + 1
    BY <2>1, IdsFinite, FS_AddElement
  <2>5. {x \in A \cup {s} : t.streams[x].dir = "THRU"} =
            IF t.streams[s].dir = "THRU" THEN T \cup {s} ELSE T
    OBVIOUS
  <2>6. /\ ThruAmong(t, A) = Cardinality(T)
        /\ ThruAmong(t, A \cup {s}) =
            IF t.streams[s].dir = "THRU" THEN Cardinality(T) + 1 ELSE Cardinality(T)
    BY <2>4, <2>5 DEF ThruAmong
  <2>7. m.thru = t.thru - ThruAmong(t, A) /\ m.streams[s].dir = t.streams[s].dir /\ t.thru \in Int
    BY <1>1 DEF Progress, CountedOff, StreamsSame, TablesType
  <2> HIDE DEF A, T
  <2>8. m2.thru = t.thru - ThruAmong(t, A \cup {s})
    BY ONLY <1>3, <2>4, <2>6, <2>7
  <2> QED BY <1>3, <1>7, <2>3, <2>8 DEF Progress, CountedOff
<1> QED BY <1>6, <1>8, <1>9, <1>10 DEF Progress, S2, f, m2

\* From the end of that loop on no other stream loses a relation to s.
LEMMA PassedSame ==
    ASSUME NEW t, NEW m, NEW S, NEW s \in DOMAIN S, NEW f, NEW m2, NEW S2,
           Moved(t, m, m2, S, s, f, S2), S[s].pc # "children", f.pc # "children"
    PROVE  \A x : Erased(t, m2, S2, x) <=> Erased(t, m, S, x)
<1>1. \A x : Passed(t, m2, S2, s, x) <=> Passed(t, m, S, s, x)
  BY DEF Moved, Passed
<1> QED BY <1>1 DEF Moved, Erased

\* The entry of s is changed between the loop over its dependants and its
\* removal from its client.
LEMMA StreamPut ==
    ASSUME NEW t, NEW fn, NEW id, NEW m, NEW S, NEW Q, NEW s \in DOMAIN S,
           Progress(t, fn, id, {}, {}, m, S, Q), S[s].pc \in {"virtual", "regroup"},
           NEW f \in Frame, f.fn = "streams_delete", f.id = s, f.pc \in {"regroup", "client"},
           NEW r \in Stream, r.dir = m.streams[s].dir,
           r.virtual = m.streams[s].virtual, r.primary = m.streams[s].primary,
           IF f.pc = "regroup"
           THEN f.rel = t.streams[s].pos_rel_id /\ f.client = t.streams[s].client
           ELSE /\ r.client = t.streams[s].client
                /\ t.streams[s].virtual => r.pos_rel_id = t.streams[s].pos_rel_id,
           NEW PS, PS \cap LiveStreams(t) \subseteq Doomed(t, Roots(t, fn, id)),
           \A p \in LiveStreams(t) :
                TakesParent(t, s, p) => S[s].pc = "regroup" \/ p \in Reached(t, m, S, PS)
    PROVE  Progress(t, fn, id, PS, {}, Put(m, s, r), With(S, s, f), Q)
<1> DEFINE S2 == With(S, s, f)
           m2 == Put(m, s, r)
<1>1. /\ m \in TablesType /\ s \in LiveStreams(t) /\ s \in LiveStreams(m) /\ s \in SID
      /\ DOMAIN S \subseteq SID
  BY DEF Progress, Shaped, StreamCalls
<1>2. /\ m2 \in TablesType /\ m2.streams[s] = r /\ m2.clients = m.clients
      /\ \A x \in SID \ {s} : m2.streams[x] = m.streams[x]
      /\ m2.nstreams = m.nstreams /\ m2.nclients = m.nclients /\ m2.alive = m.alive
      /\ m2.thru = m.thru
      /\ LiveStreams(m2) = LiveStreams(m) /\ LiveClients(m2) = LiveClients(m)
  BY <1>1, PutLeaves
<1> HIDE DEF m2
<1>3. /\ Moved(t, m, m2, S, s, f, S2) /\ Shaped(t, m2, S2, Q)
      /\ Needed(t, fn, id, PS, {}, m2, S2, Q) /\ Covered(t, fn, id, PS, {}, m2, S2, Q)
  <2>1. \A x \in LiveStreams(t) :
            Dependent(t, x, s) /\ (f.pc # "children" \/ x < f.i) =>
                S[s].pc # "children" \/ x < S[s].i \/ x \in Reached(t, m, S, PS)
    OBVIOUS
  <2>2. f.pc # "free" /\ f.pc \in {"children", "virtual", "regroup", "client", "free"}
    OBVIOUS
  <2>3. {} \cap LiveClients(t) \subseteq Lost(t, fn, id) /\ {} \cap DOMAIN Q = {}
    OBVIOUS
  <2>4. \A p \in LiveStreams(t) :
            TakesParent(t, s, p) /\ f.pc \in {"regroup", "client", "free"} =>
                S[s].pc \in {"regroup", "client", "free"} \/ p \in Reached(t, m, S, PS)
    OBVIOUS
  <2> QED BY <1>2, <2>1, <2>2, <2>3, <2>4, StreamStep
<1> HIDE DEF S2
<1>4. ClientsSame(t, m2, S2, Q) /\ CountedOff(t, m2, S2, Q)
  BY <1>2, <1>3, StreamRest
<1>5. StreamsSame(t, m2, S2)
  <2>1. DOMAIN S2 = DOMAIN S /\ S2[s] = f /\ \A x \in DOMAIN S : x # s => S2[x] = S[x]
    BY <1>3 DEF Moved
  <2>2. \A x : Erased(t, m2, S2, x) <=> Erased(t, m, S, x)
    BY <1>3, PassedSame
  <2>3. \A x \in LiveStreams(m2) \ DOMAIN S2 :
          m2.streams[x] = IF Erased(t, m2, S2, x) THEN Unrelated(t.streams[x]) ELSE t.streams[x]
    BY <1>2, <2>1, <2>2 DEF Progress, StreamsSame, LiveStreams
  <2>4. \A x \in DOMAIN S : x # s => m2.streams[x] = m.streams[x]
    BY <1>1, <1>2
  <2> QED BY <1>2, <2>1, <2>3, <2>4 DEF Progress, StreamsSame
<1> QED BY <1>3, <1>4, <1>5 DEF Progress, S2, m2

\* A virtual stream tells its container, unless that is gone.
LEMMA VirtualTold ==
    ASSUME NEW t, NEW fn, NEW id, NEW m, NEW S, NEW Q, NEW s \in DOMAIN S,
           Progress(t, fn, id, {}, {}, m, S, Q), S[s].pc = "virtual",
           m.streams[s].virtual, m.streams[s].pos_rel_id # None
    PROVE  LET rel == m.streams[s].pos_rel_id
               f   == [S[s] EXCEPT !.pc = "regroup", !.rel = rel, !.client = m.streams[s].client]
               PS  == IF rel \in LiveStreams(m) /\ m.streams[rel].cf = "wave" THEN {rel} ELSE {}
           IN  f \in Frame /\
               Progress(t, fn, id, PS, {},
                        [m EXCEPT !.streams[s].pos_rel_id = None, !.streams[s].client = None],
                        With(S, s, f), Q)
<1> DEFINE rel == m.streams[s].pos_rel_id
           f   == [S[s] EXCEPT !.pc = "regroup", !.rel = rel, !.client = m.streams[s].client]
           PS  == IF rel \in LiveStreams(m) /\ m.streams[rel].cf = "wave" THEN {rel} ELSE {}
           r   == [m.streams[s] EXCEPT !.pos_rel_id = None, !.client = None]
           m2  == [m EXCEPT !.streams[s].pos_rel_id = None, !.streams[s].client = None]
<1>1. /\ m \in TablesType /\ t \in TablesType /\ s \in LiveStreams(m) /\ s \in SID
      /\ S[s] \in Frame /\ S[s].fn = "streams_delete" /\ S[s].id = s
      /\ s \in LiveStreams(t) /\ LiveStreams(m) \subseteq LiveStreams(t)
      /\ m.streams[s] \in Stream
  BY DEF Progress, Shaped, StreamCalls, TablesType, LiveStreams
<1>2. rel \in SID /\ m.streams[s].client \in CID \cup {None}
  BY <1>1 DEF Stream
<1>3. /\ f \in Frame /\ f.fn = "streams_delete" /\ f.id = s /\ f.pc = "regroup"
      /\ f.rel = rel /\ f.client = m.streams[s].client
  BY <1>1, <1>2 DEF Frame
<1>4. r \in Stream /\ r.dir = m.streams[s].dir /\ r.virtual = m.streams[s].virtual
      /\ r.primary = m.streams[s].primary
  BY <1>1 DEF Stream
<1>5. m2 = Put(m, s, r)
  BY <1>1 DEF Put, TablesType
<1>6. /\ t.streams[s].pos_rel_id = rel /\ t.streams[s].client = m.streams[s].client
      /\ t.streams[s].virtual
  BY DEF Progress, StreamsSame
<1> HIDE DEF rel, f, r, m2
<1>7. \A x \in LiveStreams(m) \ DOMAIN S : m.streams[x].cf = t.streams[x].cf
  <2>1. \A x \in LiveStreams(m) : t.streams[x] \in Stream
    BY <1>1 DEF TablesType, LiveStreams
  <2> QED BY <2>1, ZenonT(60) DEF Progress, StreamsSame, Unrelated, Stream
<1>8. s \in Doomed(t, Roots(t, fn, id))
  BY <1>1 DEF Progress, Needed, Reached
<1>9. PS \cap LiveStreams(t) \subseteq Doomed(t, Roots(t, fn, id))
  <2>1. SUFFICES ASSUME rel \in LiveStreams(m), m.streams[rel].cf = "wave"
                 PROVE  rel \in Doomed(t, Roots(t, fn, id))
    OBVIOUS
  <2>2. CASE rel \in DOMAIN S
    BY <1>1, <2>1, <2>2 DEF Progress, Needed, Reached
  <2>3. CASE rel \notin DOMAIN S
    <3>1. Triggers(t, s, rel)
      BY <1>6, <1>7, <2>1, <2>3 DEF Triggers, TakesParent
    <3> QED BY <1>1, <1>8, <2>1, <3>1, TriggersDoom
  <2> QED BY <2>2, <2>3
<1>10. ASSUME NEW p \in LiveStreams(t), TakesParent(t, s, p)
       PROVE  p \in Reached(t, m, S, PS)
  <2>1. p = rel /\ t.streams[rel].cf = "wave"
    BY <1>6, <1>10 DEF TakesParent
  <2>2. CASE rel \notin LiveStreams(m) \/ rel \in DOMAIN S
    BY <1>10, <2>1, <2>2 DEF Reached, Gone
  <2>3. CASE rel \in LiveStreams(m) \ DOMAIN S
    BY <1>7, <2>1, <2>3 DEF Reached
  <2> QED BY <2>2, <2>3
<1> HIDE DEF PS
<1>11. S[s].pc \in {"virtual", "regroup"} /\ f.pc \in {"regroup", "client"}
  BY <1>3
<1>12. IF f.pc = "regroup"
       THEN f.rel = t.streams[s].pos_rel_id /\ f.client = t.streams[s].client
       ELSE /\ r.client = t.streams[s].client
            /\ t.streams[s].virtual => r.pos_rel_id = t.streams[s].pos_rel_id
  BY <1>3, <1>6
<1>13. Progress(t, fn, id, PS, {}, Put(m, s, r), With(S, s, f), Q)
  BY <1>3, <1>4, <1>9, <1>10, <1>11, <1>12, StreamPut
<1> QED BY <1>3, <1>5, <1>13 DEF rel, f, r, m2, PS

\* Any other stream has no container to tell.
LEMMA NotVirtual ==
    ASSUME NEW t, NEW fn, NEW id, NEW m, NEW S, NEW Q, NEW s \in DOMAIN S,
           Progress(t, fn, id, {}, {}, m, S, Q), S[s].pc = "virtual",
           ~ (m.streams[s].virtual /\ m.streams[s].pos_rel_id # None)
    PROVE  Progress(t, fn, id, {}, {}, m, With(S, s, [S[s] EXCEPT !.pc = "client"]), Q)
<1> DEFINE f == [S[s] EXCEPT !.pc = "client"]
           r == m.streams[s]
<1>1. /\ m \in TablesType /\ s \in SID /\ r \in Stream
      /\ S[s] \in Frame /\ S[s].fn = "streams_delete" /\ S[s].id = s
  BY DEF Progress, Shaped, StreamCalls, TablesType, LiveStreams
<1>2. f \in Frame /\ f.fn = "streams_delete" /\ f.id = s /\ f.pc = "client"
  BY <1>1 DEF Frame
<1>3. m = Put(m, s, r)
  BY <1>1 DEF Put, TablesType
<1>4. /\ r.client = t.streams[s].client /\ r.virtual = t.streams[s].virtual
      /\ t.streams[s].virtual => r.pos_rel_id = t.streams[s].pos_rel_id
  BY DEF Progress, StreamsSame
<1>5. \A p \in LiveStreams(t) : ~ TakesParent(t, s, p)
  BY <1>4, NoneIsNoStream DEF TakesParent, LiveStreams
<1>6. /\ S[s].pc \in {"virtual", "regroup"} /\ f.pc \in {"regroup", "client"}
      /\ r.dir = m.streams[s].dir /\ r.virtual = m.streams[s].virtual
      /\ r.primary = m.streams[s].primary
      /\ {} \cap LiveStreams(t) \subseteq Doomed(t, Roots(t, fn, id))
  BY <1>2
<1> HIDE DEF f, r
<1>7. Progress(t, fn, id, {}, {}, Put(m, s, r), With(S, s, f), Q)
  BY <1>1, <1>2, <1>4, <1>5, <1>6, StreamPut
<1> QED BY <1>3, <1>7, Zenon DEF f

\* The stream is grouped again.
LEMMA Regrouped ==
    ASSUME NEW t, NEW fn, NEW id, NEW m, NEW S, NEW Q, NEW s \in DOMAIN S,
           Progress(t, fn, id, {}, {}, m, S, Q), S[s].pc = "regroup"
    PROVE  Progress(t, fn, id, {}, {},
                    [m EXCEPT !.streams[s].pos_rel_id = S[s].rel, !.streams[s].client = S[s].client],
                    With(S, s, [S[s] EXCEPT !.pc = "client"]), Q)
<1> DEFINE f  == [S[s] EXCEPT !.pc = "client"]
           r  == [m.streams[s] EXCEPT !.pos_rel_id = S[s].rel, !.client = S[s].client]
           m2 == [m EXCEPT !.streams[s].pos_rel_id = S[s].rel, !.streams[s].client = S[s].client]
<1>1. /\ m \in TablesType /\ s \in SID /\ m.streams[s] \in Stream
      /\ S[s] \in Frame /\ S[s].fn = "streams_delete" /\ S[s].id = s
  BY DEF Progress, Shaped, StreamCalls, TablesType, LiveStreams
<1>2. f \in Frame /\ f.fn = "streams_delete" /\ f.id = s /\ f.pc = "client"
  BY <1>1 DEF Frame
<1>3. S[s].rel \in SID \cup {None} /\ S[s].client \in CID \cup {None}
  BY <1>1 DEF Frame
<1>4. /\ r \in Stream /\ r.dir = m.streams[s].dir /\ r.virtual = m.streams[s].virtual
      /\ r.primary = m.streams[s].primary /\ r.pos_rel_id = S[s].rel /\ r.client = S[s].client
  BY <1>1, <1>3 DEF Stream
<1>5. m2 = Put(m, s, r)
  BY <1>1 DEF Put, TablesType
<1>6. S[s].rel = t.streams[s].pos_rel_id /\ S[s].client = t.streams[s].client
  BY DEF Progress, StreamsSame
<1> HIDE DEF f, r, m2
<1>7. /\ S[s].pc \in {"virtual", "regroup"} /\ f.pc \in {"regroup", "client"}
      /\ {} \cap LiveStreams(t) \subseteq Doomed(t, Roots(t, fn, id))
      /\ IF f.pc = "regroup"
         THEN f.rel = t.streams[s].pos_rel_id /\ f.client = t.streams[s].client
         ELSE /\ r.client = t.streams[s].client
              /\ t.streams[s].virtual => r.pos_rel_id = t.streams[s].pos_rel_id
  BY <1>2, <1>4, <1>6
<1>8. Progress(t, fn, id, {}, {}, Put(m, s, r), With(S, s, f), Q)
  BY <1>2, <1>4, <1>7, StreamPut
<1> QED BY <1>5, <1>8, Zenon DEF f, m2

\* What client_stream_delete() for the stream s changes.
FreedMore(t, c, U, s) ==
    /\ \A j \in Slot : FreedSlots(t, c, U)[j] = s <=> t.clients[c].streams[j] = s
    /\ t.streams[s].client # c \/ (\A j \in Slot : t.clients[c].streams[j] # s) =>
         FreedSlots(t, c, U \cup {s}) = FreedSlots(t, c, U)
    /\ \A k \in Slot :
         (/\ t.streams[s].client = c
          /\ FirstOf({j \in Slot : t.clients[c].streams[j] = s}, k)) =>
             FreedSlots(t, c, U \cup {s}) = [FreedSlots(t, c, U) EXCEPT ![k] = None]

\* client_stream_delete() for one stream more frees the first slot it is in.
LEMMA FreedOneMore ==
    ASSUME NEW t, NEW c, NEW U, NEW s, s \notin U, s # None
    PROVE  FreedMore(t, c, U, s)
<1> DEFINE F(V, j) == \E x \in V : /\ t.streams[x].client = c
                                   /\ t.clients[c].streams[j] = x
                                   /\ \A i \in Slot : i < j => t.clients[c].streams[i] # x
           G(V) == [j \in Slot |-> IF F(V, j) THEN None ELSE t.clients[c].streams[j]]
<1>1. FreedSlots(t, c, U) = G(U) /\ FreedSlots(t, c, U \cup {s}) = G(U \cup {s})
  BY DEF FreedSlots
<1>2. \A j \in Slot : t.clients[c].streams[j] = s => ~ F(U, j)
  OBVIOUS
<1>3. \A j \in Slot : F(U, j) => F(U \cup {s}, j)
  OBVIOUS
<1>4. \A j \in Slot : F(U \cup {s}, j) /\ ~ F(U, j) =>
        /\ t.streams[s].client = c /\ t.clients[c].streams[j] = s
        /\ \A i \in Slot : i < j => t.clients[c].streams[i] # s
  OBVIOUS
<1>5. \A j \in Slot : (/\ t.streams[s].client = c /\ t.clients[c].streams[j] = s
                       /\ \A i \in Slot : i < j => t.clients[c].streams[i] # s) =>
        F(U \cup {s}, j)
  OBVIOUS
<1> HIDE DEF F
<1>6. \A j \in Slot : G(U)[j] = s <=> t.clients[c].streams[j] = s
  BY <1>2
<1>7. ASSUME t.streams[s].client # c \/ (\A j \in Slot : t.clients[c].streams[j] # s)
      PROVE  G(U \cup {s}) = G(U)
  <2>1. \A j \in Slot : F(U \cup {s}, j) <=> F(U, j)
    BY <1>3, <1>4, <1>7
  <2> QED BY <2>1
<1>8. ASSUME NEW k \in Slot, t.streams[s].client = c,
             FirstOf({j \in Slot : t.clients[c].streams[j] = s}, k)
      PROVE  G(U \cup {s}) = [G(U) EXCEPT ![k] = None]
  <2>1. Slot \subseteq Int
    BY DEF Slot
  <2>2. t.clients[c].streams[k] = s /\ \A i \in Slot : i < k => t.clients[c].streams[i] # s
    BY <1>8, <2>1 DEF FirstOf
  <2>3. F(U \cup {s}, k)
    BY <1>5, <1>8, <2>2
  <2>4. \A j \in Slot : j # k => ~ (/\ t.clients[c].streams[j] = s
                                    /\ \A i \in Slot : i < j => t.clients[c].streams[i] # s)
    BY <1>8, <2>1, <2>2 DEF FirstOf
  <2>5. \A j \in Slot : j # k => (F(U \cup {s}, j) <=> F(U, j))
    BY <1>3, <1>4, <2>4, SMTT(60)
  <2> QED BY <2>3, <2>5
<1> HIDE DEF G
<1> QED BY <1>1, <1>6, <1>7, <1>8 DEF FreedMore

\* The stream s is taken from its client, and its codecfilter is closed.
Unlist(m, s) ==
    LET c == m.streams[s].client
        k == CHOOSE j \in Slot : FirstOf({i \in Slot : m.clients[c].streams[i] = s}, j)
        u == [m EXCEPT !.streams[s].cf = "none"]
    IN  IF Lists(m, c, s) THEN [u EXCEPT !.clients[c].streams[k] = None] ELSE u

\* What that leaves in the tables.
LEMMA UnlistLeaves ==
    ASSUME NEW m \in TablesType, NEW s \in LiveStreams(m)
    PROVE  LET u == Unlist(m, s)
               c == m.streams[s].client
           IN  /\ u \in TablesType
               /\ LiveStreams(u) = LiveStreams(m) /\ LiveClients(u) = LiveClients(m)
               /\ u.nstreams = m.nstreams /\ u.nclients = m.nclients
               /\ u.thru = m.thru /\ u.alive = m.alive
               /\ \A x \in SID : x # s => u.streams[x] = m.streams[x]
               /\ u.streams[s] = [m.streams[s] EXCEPT !.cf = "none"]
               /\ \A d \in CID : d # c \/ ~ Lists(m, c, s) => u.clients[d] = m.clients[d]
               /\ Lists(m, c, s) =>
                    \E k \in Slot :
                        /\ FirstOf({i \in Slot : m.clients[c].streams[i] = s}, k)
                        /\ u.clients[c] = [m.clients[c] EXCEPT !.streams[k] = None]
<1> DEFINE r == [m.streams[s] EXCEPT !.cf = "none"]
           c == m.streams[s].client
           v == [m EXCEPT !.streams[s].cf = "none"]
<1>1. m.streams[s] \in Stream /\ s \in SID
  BY DEF TablesType, LiveStreams
<1>2. r \in Stream
  BY <1>1 DEF Stream, Codec
<1>3. v = Put(m, s, r)
  BY <1>1 DEF Put, TablesType
<1>4. /\ v \in TablesType /\ v.streams[s] = r /\ v.clients = m.clients
      /\ \A x \in SID \ {s} : v.streams[x] = m.streams[x]
      /\ v.nstreams = m.nstreams /\ v.nclients = m.nclients /\ v.alive = m.alive
      /\ v.thru = m.thru
      /\ LiveStreams(v) = LiveStreams(m) /\ LiveClients(v) = LiveClients(m)
  <2> HIDE DEF v, r
  <2> QED BY <1>2, <1>3, PutLeaves
<1> HIDE DEF v
<1>5. CASE ~ Lists(m, c, s)
  <2>1. Unlist(m, s) = v
    BY <1>5 DEF Unlist, v
  <2> QED BY <1>4, <1>5, <2>1
<1>6. CASE Lists(m, c, s)
  <2> DEFINE K == {i \in Slot : m.clients[c].streams[i] = s}
             k == CHOOSE j \in Slot : FirstOf(K, j)
             q == [m.clients[c] EXCEPT !.streams[k] = None]
             u == [v EXCEPT !.clients[c] = q]
  <2>1. c \in LiveClients(m) /\ c \in CID /\ K \in SUBSET Nat /\ K # {}
    BY <1>6, TablesAssumption, SMTT(60) DEF Lists, SlotSet, Slot, LiveClients
  <2>2. k \in Slot /\ FirstOf(K, k)
    <3>1. \E j \in Slot : FirstOf(K, j)
      BY <2>1, FirstExists DEF FirstOf
    <3> QED BY <3>1
  <2> HIDE DEF k, c
  <2>3. m.clients[c] \in Client
    BY <2>1 DEF TablesType, LiveClients
  <2>4. q \in Client /\ v.clients[c] = m.clients[c]
    BY <1>4, <2>2, <2>3 DEF Client
  <2>5. Unlist(m, s) = [v EXCEPT !.clients[c].streams[k] = None]
    BY <1>6 DEF Unlist, v, k, c
  <2>6. [v EXCEPT !.clients[c].streams[k] = None] = u
    BY <1>4, <2>1, <2>4 DEF TablesType
  <2>7. /\ u.nstreams = v.nstreams /\ u.nclients = v.nclients /\ u.thru = v.thru
    BY <1>4 DEF TablesType
  <2> HIDE DEF q
  <2>8. /\ u \in TablesType /\ u.streams = v.streams /\ u.alive = v.alive
        /\ LiveStreams(u) = LiveStreams(v) /\ LiveClients(u) = LiveClients(v)
        /\ u.clients[c] = q /\ \A d \in CID \ {c} : u.clients[d] = v.clients[d]
    BY <1>4, <2>1, <2>4, ClientLeaves
  <2> HIDE DEF u
  <2>9. Unlist(m, s) = u
    BY <2>5, <2>6
  <2>10. \E j \in Slot :
            /\ FirstOf({i \in Slot : m.clients[c].streams[i] = s}, j)
            /\ u.clients[c] = [m.clients[c] EXCEPT !.streams[j] = None]
    BY <2>2, <2>8 DEF q
  <2>11. /\ u \in TablesType
         /\ LiveStreams(u) = LiveStreams(m) /\ LiveClients(u) = LiveClients(m)
         /\ u.nstreams = m.nstreams /\ u.nclients = m.nclients
         /\ u.thru = m.thru /\ u.alive = m.alive
         /\ \A x \in SID : x # s => u.streams[x] = m.streams[x]
         /\ u.streams[s] = r
         /\ \A d \in CID : d # c => u.clients[d] = m.clients[d]
    BY <1>4, <2>7, <2>8
  <2> QED BY <1>6, <2>9, <2>10, <2>11, ZenonT(60) DEF c
<1> QED BY <1>5, <1>6

\* The call of clients_delete() that the removal of s from its client leads to.
Unlisting(m, s) ==
    LET c == m.streams[s].client
    IN  IF Lists(m, c, s) /\ m.clients[c].execed = s THEN {c} ELSE {}

\* The stream is taken from its client, which goes with it if it has become it.
LEMMA StreamUnlisted ==
    ASSUME NEW t, NEW fn, NEW id, NEW m, NEW S, NEW Q, NEW s \in DOMAIN S,
           Progress(t, fn, id, {}, {}, m, S, Q), S[s].pc = "client"
    PROVE  Progress(t, fn, id, {}, Unlisting(m, s), Unlist(m, s),
                    With(S, s, [S[s] EXCEPT !.pc = "free"]), Q)
<1> DEFINE c  == m.streams[s].client
           f  == [S[s] EXCEPT !.pc = "free"]
           S2 == With(S, s, f)
           m2 == Unlist(m, s)
           PC == Unlisting(m, s)
           U  == Unlisted(t, m, S)
<1>1. /\ m \in TablesType /\ t \in TablesType /\ s \in LiveStreams(m) /\ s \in SID
      /\ S[s] \in Frame /\ S[s].fn = "streams_delete" /\ S[s].id = s
      /\ s \in LiveStreams(t) /\ LiveStreams(m) \subseteq LiveStreams(t)
      /\ LiveClients(m) \subseteq LiveClients(t)
      /\ DOMAIN S \subseteq LiveStreams(m) /\ DOMAIN S \subseteq SID
      /\ m.streams[s] \in Stream /\ s # None
  BY NoneIsNoStream DEF Progress, Shaped, StreamCalls, TablesType, LiveStreams
<1>2. /\ f \in Frame /\ f.fn = "streams_delete" /\ f.id = s /\ f.pc = "free"
      /\ f.rel = S[s].rel /\ f.client = S[s].client
  BY <1>1, SMTT(60) DEF Frame
<1>3. /\ m2 \in TablesType
      /\ LiveStreams(m2) = LiveStreams(m) /\ LiveClients(m2) = LiveClients(m)
      /\ m2.nstreams = m.nstreams /\ m2.nclients = m.nclients
      /\ m2.thru = m.thru /\ m2.alive = m.alive
      /\ \A x \in SID : x # s => m2.streams[x] = m.streams[x]
      /\ m2.streams[s] = [m.streams[s] EXCEPT !.cf = "none"]
      /\ \A d \in CID : d # c \/ ~ Lists(m, c, s) => m2.clients[d] = m.clients[d]
      /\ Lists(m, c, s) =>
            \E k \in Slot :
                /\ FirstOf({i \in Slot : m.clients[c].streams[i] = s}, k)
                /\ m2.clients[c] = [m.clients[c] EXCEPT !.streams[k] = None]
  BY <1>1, UnlistLeaves, ZenonT(60)
<1> HIDE DEF m2, f, U
<1>4. /\ c = t.streams[s].client /\ m.streams[s].virtual = t.streams[s].virtual
      /\ t.streams[s].virtual => m.streams[s].pos_rel_id = t.streams[s].pos_rel_id
  BY DEF Progress, StreamsSame
<1>5. s \notin U
  BY <1>1 DEF U, Unlisted, Gone
<1>6. \A d \in LiveClients(m) :
        /\ m.clients[d].streams = FreedSlots(t, d, U) /\ d \in CID /\ d \in LiveClients(t)
        /\ m.clients[d].execed = IF d \in DOMAIN Q THEN None ELSE t.clients[d].execed
        /\ m.clients[d].fh = t.clients[d].fh
  BY <1>1 DEF U, Progress, ClientsSame, LiveClients
<1>7. \A d \in LiveClients(m), j \in Slot :
        m.clients[d].streams[j] = s <=> t.clients[d].streams[j] = s
  <2>1. \A d : FreedMore(t, d, U, s)
    BY <1>1, <1>5, FreedOneMore
  <2> QED BY <1>6, <2>1 DEF FreedMore
<1>8. \A d \in LiveClients(m) : s \in SlotSet(m, d) <=> s \in SlotSet(t, d)
  BY <1>1, <1>7 DEF SlotSet
<1> HIDE DEF c
<1>9. PC = IF Lists(m, c, s) /\ m.clients[c].execed = s THEN {c} ELSE {}
  BY DEF Unlisting, c
<1> HIDE DEF PC
<1>10. PC \cap LiveClients(t) \subseteq Lost(t, fn, id) /\ PC \cap DOMAIN Q = {}
  <2>1. SUFFICES ASSUME Lists(m, c, s), m.clients[c].execed = s
                 PROVE  c \in Lost(t, fn, id) /\ c \notin DOMAIN Q
    BY <1>9
  <2>2. c \in LiveClients(m) /\ s \in SlotSet(m, c) /\ c \in CID
    BY <2>1 DEF Lists, LiveClients
  <2>3. c \notin DOMAIN Q /\ t.clients[c].execed = s
    BY <1>1, <1>6, <2>1, <2>2
  <2>4. ExecedBy(t, s, c)
    BY <1>1, <1>4, <1>8, <2>2, <2>3 DEF ExecedBy
  <2>5. s \in Doomed(t, Roots(t, fn, id))
    BY <1>1 DEF Progress, Needed, Reached
  <2> QED BY <2>2, <2>3, <2>4, <2>5 DEF Lost
<1>11. ASSUME NEW d \in CID, ExecedBy(t, s, d)
       PROVE  d \in ReachedC(t, m, Q, PC)
  <2>1. d = c /\ d \in LiveClients(t) /\ s \in SlotSet(t, d) /\ t.clients[d].execed = s
    BY <1>4, <1>11 DEF ExecedBy
  <2>2. CASE d \notin LiveClients(m) \/ d \in DOMAIN Q
    BY <2>1, <2>2 DEF ReachedC, Left
  <2>3. CASE d \in LiveClients(m) \ DOMAIN Q
    <3>1. m.clients[d].execed = s /\ Lists(m, c, s)
      BY <1>6, <1>8, <2>1, <2>3 DEF Lists
    <3> QED BY <1>9, <2>1, <3>1 DEF ReachedC
  <2> QED BY <2>2, <2>3
<1>12. /\ Moved(t, m, m2, S, s, f, S2) /\ Shaped(t, m2, S2, Q)
       /\ Needed(t, fn, id, {}, PC, m2, S2, Q) /\ Covered(t, fn, id, {}, PC, m2, S2, Q)
  <2>1. \A x \in LiveStreams(t) :
            Dependent(t, x, s) /\ (f.pc # "children" \/ x < f.i) =>
                S[s].pc # "children" \/ x < S[s].i \/ x \in Reached(t, m, S, {})
    OBVIOUS
  <2>2. f.pc \in {"children", "virtual", "regroup", "client", "free"}
    BY <1>2
  <2>3. {} \cap LiveStreams(t) \subseteq Doomed(t, Roots(t, fn, id))
    OBVIOUS
  <2>4. \A p \in LiveStreams(t) :
            TakesParent(t, s, p) /\ f.pc \in {"regroup", "client", "free"} =>
                S[s].pc \in {"regroup", "client", "free"} \/ p \in Reached(t, m, S, {})
    OBVIOUS
  <2>5. \A d \in CID :
            ExecedBy(t, s, d) /\ f.pc = "free" =>
                S[s].pc = "free" \/ d \in ReachedC(t, m, Q, PC)
    BY <1>11
  <2> QED BY <1>2, <1>3, <1>10, <2>1, <2>2, <2>3, <2>4, <2>5, StreamStep
<1> HIDE DEF S2
<1>13. /\ DOMAIN S2 = DOMAIN S /\ Gone(t, m2) = Gone(t, m) /\ Left(t, m2) = Left(t, m)
       /\ Unlisted(t, m2, S2) = U \cup {s}
       /\ {x \in DOMAIN S2 : S2[x].pc # "children"} = {x \in DOMAIN S : S[x].pc # "children"}
  <2>1. DOMAIN S2 = DOMAIN S /\ Gone(t, m2) = Gone(t, m) /\ Left(t, m2) = Left(t, m)
    BY <1>3, <1>12, SMTT(60) DEF Moved, Left
  <2>2. Unlisted(t, m2, S2) = U \cup {s}
    <3>1. \A x : x \in Unlisted(t, m2, S2) <=> x \in U \/ x = s
      BY <1>2, <1>12 DEF Moved, U
    <3> QED BY <3>1
  <2>3. {x \in DOMAIN S2 : S2[x].pc # "children"} = {x \in DOMAIN S : S[x].pc # "children"}
    BY <1>2, <1>12, <2>1 DEF Moved
  <2> QED BY <2>1, <2>2, <2>3
<1>14. CountedOff(t, m2, S2, Q)
  BY <1>3, <1>13 DEF Progress, CountedOff
<1>15. StreamsSame(t, m2, S2)
  <2>1. S2[s] = f /\ \A x \in DOMAIN S : x # s => S2[x] = S[x]
    BY <1>12 DEF Moved
  <2>2. \A x : Erased(t, m2, S2, x) <=> Erased(t, m, S, x)
    BY <1>2, <1>12, PassedSame
  <2>3. \A x \in LiveStreams(m2) \ DOMAIN S2 :
          m2.streams[x] = IF Erased(t, m2, S2, x) THEN Unrelated(t.streams[x]) ELSE t.streams[x]
    BY <1>3, <1>13, <2>2 DEF Progress, StreamsSame, LiveStreams
  <2>4. \A x \in DOMAIN S : x # s => m2.streams[x] = m.streams[x]
    BY <1>1, <1>3
  <2>5. /\ m2.streams[s].dir = m.streams[s].dir /\ m2.streams[s].virtual = m.streams[s].virtual
        /\ m2.streams[s].primary = m.streams[s].primary
        /\ m2.streams[s].client = m.streams[s].client
        /\ m2.streams[s].pos_rel_id = m.streams[s].pos_rel_id
    BY <1>1, <1>3 DEF Stream
  <2> QED BY <1>2, <1>13, <2>1, <2>3, <2>4, <2>5 DEF Progress, StreamsSame
<1>16. ClientsSame(t, m2, S2, Q)
  <2>1. ASSUME NEW d \in LiveClients(m)
        PROVE  /\ m2.clients[d].fh = m.clients[d].fh
               /\ m2.clients[d].execed = m.clients[d].execed
               /\ m2.clients[d].streams = FreedSlots(t, d, U \cup {s})
    <3>0. m.clients[d] \in Client /\ d \in CID
      BY <1>1 DEF TablesType, LiveClients
    <3>1. CASE d = c /\ Lists(m, c, s)
      <4>1. PICK k \in Slot :
                /\ FirstOf({i \in Slot : m.clients[c].streams[i] = s}, k)
                /\ m2.clients[c] = [m.clients[c] EXCEPT !.streams[k] = None]
        BY <1>3, <3>1
      <4>2. {i \in Slot : m.clients[c].streams[i] = s} = {i \in Slot : t.clients[c].streams[i] = s}
        BY <1>7, <3>1
      <4>3. FirstOf({i \in Slot : t.clients[c].streams[i] = s}, k)
        BY <4>1, <4>2
      <4>4. FreedSlots(t, c, U \cup {s}) = [FreedSlots(t, c, U) EXCEPT ![k] = None]
        <5>1. FreedMore(t, c, U, s)
          BY <1>1, <1>5, FreedOneMore
        <5>2. t.streams[s].client = c
          BY <1>4
        <5> QED BY <4>3, <5>1, <5>2, Zenon DEF FreedMore
      <4>5. m.clients[c].streams = FreedSlots(t, c, U)
        BY <1>6, <3>1
      <4>6. /\ m2.clients[d].fh = m.clients[d].fh /\ m2.clients[d].execed = m.clients[d].execed
            /\ m2.clients[d].streams = [m.clients[d].streams EXCEPT ![k] = None]
        BY <3>0, <3>1, <4>1 DEF Client
      <4> QED BY <3>1, <4>4, <4>5, <4>6
    <3>2. CASE d # c \/ ~ Lists(m, c, s)
      <4>1. m2.clients[d] = m.clients[d]
        BY <1>3, <3>0, <3>2
      <4>2. d = c => \A j \in Slot : t.clients[d].streams[j] # s
        BY <1>1, <1>7, <3>2 DEF Lists, SlotSet
      <4>3. FreedSlots(t, d, U \cup {s}) = FreedSlots(t, d, U)
        <5>1. FreedMore(t, d, U, s)
          BY <1>1, <1>5, FreedOneMore
        <5> QED BY <1>4, <4>2, <5>1 DEF FreedMore
      <4> QED BY <1>6, <4>1, <4>3
    <3> QED BY <3>1, <3>2
  <2> QED BY <1>3, <1>6, <1>13, <2>1, ZenonT(60) DEF ClientsSame
<1> QED BY <1>12, <1>14, <1>15, <1>16 DEF Progress, S2, f, m2, PC

\* The entry of the stream is freed.
LEMMA StreamFreed ==
    ASSUME NEW t, NEW fn, NEW id, NEW m, NEW S, NEW Q, NEW s \in DOMAIN S,
           Progress(t, fn, id, {}, {}, m, S, Q), S[s].pc = "free",
           ~ (m.streams[s].primary /\ m.alive)
    PROVE  Progress(t, fn, id, {}, {}, [m EXCEPT !.streams[s] = NULL], Drop(S, s), Q)
<1> DEFINE S2 == Drop(S, s)
           m2 == [m EXCEPT !.streams[s] = NULL]
<1>1. /\ m \in TablesType /\ t \in TablesType /\ s \in LiveStreams(m) /\ s \in SID
      /\ s \in LiveStreams(t) /\ LiveStreams(m) \subseteq LiveStreams(t)
      /\ DOMAIN S \subseteq LiveStreams(m) /\ Shaped(t, m, S, Q)
  BY DEF Progress, Shaped, StreamCalls
<1>2. DOMAIN S2 = DOMAIN S \ {s} /\ \A x \in DOMAIN S2 : S2[x] = S[x]
  BY DEF Drop
<1>3. /\ m2 \in TablesType /\ m2.streams[s] = NULL /\ m2.clients = m.clients
      /\ \A x \in SID \ {s} : m2.streams[x] = m.streams[x]
      /\ m2.nstreams = m.nstreams /\ m2.nclients = m.nclients /\ m2.alive = m.alive
      /\ m2.thru = m.thru
  BY <1>1 DEF TablesType
<1> HIDE DEF S2, m2
<1>4. LiveStreams(m2) = LiveStreams(m) \ {s} /\ LiveClients(m2) = LiveClients(m)
  BY <1>1, <1>3 DEF LiveStreams, LiveClients
<1>5. Gone(t, m2) = Gone(t, m) \cup {s} /\ Left(t, m2) = Left(t, m)
  BY <1>1, <1>4 DEF Gone, Left
<1>6. Shaped(t, m2, S2, Q)
  BY <1>1, <1>2, <1>3, <1>4 DEF Shaped, StreamCalls
<1>7. /\ Reached(t, m2, S2, {}) = Reached(t, m, S, {})
      /\ ReachedC(t, m2, Q, {}) = ReachedC(t, m, Q, {})
  BY <1>2, <1>5 DEF Reached, ReachedC
<1>8. \A p, x : Passed(t, m2, S2, p, x) <=> Passed(t, m, S, p, x)
  BY <1>2, <1>5 DEF Passed
<1>9. Told(t, m2, S2) = Told(t, m, S) /\ Unlisted(t, m2, S2) = Unlisted(t, m, S)
  BY <1>2, <1>5 DEF Told, Unlisted
<1>10. \A c, k : Tried(t, m2, Q, c, k) <=> Tried(t, m, Q, c, k)
  BY <1>5 DEF Tried
<1>11. Needed(t, fn, id, {}, {}, m2, S2, Q)
  BY <1>7 DEF Progress, Needed
<1>12. Covered(t, fn, id, {}, {}, m2, S2, Q)
  BY <1>7, <1>8, <1>9, <1>10, CoveredStep DEF Progress
<1>13. StreamsSame(t, m2, S2)
  <2>1. \A x : Erased(t, m2, S2, x) <=> Erased(t, m, S, x)
    BY <1>8 DEF Erased
  <2>2. LiveStreams(m2) \ DOMAIN S2 = LiveStreams(m) \ DOMAIN S
    BY <1>2, <1>4
  <2>3. \A x \in LiveStreams(m) : x # s => m2.streams[x] = m.streams[x]
    BY <1>3 DEF LiveStreams
  <2> QED BY <1>1, <1>2, <2>1, <2>2, <2>3 DEF Progress, StreamsSame
<1>14. ClientsSame(t, m2, S2, Q)
  BY <1>3, <1>4, <1>9 DEF Progress, ClientsSame
<1>15. CountedOff(t, m2, S2, Q)
  <2>1. Gone(t, m2) \cup DOMAIN S2 = Gone(t, m) \cup DOMAIN S
    BY <1>2, <1>5
  <2>2. Gone(t, m2) \cup {x \in DOMAIN S2 : S2[x].pc # "children"} =
            Gone(t, m) \cup {x \in DOMAIN S : S[x].pc # "children"}
    BY <1>2, <1>5
  <2>3. ~ (t.alive /\ t.streams[s].primary)
    BY DEF Progress, CountedOff, StreamsSame
  <2> QED BY <1>3, <1>5, <2>1, <2>2, <2>3 DEF Progress, CountedOff
<1> QED BY <1>6, <1>11, <1>12, <1>13, <1>14, <1>15 DEF Progress, S2, m2

\* The end of a primary stream ends the server, as Delete says.
LEMMA PrimaryQuits ==
    ASSUME NEW t, NEW fn, NEW id, NEW m, NEW S, NEW Q, NEW s \in DOMAIN S,
           Progress(t, fn, id, {}, {}, m, S, Q), m.streams[s].primary, m.alive
    PROVE  /\ \A K : Delete(t, Roots(t, fn, id), K) = Quit
           /\ Roots(t, fn, id) # {}
<1>1. s \in LiveStreams(t)
  BY DEF Progress, Shaped
<1>2. s \in Doomed(t, Roots(t, fn, id))
  BY <1>1 DEF Progress, Needed, Reached
<1>3. t.alive /\ t.streams[s].primary
  BY DEF Progress, CountedOff, StreamsSame
<1>4. Roots(t, fn, id) # {}
  <2>1. Closed(t, {})
    BY DEF Closed
  <2>2. Doomed(t, {}) \subseteq {}
    BY <2>1, DoomedLeast
  <2> QED BY <1>2, <2>2
<1> QED BY <1>2, <1>3, <1>4 DEF Delete

-----------------------------------------------------------------------------
(* The steps of clients_delete()                                            *)

\* A call for a client that is gone returns.
LEMMA ClientAgain ==
    ASSUME NEW t, NEW fn, NEW id, NEW m, NEW S, NEW Q, NEW c,
           Progress(t, fn, id, {}, {c}, m, S, Q), c \notin LiveClients(m)
    PROVE  Progress(t, fn, id, {}, {}, m, S, Q)
<1>1. ReachedC(t, m, Q, {c}) \cap LiveClients(t) \subseteq ReachedC(t, m, Q, {})
  BY DEF ReachedC, Left
<1>2. Covered(t, fn, id, {}, {}, m, S, Q)
  BY <1>1, CoveredStep DEF Progress
<1>3. Needed(t, fn, id, {}, {}, m, S, Q)
  BY DEF Progress, Needed, ReachedC
<1> QED BY <1>2, <1>3 DEF Progress

\* Q2 is Q with f for the call on c; no entry was freed from m to m2.
LEMMA ClientMoves ==
    ASSUME NEW t, NEW fn, NEW id, NEW m, NEW S, NEW Q, NEW c \in LiveClients(m),
           NEW PS2, NEW PC, NEW f \in Frame, NEW m2 \in TablesType,
           Shaped(t, m, S, Q), Covered(t, fn, id, {}, PC, m, S, Q),
           Needed(t, fn, id, {}, PC, m, S, Q),
           LiveStreams(m2) = LiveStreams(m), LiveClients(m2) = LiveClients(m),
           f.fn = "clients_delete", f.id = c, f.pc \in {"streams", "free"},
           f.i <= STREAMS_PER_CLIENT, PC \subseteq {c}, {c} \subseteq PC \cup DOMAIN Q,
           PS2 \cap LiveStreams(t) \subseteq Doomed(t, Roots(t, fn, id)),
           \A k \in Slot : f.pc = "free" \/ k < f.i =>
                \/ c \in DOMAIN Q /\ (Q[c].pc = "free" \/ k < Q[c].i)
                \/ t.clients[c].streams[k] \in Reached(t, m, S, PS2)
    PROVE  LET Q2 == With(Q, c, f) IN
           /\ Shaped(t, m2, S, Q2)
           /\ Needed(t, fn, id, PS2, {}, m2, S, Q2)
           /\ Covered(t, fn, id, PS2, {}, m2, S, Q2)
<1> DEFINE Q2 == With(Q, c, f)
<1>1. /\ DOMAIN Q2 = DOMAIN Q \cup {c} /\ Q2[c] = f
      /\ \A x \in DOMAIN Q : x # c => Q2[x] = Q[x]
  BY DEF With
<1> HIDE DEF Q2
<1>2. Gone(t, m2) = Gone(t, m) /\ Left(t, m2) = Left(t, m) /\ c \notin Left(t, m)
      /\ c \in CID
  BY DEF Gone, Left, LiveClients
<1>3. Shaped(t, m2, S, Q2)
  BY <1>1, <1>2 DEF Shaped, ClientCalls
<1>4. /\ Reached(t, m, S, {}) \subseteq Reached(t, m2, S, PS2)
      /\ Reached(t, m, S, PS2) = Reached(t, m2, S, PS2)
      /\ Reached(t, m2, S, PS2) = Reached(t, m, S, {}) \cup PS2
      /\ ReachedC(t, m2, Q2, {}) = ReachedC(t, m, Q, PC)
  BY <1>1, <1>2 DEF Reached, ReachedC
<1>5. Needed(t, fn, id, PS2, {}, m2, S, Q2)
  BY <1>4 DEF Needed
<1>6. /\ \A p, x : Passed(t, m2, S, p, x) <=> Passed(t, m, S, p, x)
      /\ Told(t, m2, S) = Told(t, m, S) /\ Unlisted(t, m2, S) = Unlisted(t, m, S)
  BY <1>2 DEF Passed, Told, Unlisted
<1>7. ASSUME NEW d \in LiveClients(t), NEW k \in Slot, Tried(t, m2, Q2, d, k)
      PROVE  Tried(t, m, Q, d, k) \/ t.clients[d].streams[k] \in Reached(t, m2, S, PS2)
  <2>1. CASE d = c
    BY <1>1, <1>2, <1>4, <1>7, <2>1 DEF Tried
  <2>2. CASE d # c
    BY <1>1, <1>2, <1>7, <2>2 DEF Tried
  <2> QED BY <2>1, <2>2
<1>8. Covered(t, fn, id, PS2, {}, m2, S, Q2)
  BY <1>4, <1>6, <1>7, CoveredStep
<1> QED BY <1>3, <1>5, <1>8 DEF Q2

\* The call that begins with the client c.
BegunC(c) == [Call("clients_delete", c) EXCEPT !.pc = "streams"]

\* clients_delete() begins with a client.
LEMMA ClientBegins ==
    ASSUME NEW t, NEW fn, NEW id, NEW m, NEW S, NEW Q, NEW c \in LiveClients(m),
           Progress(t, fn, id, {}, {c}, m, S, Q)
    PROVE  c \notin DOMAIN Q /\
           Progress(t, fn, id, {}, {},
                    [m EXCEPT !.nclients = @ - 1, !.clients[c].execed = None],
                    S, With(Q, c, BegunC(c)))
<1> DEFINE m2 == [m EXCEPT !.nclients = @ - 1, !.clients[c].execed = None]
           r  == [m.clients[c] EXCEPT !.execed = None]
           f  == BegunC(c)
           Q2 == With(Q, c, f)
<1>1. /\ m \in TablesType /\ t \in TablesType /\ c \in CID /\ m.clients[c] \in Client
      /\ Shaped(t, m, S, Q) /\ c \notin DOMAIN Q /\ DOMAIN Q \subseteq CID
      /\ m.nclients \in Int
  BY DEF Progress, Shaped, Needed, ClientCalls, LiveClients, TablesType
<1>2. /\ f \in Frame /\ f.fn = "clients_delete" /\ f.id = c /\ f.pc = "streams" /\ f.i = 0
  BY <1>1 DEF BegunC, Call, Frame
<1>3. /\ r \in Client /\ r.fh = m.clients[c].fh /\ r.execed = None
      /\ r.streams = m.clients[c].streams
  BY <1>1 DEF Client
<1>4. /\ m2.streams = m.streams /\ m2.clients = [m.clients EXCEPT ![c] = r]
      /\ m2.nstreams = m.nstreams /\ m2.nclients = m.nclients - 1
      /\ m2.thru = m.thru /\ m2.alive = m.alive
  BY <1>1 DEF TablesType
<1>5. m2 \in TablesType
  <2> DEFINE v == [m EXCEPT !.clients[c] = r]
  <2> HIDE DEF r
  <2>1. v \in TablesType
    BY <1>1, <1>3 DEF TablesType
  <2>2. m2 = [v EXCEPT !.nclients = m.nclients - 1]
    BY <1>1 DEF TablesType, r
  <2> HIDE DEF v, m2
  <2> QED BY <1>1, <2>1, <2>2 DEF TablesType
<1> HIDE DEF m2, r, f
<1>6. m2.clients[c] = r /\ \A d \in CID \ {c} : m2.clients[d] = m.clients[d]
  BY <1>1, <1>4 DEF TablesType
<1>7. LiveStreams(m2) = LiveStreams(m) /\ LiveClients(m2) = LiveClients(m)
  <2>1. r # NULL
    BY <1>3, TablesAssumption
  <2> QED BY <1>4, <1>6, <2>1 DEF LiveStreams, LiveClients
<1>8. /\ Shaped(t, m2, S, Q2) /\ Needed(t, fn, id, {}, {}, m2, S, Q2)
      /\ Covered(t, fn, id, {}, {}, m2, S, Q2)
  <2>1. f.i <= STREAMS_PER_CLIENT /\ f.pc \in {"streams", "free"} /\ \A k \in Slot : ~ (k < f.i)
    BY <1>2, TablesAssumption DEF Slot
  <2>2. {} \subseteq {} /\ {} \cap LiveStreams(t) \subseteq Doomed(t, Roots(t, fn, id))
    OBVIOUS
  <2>3. \A k \in Slot : f.pc = "free" \/ k < f.i =>
            \/ c \in DOMAIN Q /\ (Q[c].pc = "free" \/ k < Q[c].i)
            \/ t.clients[c].streams[k] \in Reached(t, m, S, {})
    BY <1>2, <2>1
  <2>4. {c} \subseteq {c} /\ {c} \subseteq {c} \cup DOMAIN Q
    OBVIOUS
  <2>5. /\ Covered(t, fn, id, {}, {c}, m, S, Q) /\ Needed(t, fn, id, {}, {c}, m, S, Q)
    BY DEF Progress
  <2> QED BY <1>1, <1>2, <1>5, <1>7, <2>1, <2>2, <2>3, <2>4, <2>5, ClientMoves
<1>9. /\ DOMAIN Q2 = DOMAIN Q \cup {c}
  BY DEF With
<1> HIDE DEF Q2
<1>10. /\ Gone(t, m2) = Gone(t, m) /\ Left(t, m2) = Left(t, m)
       /\ Unlisted(t, m2, S) = Unlisted(t, m, S)
       /\ \A x : Erased(t, m2, S, x) <=> Erased(t, m, S, x)
  BY <1>7 DEF Gone, Left, Unlisted, Erased, Passed
<1>11. StreamsSame(t, m2, S)
  BY <1>4, <1>7, <1>10 DEF Progress, StreamsSame
<1>12. ClientsSame(t, m2, S, Q2)
  BY <1>1, <1>3, <1>6, <1>7, <1>9, <1>10 DEF Progress, ClientsSame, LiveClients
<1>13. CountedOff(t, m2, S, Q2)
  <2> DEFINE L == Left(t, m) \cup DOMAIN Q
  <2>1. L \in SUBSET CID /\ c \notin L
    BY <1>1 DEF Left, LiveClients
  <2>2. Cardinality(L) \in Nat /\ Cardinality(L \cup {c}) = Cardinality(L) + 1
    BY <2>1, IdsFinite, FS_AddElement
  <2>3. Left(t, m2) \cup DOMAIN Q2 = L \cup {c}
    BY <1>9, <1>10
  <2>4. t.nclients \in Int /\ m.nclients = t.nclients - Cardinality(L)
    BY <1>1 DEF Progress, CountedOff, TablesType
  <2> HIDE DEF L
  <2>5. m2.nclients = t.nclients - Cardinality(Left(t, m2) \cup DOMAIN Q2)
    <3>1. Cardinality(Left(t, m2) \cup DOMAIN Q2) = Cardinality(L) + 1
      BY <2>2, <2>3
    <3> QED BY ONLY <1>4, <2>2, <2>4, <3>1
  <2> QED BY <1>4, <1>10, <2>5 DEF Progress, CountedOff
<1> QED BY <1>1, <1>8, <1>11, <1>12, <1>13 DEF Progress, m2, f, Q2

\* A call of clients_delete() changes nothing while it goes through the slots.
LEMMA ClientRest ==
    ASSUME NEW t, NEW fn, NEW id, NEW m, NEW S, NEW Q, NEW c \in DOMAIN Q, NEW f,
           Progress(t, fn, id, {}, {}, m, S, Q)
    PROVE  ClientsSame(t, m, S, With(Q, c, f)) /\ CountedOff(t, m, S, With(Q, c, f))
<1>1. DOMAIN With(Q, c, f) = DOMAIN Q
  BY DEF With
<1> QED BY <1>1 DEF Progress, ClientsSame, CountedOff

\* The stream in a slot of the client is called for.
LEMMA SlotTried ==
    ASSUME NEW t, NEW fn, NEW id, NEW m, NEW S, NEW Q, NEW c \in DOMAIN Q,
           Progress(t, fn, id, {}, {}, m, S, Q), Q[c].pc = "streams",
           Q[c].i # STREAMS_PER_CLIENT
    PROVE  /\ m.clients[c].streams[Q[c].i] \in SID \cup {None}
           /\ Progress(t, fn, id, {m.clients[c].streams[Q[c].i]}, {}, m, S,
                       With(Q, c, [Q[c] EXCEPT !.i = @ + 1]))
<1> DEFINE i == Q[c].i
           x == m.clients[c].streams[i]
           f == [Q[c] EXCEPT !.i = @ + 1]
<1>1. /\ m \in TablesType /\ t \in TablesType /\ c \in CID /\ c \in LiveClients(m)
      /\ c \in LiveClients(t) /\ Shaped(t, m, S, Q)
      /\ Q[c] \in Frame /\ Q[c].fn = "clients_delete" /\ Q[c].id = c
      /\ i <= STREAMS_PER_CLIENT /\ i \in Nat
  BY DEF Progress, Shaped, ClientCalls, LiveClients, Frame
<1>2. i \in Slot /\ i + 1 <= STREAMS_PER_CLIENT /\ \A k \in Slot : k < i + 1 => k < i \/ k = i
  BY <1>1, TablesAssumption DEF Slot
<1>3. /\ f \in Frame /\ f.fn = "clients_delete" /\ f.id = c /\ f.pc = "streams" /\ f.i = i + 1
  BY <1>1 DEF Frame
<1>4. x \in SID \cup {None}
  <2>1. m.clients[c] \in Client
    BY <1>1 DEF TablesType, LiveClients
  <2> QED BY <1>2, <2>1 DEF Client
<1> HIDE DEF i, f
<1>5. m.clients[c].streams = FreedSlots(t, c, Unlisted(t, m, S))
  BY <1>1 DEF Progress, ClientsSame
<1>6. \/ x = t.clients[c].streams[i]
      \/ x = None /\ t.clients[c].streams[i] \in Unlisted(t, m, S)
  BY <1>2, <1>5 DEF FreedSlots
<1> HIDE DEF x
<1>7. {x} \cap LiveStreams(t) \subseteq Doomed(t, Roots(t, fn, id))
  <2>1. c \in Lost(t, fn, id)
    BY <1>1 DEF Progress, Needed, ReachedC
  <2>2. x \in LiveStreams(t) => x = t.clients[c].streams[i]
    BY <1>6, NoneIsNoStream DEF LiveStreams
  <2> QED BY <1>1, <1>2, <2>1, <2>2, LostSlots
<1>8. t.clients[c].streams[i] \in Reached(t, m, S, {x})
  BY <1>6 DEF Reached, Unlisted
<1>9. Shaped(t, m, S, With(Q, c, f)) /\ Needed(t, fn, id, {x}, {}, m, S, With(Q, c, f))
      /\ Covered(t, fn, id, {x}, {}, m, S, With(Q, c, f))
  <2>1. f.i <= STREAMS_PER_CLIENT /\ f.pc \in {"streams", "free"} /\ {} \subseteq {x}
    BY <1>2, <1>3
  <2>2. \A k \in Slot : f.pc = "free" \/ k < f.i =>
            \/ c \in DOMAIN Q /\ (Q[c].pc = "free" \/ k < Q[c].i)
            \/ t.clients[c].streams[k] \in Reached(t, m, S, {x})
    BY <1>2, <1>3, <1>8 DEF i
  <2>3. {} \subseteq {c} /\ {c} \subseteq {} \cup DOMAIN Q
    OBVIOUS
  <2>4. /\ Covered(t, fn, id, {}, {}, m, S, Q) /\ Needed(t, fn, id, {}, {}, m, S, Q)
    BY DEF Progress
  <2> QED BY <1>1, <1>3, <1>7, <2>1, <2>2, <2>3, <2>4, ClientMoves, ZenonT(60)
<1>10. ClientsSame(t, m, S, With(Q, c, f)) /\ CountedOff(t, m, S, With(Q, c, f))
  BY ClientRest
<1> QED BY <1>4, <1>9, <1>10 DEF Progress, f, x, i

\* All slots have been tried.
LEMMA SlotsDone ==
    ASSUME NEW t, NEW fn, NEW id, NEW m, NEW S, NEW Q, NEW c \in DOMAIN Q,
           Progress(t, fn, id, {}, {}, m, S, Q), Q[c].pc = "streams",
           Q[c].i = STREAMS_PER_CLIENT
    PROVE  Progress(t, fn, id, {}, {}, m, S, With(Q, c, [Q[c] EXCEPT !.pc = "free"]))
<1> DEFINE f == [Q[c] EXCEPT !.pc = "free"]
<1>1. /\ m \in TablesType /\ c \in LiveClients(m) /\ Shaped(t, m, S, Q)
      /\ Q[c] \in Frame /\ Q[c].fn = "clients_delete" /\ Q[c].id = c
      /\ Q[c].i <= STREAMS_PER_CLIENT
  BY DEF Progress, Shaped, ClientCalls
<1>2. /\ f \in Frame /\ f.fn = "clients_delete" /\ f.id = c /\ f.pc = "free" /\ f.i = Q[c].i
  BY <1>1 DEF Frame
<1> HIDE DEF f
<1>3. Shaped(t, m, S, With(Q, c, f)) /\ Needed(t, fn, id, {}, {}, m, S, With(Q, c, f))
      /\ Covered(t, fn, id, {}, {}, m, S, With(Q, c, f))
  <2>1. f.i <= STREAMS_PER_CLIENT /\ f.pc \in {"streams", "free"} /\ {} \subseteq {}
        /\ {} \cap LiveStreams(t) \subseteq Doomed(t, Roots(t, fn, id))
    BY <1>1, <1>2
  <2>2. \A k \in Slot : k < Q[c].i
    BY TablesAssumption DEF Slot
  <2>3. \A k \in Slot : f.pc = "free" \/ k < f.i =>
            \/ c \in DOMAIN Q /\ (Q[c].pc = "free" \/ k < Q[c].i)
            \/ t.clients[c].streams[k] \in Reached(t, m, S, {})
    BY <2>2
  <2>4. {} \subseteq {c} /\ {c} \subseteq {} \cup DOMAIN Q
    OBVIOUS
  <2>5. /\ Covered(t, fn, id, {}, {}, m, S, Q) /\ Needed(t, fn, id, {}, {}, m, S, Q)
    BY DEF Progress
  <2> QED BY <1>1, <1>2, <2>1, <2>3, <2>4, <2>5, ClientMoves
<1>4. ClientsSame(t, m, S, With(Q, c, f)) /\ CountedOff(t, m, S, With(Q, c, f))
  BY ClientRest
<1> QED BY <1>3, <1>4 DEF Progress, f

\* The entry of the client is freed.
LEMMA ClientFreed ==
    ASSUME NEW t, NEW fn, NEW id, NEW m, NEW S, NEW Q, NEW c \in DOMAIN Q,
           Progress(t, fn, id, {}, {}, m, S, Q), Q[c].pc = "free"
    PROVE  Progress(t, fn, id, {}, {}, [m EXCEPT !.clients[c] = NULL], S, Drop(Q, c))
<1> DEFINE Q2 == Drop(Q, c)
           m2 == [m EXCEPT !.clients[c] = NULL]
<1>1. /\ m \in TablesType /\ c \in CID /\ c \in LiveClients(m) /\ c \in LiveClients(t)
      /\ LiveClients(m) \subseteq LiveClients(t) /\ Shaped(t, m, S, Q)
      /\ DOMAIN Q \subseteq LiveClients(m)
  BY DEF Progress, Shaped, ClientCalls
<1>2. DOMAIN Q2 = DOMAIN Q \ {c} /\ \A x \in DOMAIN Q2 : Q2[x] = Q[x]
  BY DEF Drop
<1>3. /\ m2 \in TablesType /\ m2.clients[c] = NULL /\ m2.streams = m.streams
      /\ \A x \in CID \ {c} : m2.clients[x] = m.clients[x]
      /\ m2.nstreams = m.nstreams /\ m2.nclients = m.nclients /\ m2.alive = m.alive
      /\ m2.thru = m.thru
  BY <1>1 DEF TablesType
<1> HIDE DEF Q2, m2
<1>4. LiveStreams(m2) = LiveStreams(m) /\ LiveClients(m2) = LiveClients(m) \ {c}
  BY <1>1, <1>3 DEF LiveStreams, LiveClients
<1>5. Gone(t, m2) = Gone(t, m) /\ Left(t, m2) = Left(t, m) \cup {c}
  BY <1>1, <1>4 DEF Gone, Left
<1>6. Shaped(t, m2, S, Q2)
  BY <1>1, <1>2, <1>3, <1>4 DEF Shaped, ClientCalls
<1>7. /\ Reached(t, m2, S, {}) = Reached(t, m, S, {})
      /\ ReachedC(t, m2, Q2, {}) = ReachedC(t, m, Q, {})
  BY <1>2, <1>5 DEF Reached, ReachedC
<1>8. /\ \A p, x : Passed(t, m2, S, p, x) <=> Passed(t, m, S, p, x)
      /\ Told(t, m2, S) = Told(t, m, S) /\ Unlisted(t, m2, S) = Unlisted(t, m, S)
  BY <1>5 DEF Passed, Told, Unlisted
<1>9. \A d, k : Tried(t, m2, Q2, d, k) <=> Tried(t, m, Q, d, k)
  BY <1>2, <1>5 DEF Tried
<1>10. Needed(t, fn, id, {}, {}, m2, S, Q2)
  BY <1>7 DEF Progress, Needed
<1>11. Covered(t, fn, id, {}, {}, m2, S, Q2)
  BY <1>7, <1>8, <1>9, CoveredStep DEF Progress
<1>12. StreamsSame(t, m2, S)
  <2>1. \A x : Erased(t, m2, S, x) <=> Erased(t, m, S, x)
    BY <1>8 DEF Erased
  <2> QED BY <1>3, <1>4, <2>1 DEF Progress, StreamsSame
<1>13. ClientsSame(t, m2, S, Q2)
  <2>1. \A d \in LiveClients(m2) : d \in LiveClients(m) /\ m2.clients[d] = m.clients[d]
            /\ (d \in DOMAIN Q2 <=> d \in DOMAIN Q)
    BY <1>2, <1>3, <1>4 DEF LiveClients
  <2> QED BY <1>8, <2>1 DEF Progress, ClientsSame
<1>14. CountedOff(t, m2, S, Q2)
  <2>1. Left(t, m2) \cup DOMAIN Q2 = Left(t, m) \cup DOMAIN Q
    BY <1>2, <1>5
  <2> QED BY <1>3, <1>5, <2>1 DEF Progress, CountedOff
<1> QED BY <1>6, <1>10, <1>11, <1>12, <1>13, <1>14 DEF Progress, Q2, m2

-----------------------------------------------------------------------------
(* The first call and the last return                                       *)

\* No call at all.
NoCalls == [x \in {} |-> Call("streams_delete", None)]

\* A deletion begins with one call.
LEMMA Started ==
    ASSUME NEW t \in TablesType, NEW fn \in {"streams_delete", "clients_delete"},
           NEW id \in SID \cup CID
    PROVE  LET st == <<Call(fn, id)>> IN
           /\ Calls(st, NoCalls, NoCalls)
           /\ Progress(t, fn, id, Asked(st, "streams_delete"), Asked(st, "clients_delete"),
                       t, NoCalls, NoCalls)
<1> DEFINE f  == Call(fn, id)
           st == <<f>>
           PS == Asked(st, "streams_delete")
           PC == Asked(st, "clients_delete")
<1>1. DOMAIN NoCalls = {}
  BY DEF NoCalls
<1>2. f \in Frame /\ f.pc = "enter" /\ f.fn = fn /\ f.id = id
  BY DEF Call, Frame
<1> HIDE DEF f
<1>3. st \in Seq(Frame) /\ DOMAIN st = {1} /\ st[1] = f /\ st # <<>>
  BY <1>2
<1>4. Calls(st, NoCalls, NoCalls)
  BY <1>1, <1>2, <1>3 DEF Calls, CallsOf
<1>5. /\ fn = "streams_delete" => PS = {id} /\ PC = {}
      /\ fn = "clients_delete" => PS = {} /\ PC = {id}
  BY <1>2, <1>3 DEF Asked
<1> HIDE DEF st, PS, PC
<1>6. Gone(t, t) = {} /\ Left(t, t) = {}
  BY DEF Gone, Left
<1>7. Shaped(t, t, NoCalls, NoCalls)
  BY <1>1 DEF Shaped, StreamCalls, ClientCalls
<1>8. Reached(t, t, NoCalls, PS) = PS /\ ReachedC(t, t, NoCalls, PC) = PC
  BY <1>1, <1>6 DEF Reached, ReachedC
<1>9. Needed(t, fn, id, PS, PC, t, NoCalls, NoCalls)
  <2>1. CASE fn = "streams_delete"
    <3>1. {id} \cap LiveStreams(t) \subseteq Doomed(t, Roots(t, fn, id))
      BY <2>1, DoomedClosed DEF Roots
    <3> QED BY <1>1, <1>5, <1>8, <2>1, <3>1 DEF Needed
  <2>2. CASE fn = "clients_delete"
    <3>1. {id} \cap LiveClients(t) \subseteq Lost(t, fn, id)
      BY <2>2 DEF Lost, RootClients
    <3> QED BY <1>1, <1>5, <1>8, <2>2, <3>1 DEF Needed
  <2> QED BY <2>1, <2>2
<1>10. /\ \A p, s : ~ Passed(t, t, NoCalls, p, s)
       /\ Told(t, t, NoCalls) = {} /\ Unlisted(t, t, NoCalls) = {}
       /\ \A c, k : ~ Tried(t, t, NoCalls, c, k)
  BY <1>1, <1>6 DEF Passed, Told, Unlisted, Tried
<1>11. Covered(t, fn, id, PS, PC, t, NoCalls, NoCalls)
  <2>1. fn = "streams_delete" /\ id \in LiveStreams(t) => id \in Reached(t, t, NoCalls, PS)
    BY <1>5, <1>8
  <2>2. fn = "clients_delete" /\ id \in LiveClients(t) => id \in ReachedC(t, t, NoCalls, PC)
    BY <1>5, <1>8
  <2> QED BY <1>10, <2>1, <2>2 DEF Covered
<1>12. StreamsSame(t, t, NoCalls)
  BY <1>1, <1>10 DEF StreamsSame, Erased
<1>13. ClientsSame(t, t, NoCalls, NoCalls)
  <2>1. ASSUME NEW c \in LiveClients(t)
        PROVE  t.clients[c].streams = FreedSlots(t, c, {})
    <3>1. t.clients[c] \in Client
      BY DEF TablesType, LiveClients
    <3>2. t.clients[c].streams = [k \in Slot |-> t.clients[c].streams[k]]
      BY <3>1 DEF Client
    <3> QED BY <3>2 DEF FreedSlots
  <2> QED BY <1>1, <1>10, <2>1 DEF ClientsSame
<1>14. CountedOff(t, t, NoCalls, NoCalls)
  <2>1. Cardinality({}) = 0
    BY FS_EmptySet
  <2>2. Gone(t, t) \cup DOMAIN NoCalls = {} /\ Left(t, t) \cup DOMAIN NoCalls = {}
        /\ Gone(t, t) \cup {s \in DOMAIN NoCalls : NoCalls[s].pc # "children"} = {}
    BY <1>1, <1>6
  <2>3. ThruAmong(t, {}) = 0
    <3>1. {s \in {} : t.streams[s].dir = "THRU"} = {}
      OBVIOUS
    <3> QED BY <2>1, <3>1 DEF ThruAmong
  <2>4. t.nstreams \in Int /\ t.nclients \in Int /\ t.thru \in Int
    BY DEF TablesType
  <2> QED BY <1>6, <2>1, <2>2, <2>3, <2>4 DEF CountedOff
<1> QED BY <1>4, <1>7, <1>9, <1>11, <1>12, <1>13, <1>14 DEF Progress, st, PS, PC, f

\* Without streams and clients to free the tables stay.
LEMMA RemoveNothing ==
    ASSUME NEW t \in TablesType
    PROVE  Remove(t, {}, {}) = t
<1> DEFINE u == Remove(t, {}, {})
<1>1. Cardinality({}) = 0 /\ ThruAmong(t, {}) = 0
  <2>1. {s \in {} : t.streams[s].dir = "THRU"} = {}
    OBVIOUS
  <2> QED BY <2>1, FS_EmptySet DEF ThruAmong
<1>2. u.nstreams = t.nstreams /\ u.nclients = t.nclients /\ u.thru = t.thru /\ u.alive = t.alive
  BY <1>1 DEF Remove, TablesType
<1>3. u.streams = t.streams
  BY DEF Remove, TablesType
<1>4. u.clients = t.clients
  <2>1. ASSUME NEW c \in LiveClients(t)
        PROVE  [t.clients[c] EXCEPT !.streams = FreedSlots(t, c, {})] = t.clients[c]
    <3>1. t.clients[c] \in Client
      BY DEF TablesType, LiveClients
    <3>2. t.clients[c].streams = FreedSlots(t, c, {})
      BY <3>1 DEF Client, FreedSlots
    <3> QED BY <3>1, <3>2 DEF Client
  <2>2. \A c \in CID : u.clients[c] = t.clients[c]
    BY <2>1 DEF Remove, LiveClients
  <2>3. u.clients = [c \in CID |-> u.clients[c]] /\ t.clients = [c \in CID |-> t.clients[c]]
    BY DEF Remove, TablesType
  <2> QED BY <2>2, <2>3
<1>5. u \in TablesType
  BY RemoveType
<1> HIDE DEF u
<1> QED BY <1>2, <1>3, <1>4, <1>5 DEF TablesType, u

\* When no call is left exactly what has to go is gone.
LEMMA AllGone ==
    ASSUME NEW t, NEW fn, NEW id, NEW m, NEW S, NEW Q,
           Progress(t, fn, id, {}, {}, m, S, Q), DOMAIN S = {}, DOMAIN Q = {},
           fn \in {"streams_delete", "clients_delete"}
    PROVE  Gone(t, m) = Doomed(t, Roots(t, fn, id)) /\ Left(t, m) = Lost(t, fn, id)
<1> DEFINE D == Gone(t, m)
           L == Left(t, m)
<1>1. /\ t \in TablesType /\ D \in SUBSET LiveStreams(t) /\ L \in SUBSET LiveClients(t)
      /\ LiveClients(t) \subseteq CID
  BY DEF Progress, Shaped, Gone, Left, LiveClients
<1>2. Reached(t, m, S, {}) = D /\ ReachedC(t, m, Q, {}) = L /\ Unlisted(t, m, S) = D
      /\ Told(t, m, S) = D
  BY DEF Reached, ReachedC, Unlisted, Told
<1>3. /\ \A p \in D : \A s : Passed(t, m, S, p, s)
      /\ \A c \in L : \A k : Tried(t, m, Q, c, k)
  BY DEF Passed, Tried
<1> HIDE DEF D, L
<1>4. /\ D \subseteq Doomed(t, Roots(t, fn, id)) /\ L \subseteq Lost(t, fn, id)
  BY <1>1, <1>2 DEF Progress, Needed
<1>5. /\ \A p \in D, s \in LiveStreams(t) : Dependent(t, s, p) => s \in D
      /\ \A s \in D, p \in LiveStreams(t) : TakesParent(t, s, p) => p \in D
      /\ \A s \in D, c \in CID : ExecedBy(t, s, c) => c \in L
      /\ \A c \in L, k \in Slot :
            t.clients[c].streams[k] \in LiveStreams(t) => t.clients[c].streams[k] \in D
      /\ fn = "streams_delete" /\ id \in LiveStreams(t) => id \in D
      /\ fn = "clients_delete" /\ id \in LiveClients(t) => id \in L
  <2>1. \A p \in D : p \in LiveStreams(t)
    BY <1>1
  <2>2. \A c \in L : c \in LiveClients(t)
    BY <1>1
  <2> QED BY <1>2, <1>3, <2>1, <2>2 DEF Progress, Covered
<1>6. \A c \in L : SlotSet(t, c) \cap LiveStreams(t) \subseteq D
  BY <1>5 DEF SlotSet
<1>7. Closed(t, D)
  <2>1. ASSUME NEW s \in D, NEW i \in LiveStreams(t) \ D, Triggers(t, s, i)
        PROVE  FALSE
    <3>1. CASE Dependent(t, i, s)
      BY <1>5, <3>1
    <3>2. CASE TakesParent(t, s, i)
      BY <1>5, <3>2
    <3>3. ASSUME NEW c \in CID, ExecedBy(t, s, c), i \in SlotSet(t, c)
          PROVE  FALSE
      BY <1>5, <1>6, <3>3
    <3> QED BY <2>1, <3>1, <3>2, <3>3 DEF Triggers
  <2> QED BY <2>1 DEF Closed
<1>8. Roots(t, fn, id) \cap LiveStreams(t) \subseteq D
  BY <1>5, <1>6 DEF Roots
<1>9. D = Doomed(t, Roots(t, fn, id))
  BY <1>1, <1>4, <1>7, <1>8, DoomedLeast
<1>10. Lost(t, fn, id) \subseteq L
  BY <1>5, <1>9 DEF Lost, RootClients
<1> QED BY <1>4, <1>9, <1>10 DEF D, L

\* The tables are then as if all had been freed at once.
LEMMA Finished ==
    ASSUME NEW t, NEW fn, NEW id, NEW m, NEW S, NEW Q,
           Progress(t, fn, id, {}, {}, m, S, Q), DOMAIN S = {}, DOMAIN Q = {},
           fn \in {"streams_delete", "clients_delete"},
           fn = "streams_delete" => id \in LiveStreams(t)
    PROVE  m = IF fn = "streams_delete" THEN streams_delete(t, id) ELSE clients_delete(t, id)
<1> DEFINE D == Gone(t, m)
           L == Left(t, m)
           u == Remove(t, D, L)
<1>1. /\ t \in TablesType /\ m \in TablesType
      /\ D \in SUBSET LiveStreams(t) /\ L \in SUBSET LiveClients(t)
      /\ LiveStreams(m) = LiveStreams(t) \ D /\ LiveClients(m) = LiveClients(t) \ L
  BY DEF Progress, Shaped, Gone, Left
<1>2. D = Doomed(t, Roots(t, fn, id)) /\ L = Lost(t, fn, id)
  BY AllGone
<1>3. /\ m.nstreams = t.nstreams - Cardinality(D) /\ m.nclients = t.nclients - Cardinality(L)
      /\ m.thru = t.thru - ThruAmong(t, D) /\ m.alive = t.alive
      /\ ~ (t.alive /\ \E s \in D : t.streams[s].primary)
  <2>1. Gone(t, m) \cup DOMAIN S = D /\ Left(t, m) \cup DOMAIN Q = L
        /\ Gone(t, m) \cup {s \in DOMAIN S : S[s].pc # "children"} = D
    OBVIOUS
  <2> QED BY <2>1 DEF Progress, CountedOff
<1>4. /\ Unlisted(t, m, S) = D
      /\ \A p, s : Passed(t, m, S, p, s) <=> p \in D
      /\ Reached(t, m, S, {}) = D
  BY DEF Unlisted, Passed, Reached
<1> HIDE DEF D, L
<1>5. \A s \in LiveStreams(m) :
        m.streams[s] = IF t.streams[s].pos_rel_id \in D
                       THEN Unrelated(t.streams[s]) ELSE t.streams[s]
  <2>1. \A s \in LiveStreams(m) :
            m.streams[s] = IF Erased(t, m, S, s) THEN Unrelated(t.streams[s]) ELSE t.streams[s]
    BY DEF Progress, StreamsSame
  <2>2. ASSUME NEW s \in LiveStreams(m)
        PROVE  Erased(t, m, S, s) <=> t.streams[s].pos_rel_id \in D
    <3>1. \A p \in D : Dependent(t, s, p) => s \in D
      BY <1>1, <1>4 DEF Progress, Covered
    <3> QED BY <1>1, <1>4, <3>1 DEF Erased
  <2> QED BY <2>1, <2>2
<1>6. \A s \in SID : m.streams[s] = u.streams[s]
  <2>1. ASSUME NEW s \in SID
        PROVE  u.streams[s] =
                 IF s \in D THEN NULL
                 ELSE IF s \in LiveStreams(t) /\ t.streams[s].pos_rel_id \in D
                      THEN Unrelated(t.streams[s])
                      ELSE t.streams[s]
    BY DEF Remove
  <2>2. \A s \in SID : s \notin LiveStreams(m) => m.streams[s] = NULL
    BY DEF LiveStreams
  <2>3. \A s \in SID : s \notin LiveStreams(t) => t.streams[s] = NULL
    BY DEF LiveStreams
  <2> QED BY <1>1, <1>5, <2>1, <2>2, <2>3
<1>7. \A c \in CID : m.clients[c] = u.clients[c]
  <2>1. ASSUME NEW c \in CID
        PROVE  u.clients[c] =
                 IF c \in L THEN NULL
                 ELSE IF c \in LiveClients(t)
                      THEN [t.clients[c] EXCEPT !.streams = FreedSlots(t, c, D)]
                      ELSE NULL
    BY DEF Remove
  <2>2. ASSUME NEW c \in LiveClients(m)
        PROVE  m.clients[c] = [t.clients[c] EXCEPT !.streams = FreedSlots(t, c, D)]
    <3>1. m.clients[c] \in Client /\ t.clients[c] \in Client
      BY <1>1 DEF TablesType, LiveClients
    <3>2. /\ m.clients[c].fh = t.clients[c].fh /\ m.clients[c].execed = t.clients[c].execed
          /\ m.clients[c].streams = FreedSlots(t, c, D)
      BY <1>4 DEF Progress, ClientsSame
    <3> QED BY <3>1, <3>2 DEF Client
  <2>3. \A c \in CID : c \notin LiveClients(m) => m.clients[c] = NULL
    BY DEF LiveClients
  <2> QED BY <1>1, <2>1, <2>2, <2>3
<1>8. m = u
  <2>1. u \in TablesType
    BY <1>1, RemoveType DEF LiveStreams, LiveClients
  <2>2. /\ u.nstreams = m.nstreams /\ u.nclients = m.nclients
        /\ u.thru = m.thru /\ u.alive = m.alive
    BY <1>3 DEF Remove
  <2> HIDE DEF u
  <2>3. m.streams = u.streams /\ m.clients = u.clients
    BY <1>1, <1>6, <1>7, <2>1 DEF TablesType
  <2> QED BY <1>1, <2>1, <2>2, <2>3 DEF TablesType
<1> HIDE DEF u
<1>9. CASE fn = "streams_delete"
  <2>1. Roots(t, fn, id) = {id} /\ Lost(t, fn, id) = {} \cup {c \in CID : \E s \in D : ExecedBy(t, s, c)}
    BY <1>2, <1>9 DEF Roots, Lost, RootClients
  <2>2. Delete(t, {id}, {}) = Remove(t, D, L)
    BY <1>2, <1>3, <2>1 DEF Delete
  <2> QED BY <1>8, <1>9, <2>2 DEF streams_delete, u
<1>10. CASE fn = "clients_delete" /\ id \in LiveClients(t)
  <2>1. /\ Roots(t, fn, id) = SlotSet(t, id)
        /\ Lost(t, fn, id) = {id} \cup {c \in CID : \E s \in D : ExecedBy(t, s, c)}
    BY <1>2, <1>10 DEF Roots, Lost, RootClients
  <2>2. Delete(t, SlotSet(t, id), {id}) = Remove(t, D, L)
    BY <1>2, <1>3, <2>1 DEF Delete
  <2> QED BY <1>8, <1>10, <2>2 DEF clients_delete, u
<1>11. CASE fn = "clients_delete" /\ id \notin LiveClients(t)
  <2>1. Roots(t, fn, id) = {} /\ RootClients(t, fn, id) = {}
    BY <1>11 DEF Roots, RootClients
  <2>2. Closed(t, {})
    BY DEF Closed
  <2>3. D = {}
    BY <1>2, <2>1, <2>2, DoomedLeast
  <2>4. L = {}
    BY <1>2, <2>1, <2>3 DEF Lost
  <2>5. m = t
    BY <1>1, <1>8, <2>3, <2>4, RemoveNothing DEF u
  <2> QED BY <1>11, <2>5 DEF clients_delete
<1> QED BY <1>9, <1>10, <1>11

-----------------------------------------------------------------------------
(* The specification                                                        *)

\* What the deletion that begins with fn(id) makes of the tables t.
Result(t, fn, id) ==
    IF fn = "streams_delete" THEN streams_delete(t, id) ELSE clients_delete(t, id)

\* The tables in the variables are well-formed.
LEMMA NowTables ==
    ASSUME Inv
    PROVE  /\ Now \in TablesType /\ Now.streams = g_streams /\ Now.clients = g_clients
           /\ Now.alive = alive
BY DEF Inv, TypeOK, Now, TablesType

\* What the main loop hands to the call.
LEMMA OriginTables ==
    ASSUME Inv, NEW t, NEW fn, NEW id, Origin(t, fn, id)
    PROVE  /\ t \in TablesType /\ fn \in {"streams_delete", "clients_delete"}
           /\ id \in SID \cup CID
           /\ fn = "streams_delete" => id \in LiveStreams(t)
           /\ alive
<1>1. /\ Now \in TablesType /\ Now.streams = g_streams /\ Now.clients = g_clients
      /\ Now.alive = alive
  BY NowTables
<1>2. CASE ClientAsked(t, fn, id)
  BY <1>1, <1>2 DEF ClientAsked, Requests, Runs
<1>3. CASE StreamAsked(t, fn, id)
  BY <1>1, <1>3 DEF LiveStreams, StreamAsked, Requests, Runs
<1>4. CASE StreamUnready(t, fn, id)
  <2>1. PICK c, execed : Unready(t, id, c, execed)
    BY <1>4 DEF StreamUnready
  <2>2. /\ c \in CID /\ Requests(c) /\ Lists(Now, c, id) /\ id \in LiveStreams(Now)
        /\ execed \in {g_clients[c].execed, id}
        /\ t = [Now EXCEPT !.clients[c].execed = execed, !.streams[id].fh = TRUE]
        /\ fn = "streams_delete"
    BY <1>4, <2>1 DEF StreamUnready, Unready
  <2>3. alive /\ g_clients[c] # NULL /\ id \in SID /\ g_clients[c] \in Client
        /\ g_streams[id] \in Stream
    BY <1>1, <2>2 DEF Requests, Runs, LiveStreams, TablesType
  <2> DEFINE q == [g_clients[c] EXCEPT !.execed = execed]
             r == [g_streams[id] EXCEPT !.fh = TRUE]
             u == [Now EXCEPT !.clients[c] = q]
  <2>4. q \in Client /\ r \in Stream
    BY <2>2, <2>3 DEF Client, Stream
  <2>5. t = [u EXCEPT !.streams[id] = r]
    BY <1>1, <2>2, <2>3 DEF TablesType
  <2> HIDE DEF q, r
  <2>6. u \in TablesType /\ u.streams = g_streams
    BY <1>1, <2>3, <2>4 DEF TablesType
  <2>7. LiveStreams(u) = LiveStreams(Now)
    BY <1>1, <2>6 DEF LiveStreams
  <2> HIDE DEF u
  <2>8. t = Put(u, id, r)
    BY <2>5 DEF Put
  <2> QED BY <2>2, <2>3, <2>4, <2>6, <2>7, <2>8, PutLeaves
<1> QED BY <1>2, <1>3, <1>4 DEF Origin

\* The end of the outermost call is the step of Registry that the request or
\* event stands for.
LEMMA OriginStep ==
    ASSUME Inv, NEW t, NEW fn, NEW id, Origin(t, fn, id), Become(Result(t, fn, id))
    PROVE  Next
<1>1. /\ Now \in TablesType /\ Now.streams = g_streams /\ Now.clients = g_clients
      /\ Now.alive = alive
  BY NowTables
<1>2. CASE ClientAsked(t, fn, id)
  <2>1. Become(clients_delete(Now, id)) /\ id \in CID
    BY <1>2 DEF Result, ClientAsked
  <2>2. CASE Runs /\ g_clients[id] # NULL /\ g_clients[id].fh
    <3>1. Disconnect(id)
      BY <2>1, <2>2 DEF Disconnect
    <3> QED BY <2>1, <3>1 DEF Next
  <2>3. ASSUME NEW c \in CID, Requests(c)
        PROVE  Next
    <3>1. Req_kick(c)
      BY <2>1, <2>3 DEF Req_kick
    <3> QED BY <3>1 DEF Next
  <2> QED BY <1>2, <2>2, <2>3 DEF ClientAsked
<1>3. CASE StreamAsked(t, fn, id)
  <2>1. Become(streams_delete(Now, id)) /\ id \in LiveStreams(Now)
    BY <1>3 DEF Result, StreamAsked
  <2>2. ASSUME NEW c \in CID, Requests(c), ~ g_streams[id].immutable
        PROVE  Next
    <3>1. Req_kick(c)
      BY <2>1, <2>2 DEF Req_kick
    <3> QED BY <3>1 DEF Next
  <2>3. CASE /\ Runs /\ g_streams[id].fh
             /\ \/ g_streams[id].dir = "THRU"
                \/ \E c \in LiveClients(Now) : id \in SlotSet(Now, c)
    <3>1. id \in SID /\ g_streams[id] # NULL
      BY <1>1, <2>1 DEF LiveStreams
    <3>2. StreamFails(id)
      BY <2>1, <2>3, <3>1 DEF StreamFails
    <3> QED BY <3>1, <3>2 DEF Next
  <2> QED BY <1>3, <2>2, <2>3 DEF StreamAsked
<1>4. CASE StreamUnready(t, fn, id)
  <2>1. PICK c, execed : Unready(t, id, c, execed)
    BY <1>4 DEF StreamUnready
  <2>2. /\ fn = "streams_delete" /\ id \in LiveStreams(Now)
        /\ ~ g_streams[id].ready /\ "codec" \in FhOutcomes
        /\ g_streams[id].dir \notin {"THRU", "RAW_IN", "RAW_OUT"}
        /\ c \in CID /\ Requests(c) /\ Lists(Now, c, id)
        /\ execed \in {g_clients[c].execed, id}
        /\ t = [Now EXCEPT !.clients[c].execed = execed, !.streams[id].fh = TRUE]
    BY <1>4, <2>1 DEF StreamUnready, Unready
  <2>3. g_clients[c] \in Client /\ id \in SID /\ g_streams[id] # NULL /\ c \in LiveClients(Now)
    BY <1>1, <2>2 DEF Requests, LiveStreams, LiveClients, TablesType
  <2>4. Become(streams_delete(t, id))
    BY <2>2 DEF Result
  <2>5. PICK cf : cf \in CodecKinds
    BY RegistryAssumption
  <2> DEFINE u == [Now EXCEPT !.clients[c].execed = execed]
  <2>6. t = [u EXCEPT !.streams[id].fh = TRUE] /\ u.streams = Now.streams
    BY <1>1, <2>2 DEF TablesType
  <2>7. streams_set_fh(u, id, "codec", cf) = streams_delete(t, id)
    <3> HIDE DEF u
    <3>1. id \in LiveStreams(u) /\ ~ u.streams[id].ready
          /\ u.streams[id].dir \notin {"THRU", "RAW_IN", "RAW_OUT"}
      BY <1>1, <2>2, <2>6 DEF LiveStreams
    <3> QED BY <2>6, <3>1 DEF streams_set_fh
  <2>8. CASE execed = id
    <3>1. client_stream_exec(Now, c, id, "codec", cf) = streams_delete(t, id)
      BY <2>2, <2>7, <2>8 DEF client_stream_exec
    <3>2. Req_exec_stream(c)
      <4>1. Become(IF g_streams[id] = NULL \/ g_streams[id].ready
                   THEN clients_close(Now, c)
                   ELSE client_stream_exec(Now, c, id, "codec", cf))
        BY <2>2, <2>3, <2>4, <3>1, Zenon
      <4> QED BY <2>2, <2>3, <2>5, <4>1, Zenon DEF Req_exec_stream
    <3> QED BY <2>2, <3>2 DEF Next
  <2>9. CASE execed = g_clients[c].execed
    <3>1. u = Now
      <4>1. [g_clients[c] EXCEPT !.execed = execed] = g_clients[c]
        BY <2>3, <2>9 DEF Client
      <4>2. u = [Now EXCEPT !.clients[c] = [g_clients[c] EXCEPT !.execed = execed]]
        BY <1>1
      <4> QED BY <1>1, <4>1, <4>2 DEF TablesType
    <3>2. client_stream_set_fh(Now, c, id, "codec", cf) = streams_delete(t, id)
      <4> HIDE DEF u
      <4> QED BY <2>2, <2>7, <3>1 DEF client_stream_set_fh
    <3>3. Req_con_stream(c)
      <4>1. Become(client_stream_set_fh(Now, c, id, "codec", cf))
        BY <2>4, <3>2, Zenon
      <4> QED BY <2>2, <2>3, <2>5, <4>1, Zenon DEF Req_con_stream
    <3> QED BY <2>2, <3>3 DEF Next
  <2> QED BY <2>2, <2>8, <2>9
<1> QED BY <1>2, <1>3, <1>4 DEF Origin

\* The outermost call has returned with the tables that Registry knows.
LEMMA Settles ==
    ASSUME Inv, NEW t, NEW fn, NEW id, Origin(t, fn, id), Settle,
           stack' = <<>>, mem' = Result(t, fn, id), mem' \in TablesType,
           closing' \subseteq SID, alive' => closing' = {}
    PROVE  [Next]_vars /\ DInv'
<1>1. Become(mem')
  BY DEF Settle
<1>2. Next
  <2>1. Become(Result(t, fn, id))
    BY <1>1, Zenon
  <2> QED BY <2>1, OriginStep
<1>3. Inv'
  BY <1>2, StepInv
<1>4. mem' = Now'
  BY <1>1 DEF Become, Store, Now, TablesType
<1> QED BY <1>2, <1>3, <1>4 DEF DInv

\* What the deletion began with stands as long as the variables do.
LEMMA OriginStays ==
    ASSUME NEW t, NEW fn, NEW id, Origin(t, fn, id), UNCHANGED vars
    PROVE  Origin(t, fn, id)'
<1>1. /\ Now' = Now /\ g_streams' = g_streams /\ g_clients' = g_clients
      /\ (Runs' <=> Runs)
  BY DEF vars, Now, Runs
<1>2. \A c : Requests(c)' <=> Requests(c)
  BY <1>1 DEF Requests
<1>3. \A c, execed : Unready(t, id, c, execed) => Unready(t, id, c, execed)'
  BY <1>1, <1>2 DEF Unready
<1>4. /\ ClientAsked(t, fn, id) => ClientAsked(t, fn, id)'
      /\ StreamAsked(t, fn, id) => StreamAsked(t, fn, id)'
  BY <1>1, <1>2 DEF ClientAsked, StreamAsked
<1>5. StreamUnready(t, fn, id) => StreamUnready(t, fn, id)'
  BY <1>1, <1>3 DEF StreamUnready
<1> QED BY <1>4, <1>5 DEF Origin

\* A call goes on, makes another or returns, and the deletion makes progress.
LEMMA Continues ==
    ASSUME Inv, NEW t, NEW fn, NEW id, Origin(t, fn, id), Settle, NEW S2, NEW Q2,
           Calls(stack', S2, Q2), Fresh(stack'), closing' = DOMAIN S2,
           Progress(t, fn, id, Asked(stack', "streams_delete"),
                    Asked(stack', "clients_delete"), mem', S2, Q2)
    PROVE  [Next]_vars /\ DInv'
<1>1. CASE stack' # <<>>
  <2>1. UNCHANGED vars
    BY <1>1 DEF Settle
  <2>2. Inv'
    BY <2>1, StepInv
  <2>3. Origin(t, fn, id)'
    BY <2>1, OriginStays
  <2>4. Running(t, fn, id, S2, Q2)'
    BY <2>3 DEF Running
  <2>5. closing' \subseteq SID
    BY DEF Progress, Shaped, StreamCalls
  <2> QED BY <1>1, <2>1, <2>2, <2>4, <2>5 DEF DInv
<1>2. CASE stack' = <<>>
  <2>1. Asked(stack', "streams_delete") = {} /\ Asked(stack', "clients_delete") = {}
    BY <1>2 DEF Asked
  <2>2. DOMAIN S2 = {} /\ DOMAIN Q2 = {}
    <3>1. DOMAIN stack' = {}
      BY <1>2
    <3> QED BY <3>1 DEF Calls, CallsOf
  <2>3. /\ fn \in {"streams_delete", "clients_delete"}
        /\ fn = "streams_delete" => id \in LiveStreams(t)
    BY OriginTables
  <2>4. Progress(t, fn, id, {}, {}, mem', S2, Q2)
    BY <2>1
  <2>5. mem' = Result(t, fn, id)
    BY <2>2, <2>3, <2>4, Finished DEF Result
  <2>6. mem' \in TablesType
    BY <2>4 DEF Progress, Shaped
  <2> QED BY <1>2, <2>2, <2>5, <2>6, Settles
<1> QED BY <1>1, <1>2

\* The innermost call, and what it was made for.
LEMMA TopCall ==
    ASSUME NEW st, NEW S, NEW Q, Calls(st, S, Q), st # <<>>
    PROVE  /\ Head(st) = st[1] /\ st[1] \in Frame
           /\ st[1].fn = "streams_delete" /\ st[1].pc # "enter" =>
                st[1].id \in DOMAIN S /\ S[st[1].id] = st[1]
           /\ st[1].fn = "clients_delete" /\ st[1].pc # "enter" =>
                st[1].id \in DOMAIN Q /\ Q[st[1].id] = st[1]
           /\ st[1].pc # "enter" => NotAsked(st)
           /\ st[1].pc = "enter" =>
                \A fn : Asked(st, fn) = IF fn = st[1].fn THEN {st[1].id} ELSE {}
<1>1. st \in Seq(Frame)
  BY DEF Calls
<1>2. 1 \in DOMAIN st /\ Head(st) = st[1] /\ st[1] \in Frame
  BY <1>1, EmptySeq, LenProperties, HeadTailProperties, ElementOfSeq
<1> QED BY <1>2 DEF Calls, CallsOf, NotAsked, Asked

\* The innermost call goes on as f, without a call.
LEMMA GoesOn ==
    ASSUME Inv, NEW t, NEW fn, NEW id, Origin(t, fn, id), Settle, NEW f, NEW S2, NEW Q2,
           Goes(stack, f, S2, Q2), stack' = <<f>> \o Tail(stack), closing' = DOMAIN S2,
           Progress(t, fn, id, {}, {}, mem', S2, Q2)
    PROVE  [Next]_vars /\ DInv'
<1>1. Calls(stack', S2, Q2) /\ NotAsked(stack')
  BY DEF Goes
<1>2. Fresh(stack') /\ Asked(stack', "streams_delete") = {} /\ Asked(stack', "clients_delete") = {}
  BY <1>1 DEF NotAsked, Asked, Fresh
<1> QED BY <1>1, <1>2, Continues

\* The innermost call goes on as f after the call h(x) that it makes.
LEMMA Makes ==
    ASSUME Inv, NEW t, NEW fn, NEW id, Origin(t, fn, id), Settle, NEW f, NEW S2, NEW Q2,
           NEW h \in {"streams_delete", "clients_delete"}, NEW x \in SID \cup CID \cup {None},
           Goes(stack, f, S2, Q2), stack' = <<Call(h, x), f>> \o Tail(stack),
           closing' = DOMAIN S2,
           Progress(t, fn, id, IF h = "streams_delete" THEN {x} ELSE {},
                    IF h = "clients_delete" THEN {x} ELSE {}, mem', S2, Q2)
    PROVE  [Next]_vars /\ DInv'
<1> DEFINE g == Call(h, x)
<1>1. g \in Frame /\ g.pc = "enter" /\ g.fn = h /\ g.id = x
  BY DEF Call, Frame
<1>2. stack' = <<g, f>> \o Tail(stack)
  OBVIOUS
<1> HIDE DEF g
<1>3. /\ Calls(stack', S2, Q2) /\ stack'[1] = g
      /\ \A n : Asked(stack', n) = IF n = h THEN {x} ELSE {}
  BY <1>1, <1>2, ZenonT(60) DEF Goes
<1>4. Fresh(stack')
  BY <1>1, <1>3 DEF Fresh, g
<1>5. /\ Asked(stack', "streams_delete") = IF h = "streams_delete" THEN {x} ELSE {}
      /\ Asked(stack', "clients_delete") = IF h = "clients_delete" THEN {x} ELSE {}
  BY <1>3
<1>6. Progress(t, fn, id, Asked(stack', "streams_delete"),
               Asked(stack', "clients_delete"), mem', S2, Q2)
  BY <1>5, Zenon
<1> QED BY <1>3, <1>4, <1>6, Continues

\* The innermost call returns.
LEMMA Returns ==
    ASSUME Inv, NEW t, NEW fn, NEW id, Origin(t, fn, id), Settle, NEW S2, NEW Q2,
           Calls(stack', S2, Q2), NotAsked(stack'), closing' = DOMAIN S2,
           Progress(t, fn, id, {}, {}, mem', S2, Q2)
    PROVE  [Next]_vars /\ DInv'
<1>1. Fresh(stack') /\ Asked(stack', "streams_delete") = {} /\ Asked(stack', "clients_delete") = {}
  BY DEF NotAsked, Asked, Fresh
<1> QED BY <1>1, Continues

\* What is known when the innermost call, which has begun, takes a step.
LEMMA StreamTop ==
    ASSUME NEW t, NEW fn, NEW id, NEW S, NEW Q, Running(t, fn, id, S, Q), NEW pc,
           At("streams_delete", pc), pc # "enter"
    PROVE  LET s == Top.id IN
           /\ Origin(t, fn, id) /\ closing = DOMAIN S /\ Calls(stack, S, Q) /\ stack # <<>>
           /\ StreamCalls(S) /\ ClientCalls(Q)
           /\ Progress(t, fn, id, {}, {}, mem, S, Q)
           /\ s \in DOMAIN S /\ S[s] = Top /\ stack[1] = Top /\ Top.fn = "streams_delete"
           /\ Top.pc = pc /\ Top \in Frame
           /\ \A f \in Frame : f.fn = "streams_delete" /\ f.id = s /\ f.pc # "enter" =>
                Goes(stack, f, With(S, s, f), Q) /\ DOMAIN With(S, s, f) = DOMAIN S
<1>1. /\ Origin(t, fn, id) /\ closing = DOMAIN S /\ Calls(stack, S, Q) /\ stack # <<>>
      /\ Top.fn = "streams_delete" /\ Top.pc = pc
  BY DEF Running, At
<1>2. stack[1] = Top /\ Top \in Frame /\ NotAsked(stack) /\ Top.id \in DOMAIN S /\ S[Top.id] = Top
  BY <1>1, TopCall DEF Top
<1>3. Progress(t, fn, id, {}, {}, mem, S, Q)
  BY <1>2 DEF Running, NotAsked
<1>4. StreamCalls(S) /\ ClientCalls(Q)
  BY <1>3 DEF Progress, Shaped
<1>5. ASSUME NEW f \in Frame, f.fn = "streams_delete", f.id = Top.id, f.pc # "enter"
      PROVE  Goes(stack, f, With(S, Top.id, f), Q) /\ DOMAIN With(S, Top.id, f) = DOMAIN S
  <2>1. Goes(stack, f, With(S, f.id, f), Q)
    BY <1>1, <1>2, <1>4, <1>5, StreamCallGoes
  <2>2. DOMAIN With(S, Top.id, f) = DOMAIN S
    BY <1>2 DEF With
  <2> QED BY <1>5, <2>1, <2>2
<1> QED BY <1>1, <1>2, <1>3, <1>4, <1>5

\* The same for clients_delete().
LEMMA ClientTop ==
    ASSUME NEW t, NEW fn, NEW id, NEW S, NEW Q, Running(t, fn, id, S, Q), NEW pc,
           At("clients_delete", pc), pc # "enter"
    PROVE  LET c == Top.id IN
           /\ Origin(t, fn, id) /\ closing = DOMAIN S /\ Calls(stack, S, Q) /\ stack # <<>>
           /\ StreamCalls(S) /\ ClientCalls(Q)
           /\ Progress(t, fn, id, {}, {}, mem, S, Q)
           /\ c \in DOMAIN Q /\ Q[c] = Top /\ stack[1] = Top /\ Top.fn = "clients_delete"
           /\ Top.pc = pc /\ Top \in Frame
           /\ \A f \in Frame : f.fn = "clients_delete" /\ f.id = c /\ f.pc # "enter" =>
                Goes(stack, f, S, With(Q, c, f))
<1>1. /\ Origin(t, fn, id) /\ closing = DOMAIN S /\ Calls(stack, S, Q) /\ stack # <<>>
      /\ Top.fn = "clients_delete" /\ Top.pc = pc
  BY DEF Running, At
<1>2. stack[1] = Top /\ Top \in Frame /\ NotAsked(stack) /\ Top.id \in DOMAIN Q /\ Q[Top.id] = Top
  BY <1>1, TopCall DEF Top
<1>3. Progress(t, fn, id, {}, {}, mem, S, Q)
  BY <1>2 DEF Running, NotAsked
<1>4. StreamCalls(S) /\ ClientCalls(Q)
  BY <1>3 DEF Progress, Shaped
<1>5. ASSUME NEW f \in Frame, f.fn = "clients_delete", f.id = Top.id, f.pc # "enter"
      PROVE  Goes(stack, f, S, With(Q, Top.id, f))
  <2>1. Goes(stack, f, S, With(Q, f.id, f))
    BY <1>1, <1>2, <1>4, <1>5, ClientCallGoes
  <2> QED BY <1>5, <2>1
<1> QED BY <1>1, <1>2, <1>3, <1>4, <1>5

-----------------------------------------------------------------------------
(* One lemma for each step of the recursion                                 *)

\* streams_delete() looks the stream up and begins, or returns.
LEMMA StreamEnterStep ==
    ASSUME Inv, NEW t, NEW fn, NEW id, NEW S, NEW Q, Running(t, fn, id, S, Q), StreamEnter
    PROVE  [Next]_vars /\ DInv'
<1> DEFINE s == Top.id
<1>1. /\ Origin(t, fn, id) /\ closing = DOMAIN S /\ Calls(stack, S, Q) /\ stack # <<>>
      /\ Top.fn = "streams_delete" /\ Top.pc = "enter" /\ Fresh(stack) /\ Settle
  BY DEF Running, StreamEnter, At
<1>2. /\ stack[1] = Top /\ Top \in Frame
      /\ Asked(stack, "streams_delete") = {s} /\ Asked(stack, "clients_delete") = {}
  BY <1>1, TopCall DEF Top
<1>3. Progress(t, fn, id, {s}, {}, mem, S, Q)
  BY <1>2 DEF Running
<1>4. StreamCalls(S) /\ ClientCalls(Q)
  BY <1>3 DEF Progress, Shaped
<1>5. CASE s \notin LiveStreams(mem) \/ s \in closing
  <2>1. stack' = Tail(stack) /\ mem' = mem /\ closing' = closing
    BY <1>5 DEF StreamEnter, Return
  <2>2. Calls(Tail(stack), S, Q) /\ NotAsked(Tail(stack))
    BY <1>1, <1>2, <1>4, TopReturns
  <2>3. Progress(t, fn, id, {}, {}, mem, S, Q)
    BY <1>1, <1>3, <1>5, StreamAgain
  <2>4. Calls(stack', S, Q) /\ NotAsked(stack') /\ closing' = DOMAIN S
        /\ Progress(t, fn, id, {}, {}, mem', S, Q)
    BY <1>1, <2>1, <2>2, <2>3
  <2> QED BY <1>1, <2>4, Returns
<1>6. CASE ~ (s \notin LiveStreams(mem) \/ s \in closing)
  <2> DEFINE f == Begun(s)
  <2>1. /\ closing' = closing \cup {s} /\ mem' = [mem EXCEPT !.nstreams = @ - 1]
        /\ stack' = <<[Top EXCEPT !.pc = "children"]>> \o Tail(stack)
    BY <1>6 DEF StreamEnter, Goto
  <2>2. Top = Call("streams_delete", s)
    BY <1>1, <1>2 DEF Fresh
  <2>3. [Top EXCEPT !.pc = "children"] = f
    BY <2>2 DEF Begun
  <2>4. f \in Frame /\ f.fn = "streams_delete" /\ f.id = s /\ f.pc = "children"
    BY <1>2, <2>3 DEF Frame, Begun, Call
  <2> HIDE DEF f
  <2>5. Progress(t, fn, id, {}, {}, [mem EXCEPT !.nstreams = @ - 1], With(S, s, f), Q)
    BY <1>1, <1>3, <1>6, StreamBegins DEF f
  <2>6. Goes(stack, f, With(S, f.id, f), Q)
    BY <1>1, <1>2, <1>4, <1>6, <2>4, StreamCallGoes
  <2>7. DOMAIN With(S, s, f) = DOMAIN S \cup {s}
    BY DEF With
  <2>8. /\ Goes(stack, f, With(S, s, f), Q) /\ closing' = DOMAIN With(S, s, f)
        /\ stack' = <<f>> \o Tail(stack)
        /\ Progress(t, fn, id, {}, {}, mem', With(S, s, f), Q)
    BY <1>1, <2>1, <2>3, <2>4, <2>5, <2>6, <2>7
  <2> QED BY <1>1, <2>8, GoesOn
<1> QED BY <1>5, <1>6

\* streams_delete() looks at one stream that may depend on its own.
LEMMA StreamChildrenStep ==
    ASSUME Inv, NEW t, NEW fn, NEW id, NEW S, NEW Q, Running(t, fn, id, S, Q), StreamChildren
    PROVE  [Next]_vars /\ DInv'
<1> DEFINE s == Top.id
           i == Top.i
           next == [Top EXCEPT !.i = @ + 1]
           last == [Top EXCEPT !.pc = "virtual"]
<1>1. At("streams_delete", "children") /\ "children" # "enter" /\ Settle /\ closing' = closing
  BY DEF StreamChildren
<1>2. /\ Origin(t, fn, id) /\ closing = DOMAIN S
      /\ Progress(t, fn, id, {}, {}, mem, S, Q)
      /\ s \in DOMAIN S /\ S[s] = Top /\ Top.fn = "streams_delete"
      /\ Top.pc = "children" /\ Top \in Frame
      /\ \A f \in Frame : f.fn = "streams_delete" /\ f.id = s /\ f.pc # "enter" =>
            Goes(stack, f, With(S, s, f), Q) /\ DOMAIN With(S, s, f) = DOMAIN S
  BY <1>1, StreamTop
<1>3. /\ next \in Frame /\ next.fn = "streams_delete" /\ next.id = s /\ next.pc # "enter"
      /\ last \in Frame /\ last.fn = "streams_delete" /\ last.id = s /\ last.pc # "enter"
  BY <1>2 DEF Frame
<1>4. next = [S[s] EXCEPT !.i = @ + 1] /\ last = [S[s] EXCEPT !.pc = "virtual"] /\ S[s].i = i
  BY <1>2
<1>5. CASE i = STREAMS_MAX
  <2> DEFINE m2 == [mem EXCEPT !.thru = IF mem.streams[s].dir = "THRU" THEN @ - 1 ELSE @]
  <2>1. mem' = m2 /\ stack' = <<last>> \o Tail(stack)
    BY <1>5 DEF StreamChildren, Goto
  <2>2. Progress(t, fn, id, {}, {}, m2, With(S, s, last), Q)
    BY <1>2, <1>4, <1>5, ChildrenDone
  <2> HIDE DEF m2, last
  <2>3. /\ Goes(stack, last, With(S, s, last), Q) /\ closing' = DOMAIN With(S, s, last)
        /\ Progress(t, fn, id, {}, {}, mem', With(S, s, last), Q)
    BY <1>1, <1>2, <1>3, <2>1, <2>2
  <2> QED BY <1>1, <1>2, <2>1, <2>3, GoesOn
<1>6. CASE i # STREAMS_MAX /\ i \in LiveStreams(mem) /\ Dependent(mem, i, s)
  <2>1. mem' = mem /\ stack' = <<Call("streams_delete", i), next>> \o Tail(stack)
    BY <1>6 DEF StreamChildren, CallFrom
  <2>2. Progress(t, fn, id, {i}, {}, mem, With(S, s, next), Q)
    BY <1>2, <1>4, <1>6, ChildCalled
  <2> HIDE DEF next, i
  <2>3. /\ Goes(stack, next, With(S, s, next), Q) /\ closing' = DOMAIN With(S, s, next)
    BY <1>1, <1>2, <1>3
  <2>4. Progress(t, fn, id, IF "streams_delete" = "streams_delete" THEN {i} ELSE {},
                 IF "streams_delete" = "clients_delete" THEN {i} ELSE {}, mem', With(S, s, next), Q)
    BY <2>1, <2>2
  <2>5. i \in SID \cup CID \cup {None}
    BY <1>6 DEF LiveStreams
  <2> QED BY <1>1, <1>2, <2>1, <2>3, <2>4, <2>5, Makes
<1>7. CASE i # STREAMS_MAX /\ ~ (i \in LiveStreams(mem) /\ Dependent(mem, i, s))
  <2>1. mem' = Forgets(mem, s, i) /\ stack' = <<next>> \o Tail(stack)
    BY <1>7 DEF StreamChildren, Forgets
  <2>2. Progress(t, fn, id, {}, {}, Forgets(mem, s, i), With(S, s, next), Q)
    BY <1>2, <1>4, <1>7, ChildPassed
  <2> HIDE DEF next, i
  <2>3. /\ Goes(stack, next, With(S, s, next), Q) /\ closing' = DOMAIN With(S, s, next)
        /\ Progress(t, fn, id, {}, {}, mem', With(S, s, next), Q)
    BY <1>1, <1>2, <1>3, <2>1, <2>2
  <2> QED BY <1>1, <1>2, <2>1, <2>3, GoesOn
<1> QED BY <1>5, <1>6, <1>7

\* A virtual stream tells its container.
LEMMA StreamVirtualStep ==
    ASSUME Inv, NEW t, NEW fn, NEW id, NEW S, NEW Q, Running(t, fn, id, S, Q), StreamVirtual
    PROVE  [Next]_vars /\ DInv'
<1> DEFINE s    == Top.id
           rel  == mem.streams[s].pos_rel_id
           f    == [S[s] EXCEPT !.pc = "regroup", !.rel = rel, !.client = mem.streams[s].client]
           last == [S[s] EXCEPT !.pc = "client"]
           m2   == [mem EXCEPT !.streams[s].pos_rel_id = None, !.streams[s].client = None]
<1>1. At("streams_delete", "virtual") /\ "virtual" # "enter" /\ Settle /\ closing' = closing
  BY DEF StreamVirtual
<1>2. /\ Origin(t, fn, id) /\ closing = DOMAIN S
      /\ Progress(t, fn, id, {}, {}, mem, S, Q)
      /\ s \in DOMAIN S /\ S[s] = Top /\ Top.fn = "streams_delete"
      /\ Top.pc = "virtual" /\ Top \in Frame
      /\ \A g \in Frame : g.fn = "streams_delete" /\ g.id = s /\ g.pc # "enter" =>
            Goes(stack, g, With(S, s, g), Q) /\ DOMAIN With(S, s, g) = DOMAIN S
  BY <1>1, StreamTop
<1>3. CASE mem.streams[s].virtual /\ rel # None
  <2> DEFINE PS == IF rel \in LiveStreams(mem) /\ mem.streams[rel].cf = "wave" THEN {rel} ELSE {}
  <2>1. f \in Frame /\ Progress(t, fn, id, PS, {}, m2, With(S, s, f), Q)
    <3>1. s \in DOMAIN S /\ Progress(t, fn, id, {}, {}, mem, S, Q) /\ S[s].pc = "virtual"
          /\ mem.streams[s].virtual /\ mem.streams[s].pos_rel_id # None
      BY <1>2, <1>3
    <3> HIDE DEF s
    <3> QED BY <3>1, VirtualTold, Zenon
  <2>2. f.fn = "streams_delete" /\ f.id = s /\ f.pc # "enter"
    BY <1>2, SMTT(60) DEF Frame
  <2>3. /\ mem' = m2
        /\ IF rel \in LiveStreams(mem) /\ mem.streams[rel].cf = "wave"
           THEN stack' = <<Call("streams_delete", rel), f>> \o Tail(stack)
           ELSE stack' = <<f>> \o Tail(stack)
    BY <1>2, <1>3 DEF StreamVirtual, CallFrom
  <2> HIDE DEF f, m2, rel
  <2>4. Goes(stack, f, With(S, s, f), Q) /\ closing' = DOMAIN With(S, s, f)
    BY <1>1, <1>2, <2>1, <2>2
  <2>5. CASE rel \in LiveStreams(mem) /\ mem.streams[rel].cf = "wave"
    <3>1. Progress(t, fn, id, IF "streams_delete" = "streams_delete" THEN {rel} ELSE {},
                   IF "streams_delete" = "clients_delete" THEN {rel} ELSE {}, mem', With(S, s, f), Q)
      BY <2>1, <2>3, <2>5
    <3>2. rel \in SID \cup CID \cup {None}
      BY <2>5 DEF LiveStreams
    <3> QED BY <1>1, <1>2, <2>3, <2>4, <2>5, <3>1, <3>2, Makes
  <2>6. CASE ~ (rel \in LiveStreams(mem) /\ mem.streams[rel].cf = "wave")
    <3>1. Progress(t, fn, id, {}, {}, mem', With(S, s, f), Q) /\ stack' = <<f>> \o Tail(stack)
      BY <2>1, <2>3, <2>6
    <3> QED BY <1>1, <1>2, <2>4, <3>1, GoesOn
  <2> QED BY <2>5, <2>6
<1>4. CASE ~ (mem.streams[s].virtual /\ rel # None)
  <2>1. Progress(t, fn, id, {}, {}, mem, With(S, s, last), Q)
    BY <1>2, <1>4, NotVirtual
  <2>2. last \in Frame /\ last.fn = "streams_delete" /\ last.id = s /\ last.pc # "enter"
    BY <1>2 DEF Frame
  <2>3. mem' = mem /\ stack' = <<last>> \o Tail(stack)
    BY <1>2, <1>4 DEF StreamVirtual, Goto
  <2> HIDE DEF last
  <2>4. /\ Goes(stack, last, With(S, s, last), Q) /\ closing' = DOMAIN With(S, s, last)
        /\ Progress(t, fn, id, {}, {}, mem', With(S, s, last), Q)
    BY <1>1, <1>2, <2>1, <2>2, <2>3
  <2> QED BY <1>1, <1>2, <2>3, <2>4, GoesOn
<1> QED BY <1>3, <1>4

\* The relation of a virtual stream is put back.
LEMMA StreamRegroupStep ==
    ASSUME Inv, NEW t, NEW fn, NEW id, NEW S, NEW Q, Running(t, fn, id, S, Q), StreamRegroup
    PROVE  [Next]_vars /\ DInv'
<1> DEFINE s    == Top.id
           last == [S[s] EXCEPT !.pc = "client"]
           m2   == [mem EXCEPT !.streams[s].pos_rel_id = S[s].rel,
                               !.streams[s].client = S[s].client]
<1>1. /\ At("streams_delete", "regroup") /\ "regroup" # "enter" /\ Settle /\ closing' = closing
  BY DEF StreamRegroup
<1>2. /\ Origin(t, fn, id) /\ closing = DOMAIN S
      /\ Progress(t, fn, id, {}, {}, mem, S, Q)
      /\ s \in DOMAIN S /\ S[s] = Top /\ Top.fn = "streams_delete"
      /\ Top.pc = "regroup" /\ Top \in Frame
      /\ \A g \in Frame : g.fn = "streams_delete" /\ g.id = s /\ g.pc # "enter" =>
            Goes(stack, g, With(S, s, g), Q) /\ DOMAIN With(S, s, g) = DOMAIN S
  BY <1>1, StreamTop
<1>3. mem' = m2 /\ stack' = <<last>> \o Tail(stack)
  BY <1>2 DEF StreamRegroup, Goto
<1>4. Progress(t, fn, id, {}, {}, m2, With(S, s, last), Q)
  <2>1. s \in DOMAIN S /\ Progress(t, fn, id, {}, {}, mem, S, Q) /\ S[s].pc = "regroup"
    BY <1>2
  <2> HIDE DEF s
  <2> QED BY <2>1, Regrouped, Zenon
<1>5. last \in Frame /\ last.fn = "streams_delete" /\ last.id = s /\ last.pc # "enter"
  BY <1>2 DEF Frame
<1> HIDE DEF last, m2
<1>6. /\ Goes(stack, last, With(S, s, last), Q) /\ closing' = DOMAIN With(S, s, last)
      /\ Progress(t, fn, id, {}, {}, mem', With(S, s, last), Q)
  BY <1>1, <1>2, <1>3, <1>4, <1>5
<1> QED BY <1>1, <1>2, <1>3, <1>6, GoesOn

\* client_stream_delete() takes the stream from its client.
LEMMA StreamClientStep ==
    ASSUME Inv, NEW t, NEW fn, NEW id, NEW S, NEW Q, Running(t, fn, id, S, Q), StreamClient
    PROVE  [Next]_vars /\ DInv'
<1> DEFINE s == Top.id
           c == mem.streams[s].client
           f == [S[s] EXCEPT !.pc = "free"]
<1>1. At("streams_delete", "client") /\ "client" # "enter" /\ Settle /\ closing' = closing
  BY DEF StreamClient
<1>2. /\ Origin(t, fn, id) /\ closing = DOMAIN S
      /\ Progress(t, fn, id, {}, {}, mem, S, Q)
      /\ s \in DOMAIN S /\ S[s] = Top /\ Top.fn = "streams_delete"
      /\ Top.pc = "client" /\ Top \in Frame
      /\ \A g \in Frame : g.fn = "streams_delete" /\ g.id = s /\ g.pc # "enter" =>
            Goes(stack, g, With(S, s, g), Q) /\ DOMAIN With(S, s, g) = DOMAIN S
  BY <1>1, StreamTop, SMTT(60)
<1>3. /\ mem' = Unlist(mem, s)
      /\ Lists(mem, c, s) /\ mem.clients[c].execed = s =>
            stack' = <<Call("clients_delete", c), f>> \o Tail(stack)
      /\ ~ (Lists(mem, c, s) /\ mem.clients[c].execed = s) => stack' = <<f>> \o Tail(stack)
  <2> DEFINE k == CHOOSE j \in Slot : FirstOf({i \in Slot : mem.clients[c].streams[i] = s}, j)
             u == [mem EXCEPT !.streams[s].cf = "none"]
             v == [u EXCEPT !.clients[c].streams[k] = None]
             g == [Top EXCEPT !.pc = "free"]
             w == Tail(stack)
             a == <<Call("clients_delete", c), g>> \o w
             b == <<g>> \o w
  <2>1. IF Lists(mem, c, s)
        THEN mem' = v /\ IF mem.clients[c].execed = s THEN stack' = a ELSE stack' = b
        ELSE stack' = b /\ mem' = u
    BY Zenon DEF StreamClient, CallFrom
  <2>2. Unlist(mem, s) = IF Lists(mem, c, s) THEN v ELSE u
    BY Zenon DEF Unlist
  <2>3. g = f
    BY <1>2
  <2> HIDE DEF u, v, g, f
  <2> QED BY <2>1, <2>2, <2>3
<1>4. Progress(t, fn, id, {}, Unlisting(mem, s), mem', With(S, s, f), Q)
  <2>1. S[s].pc = "client"
    BY <1>2
  <2> QED BY <1>2, <1>3, <2>1, StreamUnlisted
<1>5. f \in Frame /\ f.fn = "streams_delete" /\ f.id = s /\ f.pc # "enter"
  BY <1>2 DEF Frame
<1> HIDE DEF f
<1>6. Goes(stack, f, With(S, s, f), Q) /\ closing' = DOMAIN With(S, s, f)
  BY <1>1, <1>2, <1>5
<1>7. CASE Lists(mem, c, s) /\ mem.clients[c].execed = s
  <2>1. Unlisting(mem, s) = {c}
    BY <1>7 DEF Unlisting
  <2>2. c \in SID \cup CID \cup {None}
    <3>1. mem \in TablesType /\ s \in LiveStreams(mem)
      BY <1>2 DEF Progress, Shaped
    <3>2. mem.streams[s] \in Stream
      BY <3>1 DEF TablesType, LiveStreams
    <3> QED BY <3>2 DEF Stream
  <2> HIDE DEF c
  <2>3. Progress(t, fn, id, IF "clients_delete" = "streams_delete" THEN {c} ELSE {},
                 IF "clients_delete" = "clients_delete" THEN {c} ELSE {}, mem', With(S, s, f), Q)
    BY <1>4, <2>1, SMTT(60)
  <2> QED BY <1>1, <1>2, <1>3, <1>6, <1>7, <2>2, <2>3, Makes
<1>8. CASE ~ (Lists(mem, c, s) /\ mem.clients[c].execed = s)
  <2>1. Unlisting(mem, s) = {}
    BY <1>8 DEF Unlisting
  <2>2. Progress(t, fn, id, {}, {}, mem', With(S, s, f), Q)
    BY <1>4, <2>1
  <2> QED BY <1>1, <1>2, <1>3, <1>6, <1>8, <2>2, GoesOn, SMTT(60)
<1> QED BY <1>7, <1>8, SMTT(60)

\* The entry is freed, and with a primary stream the server ends.
LEMMA StreamFreeStep ==
    ASSUME Inv, closing \subseteq SID, NEW t, NEW fn, NEW id, NEW S, NEW Q,
           Running(t, fn, id, S, Q), StreamFree
    PROVE  [Next]_vars /\ DInv'
<1> DEFINE s == Top.id
<1>1. At("streams_delete", "free") /\ "free" # "enter" /\ Settle /\ closing' = closing \ {s}
  BY DEF StreamFree
<1>2. /\ Origin(t, fn, id) /\ closing = DOMAIN S /\ Calls(stack, S, Q) /\ stack # <<>>
      /\ StreamCalls(S) /\ ClientCalls(Q)
      /\ Progress(t, fn, id, {}, {}, mem, S, Q)
      /\ s \in DOMAIN S /\ S[s] = Top /\ stack[1] = Top /\ Top.fn = "streams_delete"
      /\ Top.pc = "free"
  BY <1>1, StreamTop
<1>3. CASE mem.streams[s].primary /\ mem.alive
  <2>1. mem' = Quit /\ stack' = <<>>
    BY <1>3 DEF StreamFree
  <2>2. (\A K : Delete(t, Roots(t, fn, id), K) = Quit) /\ Roots(t, fn, id) # {}
    BY <1>2, <1>3, PrimaryQuits
  <2>3. /\ fn \in {"streams_delete", "clients_delete"}
        /\ fn = "streams_delete" => id \in LiveStreams(t)
    BY <1>2, OriginTables
  <2>4. Result(t, fn, id) = Quit
    <3>1. CASE fn = "streams_delete"
      BY <2>2, <2>3, <3>1 DEF Result, Roots, streams_delete
    <3>2. CASE fn = "clients_delete"
      BY <2>2, <3>2 DEF Result, Roots, clients_delete
    <3> QED BY <2>3, <3>1, <3>2
  <2>5. ~ alive'
    BY <1>1, <2>1 DEF Settle, Become, Store, Quit
  <2>6. mem' = Result(t, fn, id) /\ mem' \in TablesType /\ closing' \subseteq SID
        /\ (alive' => closing' = {})
    BY <1>1, <2>1, <2>4, <2>5, QuitType
  <2> QED BY <1>1, <1>2, <2>1, <2>6, Settles
<1>4. CASE ~ (mem.streams[s].primary /\ mem.alive)
  <2>1. mem' = [mem EXCEPT !.streams[s] = NULL] /\ stack' = Tail(stack)
    BY <1>4 DEF StreamFree, Return
  <2>2. Calls(Tail(stack), Drop(S, s), Q) /\ NotAsked(Tail(stack))
    BY <1>2, TopReturns
  <2>3. Progress(t, fn, id, {}, {}, mem', Drop(S, s), Q)
    <3>1. S[s].pc = "free"
      BY <1>2
    <3> QED BY <1>2, <1>4, <2>1, <3>1, StreamFreed
  <2>4. Calls(stack', Drop(S, s), Q) /\ NotAsked(stack') /\ closing' = DOMAIN Drop(S, s)
    BY <1>1, <1>2, <2>1, <2>2 DEF Drop
  <2> QED BY <1>1, <1>2, <2>3, <2>4, Returns
<1> QED BY <1>3, <1>4

\* clients_delete() looks the client up and begins, or returns.
LEMMA ClientEnterStep ==
    ASSUME Inv, NEW t, NEW fn, NEW id, NEW S, NEW Q, Running(t, fn, id, S, Q), ClientEnter
    PROVE  [Next]_vars /\ DInv'
<1> DEFINE c == Top.id
<1>1. /\ Origin(t, fn, id) /\ closing = DOMAIN S /\ Calls(stack, S, Q) /\ stack # <<>>
      /\ Top.fn = "clients_delete" /\ Top.pc = "enter" /\ Fresh(stack) /\ Settle
      /\ closing' = closing
  BY DEF Running, ClientEnter, At
<1>2. /\ stack[1] = Top /\ Top \in Frame
      /\ Asked(stack, "streams_delete") = {} /\ Asked(stack, "clients_delete") = {c}
  BY <1>1, TopCall DEF Top
<1>3. Progress(t, fn, id, {}, {c}, mem, S, Q)
  BY <1>2 DEF Running
<1>4. StreamCalls(S) /\ ClientCalls(Q)
  BY <1>3 DEF Progress, Shaped
<1>5. CASE c \notin LiveClients(mem)
  <2>1. stack' = Tail(stack) /\ mem' = mem
    BY <1>5 DEF ClientEnter, Return
  <2>2. Calls(Tail(stack), S, Q) /\ NotAsked(Tail(stack))
    BY <1>1, <1>2, <1>4, TopReturns
  <2>3. Progress(t, fn, id, {}, {}, mem, S, Q)
    BY <1>3, <1>5, ClientAgain
  <2>4. Calls(stack', S, Q) /\ NotAsked(stack') /\ closing' = DOMAIN S
        /\ Progress(t, fn, id, {}, {}, mem', S, Q)
    BY <1>1, <2>1, <2>2, <2>3
  <2> QED BY <1>1, <2>4, Returns
<1>6. CASE c \in LiveClients(mem)
  <2> DEFINE f  == BegunC(c)
             m2 == [mem EXCEPT !.nclients = @ - 1, !.clients[c].execed = None]
  <2>1. mem' = m2 /\ stack' = <<[Top EXCEPT !.pc = "streams"]>> \o Tail(stack)
    BY <1>6 DEF ClientEnter, Goto
  <2>2. Top = Call("clients_delete", c)
    BY <1>1, <1>2 DEF Fresh
  <2>3. [Top EXCEPT !.pc = "streams"] = f
    BY <2>2 DEF BegunC
  <2>4. f \in Frame /\ f.fn = "clients_delete" /\ f.id = c /\ f.pc = "streams"
    BY <1>2, <2>3 DEF Frame, BegunC, Call
  <2> HIDE DEF c
  <2>5. c \notin DOMAIN Q /\ Progress(t, fn, id, {}, {}, m2, S, With(Q, c, f))
    BY <1>3, <1>6, ClientBegins, Zenon
  <2> HIDE DEF f, m2
  <2>6. Goes(stack, f, S, With(Q, f.id, f))
    BY <1>1, <1>2, <1>4, <2>4, <2>5, ClientCallGoes DEF c
  <2>7. /\ Goes(stack, f, S, With(Q, c, f)) /\ closing' = DOMAIN S
        /\ stack' = <<f>> \o Tail(stack)
        /\ Progress(t, fn, id, {}, {}, mem', S, With(Q, c, f))
    BY <1>1, <2>1, <2>3, <2>4, <2>5, <2>6
  <2> QED BY <1>1, <2>7, GoesOn
<1> QED BY <1>5, <1>6

\* clients_delete() calls streams_delete() for one slot of the client.
LEMMA ClientStreamsStep ==
    ASSUME Inv, NEW t, NEW fn, NEW id, NEW S, NEW Q, Running(t, fn, id, S, Q), ClientStreams
    PROVE  [Next]_vars /\ DInv'
<1> DEFINE c    == Top.id
           x    == mem.clients[c].streams[Q[c].i]
           next == [Q[c] EXCEPT !.i = @ + 1]
           last == [Q[c] EXCEPT !.pc = "free"]
<1>1. /\ At("clients_delete", "streams") /\ "streams" # "enter" /\ Settle
      /\ closing' = closing /\ mem' = mem
  BY DEF ClientStreams
<1>2. /\ Origin(t, fn, id) /\ closing = DOMAIN S
      /\ Progress(t, fn, id, {}, {}, mem, S, Q)
      /\ c \in DOMAIN Q /\ Q[c] = Top /\ Top.fn = "clients_delete"
      /\ Top.pc = "streams" /\ Top \in Frame
      /\ \A f \in Frame : f.fn = "clients_delete" /\ f.id = c /\ f.pc # "enter" =>
            Goes(stack, f, S, With(Q, c, f))
  BY <1>1, ClientTop
<1>3. /\ next \in Frame /\ next.fn = "clients_delete" /\ next.id = c /\ next.pc # "enter"
      /\ last \in Frame /\ last.fn = "clients_delete" /\ last.id = c /\ last.pc # "enter"
      /\ Q[c].pc = "streams"
  BY <1>2 DEF Frame
<1>4. CASE Top.i = STREAMS_PER_CLIENT
  <2>1. stack' = <<last>> \o Tail(stack)
    BY <1>2, <1>4 DEF ClientStreams, Goto
  <2>2. Progress(t, fn, id, {}, {}, mem, S, With(Q, c, last))
    BY <1>2, <1>3, <1>4, SlotsDone
  <2> HIDE DEF last
  <2>3. /\ Goes(stack, last, S, With(Q, c, last)) /\ closing' = DOMAIN S
        /\ Progress(t, fn, id, {}, {}, mem', S, With(Q, c, last))
    BY <1>1, <1>2, <1>3, <2>2
  <2> QED BY <1>1, <1>2, <2>1, <2>3, GoesOn
<1>5. CASE Top.i # STREAMS_PER_CLIENT
  <2>1. stack' = <<Call("streams_delete", x), next>> \o Tail(stack)
    BY <1>2, <1>5 DEF ClientStreams, CallFrom
  <2>2. x \in SID \cup {None} /\ Progress(t, fn, id, {x}, {}, mem, S, With(Q, c, next))
    BY <1>2, <1>3, <1>5, SlotTried, ZenonT(60)
  <2> HIDE DEF next, x
  <2>3. Goes(stack, next, S, With(Q, c, next)) /\ closing' = DOMAIN S
    BY <1>1, <1>2, <1>3
  <2>4. Progress(t, fn, id, IF "streams_delete" = "streams_delete" THEN {x} ELSE {},
                 IF "streams_delete" = "clients_delete" THEN {x} ELSE {}, mem', S, With(Q, c, next))
    BY <1>1, <2>2
  <2>5. x \in SID \cup CID \cup {None}
    BY <2>2
  <2> QED BY <1>1, <1>2, <2>1, <2>3, <2>4, <2>5, Makes
<1> QED BY <1>4, <1>5

\* The entry of the client is freed.
LEMMA ClientFreeStep ==
    ASSUME Inv, NEW t, NEW fn, NEW id, NEW S, NEW Q, Running(t, fn, id, S, Q), ClientFree
    PROVE  [Next]_vars /\ DInv'
<1> DEFINE c == Top.id
<1>1. /\ At("clients_delete", "free") /\ "free" # "enter" /\ Settle /\ closing' = closing
      /\ mem' = [mem EXCEPT !.clients[c] = NULL] /\ stack' = Tail(stack)
  BY DEF ClientFree, Return
<1>2. /\ Origin(t, fn, id) /\ closing = DOMAIN S /\ Calls(stack, S, Q) /\ stack # <<>>
      /\ StreamCalls(S) /\ ClientCalls(Q)
      /\ Progress(t, fn, id, {}, {}, mem, S, Q)
      /\ c \in DOMAIN Q /\ Q[c] = Top /\ stack[1] = Top /\ Top.fn = "clients_delete"
      /\ Top.pc = "free"
  BY <1>1, ClientTop
<1>3. Calls(Tail(stack), S, Drop(Q, c)) /\ NotAsked(Tail(stack))
  BY <1>2, TopReturns
<1>4. Progress(t, fn, id, {}, {}, mem', S, Drop(Q, c))
  <2>1. Q[c].pc = "free"
    BY <1>2
  <2> QED BY <1>1, <1>2, <2>1, ClientFreed
<1>5. Calls(stack', S, Drop(Q, c)) /\ NotAsked(stack') /\ closing' = DOMAIN S
  BY <1>1, <1>2, <1>3
<1> QED BY <1>1, <1>2, <1>4, <1>5, Returns

-----------------------------------------------------------------------------
(* The main loop                                                            *)

\* A request or an event begins a deletion.
LEMMA StartStep ==
    ASSUME Inv, alive => closing = {}, NEW t, NEW fn, NEW id, Origin(t, fn, id),
           Start(fn, id, t)
    PROVE  [Next]_vars /\ DInv'
<1>1. UNCHANGED vars /\ closing' = closing /\ mem' = t /\ stack' = <<Call(fn, id)>>
  BY DEF Start
<1>2. /\ t \in TablesType /\ fn \in {"streams_delete", "clients_delete"}
      /\ id \in SID \cup CID /\ alive
  BY OriginTables
<1>3. Inv' /\ Origin(t, fn, id)'
  BY <1>1, StepInv, OriginStays
<1>4. /\ Calls(stack', NoCalls, NoCalls)
      /\ Progress(t, fn, id, Asked(stack', "streams_delete"), Asked(stack', "clients_delete"),
                  mem', NoCalls, NoCalls)
  BY <1>1, <1>2, Started
<1>5. Fresh(stack') /\ stack' # <<>> /\ closing' = {} /\ DOMAIN NoCalls = {}
  BY <1>1, <1>2 DEF Fresh, Call, NoCalls
<1>6. Running(t, fn, id, NoCalls, NoCalls)'
  BY <1>3, <1>4, <1>5 DEF Running
<1> QED BY <1>1, <1>3, <1>5, <1>6 DEF DInv

\* The three ways to begin one.
LEMMA AnyStart ==
    ASSUME DInv, StartClient \/ StartStream \/ StartUnready
    PROVE  [Next]_vars /\ DInv'
<1>1. stack = <<>>
  <2>1. \A t, fn, id : Start(fn, id, t) => stack = <<>>
    BY DEF Start
  <2> QED BY <2>1, Zenon DEF StartClient, StartStream, StartUnready
<1>2. Inv /\ mem = Now /\ (alive => closing = {})
  BY <1>1 DEF DInv
<1>3. \E t, fn, id : Origin(t, fn, id) /\ Start(fn, id, t)
  <2>1. CASE StartClient
    <3>1. PICK k \in CID :
            /\ Start("clients_delete", k, mem)
            /\ \/ Runs /\ g_clients[k] # NULL /\ g_clients[k].fh
               \/ \E c \in CID : Requests(c)
      BY <2>1 DEF StartClient
    <3>2. ClientAsked(mem, "clients_delete", k)
      BY <1>2, <3>1 DEF ClientAsked
    <3> QED BY <3>1, <3>2 DEF Origin
  <2>2. CASE StartStream
    <3>1. PICK s \in LiveStreams(mem) :
            /\ Start("streams_delete", s, mem)
            /\ \/ \E c \in CID : Requests(c) /\ ~ g_streams[s].immutable
               \/ /\ Runs /\ g_streams[s].fh
                  /\ \/ g_streams[s].dir = "THRU"
                     \/ \E c \in LiveClients(Now) : s \in SlotSet(Now, c)
      BY <2>2 DEF StartStream
    <3>2. StreamAsked(mem, "streams_delete", s)
      BY <1>2, <3>1 DEF StreamAsked
    <3> QED BY <3>1, <3>2 DEF Origin
  <2>3. CASE StartUnready
    <3>1. PICK c \in CID, s \in LiveStreams(mem) :
            /\ Requests(c) /\ Lists(mem, c, s) /\ ~ g_streams[s].ready
            /\ "codec" \in FhOutcomes
            /\ g_streams[s].dir \notin {"THRU", "RAW_IN", "RAW_OUT"}
            /\ \E execed \in {g_clients[c].execed, s} :
                Start("streams_delete", s,
                      [mem EXCEPT !.clients[c].execed = execed, !.streams[s].fh = TRUE])
      BY <2>3, Zenon DEF StartUnready
    <3>2. PICK execed \in {g_clients[c].execed, s} :
            Start("streams_delete", s,
                  [mem EXCEPT !.clients[c].execed = execed, !.streams[s].fh = TRUE])
      BY <3>1
    <3> DEFINE t == [mem EXCEPT !.clients[c].execed = execed, !.streams[s].fh = TRUE]
    <3>3. Unready(t, s, c, execed)
      BY <1>2, <3>1, <3>2 DEF Unready
    <3>4. Start("streams_delete", s, t)
      BY <3>2
    <3> HIDE DEF t
    <3>5. StreamUnready(t, "streams_delete", s)
      BY <1>2, <3>1, <3>3 DEF StreamUnready
    <3> QED BY <3>4, <3>5 DEF Origin
  <2> QED BY <2>1, <2>2, <2>3
<1> QED BY <1>2, <1>3, StartStep

\* The requests that are single steps.
LEMMA OtherStep ==
    ASSUME DInv, Other
    PROVE  [Next]_vars /\ DInv'
<1>1. /\ stack = <<>> /\ stack' = <<>> /\ closing' = closing /\ mem' = Now'
      /\ Inv /\ (alive => closing = {}) /\ closing \subseteq SID
  BY DEF Other, DInv
<1>2. Next
  BY DEF Other, Next
<1>3. Inv' /\ Keeps(Now, Now')
  BY <1>1, <1>2, StepInv
<1>4. alive' => alive
  BY <1>3 DEF Keeps, Now
<1> QED BY <1>1, <1>2, <1>3, <1>4 DEF DInv

-----------------------------------------------------------------------------
(* The theorems                                                             *)

\* Every step keeps the invariant and is a step of Registry or none.
LEMMA DeletionStep ==
    ASSUME DInv, [DNext]_dvars
    PROVE  [Next]_vars /\ DInv'
<1>1. CASE UNCHANGED dvars
  <2>1. UNCHANGED vars /\ mem' = mem /\ closing' = closing /\ stack' = stack
    BY <1>1 DEF dvars
  <2>2. Inv' /\ Now' = Now /\ alive' = alive
    BY <2>1, StepInv DEF DInv, vars, Now
  <2>3. ASSUME NEW t, NEW fn, NEW id, NEW S, NEW Q, Running(t, fn, id, S, Q)
        PROVE  Running(t, fn, id, S, Q)'
    <3>1. Origin(t, fn, id)'
      BY <2>1, <2>3, OriginStays DEF Running
    <3> QED BY <2>1, <2>3, <3>1 DEF Running
  <2> QED BY <2>1, <2>2, <2>3 DEF DInv
<1>2. CASE DStep
  <2>1. stack # <<>>
    <3>1. \A fn, pc : At(fn, pc) => stack # <<>>
      BY DEF At
    <3>2. \E fn, pc : At(fn, pc)
      BY <1>2, Zenon DEF DStep, StreamEnter, StreamChildren, StreamVirtual, StreamRegroup,
            StreamClient, StreamFree, ClientEnter, ClientStreams, ClientFree
    <3> QED BY <3>1, <3>2
  <2>2. PICK t, fn, id, S, Q : Running(t, fn, id, S, Q)
    BY <2>1 DEF DInv
  <2>3. Inv /\ closing \subseteq SID
    BY DEF DInv
  <2>4. CASE StreamEnter
    BY <2>2, <2>3, <2>4, StreamEnterStep
  <2>5. CASE StreamChildren
    BY <2>2, <2>3, <2>5, StreamChildrenStep
  <2>6. CASE StreamVirtual
    BY <2>2, <2>3, <2>6, StreamVirtualStep
  <2>7. CASE StreamRegroup
    BY <2>2, <2>3, <2>7, StreamRegroupStep
  <2>8. CASE StreamClient
    BY <2>2, <2>3, <2>8, StreamClientStep
  <2>9. CASE StreamFree
    BY <2>2, <2>3, <2>9, StreamFreeStep
  <2>10. CASE ClientEnter
    BY <2>2, <2>3, <2>10, ClientEnterStep
  <2>11. CASE ClientStreams
    BY <2>2, <2>3, <2>11, ClientStreamsStep
  <2>12. CASE ClientFree
    BY <2>2, <2>3, <2>12, ClientFreeStep
  <2> QED BY <1>2, <2>4, <2>5, <2>6, <2>7, <2>8, <2>9, <2>10, <2>11, <2>12 DEF DStep
<1>3. CASE StartClient \/ StartStream \/ StartUnready
  BY <1>3, AnyStart
<1>4. CASE Other
  BY <1>4, OtherStep
<1> QED BY <1>1, <1>2, <1>3, <1>4 DEF DNext

\* The invariant holds in every state the recursion can be in.
THEOREM DeletionInvariance == DSpec => []DInv
<1>1. DInit => DInv
  BY InitInv DEF DInit, DInv
<1>2. DInv /\ [DNext]_dvars => DInv'
  BY DeletionStep
<1> QED BY <1>1, <1>2, PTL DEF DSpec

\* The tables that calls of the recursion see are well-formed all along, the
\* counters that go down before the entries do included.
THEOREM DTypesCorrect == DSpec => []DTypeOK
<1>1. DInv => DTypeOK
  <2>1. CASE DInv /\ stack = <<>>
    <3>1. <<>> \in Seq(Frame)
      BY EmptySeq
    <3> QED BY <2>1, <3>1, NowTables DEF DInv, DTypeOK
  <2>2. CASE DInv /\ stack # <<>>
    BY <2>2 DEF DInv, DTypeOK, Running, Calls, Progress, Shaped
  <2> QED BY <2>1, <2>2
<1> QED BY <1>1, DeletionInvariance, PTL

\* No call of streams_delete() or clients_delete() works on an entry that a
\* call it made has freed, and no two of them on the same entry.
THEOREM NoUseCorrect == DSpec => []NoUseAfterFree
<1>1. ASSUME DInv
      PROVE  NoUseAfterFree
  <2>1. CASE stack = <<>>
    <3>1. DOMAIN stack = {}
      BY <2>1
    <3> QED BY <3>1 DEF NoUseAfterFree
  <2>2. CASE stack # <<>>
    <3>1. PICK t, fn, id, S, Q : Running(t, fn, id, S, Q)
      BY <1>1, <2>2 DEF DInv
    <3>2. /\ stack \in Seq(Frame) /\ CallsOf(stack, "streams_delete", S)
          /\ CallsOf(stack, "clients_delete", Q)
          /\ DOMAIN S \subseteq LiveStreams(mem) /\ DOMAIN Q \subseteq LiveClients(mem)
      BY <3>1 DEF Running, Calls, Progress, Shaped
    <3>3. \A m \in DOMAIN stack : stack[m].fn \in {"streams_delete", "clients_delete"}
      <4>1. \A m \in DOMAIN stack : stack[m] \in Frame
        BY <3>2, ElementOfSeq, LenProperties
      <4> QED BY <4>1 DEF Frame
    <3> QED BY <3>2, <3>3 DEF NoUseAfterFree, CallsOf
  <2> QED BY <2>1, <2>2
<1> QED BY <1>1, DeletionInvariance, PTL

\* The recursion implements the deletion of Registry, which is one step with
\* the least closed set: whatever the order in which the calls come to the
\* entries, when the outermost one returns exactly those are gone.
THEOREM RegistryRefined == DSpec => RefinesRegistry
<1>1. DInit => Init
  BY DEF DInit
<1>2. DInv /\ [DNext]_dvars => [Next]_vars
  BY DeletionStep
<1> QED BY <1>1, <1>2, DeletionInvariance, PTL DEF DSpec, Spec, RefinesRegistry
=============================================================================
