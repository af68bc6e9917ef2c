--------------------------- MODULE Registry_proofs ---------------------------
(***************************************************************************)
(* Theorems about module Registry, for every size of the tables and every  *)
(* set of requests.                                                        *)
(***************************************************************************)
EXTENDS Registry, Tables_proofs

-----------------------------------------------------------------------------
(***************************************************************************)
(* The inductive invariant, on tables.  X are the streams whose relation   *)
(* is not checked yet: req_on_new_stream() links a stream before it looks  *)
(* at what the client asked for.  The last two conjuncts are what makes    *)
(* the others inductive: an immutable stream is primary, so that deleting  *)
(* it is the end of the server; and a container stream is never one of     *)
(* those that live by their relation, so that neither are the virtual      *)
(* streams it creates.                                                     *)
(***************************************************************************)
Raw == {"THRU", "RAW_IN", "RAW_OUT"}

Good(t, X) ==
    /\ t \in TablesType
    /\ Counted(t)
    /\ Related(t, X)
    /\ \A s \in LiveStreams(t) : t.streams[s].immutable => t.streams[s].primary
    /\ \A s \in LiveStreams(t) : t.streams[s].cf = "wave" => t.streams[s].dir \notin Raw

\* Between t and u no immutable stream was lost, unless the server ended.
Keeps(t, u) ==
    u.alive =>
        /\ t.alive
        /\ \A s \in LiveStreams(t) : t.streams[s].immutable =>
               s \in LiveStreams(u) /\ u.streams[s].immutable

\* Keeps composes along the calls of one request.
LEMMA KeepsTransitive ==
    ASSUME NEW t, NEW u, NEW w, Keeps(t, u), Keeps(u, w)
    PROVE  Keeps(t, w)
BY DEF Keeps

\* A call that changes nothing keeps everything.
LEMMA KeepsReflexive ==
    ASSUME NEW t
    PROVE  Keeps(t, t)
BY DEF Keeps

-----------------------------------------------------------------------------
(* Deletion keeps the invariant. *)

\* clean_quit() leaves nothing that could be wrong.
LEMMA QuitGood ==
    ASSUME NEW X
    PROVE  Good(Quit, X) /\ \A t : Keeps(t, Quit)
<1>1. LiveStreams(Quit) = {} /\ LiveClients(Quit) = {}
  BY DEF Quit, LiveStreams, LiveClients
<1>2. Cardinality({}) = 0
  BY FS_EmptySet
<1>3. Counted(Quit)
  <2>1. Quit.nstreams = 0 /\ Quit.nclients = 0 /\ Quit.thru = 0
    BY DEF Quit
  <2> QED BY <1>1, <1>2, <2>1 DEF Counted
<1>4. Related(Quit, X)
  BY <1>1 DEF Related
<1>5. ~ Quit.alive
  BY DEF Quit
<1> QED BY <1>1, <1>3, <1>4, <1>5, QuitType DEF Good, Keeps

\* Removing a set of streams counts them off.
LEMMA RemoveCounted ==
    ASSUME NEW t \in TablesType, Counted(t),
           NEW D \in SUBSET LiveStreams(t), NEW K \in SUBSET LiveClients(t)
    PROVE  Counted(Remove(t, D, K))
<1> DEFINE u == Remove(t, D, K)
           T(v) == {s \in LiveStreams(v) : v.streams[s].dir = "THRU"}
           TD == {s \in D : t.streams[s].dir = "THRU"}
<1>1. /\ LiveStreams(u) = LiveStreams(t) \ D
      /\ LiveClients(u) = LiveClients(t) \ K
      /\ \A s \in LiveStreams(u) : u.streams[s].dir = t.streams[s].dir
  BY RemoveLeaves DEF Without
<1>2. T(u) = T(t) \ TD
  BY <1>1
<1>3. /\ IsFiniteSet(LiveStreams(t)) /\ IsFiniteSet(LiveClients(t)) /\ IsFiniteSet(T(t))
  <2>1. LiveStreams(t) \in SUBSET SID /\ LiveClients(t) \in SUBSET CID
        /\ T(t) \in SUBSET SID
    BY DEF LiveStreams, LiveClients
  <2> QED BY <2>1, IdsFinite
<1>4. /\ Cardinality(LiveStreams(t) \ D) = Cardinality(LiveStreams(t)) - Cardinality(D)
      /\ Cardinality(LiveClients(t) \ K) = Cardinality(LiveClients(t)) - Cardinality(K)
      /\ Cardinality(T(t) \ TD) = Cardinality(T(t)) - Cardinality(TD)
  <2>1. LiveStreams(t) \cap D = D /\ LiveClients(t) \cap K = K /\ T(t) \cap TD = TD
    OBVIOUS
  <2>2. /\ Cardinality(LiveStreams(t) \ D) = Cardinality(LiveStreams(t)) - Cardinality(LiveStreams(t) \cap D)
        /\ Cardinality(LiveClients(t) \ K) = Cardinality(LiveClients(t)) - Cardinality(LiveClients(t) \cap K)
    BY <1>3, FS_Difference
  <2>3. Cardinality(T(t) \ TD) = Cardinality(T(t)) - Cardinality(T(t) \cap TD)
    BY <1>3, FS_Difference
  <2> QED BY <2>1, <2>2, <2>3
<1>5. /\ u.nstreams = t.nstreams - Cardinality(D)
      /\ u.nclients = t.nclients - Cardinality(K)
      /\ u.thru = t.thru - Cardinality(TD)
  BY DEF Remove, ThruAmong
<1>6. /\ t.nstreams = Cardinality(LiveStreams(t))
      /\ t.nclients = Cardinality(LiveClients(t))
      /\ t.thru = Cardinality(T(t))
  BY DEF Counted
<1>7. Cardinality(T(u)) = Cardinality(T(t)) - Cardinality(TD)
  BY <1>2, <1>4
<1> QED BY <1>1, <1>4, <1>5, <1>6, <1>7 DEF Counted

\* A closed set of streams can be taken out: what stays keeps its relations.
LEMMA RemoveRelated ==
    ASSUME NEW t \in TablesType, NEW X, Related(t, X),
           NEW D \in SUBSET LiveStreams(t), Closed(t, D), NEW K \in SUBSET LiveClients(t)
    PROVE  Related(Remove(t, D, K), X \ D)
<1> DEFINE u == Remove(t, D, K)
<1>1. SUFFICES ASSUME NEW i \in LiveStreams(u) \ (X \ D)
               PROVE  LET rel == u.streams[i].pos_rel_id IN
                      /\ u.streams[i].dir \in {"THRU", "RAW_IN"} \/ u.streams[i].virtual =>
                             rel \in LiveStreams(u)
                      /\ u.streams[i].dir = "RAW_IN" => u.streams[rel].dir = "RAW_OUT"
                      /\ u.streams[i].dir = "FILTER" => rel \in LiveStreams(u) \cup {None}
  BY Zenon DEF Related
<1>2. /\ LiveStreams(u) = LiveStreams(t) \ D
      /\ \A s \in LiveStreams(u) :
                /\ u.streams[s].dir = t.streams[s].dir
                /\ u.streams[s].virtual = t.streams[s].virtual
                /\ u.streams[s].pos_rel_id =
                      IF t.streams[s].pos_rel_id \in D THEN None ELSE t.streams[s].pos_rel_id
  <2>1. Without(t, D, K, u)
    BY RemoveLeaves
  <2> HIDE DEF u
  <2> QED BY <2>1 DEF Without
<1> DEFINE rel == t.streams[i].pos_rel_id
<1>3. i \in LiveStreams(t) \ X /\ i \notin D
  BY <1>1, <1>2
<1>4. /\ t.streams[i].dir \in {"THRU", "RAW_IN"} \/ t.streams[i].virtual => rel \in LiveStreams(t)
      /\ t.streams[i].dir = "RAW_IN" => t.streams[rel].dir = "RAW_OUT"
      /\ t.streams[i].dir = "FILTER" => rel \in LiveStreams(t) \cup {None}
  BY <1>3 DEF Related
<1>5. t.streams[i].dir \in {"THRU", "RAW_IN"} \/ t.streams[i].virtual => rel \notin D
  BY <1>3 DEF Closed, Triggers, Dependent
<1> QED BY <1>1, <1>2, <1>4, <1>5

\* A deletion keeps counters and relations right, and spares immutable streams.
LEMMA DeleteGood ==
    ASSUME NEW t, NEW X, Good(t, X), NEW R, NEW K \in SUBSET LiveClients(t)
    PROVE  /\ Good(Delete(t, R, K), X \ R)
           /\ Keeps(t, Delete(t, R, K))
<1>1. CASE Delete(t, R, K) = Quit
  BY <1>1, QuitGood
<1>2. ASSUME NEW D, NEW L \in SUBSET LiveClients(t), D = Doomed(t, R),
             ~ (t.alive /\ \E s \in D : t.streams[s].primary),
             Delete(t, R, K) = Remove(t, D, L)
      PROVE  Good(Remove(t, D, L), X \ R) /\ Keeps(t, Remove(t, D, L))
  <2> DEFINE u == Remove(t, D, L)
  <2>1. t \in TablesType
    BY DEF Good
  <2>2. D \in SUBSET LiveStreams(t) /\ Closed(t, D) /\ R \cap LiveStreams(t) \subseteq D
    BY <1>2, DoomedLive, DoomedClosed
  <2>3. u \in TablesType
    BY <2>1, <2>2, RemoveType DEF LiveStreams, LiveClients
  <2>4. Counted(u)
    BY <2>1, <2>2, RemoveCounted DEF Good
  <2>5. /\ LiveStreams(u) = LiveStreams(t) \ D
        /\ \A s \in LiveStreams(u) :
             /\ u.streams[s].dir = t.streams[s].dir
             /\ u.streams[s].immutable = t.streams[s].immutable
             /\ u.streams[s].primary = t.streams[s].primary
             /\ u.streams[s].cf = t.streams[s].cf
    <3>1. Without(t, D, L, u)
      BY <2>1, <2>2, RemoveLeaves
    <3> HIDE DEF u
    <3> QED BY <3>1 DEF Without
  <2>6. Related(u, X \ R)
    <3>1. Related(u, X \ D)
      BY <2>1, <2>2, RemoveRelated DEF Good
    <3>2. \A i \in LiveStreams(u) : i \in X \ D => i \in X \ R
      BY <2>2, <2>5
    <3> QED BY <3>1, <3>2 DEF Related
  <2>7. \A s \in LiveStreams(u) :
            /\ u.streams[s].immutable => u.streams[s].primary
            /\ u.streams[s].cf = "wave" => u.streams[s].dir \notin Raw
    BY <2>5 DEF Good
  <2>8. Keeps(t, u)
    <3>1. u.alive = t.alive
      BY DEF Remove
    <3>2. ASSUME t.alive, NEW s \in LiveStreams(t), t.streams[s].immutable
          PROVE  s \in LiveStreams(u) /\ u.streams[s].immutable
      <4>1. t.streams[s].primary
        BY <3>2 DEF Good
      <4>2. s \notin D
        BY <1>2, <3>2, <4>1
      <4> QED BY <2>5, <3>2, <4>2
    <3> QED BY <3>1, <3>2 DEF Keeps
  <2> QED BY <2>3, <2>4, <2>6, <2>7, <2>8 DEF Good
<1> QED BY <1>1, <1>2, DeleteCases

\* The two deleting functions keep the invariant, and a deleted stream is gone.
LEMMA DeletersGood ==
    ASSUME NEW t, NEW X, Good(t, X), NEW s, NEW c
    PROVE  /\ Good(streams_delete(t, s), X \ {s}) /\ Keeps(t, streams_delete(t, s))
           /\ Good(clients_delete(t, c), X) /\ Keeps(t, clients_delete(t, c))
<1>1. Good(streams_delete(t, s), X \ {s}) /\ Keeps(t, streams_delete(t, s))
  <2>1. CASE s \in LiveStreams(t)
    BY <2>1, DeleteGood DEF streams_delete
  <2>2. CASE s \notin LiveStreams(t)
    <3>1. Related(t, X \ {s})
      BY <2>2 DEF Good, Related
    <3> QED BY <2>2, <3>1, KeepsReflexive DEF streams_delete, Good
  <2> QED BY <2>1, <2>2
<1>2. Good(clients_delete(t, c), X) /\ Keeps(t, clients_delete(t, c))
  <2>1. CASE c \in LiveClients(t)
    <3>1. Good(Delete(t, SlotSet(t, c), {c}), X \ SlotSet(t, c)) /\ Keeps(t, Delete(t, SlotSet(t, c), {c}))
      BY <2>1, DeleteGood
    <3>2. Good(Delete(t, SlotSet(t, c), {c}), X)
      BY <3>1 DEF Good, Related
    <3> QED BY <2>1, <3>1, <3>2 DEF clients_delete
  <2>2. CASE c \notin LiveClients(t)
    BY <2>2, KeepsReflexive DEF clients_delete
  <2> QED BY <2>1, <2>2
<1> QED BY <1>1, <1>2

-----------------------------------------------------------------------------
(* Changing one entry keeps the invariant. *)

\* Only the clients change, and none comes or goes.
LEMMA SameStreamsGood ==
    ASSUME NEW t, NEW X, Good(t, X), NEW u \in TablesType,
           u.streams = t.streams, u.nstreams = t.nstreams, u.nclients = t.nclients,
           u.thru = t.thru, u.alive = t.alive, LiveClients(u) = LiveClients(t)
    PROVE  Good(u, X) /\ Keeps(t, u)
<1>1. LiveStreams(u) = LiveStreams(t)
  BY DEF LiveStreams
<1>2. Counted(u)
  BY <1>1 DEF Good, Counted
<1>3. Related(u, X)
  BY <1>1 DEF Good, Related
<1> QED BY <1>1, <1>2, <1>3 DEF Good, Keeps

\* A live stream changes nothing that the others rely on.
LEMMA PutGood ==
    ASSUME NEW t, NEW X, Good(t, X), NEW s \in LiveStreams(t), NEW r \in Stream,
           r.dir = t.streams[s].dir,
           s \in X \/ /\ r.pos_rel_id = t.streams[s].pos_rel_id
                      /\ r.virtual => t.streams[s].virtual,
           r.immutable = t.streams[s].immutable,
           r.immutable => r.primary,
           r.cf = "wave" => r.dir \notin Raw
    PROVE  Good(Put(t, s, r), X) /\ Keeps(t, Put(t, s, r))
<1> DEFINE u == Put(t, s, r)
<1>1. t \in TablesType
  BY DEF Good
<1>2. /\ u \in TablesType
      /\ LiveStreams(u) = LiveStreams(t)
      /\ LiveClients(u) = LiveClients(t)
      /\ u.streams[s] = r
      /\ \A i \in SID \ {s} : u.streams[i] = t.streams[i]
      /\ u.nstreams = t.nstreams /\ u.nclients = t.nclients
      /\ u.thru = t.thru /\ u.alive = t.alive
  BY <1>1, PutLeaves
<1> HIDE DEF u
<1>3. \A i \in SID : i \in LiveStreams(t) => u.streams[i].dir = t.streams[i].dir
  BY <1>2
<1>4. Counted(u)
  <2>1. {i \in LiveStreams(u) : u.streams[i].dir = "THRU"}
            = {i \in LiveStreams(t) : t.streams[i].dir = "THRU"}
    BY <1>2, <1>3 DEF LiveStreams
  <2> QED BY <1>2, <2>1 DEF Good, Counted
<1>5. Related(u, X)
  <2>1. SUFFICES ASSUME NEW i \in LiveStreams(u) \ X
                 PROVE  LET rel == u.streams[i].pos_rel_id IN
                      /\ u.streams[i].dir \in {"THRU", "RAW_IN"} \/ u.streams[i].virtual =>
                             rel \in LiveStreams(u)
                      /\ u.streams[i].dir = "RAW_IN" => u.streams[rel].dir = "RAW_OUT"
                      /\ u.streams[i].dir = "FILTER" => rel \in LiveStreams(u) \cup {None}
    BY Zenon DEF Related
  <2> DEFINE rel == t.streams[i].pos_rel_id
  <2>2. i \in SID /\ i \in LiveStreams(t) \ X
    BY <1>2 DEF LiveStreams
  <2>3. /\ u.streams[i].dir = t.streams[i].dir
        /\ u.streams[i].virtual => t.streams[i].virtual
        /\ u.streams[i].pos_rel_id = rel
    BY <1>2, <2>2
  <2>4. /\ t.streams[i].dir \in {"THRU", "RAW_IN"} \/ t.streams[i].virtual => rel \in LiveStreams(t)
        /\ t.streams[i].dir = "RAW_IN" => t.streams[rel].dir = "RAW_OUT"
        /\ t.streams[i].dir = "FILTER" => rel \in LiveStreams(t) \cup {None}
    BY <2>2 DEF Good, Related
  <2>5. rel \in LiveStreams(t) => u.streams[rel].dir = t.streams[rel].dir
    BY <1>3 DEF LiveStreams
  <2> QED BY <1>2, <2>3, <2>4, <2>5
<1>6. \A i \in LiveStreams(u) :
         /\ u.streams[i].immutable => u.streams[i].primary
         /\ u.streams[i].cf = "wave" => u.streams[i].dir \notin Raw
  <2>1. \A i \in LiveStreams(u) : i \in SID
    BY DEF LiveStreams
  <2> QED BY <1>2, <2>1 DEF Good
<1>7. Keeps(t, u)
  <2>1. \A i \in LiveStreams(t) : i \in SID
    BY DEF LiveStreams
  <2> QED BY <1>2, <2>1 DEF Keeps
<1> QED BY <1>2, <1>4, <1>5, <1>6, <1>7 DEF Good, u

\* streams_new() takes a free entry; the new stream relies on nothing.
LEMMA NewStreamGood ==
    ASSUME NEW t, NEW X, Good(t, X), NEW s \in FreeSIDs(t)
    PROVE  /\ Good(streams_new(t, s), X) /\ Keeps(t, streams_new(t, s))
           /\ LiveStreams(streams_new(t, s)) = LiveStreams(t) \cup {s}
           /\ streams_new(t, s).streams[s] = NewStream
           /\ streams_new(t, s).clients = t.clients
           /\ \A i \in LiveStreams(t) : streams_new(t, s).streams[i] = t.streams[i]
<1> DEFINE u == streams_new(t, s)
<1>1. t \in TablesType /\ s \in SID /\ s \notin LiveStreams(t)
  BY DEF Good, FreeSIDs
<1>2. NewStream \in Stream
  BY DEF NewStream, Stream, Dir, Codec
<1>3. /\ u.streams = [t.streams EXCEPT ![s] = NewStream]
      /\ u.clients = t.clients
      /\ u.nstreams = t.nstreams + 1 /\ u.nclients = t.nclients
      /\ u.thru = t.thru /\ u.alive = t.alive
  BY <1>1 DEF streams_new, TablesType
<1>4. u.streams[s] = NewStream /\ \A i \in SID \ {s} : u.streams[i] = t.streams[i]
  BY <1>1, <1>3 DEF TablesType
<1>5. u \in TablesType
  <2>1. u.nstreams \in Int
    BY <1>1, <1>3 DEF TablesType
  <2>2. u.streams \in [SID -> Stream \cup {NULL}]
    BY <1>1, <1>2, <1>3 DEF TablesType
  <2>3. u = [t EXCEPT !.streams = u.streams, !.nstreams = u.nstreams]
    BY <1>1 DEF streams_new, TablesType
  <2> HIDE DEF u
  <2> QED BY <1>1, <2>1, <2>2, <2>3 DEF TablesType
<1> HIDE DEF u
<1>6. LiveStreams(u) = LiveStreams(t) \cup {s} /\ LiveClients(u) = LiveClients(t)
  BY <1>1, <1>2, <1>3, <1>4, TablesAssumption DEF LiveStreams, LiveClients
<1>7. \A i \in LiveStreams(t) : u.streams[i] = t.streams[i] /\ i \in SID
  BY <1>1, <1>4 DEF LiveStreams
<1>8. /\ NewStream.dir = "UNSET" /\ ~ NewStream.virtual /\ ~ NewStream.immutable
      /\ NewStream.cf = "none"
  BY DEF NewStream
<1>9. Counted(u)
  <2>1. {i \in LiveStreams(u) : u.streams[i].dir = "THRU"}
            = {i \in LiveStreams(t) : t.streams[i].dir = "THRU"}
    BY <1>4, <1>6, <1>7, <1>8
  <2>2. Cardinality(LiveStreams(t) \cup {s}) = Cardinality(LiveStreams(t)) + 1
    <3>1. LiveStreams(t) \in SUBSET SID
      BY DEF LiveStreams
    <3>2. IsFiniteSet(LiveStreams(t))
      BY <3>1, IdsFinite
    <3> QED BY <1>1, <3>2, FS_AddElement
  <2> QED BY <1>3, <1>6, <2>1, <2>2 DEF Good, Counted
<1>10. Related(u, X)
  <2>1. SUFFICES ASSUME NEW i \in LiveStreams(u) \ X
                 PROVE  LET rel == u.streams[i].pos_rel_id IN
                      /\ u.streams[i].dir \in {"THRU", "RAW_IN"} \/ u.streams[i].virtual =>
                             rel \in LiveStreams(u)
                      /\ u.streams[i].dir = "RAW_IN" => u.streams[rel].dir = "RAW_OUT"
                      /\ u.streams[i].dir = "FILTER" => rel \in LiveStreams(u) \cup {None}
    BY Zenon DEF Related
  <2>2. CASE i = s
    BY <1>4, <1>8, <2>2
  <2>3. CASE i # s
    <3> DEFINE rel == t.streams[i].pos_rel_id
    <3>1. i \in LiveStreams(t) \ X /\ u.streams[i] = t.streams[i]
      BY <1>6, <1>7, <2>3
    <3>2. /\ t.streams[i].dir \in {"THRU", "RAW_IN"} \/ t.streams[i].virtual => rel \in LiveStreams(t)
          /\ t.streams[i].dir = "RAW_IN" => t.streams[rel].dir = "RAW_OUT"
          /\ t.streams[i].dir = "FILTER" => rel \in LiveStreams(t) \cup {None}
      BY <3>1 DEF Good, Related
    <3> QED BY <1>6, <1>7, <3>1, <3>2
  <2> QED BY <2>2, <2>3
<1>11. \A i \in LiveStreams(u) :
         /\ u.streams[i].immutable => u.streams[i].primary
         /\ u.streams[i].cf = "wave" => u.streams[i].dir \notin Raw
  BY <1>4, <1>6, <1>7, <1>8 DEF Good
<1>12. Keeps(t, u)
  BY <1>3, <1>6, <1>7 DEF Keeps
<1> QED BY <1>3, <1>4, <1>5, <1>6, <1>7, <1>9, <1>10, <1>11, <1>12 DEF Good, u

\* streams_set_dir() on a stream that has no direction yet and that nothing
\* looks at: a THRU stream is counted.
LEMMA SetDirGood ==
    ASSUME NEW t, NEW X, Good(t, X), NEW s \in LiveStreams(t), s \in X, NEW dir \in Dir,
           t.streams[s].dir = "UNSET", t.streams[s].cf = "none"
    PROVE  /\ Good(streams_set_dir(t, s, dir), X) /\ Keeps(t, streams_set_dir(t, s, dir))
           /\ LiveStreams(streams_set_dir(t, s, dir)) = LiveStreams(t)
           /\ streams_set_dir(t, s, dir).streams[s] = [t.streams[s] EXCEPT !.dir = dir]
           /\ \A i \in SID \ {s} : streams_set_dir(t, s, dir).streams[i] = t.streams[i]
<1> DEFINE u == streams_set_dir(t, s, dir)
           r == [t.streams[s] EXCEPT !.dir = dir]
           T(v) == {i \in LiveStreams(v) : v.streams[i].dir = "THRU"}
<1>1. t \in TablesType /\ s \in SID /\ t.streams[s] # NULL
  BY DEF Good, LiveStreams
<1>2. t.streams[s] \in Stream
  BY <1>1 DEF TablesType
<1>3. r \in Stream /\ r.dir = dir /\ r.cf = "none"
      /\ r.immutable = t.streams[s].immutable /\ r.primary = t.streams[s].primary
  BY <1>2 DEF Stream
<1>4. /\ u.streams = [t.streams EXCEPT ![s] = r]
      /\ u.clients = t.clients
      /\ u.nstreams = t.nstreams /\ u.nclients = t.nclients
      /\ u.thru = (IF dir = "THRU" THEN t.thru + 1 ELSE t.thru)
      /\ u.alive = t.alive
  BY <1>1 DEF streams_set_dir, TablesType
<1>5. u \in TablesType
  <2>1. u.thru \in Int
    BY <1>1, <1>4 DEF TablesType
  <2>2. u.streams \in [SID -> Stream \cup {NULL}]
    BY <1>1, <1>3, <1>4 DEF TablesType
  <2>3. u = [t EXCEPT !.streams = u.streams, !.thru = u.thru]
    BY <1>1 DEF streams_set_dir, TablesType
  <2> HIDE DEF u
  <2> QED BY <1>1, <2>1, <2>2, <2>3 DEF TablesType
<1>6. u.streams[s] = r /\ \A i \in SID \ {s} : u.streams[i] = t.streams[i]
  BY <1>1, <1>4 DEF TablesType
<1> HIDE DEF u, r
<1>7. LiveStreams(u) = LiveStreams(t) /\ LiveClients(u) = LiveClients(t)
  BY <1>1, <1>3, <1>4, <1>6, TablesAssumption DEF LiveStreams, LiveClients
<1>8. \A i \in LiveStreams(t) \ {s} : u.streams[i] = t.streams[i]
  BY <1>6 DEF LiveStreams
<1>9. Counted(u)
  <2>1. CASE dir # "THRU"
    <3>1. T(u) = T(t)
      BY <1>3, <1>6, <1>7, <1>8, <2>1
    <3> QED BY <1>4, <1>7, <2>1, <3>1 DEF Good, Counted
  <2>2. CASE dir = "THRU"
    <3>1. T(u) = T(t) \cup {s} /\ s \notin T(t)
      BY <1>3, <1>6, <1>7, <1>8, <2>2
    <3>2. T(t) \in SUBSET SID
      BY DEF LiveStreams
    <3>3. IsFiniteSet(T(t))
      BY <3>2, IdsFinite
    <3>4. Cardinality(T(u)) = Cardinality(T(t)) + 1
      BY <3>1, <3>3, FS_AddElement
    <3> QED BY <1>4, <1>7, <2>2, <3>4 DEF Good, Counted
  <2> QED BY <2>1, <2>2
<1>10. Related(u, X)
  <2>1. SUFFICES ASSUME NEW i \in LiveStreams(u) \ X
                 PROVE  LET rel == u.streams[i].pos_rel_id IN
                      /\ u.streams[i].dir \in {"THRU", "RAW_IN"} \/ u.streams[i].virtual =>
                             rel \in LiveStreams(u)
                      /\ u.streams[i].dir = "RAW_IN" => u.streams[rel].dir = "RAW_OUT"
                      /\ u.streams[i].dir = "FILTER" => rel \in LiveStreams(u) \cup {None}
    BY Zenon DEF Related
  <2> DEFINE rel == t.streams[i].pos_rel_id
  <2>2. i \in LiveStreams(t) \ X /\ u.streams[i] = t.streams[i]
    BY <1>7, <1>8
  <2>3. /\ t.streams[i].dir \in {"THRU", "RAW_IN"} \/ t.streams[i].virtual => rel \in LiveStreams(t)
        /\ t.streams[i].dir = "RAW_IN" => t.streams[rel].dir = "RAW_OUT"
        /\ t.streams[i].dir = "FILTER" => rel \in LiveStreams(t) \cup {None}
    BY <2>2 DEF Good, Related
  <2>4. t.streams[i].dir = "RAW_IN" => rel # s
    BY <2>3
  <2> QED BY <1>7, <1>8, <2>2, <2>3, <2>4
<1>11. \A i \in LiveStreams(u) :
         /\ u.streams[i].immutable => u.streams[i].primary
         /\ u.streams[i].cf = "wave" => u.streams[i].dir \notin Raw
  BY <1>3, <1>6, <1>7, <1>8 DEF Good
<1>12. Keeps(t, u)
  BY <1>3, <1>4, <1>6, <1>7, <1>8 DEF Keeps
<1> QED BY <1>5, <1>6, <1>7, <1>9, <1>10, <1>11, <1>12 DEF Good, u, r

-----------------------------------------------------------------------------
(* The functions that link clients and streams keep the invariant. *)

\* What the functions that only move or connect a stream have in common.
LEMMA SetClientGood ==
    ASSUME NEW t, NEW X, Good(t, X), NEW s, NEW c \in CID
    PROVE  /\ Good(streams_set_client(t, s, c), X) /\ Keeps(t, streams_set_client(t, s, c))
           /\ LiveStreams(streams_set_client(t, s, c)) = LiveStreams(t)
           /\ \A i \in SID \ {s} : streams_set_client(t, s, c).streams[i] = t.streams[i]
           /\ s \in LiveStreams(t) =>
                streams_set_client(t, s, c).streams[s] = [t.streams[s] EXCEPT !.client = c]
<1>1. CASE s \notin LiveStreams(t)
  BY <1>1, KeepsReflexive DEF streams_set_client
<1>2. CASE s \in LiveStreams(t)
  <2> DEFINE r == [t.streams[s] EXCEPT !.client = c]
  <2>1. t \in TablesType /\ t.streams[s] \in Stream
    BY <1>2 DEF Good, TablesType, LiveStreams
  <2>2. streams_set_client(t, s, c) = Put(t, s, r)
    BY <1>2 DEF streams_set_client, Put
  <2>3. /\ r \in Stream /\ r.dir = t.streams[s].dir /\ r.pos_rel_id = t.streams[s].pos_rel_id
        /\ r.virtual = t.streams[s].virtual /\ r.immutable = t.streams[s].immutable
        /\ r.primary = t.streams[s].primary /\ r.cf = t.streams[s].cf
    BY <2>1 DEF Stream
  <2> HIDE DEF r
  <2>4. Good(Put(t, s, r), X) /\ Keeps(t, Put(t, s, r))
    <3>1. /\ r.immutable => r.primary
          /\ r.cf = "wave" => r.dir \notin Raw
      BY <1>2, <2>3 DEF Good
    <3> QED BY <1>2, <2>3, <3>1, PutGood
  <2>5. /\ LiveStreams(Put(t, s, r)) = LiveStreams(t)
        /\ Put(t, s, r).streams[s] = r
        /\ \A i \in SID \ {s} : Put(t, s, r).streams[i] = t.streams[i]
    BY <1>2, <2>1, <2>3, PutLeaves
  <2> QED BY <2>2, <2>4, <2>5 DEF r
<1> QED BY <1>1, <1>2

\* Writing a slot of a client, or the stream it was turned into.
LEMMA SlotGood ==
    ASSUME NEW t, NEW X, Good(t, X), NEW c \in LiveClients(t), NEW k, NEW s \in SID \cup {None}
    PROVE  /\ Good([t EXCEPT !.clients[c].streams[k] = s], X)
           /\ Keeps(t, [t EXCEPT !.clients[c].streams[k] = s])
           /\ Good([t EXCEPT !.clients[c].execed = s], X)
           /\ Keeps(t, [t EXCEPT !.clients[c].execed = s])
           /\ Good([t EXCEPT !.clients[c].fh = FALSE], X)
           /\ Keeps(t, [t EXCEPT !.clients[c].fh = FALSE])
<1>1. t \in TablesType /\ c \in CID /\ t.clients[c] \in Client
  BY DEF Good, LiveClients, TablesType
<1>2. ASSUME NEW r \in Client
      PROVE  LET u == [t EXCEPT !.clients[c] = r] IN
             Good(u, X) /\ Keeps(t, u)
  <2> DEFINE u == [t EXCEPT !.clients[c] = r]
  <2>1. u \in TablesType
    BY <1>1 DEF TablesType
  <2>2. /\ u.streams = t.streams /\ u.nstreams = t.nstreams /\ u.nclients = t.nclients
        /\ u.thru = t.thru /\ u.alive = t.alive /\ u.clients = [t.clients EXCEPT ![c] = r]
    BY <1>1 DEF TablesType
  <2> HIDE DEF u
  <2>3. LiveClients(u) = LiveClients(t)
    BY <1>1, <2>2, TablesAssumption DEF LiveClients, TablesType
  <2>4. Good(u, X) /\ Keeps(t, u)
    BY <2>1, <2>2, <2>3, SameStreamsGood
  <2> QED BY <2>4 DEF u
<1>3. [t.clients[c] EXCEPT !.streams[k] = s] \in Client
  BY <1>1 DEF Client
<1>4. [t.clients[c] EXCEPT !.execed = s] \in Client
  BY <1>1 DEF Client
<1>5. [t.clients[c] EXCEPT !.fh = FALSE] \in Client
  BY <1>1 DEF Client
<1> QED BY <1>2, <1>3, <1>4, <1>5

\* client_stream_add() keeps the invariant, whether there is a free slot or not.
LEMMA AddGood ==
    ASSUME NEW t, NEW X, Good(t, X), NEW c, NEW s \in SID
    PROVE  /\ Good(client_stream_add(t, c, s), X) /\ Keeps(t, client_stream_add(t, c, s))
           /\ LiveStreams(client_stream_add(t, c, s)) = LiveStreams(t)
           /\ \A i \in SID \ {s} : client_stream_add(t, c, s).streams[i] = t.streams[i]
           /\ \/ client_stream_add(t, c, s).streams[s] = t.streams[s]
              \/ \E d \in CID : client_stream_add(t, c, s).streams[s]
                                    = [t.streams[s] EXCEPT !.client = d]
<1>1. CASE ~ CanAdd(t, c)
  BY <1>1, KeepsReflexive DEF client_stream_add
<1>2. CASE CanAdd(t, c)
  <2> DEFINE k == CHOOSE j \in Slot : FirstOf(FreeSlots(t, c), j)
             u == [t EXCEPT !.clients[c].streams[k] = s]
  <2>1. client_stream_add(t, c, s) = streams_set_client(u, s, c)
    BY <1>2 DEF client_stream_add
  <2>2. c \in LiveClients(t) /\ c \in CID /\ s \in SID \cup {None}
    BY <1>2 DEF CanAdd, LiveClients
  <2> HIDE DEF k
  <2>3. Good(u, X) /\ Keeps(t, u) /\ u.streams = t.streams
    <3>1. Good(u, X) /\ Keeps(t, u)
      BY <2>2, SlotGood
    <3>2. u.streams = t.streams
      BY DEF Good, TablesType
    <3> QED BY <3>1, <3>2
  <2> HIDE DEF u
  <2>4. LiveStreams(u) = LiveStreams(t)
    BY <2>3 DEF LiveStreams
  <2>5. /\ Good(streams_set_client(u, s, c), X) /\ Keeps(u, streams_set_client(u, s, c))
        /\ LiveStreams(streams_set_client(u, s, c)) = LiveStreams(u)
        /\ \A i \in SID \ {s} : streams_set_client(u, s, c).streams[i] = u.streams[i]
        /\ s \in LiveStreams(u) =>
             streams_set_client(u, s, c).streams[s] = [u.streams[s] EXCEPT !.client = c]
    BY <2>2, <2>3, SetClientGood
  <2>6. s \notin LiveStreams(u) => streams_set_client(u, s, c) = u
    BY DEF streams_set_client
  <2>7. Keeps(t, streams_set_client(u, s, c))
    BY <2>3, <2>5, KeepsTransitive
  <2> QED BY <2>1, <2>2, <2>3, <2>4, <2>5, <2>6, <2>7
<1> QED BY <1>1, <1>2

\* client_stream_delete() keeps it, also when the client goes with its stream.
LEMMA ClientDeleteGood ==
    ASSUME NEW t, NEW X, Good(t, X), NEW c, NEW s
    PROVE  Good(client_stream_delete(t, c, s), X) /\ Keeps(t, client_stream_delete(t, c, s))
<1>1. CASE ~ Lists(t, c, s)
  BY <1>1, KeepsReflexive DEF client_stream_delete
<1>2. CASE Lists(t, c, s)
  <2> DEFINE k == CHOOSE j \in Slot : FirstOf({i \in Slot : t.clients[c].streams[i] = s}, j)
             u == [t EXCEPT !.clients[c].streams[k] = None]
  <2>1. client_stream_delete(t, c, s)
            = IF t.clients[c].execed = s THEN clients_delete(u, c) ELSE u
    BY <1>2 DEF client_stream_delete
  <2>2. c \in LiveClients(t)
    BY <1>2 DEF Lists
  <2> HIDE DEF k
  <2>3. Good(u, X) /\ Keeps(t, u)
    BY <2>2, SlotGood
  <2> HIDE DEF u
  <2>4. Good(clients_delete(u, c), X) /\ Keeps(u, clients_delete(u, c))
    BY <2>3, DeletersGood
  <2> QED BY <2>1, <2>3, <2>4, KeepsTransitive
<1> QED BY <1>1, <1>2

\* client_stream_move() keeps it, also when only its first half succeeds.
LEMMA MoveGood ==
    ASSUME NEW t, NEW X, Good(t, X), NEW c, NEW s \in SID
    PROVE  Good(client_stream_move(t, c, s), X) /\ Keeps(t, client_stream_move(t, c, s))
<1> DEFINE old == IF s \in LiveStreams(t) THEN t.streams[s].client ELSE None
           u == client_stream_delete(t, old, s)
<1>1. client_stream_move(t, c, s)
          = IF old = None THEN client_stream_add(t, c, s)
            ELSE IF Lists(t, old, s) THEN client_stream_add(u, c, s) ELSE t
  BY DEF client_stream_move
<1> HIDE DEF old
<1>2. Good(u, X) /\ Keeps(t, u)
  BY ClientDeleteGood
<1>3. Good(client_stream_add(t, c, s), X) /\ Keeps(t, client_stream_add(t, c, s))
  BY AddGood
<1> HIDE DEF u
<1>4. Good(client_stream_add(u, c, s), X) /\ Keeps(u, client_stream_add(u, c, s))
  BY <1>2, AddGood
<1> QED BY <1>1, <1>2, <1>3, <1>4, KeepsTransitive, KeepsReflexive

\* streams_set_fh() keeps the invariant; a stream that it leaves ready was
\* not deleted, nor was any other.
LEMMA SetFhGood ==
    ASSUME NEW t, NEW X, Good(t, X), NEW s \in SID,
           NEW outcome \in FhOutcome, NEW cf \in Codec
    PROVE  LET w == streams_set_fh(t, s, outcome, cf) IN
           /\ Good(w, X) /\ Keeps(t, w)
           /\ s \in LiveStreams(w) => LiveStreams(w) = LiveStreams(t)
<1> DEFINE w == streams_set_fh(t, s, outcome, cf)
           raw == t.streams[s].dir \in {"THRU", "RAW_IN", "RAW_OUT"}
           r1 == [t.streams[s] EXCEPT !.fh = TRUE]
           r2 == [r1 EXCEPT !.cf = IF raw THEN "none" ELSE cf, !.ready = outcome # "nonblock"]
           u == [t EXCEPT !.streams[s].fh = TRUE]
<1>1. CASE s \notin LiveStreams(t) \/ t.streams[s].ready
  BY <1>1, KeepsReflexive DEF streams_set_fh
<1>2. CASE s \in LiveStreams(t) /\ ~ t.streams[s].ready
  <2>1. t \in TablesType /\ t.streams[s] \in Stream
    BY <1>2 DEF Good, TablesType, LiveStreams
  <2>2. u = Put(t, s, r1)
    BY DEF Put
  <2>3. r1 \in Stream /\ r1.dir = t.streams[s].dir /\ r1.pos_rel_id = t.streams[s].pos_rel_id
        /\ r1.virtual = t.streams[s].virtual /\ r1.immutable = t.streams[s].immutable
        /\ r1.primary = t.streams[s].primary /\ r1.cf = t.streams[s].cf
    BY <2>1 DEF Stream
  <2>4. /\ t.streams[s].immutable => t.streams[s].primary
        /\ t.streams[s].cf = "wave" => t.streams[s].dir \notin Raw
    BY <1>2 DEF Good
  <2>5. CASE outcome = "codec" /\ ~ raw
    <3>1. w = streams_delete(Put(t, s, r1), s)
      BY <1>2, <2>2, <2>5 DEF streams_set_fh
    <3> HIDE DEF r1
    <3>2. /\ Good(Put(t, s, r1), X) /\ Keeps(t, Put(t, s, r1))
      BY <1>2, <2>3, <2>4, PutGood
    <3>3. /\ Put(t, s, r1) \in TablesType /\ s \in LiveStreams(Put(t, s, r1))
      BY <1>2, <2>1, <2>3, PutLeaves
    <3> HIDE DEF w, u
    <3>4. s \notin LiveStreams(w)
      BY <3>1, <3>3, DeletedGone
    <3>5. Good(w, X \ {s}) /\ Keeps(Put(t, s, r1), w)
      BY <3>1, <3>2, DeletersGood
    <3>6. Good(w, X)
      BY <3>4, <3>5 DEF Good, Related
    <3> QED BY <3>2, <3>4, <3>5, <3>6, KeepsTransitive DEF w
  <2>6. CASE ~ (outcome = "codec" /\ ~ raw)
    <3>1. w = [u EXCEPT !.streams[s].cf = IF raw THEN "none" ELSE cf,
                        !.streams[s].ready = outcome # "nonblock"]
      BY <1>2, <2>6 DEF streams_set_fh
    <3>2. [u EXCEPT !.streams[s].cf = IF raw THEN "none" ELSE cf,
                    !.streams[s].ready = outcome # "nonblock"] = Put(t, s, r2)
      <4>1. u \in TablesType /\ u.streams[s] = r1
        <5> HIDE DEF u, r1
        <5> QED BY <1>2, <2>1, <2>2, <2>3, PutLeaves
      <4>2. [u EXCEPT !.streams[s].cf = IF raw THEN "none" ELSE cf,
                      !.streams[s].ready = outcome # "nonblock"] = Put(u, s, r2)
        <5> DEFINE x == IF raw THEN "none" ELSE cf
                   y == outcome # "nonblock"
        <5> HIDE DEF u, r1, x, y
        <5>1. [u EXCEPT !.streams[s].cf = x, !.streams[s].ready = y]
                  = Put(u, s, [r1 EXCEPT !.cf = x, !.ready = y])
          BY <4>1 DEF Put, TablesType
        <5> QED BY <5>1 DEF x, y
      <4>3. Put(u, s, r2) = Put(t, s, r2)
        <5> HIDE DEF u, r1, r2
        <5> QED BY <2>1, <2>2, PutTwice
      <4> QED BY <4>2, <4>3
    <3>3. r2 \in Stream
      BY <2>1, ZenonT(60) DEF Stream, Codec
    <3>4. r2.dir = t.streams[s].dir /\ r2.pos_rel_id = t.streams[s].pos_rel_id
          /\ r2.virtual = t.streams[s].virtual /\ r2.immutable = t.streams[s].immutable
          /\ r2.primary = t.streams[s].primary
          /\ (r2.cf = "wave" => r2.dir \notin Raw)
      BY <2>1, <2>4 DEF Stream, Raw
    <3> HIDE DEF r2, u
    <3>5. Good(Put(t, s, r2), X) /\ Keeps(t, Put(t, s, r2))
      BY <1>2, <2>4, <3>3, <3>4, PutGood
    <3>6. LiveStreams(Put(t, s, r2)) = LiveStreams(t)
      BY <1>2, <2>1, <3>3, PutLeaves
    <3>7. w = Put(t, s, r2)
      BY <3>1, <3>2
    <3> QED BY <3>5, <3>6, <3>7
  <2> QED BY <2>5, <2>6
<1> QED BY <1>1, <1>2

\* CON_STREAM and EXEC_STREAM keep the invariant.
LEMMA ConnectGood ==
    ASSUME NEW t, NEW X, Good(t, X), NEW c, NEW s \in SID,
           NEW outcome \in FhOutcome, NEW cf \in Codec
    PROVE  /\ Good(client_stream_set_fh(t, c, s, outcome, cf), X)
           /\ Keeps(t, client_stream_set_fh(t, c, s, outcome, cf))
           /\ Good(client_stream_exec(t, c, s, outcome, cf), X)
           /\ Keeps(t, client_stream_exec(t, c, s, outcome, cf))
<1>1. CASE ~ Lists(t, c, s)
  BY <1>1, KeepsReflexive DEF client_stream_set_fh, client_stream_exec
<1>2. CASE Lists(t, c, s)
  <2> DEFINE u == [t EXCEPT !.clients[c].execed = s]
  <2>1. c \in LiveClients(t) /\ s \in SID \cup {None}
    BY <1>2 DEF Lists
  <2>2. Good(u, X) /\ Keeps(t, u)
    BY <2>1, SlotGood
  <2>3. client_stream_exec(t, c, s, outcome, cf) = streams_set_fh(u, s, outcome, cf)
    BY <1>2 DEF client_stream_exec
  <2> HIDE DEF u
  <2>4. /\ Good(streams_set_fh(u, s, outcome, cf), X)
        /\ Keeps(u, streams_set_fh(u, s, outcome, cf))
    BY <2>2, SetFhGood
  <2>5. /\ Good(streams_set_fh(t, s, outcome, cf), X)
        /\ Keeps(t, streams_set_fh(t, s, outcome, cf))
    BY SetFhGood
  <2> QED BY <1>2, <2>2, <2>3, <2>4, <2>5, KeepsTransitive DEF client_stream_set_fh
<1> QED BY <1>1, <1>2

-----------------------------------------------------------------------------
(* The requests and the audio path keep the invariant. *)

\* A stream is created and linked before what the client asked for is looked
\* at; it is unchecked only in between.
LEMMA LoadedGood ==
    ASSUME NEW t, Good(t, {}), NEW c, NEW s \in FreeSIDs(t),
           NEW dir \in Dir, NEW rel \in SID \cup {None}
    PROVE  LET loaded == Loaded(t, c, s, dir, rel)
           IN  /\ Good(loaded, {s}) /\ Keeps(t, loaded) /\ s \in LiveStreams(loaded)
               /\ ~ loaded.streams[s].virtual
<1> DEFINE n == streams_new(t, s)
           added == client_stream_add(n, c, s)
           r == [added.streams[s] EXCEPT !.pos_rel_id = rel]
           placed == [added EXCEPT !.streams[s].pos_rel_id = rel]
           loaded == streams_set_dir(placed, s, dir)
<1>1. s \in SID
  BY DEF FreeSIDs
<1>2. Good(n, {}) /\ Keeps(t, n) /\ s \in LiveStreams(n) /\ n.streams[s] = NewStream
  BY NewStreamGood
<1> HIDE DEF n
<1>4. Good(n, {s})
  BY <1>2 DEF Good, Related
<1>5. /\ Good(added, {s}) /\ Keeps(n, added) /\ s \in LiveStreams(added)
      /\ added.streams[s].dir = "UNSET" /\ added.streams[s].cf = "none"
      /\ ~ added.streams[s].immutable /\ ~ added.streams[s].virtual
  <2>1. /\ Good(added, {s}) /\ Keeps(n, added) /\ LiveStreams(added) = LiveStreams(n)
        /\ \/ added.streams[s] = n.streams[s]
           \/ \E d \in CID : added.streams[s] = [n.streams[s] EXCEPT !.client = d]
    BY <1>1, <1>4, AddGood
  <2> HIDE DEF added
  <2>2. CASE added.streams[s] = n.streams[s]
    BY <1>2, <2>1, <2>2 DEF NewStream
  <2>3. ASSUME NEW d \in CID, added.streams[s] = [n.streams[s] EXCEPT !.client = d]
        PROVE  /\ added.streams[s].dir = "UNSET" /\ added.streams[s].cf = "none"
               /\ ~ added.streams[s].immutable /\ ~ added.streams[s].virtual
    BY <1>2, <2>3 DEF NewStream
  <2> QED BY <1>2, <2>1, <2>2, <2>3
<1> HIDE DEF added
<1>6. added \in TablesType /\ added.streams[s] \in Stream
  BY <1>1, <1>5 DEF Good, TablesType, LiveStreams
<1>7. r \in Stream /\ r.dir = added.streams[s].dir /\ r.cf = added.streams[s].cf
      /\ r.immutable = added.streams[s].immutable /\ r.virtual = added.streams[s].virtual
  BY <1>6 DEF Stream
<1>8. placed = Put(added, s, r)
  BY DEF Put
<1> HIDE DEF r, placed
<1>9. Good(placed, {s}) /\ Keeps(added, placed)
  BY <1>5, <1>7, <1>8, PutGood
<1>10. s \in LiveStreams(placed) /\ placed.streams[s].dir = "UNSET" /\ placed.streams[s].cf = "none"
       /\ ~ placed.streams[s].virtual
  BY <1>5, <1>6, <1>7, <1>8, PutLeaves
<1>11. Good(loaded, {s}) /\ Keeps(placed, loaded) /\ s \in LiveStreams(loaded)
       /\ loaded.streams[s] = [placed.streams[s] EXCEPT !.dir = dir]
  BY <1>9, <1>10, SetDirGood
<1>12. Keeps(t, loaded)
  BY <1>2, <1>5, <1>9, <1>11, KeepsTransitive
<1>13. ~ loaded.streams[s].virtual
  <2>1. placed.streams[s] \in Stream
    BY <1>1, <1>9, <1>10 DEF Good, TablesType, LiveStreams
  <2> HIDE DEF loaded
  <2> QED BY <1>10, <1>11, <2>1 DEF Stream
<1>14. Loaded(t, c, s, dir, rel) = loaded
  BY DEF Loaded, n, added, placed
<1> QED BY <1>11, <1>12, <1>13, <1>14

\* A stream in an endless chain is related to one of the chain.
LEMMA EndlessGood ==
    ASSUME NEW u, NEW s \in LiveStreams(u), Good(u, {s}), ~ u.streams[s].virtual, Endless(u, s)
    PROVE  Good(u, {})
<1>1. u.streams[s].dir = "THRU" /\ u.streams[s].pos_rel_id \in LiveStreams(u)
  BY DEF Endless
<1>2. Related(u, {})
  BY <1>1 DEF Good, Related
<1> QED BY <1>2 DEF Good

\* req_on_new_stream(), accepted or refused.
LEMMA CreateGood ==
    ASSUME NEW t, Good(t, {}), NEW c, NEW s \in FreeSIDs(t),
           NEW dir \in Dir, NEW rel \in SID \cup {None}, NEW match \in BOOLEAN
    PROVE  /\ Good(Create(t, c, s, dir, rel, match), {})
           /\ Keeps(t, Create(t, c, s, dir, rel, match))
<1> DEFINE n == streams_new(t, s)
           loaded == Loaded(t, c, s, dir, rel)
<1>1. s \in SID
  BY DEF FreeSIDs
<1>2. Good(n, {}) /\ Keeps(t, n) /\ s \in LiveStreams(n)
  BY NewStreamGood
<1>3. Good(streams_delete(n, s), {}) /\ Keeps(t, streams_delete(n, s))
  <2>1. Good(streams_delete(n, s), {} \ {s}) /\ Keeps(n, streams_delete(n, s))
    BY <1>2, DeletersGood
  <2> QED BY <1>2, <2>1, KeepsTransitive
<1>11. Good(loaded, {s}) /\ Keeps(t, loaded) /\ s \in LiveStreams(loaded)
       /\ ~ loaded.streams[s].virtual
  BY LoadedGood
<1>12. Create(t, c, s, dir, rel, match)
           = IF ~ CanAdd(t, c) THEN streams_delete(n, s)
             ELSE IF NewAccepted(loaded, s, match) THEN loaded ELSE Refuse(loaded, s)
  BY DEF Create
<1> HIDE DEF loaded, n
<1>14. ASSUME NewAccepted(loaded, s, match)
       PROVE  Good(loaded, {})
  <2> DEFINE lrel == loaded.streams[s].pos_rel_id
  <2>2. /\ loaded.streams[s].dir = "RAW_IN" =>
             lrel \in LiveStreams(loaded) /\ loaded.streams[lrel].dir = "RAW_OUT"
        /\ loaded.streams[s].dir = "THRU" => lrel \in LiveStreams(loaded)
        /\ loaded.streams[s].dir = "FILTER" => lrel \in LiveStreams(loaded) \cup {None}
    BY <1>14 DEF NewAccepted
  <2>3. Related(loaded, {})
    BY <1>11, <2>2 DEF Good, Related
  <2> QED BY <1>11, <2>3 DEF Good
<1>15. Good(Refuse(loaded, s), {}) /\ Keeps(loaded, Refuse(loaded, s))
  <2> DEFINE q == [loaded.streams[s] EXCEPT !.pos_rel_id = None]
  <2>1. loaded \in TablesType /\ loaded.streams[s] \in Stream
    BY <1>1, <1>11 DEF Good, TablesType, LiveStreams
  <2>2. /\ q \in Stream /\ q.dir = loaded.streams[s].dir /\ q.cf = loaded.streams[s].cf
        /\ q.immutable = loaded.streams[s].immutable /\ q.primary = loaded.streams[s].primary
    BY <2>1 DEF Stream
  <2>3. [loaded EXCEPT !.streams[s].pos_rel_id = None] = Put(loaded, s, q)
    BY DEF Put
  <2> HIDE DEF q
  <2>4. Good(Put(loaded, s, q), {s}) /\ Keeps(loaded, Put(loaded, s, q))
    <3>1. /\ q.immutable => q.primary
          /\ q.cf = "wave" => q.dir \notin Raw
      BY <1>11, <2>2 DEF Good
    <3> QED BY <1>11, <2>2, <3>1, PutGood
  <2>5. \E v \in {loaded, Put(loaded, s, q)} : Refuse(loaded, s) = streams_delete(v, s)
    BY <2>3 DEF Refuse
  <2>6. PICK v \in {loaded, Put(loaded, s, q)} : Refuse(loaded, s) = streams_delete(v, s)
    BY <2>5
  <2>7. Good(v, {s}) /\ Keeps(loaded, v)
    BY <1>11, <2>4, KeepsReflexive
  <2>8. Good(streams_delete(v, s), {s} \ {s}) /\ Keeps(v, streams_delete(v, s))
    BY <2>7, DeletersGood
  <2> QED BY <2>6, <2>7, <2>8, KeepsTransitive
<1> QED BY <1>3, <1>11, <1>12, <1>14, <1>15, KeepsTransitive

\* The virtual stream of a container stream relies on it only.
LEMMA NewVirtualGood ==
    ASSUME NEW t, Good(t, {}), NEW p \in LiveStreams(t), t.streams[p].cf = "wave",
           NEW v \in FreeSIDs(t)
    PROVE  LET u == NewVirtual(t, p, v) IN
           /\ Good(u, {}) /\ Keeps(t, u)
           /\ v \in LiveStreams(u) => p \in LiveStreams(u)
<1> DEFINE c == t.streams[p].client
           dir == t.streams[p].dir
           n == streams_new(t, v)
           added == client_stream_add(n, c, v)
           dired == streams_set_dir(added, v, dir)
           r == [dired.streams[v] EXCEPT !.pos_rel_id = p, !.virtual = TRUE]
           u == [dired EXCEPT !.streams[v].pos_rel_id = p, !.streams[v].virtual = TRUE]
<1>1. v \in SID /\ p \in SID /\ v \notin LiveStreams(t) /\ p # v
  BY DEF FreeSIDs, LiveStreams
<1>2. t.streams[p] \in Stream /\ dir \in Dir /\ dir \notin Raw
  <2>1. t.streams[p] \in Stream
    BY <1>1 DEF Good, TablesType, LiveStreams
  <2> QED BY <2>1 DEF Good, Stream
<1>3. /\ Good(n, {}) /\ Keeps(t, n) /\ LiveStreams(n) = LiveStreams(t) \cup {v}
      /\ n.streams[v] = NewStream
  BY NewStreamGood
<1>4. /\ Good(streams_delete(n, v), {}) /\ Keeps(t, streams_delete(n, v))
      /\ v \notin LiveStreams(streams_delete(n, v))
  <2>1. Good(streams_delete(n, v), {} \ {v}) /\ Keeps(n, streams_delete(n, v))
    BY <1>3, DeletersGood
  <2>2. v \notin LiveStreams(streams_delete(n, v))
    BY <1>3, DeletedGone DEF Good
  <2> QED BY <1>3, <2>1, <2>2, KeepsTransitive
<1>5. NewVirtual(t, p, v) = IF CanAdd(t, c) THEN u ELSE streams_delete(n, v)
  BY DEF NewVirtual
<1> HIDE DEF n, c, dir
<1>6. Good(n, {v})
  BY <1>3 DEF Good, Related
<1>7. /\ Good(added, {v}) /\ Keeps(n, added) /\ LiveStreams(added) = LiveStreams(t) \cup {v}
      /\ added.streams[v].dir = "UNSET" /\ added.streams[v].cf = "none"
      /\ ~ added.streams[v].immutable
  <2>1. /\ Good(added, {v}) /\ Keeps(n, added) /\ LiveStreams(added) = LiveStreams(n)
        /\ \/ added.streams[v] = n.streams[v]
           \/ \E d \in CID : added.streams[v] = [n.streams[v] EXCEPT !.client = d]
    BY <1>1, <1>6, AddGood
  <2> HIDE DEF added
  <2>2. CASE added.streams[v] = n.streams[v]
    BY <1>3, <2>1, <2>2 DEF NewStream
  <2>3. ASSUME NEW d \in CID, added.streams[v] = [n.streams[v] EXCEPT !.client = d]
        PROVE  /\ added.streams[v].dir = "UNSET" /\ added.streams[v].cf = "none"
               /\ ~ added.streams[v].immutable
    BY <1>3, <2>3 DEF NewStream
  <2> QED BY <1>3, <2>1, <2>2, <2>3
<1> HIDE DEF added
<1>8. /\ Good(dired, {v}) /\ Keeps(added, dired) /\ LiveStreams(dired) = LiveStreams(t) \cup {v}
      /\ dired.streams[v] = [added.streams[v] EXCEPT !.dir = dir]
  BY <1>2, <1>7, SetDirGood
<1> HIDE DEF dired
<1>9. dired \in TablesType /\ dired.streams[v] \in Stream /\ added.streams[v] \in Stream
  BY <1>1, <1>7, <1>8 DEF Good, TablesType, LiveStreams
<1>10. /\ dired.streams[v].dir = dir /\ dired.streams[v].cf = "none"
       /\ ~ dired.streams[v].immutable
  BY <1>7, <1>8, <1>9 DEF Stream
<1>11. /\ r \in Stream /\ r.dir = dir /\ r.cf = "none" /\ ~ r.immutable
       /\ r.immutable = dired.streams[v].immutable
       /\ r.pos_rel_id = p
  BY <1>1, <1>9, <1>10 DEF Stream
<1>12. u = Put(dired, v, r)
  BY <1>1, <1>9, ZenonT(60) DEF Put, TablesType, Stream
<1> HIDE DEF u, r
<1>13. Good(u, {v}) /\ Keeps(dired, u)
  BY <1>8, <1>10, <1>11, <1>12, PutGood
<1>14. LiveStreams(u) = LiveStreams(t) \cup {v} /\ u.streams[v] = r
  <2>1. v \in LiveStreams(dired) /\ r \in Stream
    BY <1>8, <1>11
  <2>2. LiveStreams(Put(dired, v, r)) = LiveStreams(dired) /\ Put(dired, v, r).streams[v] = r
    BY <1>9, <2>1, PutLeaves
  <2> QED BY <1>8, <1>12, <2>2
<1>15. Related(u, {})
  <2>1. u.streams[v].dir \notin {"THRU", "RAW_IN"} /\ u.streams[v].pos_rel_id \in LiveStreams(u)
    BY <1>2, <1>11, <1>14 DEF Raw
  <2> QED BY <1>13, <2>1 DEF Good, Related
<1>16. Good(u, {}) /\ Keeps(t, u)
  <2>1. Good(u, {})
    BY <1>13, <1>15 DEF Good
  <2> QED BY <1>3, <1>7, <1>8, <1>13, <2>1, KeepsTransitive
<1> QED BY <1>4, <1>5, <1>14, <1>16

\* cf_wave_read() keeps the invariant, however far it gets.
LEMMA OpenWaveGood ==
    ASSUME NEW t, Good(t, {}), NEW p \in LiveStreams(t), t.streams[p].cf = "wave",
           NEW v \in FreeSIDs(t), NEW outcome \in FhOutcome \cup {"unknown"},
           NEW again \in BOOLEAN
    PROVE  /\ Good(OpenWave(t, p, v, outcome, again), {})
           /\ Keeps(t, OpenWave(t, p, v, outcome, again))
<1> DEFINE u == NewVirtual(t, p, v)
           w == IF v \in LiveStreams(u) /\ outcome # "unknown"
                THEN streams_set_fh(u, v, outcome, "plain") ELSE u
           r == [w.streams[p] EXCEPT !.fh = FALSE]
<1>1. v \in SID /\ p \in SID
  BY DEF FreeSIDs, LiveStreams
<1>2. Good(u, {}) /\ Keeps(t, u) /\ (v \in LiveStreams(u) => p \in LiveStreams(u))
  BY NewVirtualGood
<1>3. OpenWave(t, p, v, outcome, again)
          = IF v \in LiveStreams(w) /\ w.streams[v].ready
            THEN [w EXCEPT !.streams[p].fh = FALSE]
            ELSE IF again THEN w ELSE streams_delete(w, p)
  BY DEF OpenWave
<1> HIDE DEF u
<1>4. Good(w, {}) /\ Keeps(u, w) /\ (v \in LiveStreams(w) => p \in LiveStreams(w))
  <2>1. CASE v \notin LiveStreams(u) \/ outcome = "unknown"
    BY <1>2, <2>1, KeepsReflexive
  <2>2. CASE v \in LiveStreams(u) /\ outcome # "unknown"
    <3> DEFINE x == streams_set_fh(u, v, outcome, "plain")
    <3>1. "plain" \in Codec
      BY DEF Codec
    <3>2. /\ Good(x, {}) /\ Keeps(u, x)
          /\ v \in LiveStreams(x) => LiveStreams(x) = LiveStreams(u)
      BY <1>1, <1>2, <2>2, <3>1, SetFhGood
    <3>3. w = x
      BY <2>2
    <3> HIDE DEF x, w
    <3> QED BY <1>2, <2>2, <3>2, <3>3
  <2> QED BY <2>1, <2>2
<1> HIDE DEF w
<1>5. Keeps(t, w)
  BY <1>2, <1>4, KeepsTransitive
<1>6. Good(streams_delete(w, p), {}) /\ Keeps(t, streams_delete(w, p))
  <2>1. Good(streams_delete(w, p), {} \ {p}) /\ Keeps(w, streams_delete(w, p))
    BY <1>4, DeletersGood
  <2> QED BY <1>5, <2>1, KeepsTransitive
<1>7. ASSUME v \in LiveStreams(w)
      PROVE  /\ Good([w EXCEPT !.streams[p].fh = FALSE], {})
             /\ Keeps(t, [w EXCEPT !.streams[p].fh = FALSE])
  <2>1. p \in LiveStreams(w) /\ w \in TablesType
    BY <1>4, <1>7 DEF Good
  <2>2. w.streams[p] \in Stream
    BY <1>1, <2>1 DEF TablesType, LiveStreams
  <2>3. [w EXCEPT !.streams[p].fh = FALSE] = Put(w, p, r)
    BY DEF Put
  <2>4. /\ r \in Stream /\ r.dir = w.streams[p].dir /\ r.pos_rel_id = w.streams[p].pos_rel_id
        /\ r.virtual = w.streams[p].virtual /\ r.immutable = w.streams[p].immutable
        /\ r.primary = w.streams[p].primary /\ r.cf = w.streams[p].cf
    BY <2>2 DEF Stream
  <2> HIDE DEF r
  <2>5. /\ r.immutable => r.primary
        /\ r.cf = "wave" => r.dir \notin Raw
    BY <1>4, <2>1, <2>4 DEF Good
  <2>6. Good(Put(w, p, r), {}) /\ Keeps(w, Put(w, p, r))
    BY <1>4, <2>1, <2>4, <2>5, PutGood
  <2> QED BY <1>5, <2>3, <2>6, KeepsTransitive
<1> QED BY <1>3, <1>4, <1>5, <1>6, <1>7

-----------------------------------------------------------------------------
(* The specification. *)

Inv == TypeOK /\ Good(Now, {})

\* The call leads to the tables u, whether it returns or not.
Leads(u) == Become(u) \/ (Store(u) /\ stuck' = TRUE)

\* u is a possible outcome of a call made in the present state.
Sound(u) == Leads(u) /\ Good(u, {}) /\ Keeps(Now, u)

\* The variables and the record of the tables name the same entries.
LEMMA NowLive ==
    ASSUME Inv
    PROVE  /\ \A s \in SID : g_streams[s] # NULL => s \in LiveStreams(Now)
           /\ \A c \in CID : g_clients[c] # NULL => c \in LiveClients(Now)
           /\ Now.streams = g_streams /\ Now.clients = g_clients /\ Now.alive = alive
BY DEF Now, LiveStreams, LiveClients

\* The server starts with one client that owns one stream, both counted.
LEMMA InitInv ==
    ASSUME Init
    PROVE  Inv
<1>1. 0 \in SID /\ 0 \in CID /\ self \in CID
  BY TablesAssumption, RegistryAssumption DEF SID, CID, self
<1>2. MixerStream \in Stream /\ MixerStream.dir = "MIXING" /\ MixerStream.primary
      /\ ~ MixerStream.virtual /\ MixerStream.cf = "none"
  BY <1>1 DEF MixerStream, NewStream, Stream, Dir, Codec
<1>3. [NewClient EXCEPT !.streams = [k \in Slot |-> IF k = 0 THEN 0 ELSE None]] \in Client
  BY <1>1 DEF NewClient, Client
<1>4. TypeOK
  <2>1. stuck \in BOOLEAN /\ alive \in BOOLEAN
    BY DEF Init
  <2>2. /\ g_streams \in [SID -> Stream \cup {NULL}]
        /\ g_clients \in [CID -> Client \cup {NULL}]
        /\ counters \in [streams : Int, clients : Int]
        /\ streams_thru_num \in Int
    BY <1>1, <1>2, <1>3 DEF Init
  <2> QED BY <2>1, <2>2 DEF TypeOK
<1>5. LiveStreams(Now) = {0} /\ LiveClients(Now) = {self}
  BY <1>1, <1>2, <1>3, TablesAssumption DEF Init, Now, LiveStreams, LiveClients
<1>6. Now.streams[0] = MixerStream
  BY <1>1 DEF Now, Init
<1>7. Cardinality({0}) = 1 /\ Cardinality({self}) = 1 /\ Cardinality({}) = 0
  BY FS_Singleton, FS_EmptySet
<1>8. Counted(Now)
  <2>1. {s \in LiveStreams(Now) : Now.streams[s].dir = "THRU"} = {}
    BY <1>2, <1>5, <1>6
  <2>2. Now.nstreams = 1 /\ Now.nclients = 1 /\ Now.thru = 0
    BY DEF Now, Init
  <2> QED BY <1>5, <1>7, <2>1, <2>2 DEF Counted
<1>9. Related(Now, {})
  BY <1>2, <1>5, <1>6 DEF Related
<1>10. Now \in TablesType
  BY <1>4 DEF TypeOK, Now, TablesType
<1> QED BY <1>2, <1>4, <1>5, <1>6, <1>8, <1>9, <1>10 DEF Inv, Good

\* A connection takes a free entry of the client table.
LEMMA AcceptSound ==
    ASSUME Inv, Accept
    PROVE  \E u : Sound(u)
<1>1. PICK c \in CID :
        /\ FirstOf(FreeCIDs(Now), c)
        /\ Become([clients_new(Now, c) EXCEPT !.clients[c].fh = TRUE])
  BY DEF Accept
<1> DEFINE t == Now
           u == [clients_new(t, c) EXCEPT !.clients[c].fh = TRUE]
           r == [NewClient EXCEPT !.fh = TRUE]
<1>2. t \in TablesType /\ c \notin LiveClients(t)
  BY <1>1 DEF Inv, Good, FirstOf, FreeCIDs
<1>3. r \in Client
  BY DEF NewClient, Client
<1> HIDE DEF t
<1>4. /\ u.streams = t.streams /\ u.nstreams = t.nstreams /\ u.nclients = t.nclients + 1
      /\ u.thru = t.thru /\ u.alive = t.alive
      /\ u.clients = [t.clients EXCEPT ![c] = r]
  BY <1>2 DEF clients_new, TablesType
<1>5. u \in TablesType
  <2>1. u = [t EXCEPT !.clients = u.clients, !.nclients = u.nclients]
    BY <1>2 DEF clients_new, TablesType
  <2> HIDE DEF u, r
  <2>2. u.clients \in [CID -> Client \cup {NULL}] /\ u.nclients \in Int
    BY <1>2, <1>3, <1>4 DEF TablesType
  <2> QED BY <1>2, <2>1, <2>2 DEF TablesType
<1>6. Become(u)
  BY <1>1 DEF t
<1> HIDE DEF u, r
<1>7. LiveStreams(u) = LiveStreams(t)
  BY <1>4 DEF LiveStreams
<1>8. LiveClients(u) = LiveClients(t) \cup {c}
  <2>1. u.clients[c] = r /\ \A d \in CID \ {c} : u.clients[d] = t.clients[d]
    BY <1>2, <1>4 DEF TablesType
  <2> QED BY <1>3, <2>1, TablesAssumption DEF LiveClients
<1>9. Good(t, {})
  BY DEF Inv, t
<1>10. Counted(u)
  <2>1. Cardinality(LiveClients(t) \cup {c}) = Cardinality(LiveClients(t)) + 1
    <3>1. LiveClients(t) \in SUBSET CID
      BY DEF LiveClients
    <3>2. IsFiniteSet(LiveClients(t))
      BY <3>1, IdsFinite
    <3> QED BY <1>2, <3>2, FS_AddElement
  <2> QED BY <1>4, <1>7, <1>8, <1>9, <2>1 DEF Good, Counted
<1>11. Related(u, {})
  BY <1>4, <1>7, <1>9 DEF Good, Related
<1>12. Good(u, {})
  BY <1>4, <1>5, <1>7, <1>9, <1>10, <1>11 DEF Good
<1>13. Keeps(t, u)
  BY <1>4, <1>7 DEF Keeps
<1> QED BY <1>6, <1>12, <1>13 DEF Sound, Leads, t

\* The flags that clients may change: PRIMARY of an immutable stream stays.
LEMMA FlagsSound ==
    ASSUME Inv, NEW s \in LiveStreams(Now), NEW prim \in BOOLEAN, NEW virt \in BOOLEAN,
           virt => g_streams[s].virtual,
           g_streams[s].immutable => prim
    PROVE  LET r == [g_streams[s] EXCEPT !.primary = prim, !.virtual = virt] IN
           Good(Put(Now, s, r), {}) /\ Keeps(Now, Put(Now, s, r))
<1> DEFINE r == [g_streams[s] EXCEPT !.primary = prim, !.virtual = virt]
<1>1. s \in SID /\ g_streams[s] \in Stream /\ Now.streams = g_streams
  BY DEF Inv, TypeOK, LiveStreams, Now
<1>2. /\ r \in Stream /\ r.dir = g_streams[s].dir /\ r.pos_rel_id = g_streams[s].pos_rel_id
      /\ r.virtual = virt /\ r.immutable = g_streams[s].immutable
      /\ r.primary = prim /\ r.cf = g_streams[s].cf
  BY <1>1, ZenonT(60) DEF Stream
<1>3. g_streams[s].cf = "wave" => g_streams[s].dir \notin Raw
  BY <1>1 DEF Inv, Good
<1> HIDE DEF r
<1>4. Good(Now, {})
  BY DEF Inv
<1>5. Good(Put(Now, s, r), {}) /\ Keeps(Now, Put(Now, s, r))
  BY <1>1, <1>2, <1>3, <1>4, PutGood
<1> QED BY <1>5 DEF r

\* Every action is a call that leaves the tables sound.
LEMMA NextSound ==
    ASSUME Inv, Next
    PROVE  UNCHANGED vars \/ \E u : Sound(u)
<1> USE DEF Sound, Leads
<1>1. Good(Now, {})
  BY DEF Inv
<1>2. CASE Accept
  BY <1>2, AcceptSound
<1>3. ASSUME NEW c \in CID, Disconnect(c) \/ Req_quit(c)
      PROVE  \E u : Sound(u)
  BY <1>1, <1>3, DeletersGood DEF Disconnect, Req_quit
<1>4. ASSUME NEW c \in CID, Req_new_stream(c)
      PROVE  \E u : Sound(u)
  <2>1. PICK s \in SID, r \in NewRequests :
          /\ FirstOf(FreeSIDs(Now), s)
          /\ IF CanAdd(Now, c) /\ Endless(Loaded(Now, c, s, r[1], r[2]), s)
             THEN Store(Loaded(Now, c, s, r[1], r[2])) /\ stuck' = TRUE
             ELSE \E match \in (IF r[1] = "FILTER" THEN BOOLEAN ELSE {TRUE}) :
                    Become(Create(Now, c, s, r[1], r[2], match))
    BY <1>4 DEF Req_new_stream
  <2>2. s \in FreeSIDs(Now) /\ r[1] \in Dir /\ r[2] \in SID \cup {None}
    BY <2>1, RegistryAssumption DEF FirstOf
  <2> DEFINE loaded == Loaded(Now, c, s, r[1], r[2])
  <2>3. CASE CanAdd(Now, c) /\ Endless(loaded, s)
    <3>1. /\ Good(loaded, {s}) /\ Keeps(Now, loaded) /\ s \in LiveStreams(loaded)
          /\ ~ loaded.streams[s].virtual
      BY <1>1, <2>2, LoadedGood
    <3>2. Store(loaded) /\ stuck' = TRUE
      BY <2>1, <2>3
    <3> HIDE DEF loaded
    <3>3. Good(loaded, {})
      BY <2>3, <3>1, EndlessGood
    <3> QED BY <3>1, <3>2, <3>3
  <2>4. CASE ~ (CanAdd(Now, c) /\ Endless(loaded, s))
    <3>1. PICK match \in BOOLEAN : Become(Create(Now, c, s, r[1], r[2], match))
      BY <2>1, <2>4
    <3> QED BY <1>1, <2>2, <3>1, CreateGood
  <2> QED BY <2>3, <2>4
<1>5. ASSUME NEW c \in CID, Req_exec_stream(c)
      PROVE  \E u : Sound(u)
  <2>1. PICK s \in SID, outcome \in FhOutcomes, cf \in CodecKinds :
          Become(IF g_streams[s] = NULL \/ g_streams[s].ready
                 THEN clients_close(Now, c)
                 ELSE client_stream_exec(Now, c, s, outcome, cf))
    BY <1>5 DEF Req_exec_stream
  <2>2. outcome \in FhOutcome /\ cf \in Codec
    BY RegistryAssumption
  <2>3. /\ Good(client_stream_exec(Now, c, s, outcome, cf), {})
        /\ Keeps(Now, client_stream_exec(Now, c, s, outcome, cf))
    BY <1>1, <2>2, ConnectGood
  <2>4. Good(clients_close(Now, c), {}) /\ Keeps(Now, clients_close(Now, c))
    <3>1. c \in LiveClients(Now) /\ None \in SID \cup {None}
      BY <1>5, NowLive DEF Req_exec_stream, Requests
    <3>2. /\ Good([Now EXCEPT !.clients[c].fh = FALSE], {})
          /\ Keeps(Now, [Now EXCEPT !.clients[c].fh = FALSE])
      BY <1>1, <3>1, SlotGood
    <3> QED BY <3>2 DEF clients_close
  <2> QED BY <2>1, <2>3, <2>4
<1>6. ASSUME NEW c \in CID, Req_con_stream(c)
      PROVE  \E u : Sound(u)
  <2>1. PICK s \in SID, outcome \in FhOutcomes, cf \in CodecKinds :
          Become(client_stream_set_fh(Now, c, s, outcome, cf))
    BY <1>6 DEF Req_con_stream
  <2>2. outcome \in FhOutcome /\ cf \in Codec
    BY RegistryAssumption
  <2> QED BY <1>1, <2>1, <2>2, ConnectGood
<1>7. ASSUME NEW c \in CID, Req_attach(c)
      PROVE  \E u : Sound(u)
  BY <1>1, <1>7, MoveGood DEF Req_attach
<1>8. ASSUME NEW c \in CID, Req_kick(c)
      PROVE  \E u : Sound(u)
  <2>1. CASE \E k \in CID : Become(clients_delete(Now, k))
    BY <1>1, <2>1, DeletersGood
  <2>2. CASE \E s \in LiveStreams(Now) : Become(streams_delete(Now, s))
    <3>1. PICK s \in LiveStreams(Now) : Become(streams_delete(Now, s))
      BY <2>2
    <3>2. Good(streams_delete(Now, s), {} \ {s}) /\ Keeps(Now, streams_delete(Now, s))
      BY <1>1, DeletersGood
    <3> QED BY <3>1, <3>2
  <2> QED BY <1>8, <2>1, <2>2 DEF Req_kick
<1>9. ASSUME NEW c \in CID, Req_set_flag(c)
      PROVE  \E u : Sound(u)
  <2>1. PICK s \in LiveStreams(Now), flags \in FlagRequests :
          Become([Now EXCEPT !.streams[s].primary = @ \/ "PRIMARY" \in flags])
    BY <1>9 DEF Req_set_flag
  <2> DEFINE prim == g_streams[s].primary \/ "PRIMARY" \in flags
             r == [g_streams[s] EXCEPT !.primary = prim, !.virtual = g_streams[s].virtual]
  <2>2. s \in SID /\ g_streams[s] \in Stream /\ Now.streams = g_streams /\ Now \in TablesType
    BY <1>1 DEF Inv, TypeOK, LiveStreams, Now, Good
  <2>3. g_streams[s].immutable => g_streams[s].primary
    BY <1>1, <2>2 DEF Good
  <2>4. g_streams[s].virtual \in BOOLEAN /\ prim \in BOOLEAN
    BY <2>2 DEF Stream
  <2>5. Good(Put(Now, s, r), {}) /\ Keeps(Now, Put(Now, s, r))
    BY <2>3, <2>4, FlagsSound
  <2>6. [Now EXCEPT !.streams[s].primary = @ \/ "PRIMARY" \in flags] = Put(Now, s, r)
    BY <2>2 DEF Put, Stream
  <2> QED BY <2>1, <2>5, <2>6
<1>10. ASSUME NEW c \in CID, Req_reset_flag(c)
       PROVE  \E u : Sound(u)
  <2>1. PICK s \in LiveStreams(Now), flags \in FlagRequests :
          Become([Now EXCEPT
            !.streams[s].primary = @ /\ (g_streams[s].immutable \/ "PRIMARY" \notin flags),
            !.streams[s].virtual = @ /\ "VIRTUAL" \notin flags])
    BY <1>10 DEF Req_reset_flag
  <2> DEFINE prim == g_streams[s].primary /\ (g_streams[s].immutable \/ "PRIMARY" \notin flags)
             virt == g_streams[s].virtual /\ "VIRTUAL" \notin flags
             r == [g_streams[s] EXCEPT !.primary = prim, !.virtual = virt]
  <2>2. s \in SID /\ g_streams[s] \in Stream /\ Now.streams = g_streams /\ Now \in TablesType
    BY <1>1 DEF Inv, TypeOK, LiveStreams, Now, Good
  <2>3. g_streams[s].immutable => prim
    BY <1>1, <2>2 DEF Good
  <2>4. virt \in BOOLEAN /\ prim \in BOOLEAN
    OBVIOUS
  <2>5. Good(Put(Now, s, r), {}) /\ Keeps(Now, Put(Now, s, r))
    BY <2>3, <2>4, FlagsSound
  <2>6. [Now EXCEPT
            !.streams[s].primary = @ /\ (g_streams[s].immutable \/ "PRIMARY" \notin flags),
            !.streams[s].virtual = @ /\ "VIRTUAL" \notin flags] = Put(Now, s, r)
    <3>1. [Now EXCEPT !.streams[s].primary = prim, !.streams[s].virtual = virt] = Put(Now, s, r)
      <4> HIDE DEF prim, virt
      <4> QED BY <2>2 DEF Put, TablesType
    <3>2. [Now EXCEPT
            !.streams[s].primary = @ /\ (g_streams[s].immutable \/ "PRIMARY" \notin flags),
            !.streams[s].virtual = @ /\ "VIRTUAL" \notin flags]
          = [Now EXCEPT !.streams[s].primary = prim, !.streams[s].virtual = virt]
      BY <2>2 DEF TablesType, Stream
    <3> QED BY <3>1, <3>2
  <2> QED BY <2>1, <2>5, <2>6
<1>11. ASSUME NEW c \in CID, Req_exit(c)
       PROVE  \E u : Sound(u)
  BY <1>11, QuitGood DEF Req_exit
<1>12. ASSUME NEW s \in SID, StreamFails(s)
       PROVE  \E u : Sound(u)
  <2>1. Good(streams_delete(Now, s), {} \ {s}) /\ Keeps(Now, streams_delete(Now, s))
    BY <1>1, DeletersGood
  <2> QED BY <1>12, <2>1 DEF StreamFails
<1>13. ASSUME NEW p \in SID, WaveHeader(p)
       PROVE  \E u : Sound(u)
  <2>1. PICK v \in SID, outcome \in FhOutcomes \cup {"unknown"}, again \in BOOLEAN :
          /\ FirstOf(FreeSIDs(Now), v)
          /\ Become(OpenWave(Now, p, v, outcome, again))
    BY <1>13 DEF WaveHeader
  <2>2. outcome \in FhOutcome \cup {"unknown"} /\ v \in FreeSIDs(Now)
    BY <2>1, RegistryAssumption DEF FirstOf
  <2>3. p \in LiveStreams(Now) /\ Now.streams[p].cf = "wave"
    BY <1>13, NowLive DEF WaveHeader
  <2> QED BY <1>1, <2>1, <2>2, <2>3, OpenWaveGood
<1>14. CASE Exited
  BY <1>14 DEF Exited
<1> QED
  BY <1>2, <1>3, <1>4, <1>5, <1>6, <1>7, <1>8, <1>9, <1>10, <1>11, <1>12, <1>13, <1>14 DEF Next

\* A step leads to the tables that the call computed.
LEMMA SoundStep ==
    ASSUME Inv, NEW u, Sound(u)
    PROVE  Inv' /\ Keeps(Now, Now')
<1>1. Good(u, {}) /\ Keeps(Now, u) /\ u \in TablesType
  BY DEF Sound, Good
<1>2. Now' = u
  BY <1>1 DEF Sound, Leads, Become, Store, Now, TablesType
<1>3. TypeOK'
  <2>1. stuck' \in BOOLEAN
    <3>1. stuck \in BOOLEAN
      BY DEF Inv, TypeOK
    <3>2. stuck' = stuck \/ stuck' = TRUE
      BY DEF Sound, Leads, Become
    <3> QED BY <3>1, <3>2
  <2>2. Store(u)
    BY DEF Sound, Leads, Become
  <2>3. /\ g_streams' \in [SID -> Stream \cup {NULL}]
        /\ g_clients' \in [CID -> Client \cup {NULL}]
        /\ counters' \in [streams : Int, clients : Int]
        /\ streams_thru_num' \in Int /\ alive' \in BOOLEAN
    BY <1>1, <2>2 DEF Store, TablesType
  <2> QED BY <2>1, <2>3 DEF TypeOK
<1> QED BY <1>1, <1>2, <1>3 DEF Inv

\* Every step keeps the inductive invariant.
LEMMA StepInv ==
    ASSUME Inv, [Next]_vars
    PROVE  Inv' /\ Keeps(Now, Now')
<1>1. CASE UNCHANGED vars
  <2>1. Now' = Now
    BY <1>1 DEF vars, Now
  <2>2. TypeOK'
    BY <1>1 DEF vars, TypeOK, Inv
  <2> QED BY <2>1, <2>2, KeepsReflexive DEF Inv
<1>2. CASE Next
  BY <1>1, <1>2, NextSound, SoundStep
<1> QED BY <1>1, <1>2

\* The inductive invariant holds in every reachable state.
THEOREM Invariance == Spec => []Inv
BY InitInv, StepInv, PTL DEF Spec

\* Every table entry is always a well-formed client or stream, whatever the
\* sizes of the tables and the requests that clients make.
THEOREM TypeCorrect == Spec => []TypeOK
<1>1. Inv => TypeOK
  BY DEF Inv
<1> QED BY <1>1, Invariance, PTL

\* The counters of counters.h and streams_thru_num are exact after every
\* call that returns, through every cascade of streams_delete() and
\* clients_delete(), and where the one that never returns has left them.
THEOREM CountersCorrect == Spec => []CountersExact
<1>1. Inv => CountersExact
  BY DEF Inv, Good, CountersExact
<1> QED BY <1>1, Invariance, PTL

\* THRU, RAW_IN and virtual streams never outlive the stream they depend on.
THEOREM RelationsCorrect == Spec => []RelationsLive
<1>1. Inv => RelationsLive
  BY DEF Inv, Good, RelationsLive
<1> QED BY <1>1, Invariance, PTL

\* An immutable stream is lost only with the server.
THEOREM ImmutableCorrect == Spec => ImmutableOutlivesServer
<1>1. ASSUME Inv, [Next]_vars
      PROVE  [\A s \in SID :
                g_streams[s] # NULL /\ g_streams[s].immutable /\ g_streams'[s] = NULL
                    => ~ alive']_vars
  <2>1. Keeps(Now, Now')
    BY <1>1, StepInv
  <2>2. ASSUME NEW s \in SID, g_streams[s] # NULL, g_streams[s].immutable,
               g_streams'[s] = NULL, alive'
        PROVE  FALSE
    BY <2>1, <2>2 DEF Keeps, Now, LiveStreams
  <2> QED BY <2>2
<1> QED BY <1>1, Invariance, PTL DEF Spec, ImmutableOutlivesServer

-----------------------------------------------------------------------------
(***************************************************************************)
(* Ownership, as long as no client uses ATTACH: client_stream_move() can   *)
(* lose the stream that it moves, which is what run Registry_move shows.   *)
(***************************************************************************)

\* Whether client_stream_add() succeeds depends on the clients only.
LEMMA CanAddSame ==
    ASSUME NEW t, NEW u, u.clients = t.clients, NEW c
    PROVE  CanAdd(u, c) = CanAdd(t, c)
BY DEF CanAdd, LiveClients, FreeSlots

\* A stream is made and given to its client, or made and deleted again.
LEMMA MakeTidy ==
    ASSUME NEW t, Tidy(t, {}), NEW s \in FreeSIDs(t), NEW c
    PROVE  LET n == streams_new(t, s)
               added == client_stream_add(n, c, s)
           IN  /\ Tidy(streams_delete(n, s), {})
               /\ CanAdd(t, c) => Tidy(added, {}) /\ s \in LiveStreams(added)
<1> DEFINE n == streams_new(t, s)
           added == client_stream_add(n, c, s)
<1>1. s \in SID /\ t \in TablesType
  BY DEF FreeSIDs, Tidy
<1>2. Tidy(n, {s})
  BY NewStreamTidy
<1>3. Tidy(streams_delete(n, s), {})
  <2>1. Tidy(streams_delete(n, s), {s} \ {s})
    BY <1>2, DeletersTidy
  <2> QED BY <2>1, TidyMonotone
<1>4. ASSUME CanAdd(t, c)
      PROVE  Tidy(added, {}) /\ s \in LiveStreams(added)
  <2>1. n.streams[s] = NewStream /\ n.clients = t.clients /\ s \in LiveStreams(n)
        /\ n \in TablesType
    BY <1>1, NewStreamLeaves
  <2>2. n.streams[s].client = None
    BY <2>1 DEF NewStream
  <2> HIDE DEF n
  <2>3. CanAdd(n, c)
    BY <1>4, <2>1, CanAddSame
  <2>4. Tidy(added, {})
    BY <1>2, <2>1, <2>2, <2>3, AddTidy
  <2>5. PICK k \in Slot : Added(n, c, s, k, added)
    BY <1>1, <2>1, <2>3, AddLeaves
  <2> QED BY <2>1, <2>4, <2>5 DEF Added
<1> QED BY <1>3, <1>4

\* The stream is linked to its client from the start.
LEMMA LoadedTidy ==
    ASSUME NEW t, Tidy(t, {}), NEW c, NEW s \in FreeSIDs(t),
           NEW dir \in Dir, NEW rel \in SID \cup {None}, CanAdd(t, c)
    PROVE  Tidy(Loaded(t, c, s, dir, rel), {}) /\ s \in LiveStreams(Loaded(t, c, s, dir, rel))
<1> DEFINE n == streams_new(t, s)
           added == client_stream_add(n, c, s)
           r == [added.streams[s] EXCEPT !.pos_rel_id = rel]
           placed == [added EXCEPT !.streams[s].pos_rel_id = rel]
           loaded == streams_set_dir(placed, s, dir)
<1>1. Tidy(added, {}) /\ s \in LiveStreams(added)
  BY MakeTidy
<1>2. Loaded(t, c, s, dir, rel) = loaded
  BY DEF Loaded
<1> HIDE DEF n, added
<1>3. added \in TablesType /\ added.streams[s] \in Stream
  BY <1>1 DEF Tidy, TablesType, LiveStreams
<1>4. r \in Stream /\ r.client = added.streams[s].client
  BY <1>3 DEF Stream
<1>5. placed = Put(added, s, r)
  BY DEF Put
<1> HIDE DEF r, placed
<1>6. Tidy(placed, {})
  BY <1>1, <1>4, <1>5, PutTidy
<1>7. s \in LiveStreams(placed)
  BY <1>1, <1>3, <1>4, <1>5, PutLeaves
<1>8. Tidy(loaded, {})
  BY <1>6, <1>7, SetDirTidy
<1>9. s \in LiveStreams(loaded)
  BY <1>6, <1>7, SetDirLeaves DEF Tidy
<1> QED BY <1>2, <1>8, <1>9

\* req_on_new_stream(), accepted or refused.
LEMMA CreateTidy ==
    ASSUME NEW t, Tidy(t, {}), NEW c, NEW s \in FreeSIDs(t),
           NEW dir \in Dir, NEW rel \in SID \cup {None}, NEW match \in BOOLEAN
    PROVE  Tidy(Create(t, c, s, dir, rel, match), {})
<1> DEFINE n == streams_new(t, s)
           loaded == Loaded(t, c, s, dir, rel)
<1>1. Tidy(streams_delete(n, s), {})
  BY MakeTidy
<1>2. Create(t, c, s, dir, rel, match)
           = IF ~ CanAdd(t, c) THEN streams_delete(n, s)
             ELSE IF NewAccepted(loaded, s, match) THEN loaded ELSE Refuse(loaded, s)
  BY DEF Create
<1> HIDE DEF n
<1>3. ASSUME CanAdd(t, c)
      PROVE  Tidy(loaded, {}) /\ Tidy(Refuse(loaded, s), {})
  <2>6. Tidy(loaded, {}) /\ s \in LiveStreams(loaded)
    BY <1>3, LoadedTidy
  <2>7. loaded \in TablesType
    BY <2>6 DEF Tidy
  <2> HIDE DEF loaded
  <2> DEFINE q == [loaded.streams[s] EXCEPT !.pos_rel_id = None]
  <2>8. loaded.streams[s] \in Stream
    BY <2>6, <2>7 DEF TablesType, LiveStreams
  <2>9. q \in Stream /\ q.client = loaded.streams[s].client
    BY <2>8 DEF Stream
  <2>10. [loaded EXCEPT !.streams[s].pos_rel_id = None] = Put(loaded, s, q)
    BY DEF Put
  <2>11. Refuse(loaded, s) = streams_delete(loaded, s)
         \/ Refuse(loaded, s) = streams_delete(Put(loaded, s, q), s)
    BY <2>10 DEF Refuse
  <2> HIDE DEF q
  <2>12. Tidy(Put(loaded, s, q), {})
    BY <2>6, <2>7, <2>9, PutTidy
  <2>13. Tidy(streams_delete(loaded, s), {} \ {s})
         /\ Tidy(streams_delete(Put(loaded, s, q), s), {} \ {s})
    BY <2>6, <2>12, DeletersTidy
  <2> QED BY <2>6, <2>11, <2>13
<1> QED BY <1>1, <1>2, <1>3

\* streams_new_virtual() gives the virtual stream to the client of the
\* container stream.
LEMMA NewVirtualTidy ==
    ASSUME NEW t, Tidy(t, {}), NEW p \in LiveStreams(t), NEW v \in FreeSIDs(t)
    PROVE  Tidy(NewVirtual(t, p, v), {})
<1> DEFINE c == t.streams[p].client
           dir == t.streams[p].dir
           n == streams_new(t, v)
           added == client_stream_add(n, c, v)
           dired == streams_set_dir(added, v, dir)
           r == [dired.streams[v] EXCEPT !.pos_rel_id = p, !.virtual = TRUE]
           u == [dired EXCEPT !.streams[v].pos_rel_id = p, !.streams[v].virtual = TRUE]
<1>1. v \in SID /\ p \in SID
  BY DEF FreeSIDs, LiveStreams
<1>2. dir \in Dir
  <2>1. t.streams[p] \in Stream
    BY DEF Tidy, TablesType, LiveStreams
  <2> QED BY <2>1 DEF Stream
<1>3. /\ Tidy(streams_delete(n, v), {})
      /\ CanAdd(t, c) => Tidy(added, {}) /\ v \in LiveStreams(added)
  BY MakeTidy
<1>4. NewVirtual(t, p, v) = IF CanAdd(t, c) THEN u ELSE streams_delete(n, v)
  BY DEF NewVirtual
<1> HIDE DEF n, c, dir, added
<1>5. ASSUME CanAdd(t, c)
      PROVE  Tidy(u, {})
  <2>1. Tidy(dired, {})
    BY <1>2, <1>3, <1>5, SetDirTidy
  <2>2. v \in LiveStreams(dired) /\ dired \in TablesType
    BY <1>2, <1>3, <1>5, SetDirLeaves DEF Tidy
  <2> HIDE DEF dired
  <2>3. dired.streams[v] \in Stream
    BY <2>2 DEF TablesType, LiveStreams
  <2>4. r \in Stream /\ r.client = dired.streams[v].client
    BY <1>1, <2>3 DEF Stream
  <2>5. u = Put(dired, v, r)
    BY <1>1, <2>2, <2>3 DEF Put, TablesType, Stream
  <2> HIDE DEF u, r
  <2> QED BY <2>1, <2>2, <2>4, <2>5, PutTidy
<1> QED BY <1>3, <1>4, <1>5

\* cf_wave_read(), however far it gets.
LEMMA OpenWaveTidy ==
    ASSUME NEW t, Tidy(t, {}), Good(t, {}), NEW p \in LiveStreams(t),
           t.streams[p].cf = "wave", NEW v \in FreeSIDs(t),
           NEW outcome \in FhOutcome \cup {"unknown"}, NEW again \in BOOLEAN
    PROVE  Tidy(OpenWave(t, p, v, outcome, again), {})
<1> DEFINE u == NewVirtual(t, p, v)
           w == IF v \in LiveStreams(u) /\ outcome # "unknown"
                THEN streams_set_fh(u, v, outcome, "plain") ELSE u
           r == [w.streams[p] EXCEPT !.fh = FALSE]
           x == [w EXCEPT !.streams[p].fh = FALSE]
<1>1. v \in SID /\ p \in SID /\ "plain" \in Codec
  BY DEF FreeSIDs, LiveStreams, Codec
<1>2. Tidy(u, {}) /\ Good(u, {}) /\ (v \in LiveStreams(u) => p \in LiveStreams(u))
  BY NewVirtualTidy, NewVirtualGood
<1>3. OpenWave(t, p, v, outcome, again)
          = IF v \in LiveStreams(w) /\ w.streams[v].ready
            THEN x ELSE IF again THEN w ELSE streams_delete(w, p)
  BY DEF OpenWave
<1> HIDE DEF u
<1>4. Tidy(w, {}) /\ (v \in LiveStreams(w) => p \in LiveStreams(w))
  <2>1. ASSUME outcome # "unknown"
        PROVE  LET y == streams_set_fh(u, v, outcome, "plain")
               IN  Tidy(y, {}) /\ (v \in LiveStreams(y) => LiveStreams(y) = LiveStreams(u))
    BY <1>1, <1>2, <2>1, SetFhTidy, SetFhGood
  <2> QED BY <1>2, <2>1
<1> HIDE DEF w
<1>5. Tidy(streams_delete(w, p), {})
  <2>1. Tidy(streams_delete(w, p), {} \ {p})
    BY <1>4, DeletersTidy
  <2> QED BY <2>1
<1>6. ASSUME v \in LiveStreams(w)
      PROVE  Tidy(x, {})
  <2>1. x = Put(w, p, r) /\ w \in TablesType
    BY <1>4 DEF Put, Tidy
  <2>2. p \in LiveStreams(w) /\ w.streams[p] \in Stream
    BY <1>4, <1>6, <2>1 DEF TablesType, LiveStreams
  <2>3. r \in Stream /\ r.client = w.streams[p].client
    BY <2>2 DEF Stream
  <2> HIDE DEF x, r
  <2> QED BY <1>4, <2>1, <2>2, <2>3, PutTidy
<1> QED BY <1>3, <1>4, <1>5, <1>6

\* The step leads from the tables Now to tables in which the owners agree.
Agreeing == \E u : Leads(u) /\ Tidy(u, {})

\* Without ATTACH every action leaves the owners in agreement.
LEMMA NextTidy ==
    ASSUME AttachTargets = {}, Inv, Tidy(Now, {}), Next
    PROVE  UNCHANGED vars \/ Agreeing
<1> USE DEF Agreeing, Leads
<1>1. Good(Now, {}) /\ Now \in TablesType /\ Now.streams = g_streams
  BY DEF Inv, Good, Now
<1>2. CASE Accept
  <2>1. PICK c \in CID :
          /\ FirstOf(FreeCIDs(Now), c)
          /\ Become([clients_new(Now, c) EXCEPT !.clients[c].fh = TRUE])
    BY <1>2 DEF Accept
  <2> DEFINE t == Now
             r == [NewClient EXCEPT !.fh = TRUE]
             u == [clients_new(t, c) EXCEPT !.clients[c].fh = TRUE]
  <2>2. t \in TablesType /\ c \in FreeCIDs(t) /\ r \in Client
    BY <1>1, <2>1 DEF FirstOf, NewClient, Client
  <2> HIDE DEF t
  <2>3. u.streams = t.streams /\ u.nclients = t.nclients + 1
        /\ u.clients = [t.clients EXCEPT ![c] = r]
    BY <2>2 DEF clients_new, TablesType
  <2>4. u \in TablesType
    <3>1. u = [t EXCEPT !.clients = u.clients, !.nclients = u.nclients]
      BY <2>2 DEF clients_new, TablesType
    <3> HIDE DEF u, r
    <3>2. u.clients \in [CID -> Client \cup {NULL}] /\ u.nclients \in Int
      BY <2>2, <2>3 DEF TablesType
    <3> QED BY <2>2, <3>1, <3>2 DEF TablesType
  <2>5. Become(u) /\ Tidy(t, {})
    BY <2>1 DEF t
  <2> HIDE DEF u
  <2>6. Tidy(u, {})
    BY <2>2, <2>3, <2>4, <2>5, NewClientTidy
  <2> QED BY <2>5, <2>6
<1>3. ASSUME NEW c \in CID, Disconnect(c) \/ Req_quit(c)
      PROVE  Agreeing
  BY <1>3, DeletersTidy DEF Disconnect, Req_quit
<1>4. ASSUME NEW c \in CID, Req_new_stream(c)
      PROVE  Agreeing
  <2>1. PICK s \in SID, r \in NewRequests :
          /\ FirstOf(FreeSIDs(Now), s)
          /\ IF CanAdd(Now, c) /\ Endless(Loaded(Now, c, s, r[1], r[2]), s)
             THEN Store(Loaded(Now, c, s, r[1], r[2])) /\ stuck' = TRUE
             ELSE \E match \in (IF r[1] = "FILTER" THEN BOOLEAN ELSE {TRUE}) :
                    Become(Create(Now, c, s, r[1], r[2], match))
    BY <1>4 DEF Req_new_stream
  <2>2. s \in FreeSIDs(Now) /\ r[1] \in Dir /\ r[2] \in SID \cup {None}
    BY <2>1, RegistryAssumption DEF FirstOf
  <2> DEFINE loaded == Loaded(Now, c, s, r[1], r[2])
  <2>3. CASE CanAdd(Now, c) /\ Endless(loaded, s)
    <3>1. Tidy(loaded, {})
      BY <2>2, <2>3, LoadedTidy
    <3>2. Store(loaded) /\ stuck' = TRUE
      BY <2>1, <2>3
    <3> HIDE DEF loaded
    <3> QED BY <3>1, <3>2
  <2>4. CASE ~ (CanAdd(Now, c) /\ Endless(loaded, s))
    <3>1. PICK match \in BOOLEAN : Become(Create(Now, c, s, r[1], r[2], match))
      BY <2>1, <2>4
    <3> QED BY <2>2, <3>1, CreateTidy
  <2> QED BY <2>3, <2>4
<1>5. ASSUME NEW c \in CID, Req_exec_stream(c) \/ Req_con_stream(c)
      PROVE  Agreeing
  <2>1. PICK s \in SID, outcome \in FhOutcomes, cf \in CodecKinds :
          \/ Become(clients_close(Now, c))
          \/ Become(client_stream_exec(Now, c, s, outcome, cf))
          \/ Become(client_stream_set_fh(Now, c, s, outcome, cf))
    BY <1>5 DEF Req_exec_stream, Req_con_stream
  <2>2. outcome \in FhOutcome /\ cf \in Codec
    BY RegistryAssumption
  <2>3. c \in LiveClients(Now)
    BY <1>5, NowLive DEF Req_exec_stream, Req_con_stream, Requests
  <2> QED BY <2>1, <2>2, <2>3, ConnectTidy
<1>6. ASSUME NEW c \in CID, Req_attach(c)
      PROVE  Agreeing
  BY <1>6 DEF Req_attach
<1>7. ASSUME NEW s, Become(streams_delete(Now, s))
      PROVE  Agreeing
  <2>1. Tidy(streams_delete(Now, s), {} \ {s})
    BY DeletersTidy
  <2>2. Tidy(streams_delete(Now, s), {})
    BY <2>1
  <2> QED BY <1>7, <2>2
<1>8. ASSUME NEW c \in CID, Req_kick(c)
      PROVE  Agreeing
  BY <1>7, <1>8, DeletersTidy DEF Req_kick
<1>9. ASSUME NEW c \in CID, Req_set_flag(c)
      PROVE  Agreeing
  <2>1. PICK s \in LiveStreams(Now), flags \in FlagRequests :
          Become([Now EXCEPT !.streams[s].primary = @ \/ "PRIMARY" \in flags])
    BY <1>9 DEF Req_set_flag
  <2> DEFINE prim == g_streams[s].primary \/ "PRIMARY" \in flags
             r == [g_streams[s] EXCEPT !.primary = prim, !.virtual = g_streams[s].virtual]
  <2>2. s \in SID /\ g_streams[s] \in Stream
    BY <1>1 DEF Inv, TypeOK, LiveStreams
  <2>3. g_streams[s].virtual \in BOOLEAN /\ prim \in BOOLEAN
    BY <2>2 DEF Stream
  <2>4. [Now EXCEPT !.streams[s].primary = @ \/ "PRIMARY" \in flags] = Put(Now, s, r)
    BY <1>1, <2>2 DEF Put, Stream
  <2>5. Tidy(Put(Now, s, r), {})
    <3>1. r \in Stream /\ r.client = Now.streams[s].client
      BY <1>1, <2>2, <2>3 DEF Stream
    <3> HIDE DEF r
    <3> QED BY <3>1, PutTidy
  <2> QED BY <2>1, <2>4, <2>5
<1>10. ASSUME NEW c \in CID, Req_reset_flag(c)
       PROVE  Agreeing
  <2>1. PICK s \in LiveStreams(Now), flags \in FlagRequests :
          Become([Now EXCEPT
            !.streams[s].primary = @ /\ (g_streams[s].immutable \/ "PRIMARY" \notin flags),
            !.streams[s].virtual = @ /\ "VIRTUAL" \notin flags])
    BY <1>10, Zenon DEF Req_reset_flag
  <2> DEFINE prim == g_streams[s].primary /\ (g_streams[s].immutable \/ "PRIMARY" \notin flags)
             virt == g_streams[s].virtual /\ "VIRTUAL" \notin flags
             r == [g_streams[s] EXCEPT !.primary = prim, !.virtual = virt]
  <2>2. s \in SID /\ g_streams[s] \in Stream
    BY <1>1 DEF Inv, TypeOK, LiveStreams
  <2>3. prim \in BOOLEAN /\ virt \in BOOLEAN
    OBVIOUS
  <2>4. Tidy(Put(Now, s, r), {})
    <3>1. r \in Stream /\ r.client = Now.streams[s].client
      BY <1>1, <2>2, <2>3, ZenonT(60) DEF Stream
    <3> HIDE DEF r
    <3> QED BY <3>1, PutTidy
  <2>5. [Now EXCEPT
            !.streams[s].primary = @ /\ (g_streams[s].immutable \/ "PRIMARY" \notin flags),
            !.streams[s].virtual = @ /\ "VIRTUAL" \notin flags] = Put(Now, s, r)
    <3>1. [Now EXCEPT !.streams[s].primary = prim, !.streams[s].virtual = virt] = Put(Now, s, r)
      <4> HIDE DEF prim, virt
      <4> QED BY <1>1, <2>2 DEF Put, TablesType
    <3>2. [Now EXCEPT
            !.streams[s].primary = @ /\ (g_streams[s].immutable \/ "PRIMARY" \notin flags),
            !.streams[s].virtual = @ /\ "VIRTUAL" \notin flags]
          = [Now EXCEPT !.streams[s].primary = prim, !.streams[s].virtual = virt]
      BY <1>1, <2>2 DEF TablesType, Stream
    <3> QED BY <3>1, <3>2
  <2> QED BY <2>1, <2>4, <2>5
<1>11. ASSUME NEW c \in CID, Req_exit(c)
       PROVE  Agreeing
  BY <1>11, QuitTidy DEF Req_exit
<1>12. ASSUME NEW s \in SID, StreamFails(s)
       PROVE  Agreeing
  BY <1>7, <1>12 DEF StreamFails
<1>13. ASSUME NEW p \in SID, WaveHeader(p)
       PROVE  Agreeing
  <2>1. PICK v \in SID, outcome \in FhOutcomes \cup {"unknown"}, again \in BOOLEAN :
          /\ FirstOf(FreeSIDs(Now), v)
          /\ Become(OpenWave(Now, p, v, outcome, again))
    BY <1>13 DEF WaveHeader
  <2>2. outcome \in FhOutcome \cup {"unknown"} /\ v \in FreeSIDs(Now)
    BY <2>1, RegistryAssumption DEF FirstOf
  <2>3. p \in LiveStreams(Now) /\ Now.streams[p].cf = "wave"
    BY <1>13, NowLive DEF WaveHeader
  <2> QED BY <1>1, <2>1, <2>2, <2>3, OpenWaveTidy
<1>14. CASE Exited
  BY <1>14 DEF Exited
<1> QED
  BY <1>2, <1>3, <1>4, <1>5, <1>6, <1>8, <1>9, <1>10, <1>11, <1>12, <1>13, <1>14 DEF Next

\* The server starts with its own client, which lists the mixer.
LEMMA InitTidy ==
    ASSUME Init
    PROVE  Tidy(Now, {})
<1>1. 0 \in SID /\ 0 \in CID /\ self \in CID /\ 0 \in Slot /\ self = 0
  BY TablesAssumption, RegistryAssumption DEF SID, CID, Slot, self
<1> DEFINE r == [NewClient EXCEPT !.streams = [k \in Slot |-> IF k = 0 THEN 0 ELSE None]]
<1>2. MixerStream \in Stream /\ MixerStream.client = self
  BY <1>1 DEF MixerStream, NewStream, Stream, Dir, Codec
<1>3. /\ r \in Client /\ r.execed = None
      /\ r.streams[0] = 0 /\ \A k \in Slot \ {0} : r.streams[k] = None
  BY <1>1 DEF NewClient, Client
<1>4. Inv
  BY InitInv
<1>5. Now.streams[0] = MixerStream /\ Now.clients[self] = r
  BY <1>1 DEF Now, Init
<1>6. LiveStreams(Now) = {0} /\ LiveClients(Now) = {self}
  BY <1>1, <1>2, <1>3, TablesAssumption DEF Init, Now, LiveStreams, LiveClients
<1> HIDE DEF r
<1>7. 0 # None
  BY DEF None
<1>8. 0 \in SlotSet(Now, self)
  BY <1>1, <1>3, <1>5, <1>7 DEF SlotSet
<1>9. SlotsAgree(Now)
  BY <1>1, <1>2, <1>3, <1>5, <1>6 DEF SlotsAgree
<1>10. StreamsAgree(Now, {})
  BY <1>2, <1>5, <1>6, <1>8 DEF StreamsAgree
<1>11. ExecedListed(Now)
  BY <1>3, <1>5, <1>6 DEF ExecedListed
<1> QED BY <1>4, <1>9, <1>10, <1>11 DEF Tidy, Inv, Good

\* Every step keeps the agreement.
LEMMA StepTidy ==
    ASSUME AttachTargets = {}, Inv, Tidy(Now, {}), [Next]_vars
    PROVE  Tidy(Now, {})'
<1>1. CASE UNCHANGED vars
  <2>1. Now' = Now
    BY <1>1 DEF vars, Now
  <2> QED BY <2>1
<1>2. CASE Next
  <2>1. CASE UNCHANGED vars
    BY <1>1, <2>1
  <2>2. ASSUME NEW u, Leads(u), Tidy(u, {})
        PROVE  Tidy(Now, {})'
    <3>1. Now' = u
      BY <2>2 DEF Leads, Become, Store, Now, Tidy, TablesType
    <3> QED BY <2>2, <3>1
  <2> QED BY <1>2, <2>1, <2>2, NextTidy DEF Agreeing
<1> QED BY <1>1, <1>2

\* Without ATTACH the owners agree in every reachable state.
THEOREM OwnersInvariance ==
    ASSUME AttachTargets = {}
    PROVE  Spec => [](Inv /\ Tidy(Now, {}))
<1>1. Init => Inv /\ Tidy(Now, {})
  BY InitInv, InitTidy
<1>2. Inv /\ Tidy(Now, {}) /\ [Next]_vars => (Inv /\ Tidy(Now, {}))'
  BY StepInv, StepTidy
<1> QED BY <1>1, <1>2, PTL DEF Spec

\* Both sides agree who owns a stream, in tables of every size: the client
\* lists exactly the live streams that name it, each once.
THEOREM OwnershipCorrect ==
    ASSUME AttachTargets = {}
    PROVE  Spec => []OwnershipAgrees
<1>1. Inv /\ Tidy(Now, {}) => OwnershipAgrees
  BY DEF Tidy, SlotsAgree, StreamsAgree, OwnershipAgrees, Now
<1> QED BY <1>1, OwnersInvariance, PTL

\* A client that EXEC turned into a stream lists that stream, so that the end
\* of the one is the end of the other.
THEOREM ExecedCorrect ==
    ASSUME AttachTargets = {}
    PROVE  Spec => []ExecedIsListed
<1>1. Inv /\ Tidy(Now, {}) => ExecedIsListed
  BY DEF Tidy, ExecedListed, ExecedIsListed, Now
<1> QED BY <1>1, OwnersInvariance, PTL

\* No step leaves a stream that some client listed without a client.
THEOREM AttachedCorrect ==
    ASSUME AttachTargets = {}
    PROVE  Spec => StaysAttached
<1>1. ASSUME Inv, Tidy(Now, {}), [Next]_vars
      PROVE  [\A s \in SID :
                /\ g_streams[s] # NULL /\ g_streams'[s] # NULL
                /\ \E c \in LiveClients(Now) : s \in SlotSet(Now, c)
                => \E c \in LiveClients(Now)' : s \in SlotSet(Now, c)']_vars
  <2>1. StreamsAgree(Now', {})
    BY <1>1, StepTidy DEF Tidy
  <2>2. \A s \in SID : g_streams'[s] # NULL => s \in LiveStreams(Now')
    BY DEF LiveStreams, Now
  <2>3. \A s \in LiveStreams(Now') :
          \E c \in LiveClients(Now') : s \in SlotSet(Now', c)
    BY <2>1 DEF StreamsAgree
  <2>4. LiveClients(Now') = LiveClients(Now)' /\ \A c : SlotSet(Now', c) = SlotSet(Now, c)'
    BY DEF LiveClients, SlotSet, Now
  <2> QED BY <2>2, <2>3, <2>4
<1> QED BY <1>1, OwnersInvariance, PTL DEF Spec, StaysAttached

-----------------------------------------------------------------------------
(***************************************************************************)
(* Copies: the chains of THRU streams end.  Relations are set when a       *)
(* stream is created, to a stream that is there, and only deletion changes *)
(* them afterwards.                                                        *)
(***************************************************************************)

\* Every stream of u outside X was there in t and gained no relation since.
Thins(t, u, X) ==
    \A i \in LiveStreams(u) \ X :
        /\ i \in LiveStreams(t)
        /\ u.streams[i].dir = t.streams[i].dir
        /\ u.streams[i].virtual => t.streams[i].virtual
        /\ u.streams[i].pos_rel_id \in {t.streams[i].pos_rel_id, None}

\* What is asked of the relation of a new stream s.
Placed(u, s) ==
    s \in LiveStreams(u) =>
        LET rel == u.streams[s].pos_rel_id IN
        /\ u.streams[s].dir = "THRU" => ~ u.streams[s].virtual /\ rel # s
        /\ u.streams[s].virtual => u.streams[rel].dir # "THRU"

\* Calls that follow each other.
LEMMA ThinsTransitive ==
    ASSUME NEW t, NEW u, NEW w, NEW X, Thins(t, u, X), Thins(u, w, X)
    PROVE  Thins(t, w, X)
BY DEF Thins

\* What holds of all streams holds of those outside X.
LEMMA ThinsMonotone ==
    ASSUME NEW t, NEW u, NEW X, Thins(t, u, {})
    PROVE  Thins(t, u, X)
BY DEF Thins

\* The same streams.
LEMMA SameThins ==
    ASSUME NEW t, NEW u, u.streams = t.streams
    PROVE  Thins(t, u, {})
BY DEF Thins, LiveStreams

\* Deletion adds no relation.
LEMMA DeleteThins ==
    ASSUME NEW t \in TablesType, NEW R, NEW K \in SUBSET LiveClients(t)
    PROVE  Thins(t, Delete(t, R, K), {})
<1>1. CASE Delete(t, R, K) = Quit
  <2>1. LiveStreams(Quit) = {}
    BY DEF LiveStreams, Quit
  <2> QED BY <1>1, <2>1 DEF Thins
<1>2. ASSUME NEW D, NEW L \in SUBSET LiveClients(t), D = Doomed(t, R),
             Delete(t, R, K) = Remove(t, D, L)
      PROVE  Thins(t, Remove(t, D, L), {})
  <2>1. Without(t, D, L, Remove(t, D, L))
    BY <1>2, DoomedLive, RemoveLeaves
  <2> QED BY <2>1 DEF Without, Thins
<1> QED BY <1>1, <1>2, DeleteCases

\* So do the functions that delete.
LEMMA DeletersThin ==
    ASSUME NEW t \in TablesType, NEW s, NEW c
    PROVE  Thins(t, streams_delete(t, s), {}) /\ Thins(t, clients_delete(t, c), {})
<1>1. Thins(t, t, {})
  BY SameThins
<1>2. Thins(t, streams_delete(t, s), {})
  BY <1>1, DeleteThins DEF streams_delete
<1>3. ASSUME c \in LiveClients(t)
      PROVE  Thins(t, clients_delete(t, c), {})
  BY <1>3, DeleteThins DEF clients_delete
<1> QED BY <1>1, <1>2, <1>3 DEF clients_delete

\* A stream changes, but not its relation.
LEMMA PutThins ==
    ASSUME NEW t \in TablesType, NEW s \in LiveStreams(t), NEW r \in Stream,
           r.dir = t.streams[s].dir, r.pos_rel_id = t.streams[s].pos_rel_id,
           r.virtual => t.streams[s].virtual
    PROVE  Thins(t, Put(t, s, r), {})
<1> DEFINE u == Put(t, s, r)
<1>1. /\ LiveStreams(u) = LiveStreams(t) /\ u.streams[s] = r
      /\ \A i \in SID \ {s} : u.streams[i] = t.streams[i]
  BY PutLeaves
<1> HIDE DEF u
<1>2. \A i \in LiveStreams(u) : i \in SID
  BY DEF LiveStreams
<1>3. Thins(t, u, {})
  BY <1>1, <1>2 DEF Thins
<1> QED BY <1>3 DEF u

\* client_stream_add() changes no relation.
LEMMA AddThins ==
    ASSUME NEW t, NEW X, Good(t, X), NEW c, NEW s \in SID
    PROVE  Thins(t, client_stream_add(t, c, s), {})
<1> DEFINE u == client_stream_add(t, c, s)
<1>1. /\ LiveStreams(u) = LiveStreams(t)
      /\ \A i \in SID \ {s} : u.streams[i] = t.streams[i]
      /\ \/ u.streams[s] = t.streams[s]
         \/ \E d \in CID : u.streams[s] = [t.streams[s] EXCEPT !.client = d]
  BY AddGood
<1> HIDE DEF u
<1>2. ASSUME NEW i \in LiveStreams(t)
      PROVE  /\ u.streams[i].dir = t.streams[i].dir
             /\ u.streams[i].virtual = t.streams[i].virtual
             /\ u.streams[i].pos_rel_id = t.streams[i].pos_rel_id
  <2>1. i \in SID /\ t.streams[i] \in Stream
    BY DEF Good, TablesType, LiveStreams
  <2>2. CASE i # s
    BY <1>1, <2>1, <2>2
  <2>3. CASE i = s
    BY <1>1, <2>1, <2>3 DEF Stream
  <2> QED BY <2>2, <2>3
<1>3. Thins(t, u, {})
  BY <1>1, <1>2 DEF Thins
<1> QED BY <1>3 DEF u

\* client_stream_move() adds none, however far it gets.
LEMMA MoveThins ==
    ASSUME NEW t, Good(t, {}), NEW c, NEW s \in SID
    PROVE  Thins(t, client_stream_move(t, c, s), {})
<1> DEFINE old == IF s \in LiveStreams(t) THEN t.streams[s].client ELSE None
           u == client_stream_delete(t, old, s)
           k == CHOOSE j \in Slot : FirstOf({i \in Slot : t.clients[old].streams[i] = s}, j)
           v == [t EXCEPT !.clients[old].streams[k] = None]
<1>1. client_stream_move(t, c, s)
          = IF old = None THEN client_stream_add(t, c, s)
            ELSE IF Lists(t, old, s) THEN client_stream_add(u, c, s) ELSE t
  BY DEF client_stream_move
<1>2. Thins(t, t, {})
  BY SameThins
<1>3. Thins(t, client_stream_add(t, c, s), {})
  BY AddThins
<1> HIDE DEF old, k
<1>4. ASSUME Lists(t, old, s)
      PROVE  Thins(t, client_stream_add(u, c, s), {})
  <2>1. u = IF t.clients[old].execed = s THEN clients_delete(v, old) ELSE v
    BY <1>4 DEF client_stream_delete, k
  <2>2. v.streams = t.streams
    BY DEF Good, TablesType
  <2>3. Good(v, {})
    BY <1>4, SlotGood DEF Lists
  <2>4. Good(u, {})
    BY ClientDeleteGood
  <2> HIDE DEF v, u
  <2>5. Thins(t, v, {})
    BY <2>2, SameThins
  <2>6. Thins(v, clients_delete(v, old), {})
    BY <2>3, DeletersThin DEF Good
  <2>7. Thins(t, u, {})
    BY <2>1, <2>5, <2>6, ThinsTransitive
  <2>8. Thins(u, client_stream_add(u, c, s), {})
    BY <2>4, AddThins
  <2> QED BY <2>7, <2>8, ThinsTransitive
<1> QED BY <1>1, <1>2, <1>3, <1>4

\* Connecting a stream adds none.
LEMMA SetFhThins ==
    ASSUME NEW t \in TablesType, NEW s \in SID, NEW outcome \in FhOutcome, NEW cf \in Codec
    PROVE  Thins(t, streams_set_fh(t, s, outcome, cf), {})
<1> DEFINE w == streams_set_fh(t, s, outcome, cf)
<1>1. \/ w = t
      \/ /\ s \in LiveStreams(t)
         /\ \E r \in Stream :
              /\ r.dir = t.streams[s].dir /\ r.pos_rel_id = t.streams[s].pos_rel_id
              /\ r.virtual = t.streams[s].virtual
              /\ w = streams_delete(Put(t, s, r), s) \/ w = Put(t, s, r)
  BY SetFhLeaves
<1> HIDE DEF w
<1>2. ASSUME s \in LiveStreams(t), NEW r \in Stream,
             r.dir = t.streams[s].dir, r.pos_rel_id = t.streams[s].pos_rel_id,
             r.virtual = t.streams[s].virtual
      PROVE  Thins(t, Put(t, s, r), {}) /\ Thins(t, streams_delete(Put(t, s, r), s), {})
  <2>1. Thins(t, Put(t, s, r), {}) /\ Put(t, s, r) \in TablesType
    BY <1>2, PutThins, PutLeaves
  <2>2. Thins(Put(t, s, r), streams_delete(Put(t, s, r), s), {})
    BY <2>1, DeletersThin
  <2> QED BY <2>1, <2>2, ThinsTransitive
<1>3. Thins(t, w, {})
  BY <1>1, <1>2, SameThins
<1> QED BY <1>3 DEF w

\* Tables that thin out, but for one new stream, keep the copies in order.
LEMMA GrowLinked ==
    ASSUME NEW t, Good(t, {}), ThruLinked(t), NEW u, Good(u, {}),
           NEW s, s \notin LiveStreams(t), Thins(t, u, {s}), Placed(u, s)
    PROVE  ThruLinked(u)
<1>1. ASSUME NEW i \in LiveStreams(u), u.streams[i].dir = "THRU"
      PROVE  ~ u.streams[i].virtual /\ u.streams[i].pos_rel_id \in LiveStreams(u)
  <2>1. ~ u.streams[i].virtual
    <3>1. CASE i = s
      BY <1>1, <3>1 DEF Placed
    <3>2. CASE i # s
      BY <1>1, <3>2 DEF Thins, ThruLinked
    <3> QED BY <3>1, <3>2
  <2>2. u.streams[i].pos_rel_id \in LiveStreams(u)
    BY <1>1 DEF Good, Related
  <2> QED BY <2>1, <2>2
<1>2. ASSUME NEW j \in LiveStreams(u) \ {s}, u.streams[j].dir \in {"THRU", "RAW_IN"} \/ u.streams[j].virtual
      PROVE  /\ u.streams[j].pos_rel_id = t.streams[j].pos_rel_id
             /\ t.streams[j].pos_rel_id \in LiveStreams(t)
             /\ j \in LiveStreams(t) /\ t.streams[j].dir = u.streams[j].dir
             /\ t.streams[j].dir \in {"THRU", "RAW_IN"} \/ t.streams[j].virtual
  <2>1. u.streams[j].pos_rel_id # None
    BY <1>2, NoneIsNoStream DEF Good, Related, LiveStreams
  <2>2. /\ j \in LiveStreams(t) /\ t.streams[j].dir = u.streams[j].dir
        /\ u.streams[j].pos_rel_id = t.streams[j].pos_rel_id
        /\ t.streams[j].dir \in {"THRU", "RAW_IN"} \/ t.streams[j].virtual
    BY <1>2, <2>1 DEF Thins
  <2>3. t.streams[j].pos_rel_id \in LiveStreams(t)
    BY <2>2 DEF Good, Related
  <2> QED BY <2>2, <2>3
<1>3. ASSUME NEW i \in LiveStreams(u), u.streams[i].dir = "THRU",
             NEW j \in LiveStreams(u), Dependent(u, j, i)
      PROVE  u.streams[j].dir = "THRU"
  <2>1. CASE j = s
    <3>1. u.streams[j].dir = "RAW_IN" => u.streams[i].dir = "RAW_OUT"
      BY <1>3 DEF Good, Related, Dependent
    <3>2. ~ u.streams[j].virtual
      BY <1>3, <2>1 DEF Placed, Dependent
    <3> QED BY <1>3, <3>1, <3>2 DEF Dependent
  <2>2. CASE j # s
    <3>1. /\ t.streams[j].pos_rel_id = i /\ i \in LiveStreams(t)
          /\ j \in LiveStreams(t) /\ t.streams[j].dir = u.streams[j].dir
          /\ t.streams[j].dir \in {"THRU", "RAW_IN"} \/ t.streams[j].virtual
      BY <1>2, <1>3, <2>2 DEF Dependent
    <3>2. i # s
      BY <3>1
    <3>3. t.streams[i].dir = "THRU"
      BY <1>3, <3>2 DEF Thins
    <3>4. Dependent(t, j, i)
      BY <1>3, <3>1 DEF Dependent
    <3> QED BY <3>1, <3>3, <3>4 DEF ThruLinked
  <2> QED BY <2>1, <2>2
<1>4. ASSUME NEW S \in (SUBSET LiveStreams(u)) \ {{}}
      PROVE  \E i \in S : u.streams[i].dir # "THRU" \/ u.streams[i].pos_rel_id \notin S
  <2>1. SUFFICES ASSUME \A i \in S : u.streams[i].dir = "THRU" /\ u.streams[i].pos_rel_id \in S
                 PROVE  FALSE
    OBVIOUS
  <2>2. S \ {s} # {}
    <3>1. PICK i \in S : TRUE
      OBVIOUS
    <3>2. CASE i # s
      BY <3>2
    <3>3. CASE i = s
      <4>1. u.streams[s].pos_rel_id \in S /\ u.streams[s].pos_rel_id # s
        BY <2>1, <3>3 DEF Placed
      <4> QED BY <4>1
    <3> QED BY <3>2, <3>3
  <2>3. S \ {s} \subseteq LiveStreams(t)
    BY DEF Thins
  <2>4. PICK i \in S \ {s} : t.streams[i].dir # "THRU" \/ t.streams[i].pos_rel_id \notin S \ {s}
    BY <2>2, <2>3 DEF ThruLinked, NoCircle
  <2>5. /\ u.streams[i].pos_rel_id = t.streams[i].pos_rel_id
        /\ t.streams[i].pos_rel_id \in LiveStreams(t)
        /\ t.streams[i].dir = "THRU"
    BY <1>2, <2>1
  <2> QED BY <2>1, <2>4, <2>5
<1> QED BY <1>1, <1>3, <1>4 DEF ThruLinked, NoCircle

\* A relation that is in order stays so when the tables thin out.
LEMMA PlacedStays ==
    ASSUME NEW u, NEW x, Good(x, {}), Thins(u, x, {}), NEW s, Placed(u, s)
    PROVE  Placed(x, s)
<1> SUFFICES ASSUME s \in LiveStreams(x)
             PROVE  /\ x.streams[s].dir = "THRU" =>
                          ~ x.streams[s].virtual /\ x.streams[s].pos_rel_id # s
                    /\ x.streams[s].virtual => x.streams[x.streams[s].pos_rel_id].dir # "THRU"
  BY DEF Placed
<1>1. /\ s \in LiveStreams(u) /\ x.streams[s].dir = u.streams[s].dir
      /\ x.streams[s].virtual => u.streams[s].virtual
      /\ x.streams[s].pos_rel_id \in {u.streams[s].pos_rel_id, None}
  BY DEF Thins
<1>2. s # None
  BY NoneIsNoStream DEF LiveStreams
<1>3. ASSUME x.streams[s].virtual
      PROVE  x.streams[x.streams[s].pos_rel_id].dir # "THRU"
  <2>1. x.streams[s].pos_rel_id \in LiveStreams(x)
    BY <1>3 DEF Good, Related
  <2>2. x.streams[s].pos_rel_id # None
    BY <2>1, NoneIsNoStream DEF LiveStreams
  <2>3. x.streams[s].pos_rel_id = u.streams[s].pos_rel_id
    BY <1>1, <2>2
  <2>4. u.streams[u.streams[s].pos_rel_id].dir # "THRU"
    BY <1>1, <1>3 DEF Placed
  <2> QED BY <2>1, <2>3, <2>4 DEF Thins
<1> QED BY <1>1, <1>2, <1>3 DEF Placed

\* EXEC and CON_STREAM add no relation.
LEMMA ConnectThins ==
    ASSUME NEW t \in TablesType, NEW c, NEW s \in SID,
           NEW outcome \in FhOutcome, NEW cf \in Codec
    PROVE  /\ Thins(t, client_stream_set_fh(t, c, s, outcome, cf), {})
           /\ c \in LiveClients(t) => Thins(t, client_stream_exec(t, c, s, outcome, cf), {})
<1>1. Thins(t, t, {}) /\ Thins(t, streams_set_fh(t, s, outcome, cf), {})
  BY SameThins, SetFhThins
<1>2. ASSUME c \in LiveClients(t)
      PROVE  Thins(t, client_stream_exec(t, c, s, outcome, cf), {})
  <2> DEFINE r == [t.clients[c] EXCEPT !.execed = s]
             u == [t EXCEPT !.clients[c] = r]
  <2>1. t.clients[c] \in Client
    BY <1>2 DEF TablesType, LiveClients
  <2>2. r \in Client
    BY <2>1 DEF Client
  <2>3. [t EXCEPT !.clients[c].execed = s] = u
    OBVIOUS
  <2> HIDE DEF r
  <2>4. u \in TablesType /\ u.streams = t.streams
    BY <1>2, <2>2, ClientLeaves
  <2> HIDE DEF u
  <2>5. Thins(t, u, {}) /\ Thins(u, streams_set_fh(u, s, outcome, cf), {})
    BY <2>4, SameThins, SetFhThins
  <2>6. Thins(t, streams_set_fh(u, s, outcome, cf), {})
    BY <2>5, ThinsTransitive
  <2> QED BY <1>1, <2>3, <2>6 DEF client_stream_exec
<1> QED BY <1>1, <1>2 DEF client_stream_set_fh

\* A stream is made and given to its client: the others stay as they were.
LEMMA MakeThins ==
    ASSUME NEW t, Good(t, {}), NEW s \in FreeSIDs(t), NEW c
    PROVE  LET n == streams_new(t, s)
               added == client_stream_add(n, c, s)
           IN  /\ Thins(t, streams_delete(n, s), {})
               /\ Good(added, {s}) /\ LiveStreams(added) = LiveStreams(t) \cup {s}
               /\ added.streams[s].dir = "UNSET" /\ added.streams[s].cf = "none"
               /\ ~ added.streams[s].virtual /\ ~ added.streams[s].immutable
               /\ \A i \in LiveStreams(t) : added.streams[i] = t.streams[i]
<1> DEFINE n == streams_new(t, s)
           added == client_stream_add(n, c, s)
           d == streams_delete(n, s)
<1>1. s \in SID /\ s \notin LiveStreams(t) /\ \A i \in LiveStreams(t) : i \in SID \ {s}
  BY DEF FreeSIDs, LiveStreams
<1>2. /\ Good(n, {}) /\ LiveStreams(n) = LiveStreams(t) \cup {s} /\ n.streams[s] = NewStream
      /\ \A i \in LiveStreams(t) : n.streams[i] = t.streams[i]
  BY NewStreamGood
<1> HIDE DEF n
<1>3. Thins(t, d, {})
  <2>1. Thins(n, d, {}) /\ s \notin LiveStreams(d)
    BY <1>2, DeletersThin, DeletedGone DEF Good
  <2> HIDE DEF d
  <2> QED BY <1>2, <2>1 DEF Thins
<1>4. Good(n, {s})
  BY <1>2 DEF Good, Related
<1>5. /\ Good(added, {s}) /\ LiveStreams(added) = LiveStreams(n)
      /\ \A i \in SID \ {s} : added.streams[i] = n.streams[i]
      /\ \/ added.streams[s] = n.streams[s]
         \/ \E e \in CID : added.streams[s] = [n.streams[s] EXCEPT !.client = e]
  BY <1>1, <1>4, AddGood
<1> HIDE DEF added
<1>6. /\ added.streams[s].dir = "UNSET" /\ added.streams[s].cf = "none"
      /\ ~ added.streams[s].virtual /\ ~ added.streams[s].immutable
  <2>1. CASE added.streams[s] = n.streams[s]
    BY <1>2, <2>1 DEF NewStream
  <2>2. ASSUME NEW e \in CID, added.streams[s] = [n.streams[s] EXCEPT !.client = e]
        PROVE  /\ added.streams[s].dir = "UNSET" /\ added.streams[s].cf = "none"
               /\ ~ added.streams[s].virtual /\ ~ added.streams[s].immutable
    BY <1>2, <2>2 DEF NewStream
  <2> QED BY <1>5, <2>1, <2>2
<1>7. \A i \in LiveStreams(t) : added.streams[i] = t.streams[i]
  BY <1>1, <1>2, <1>5
<1> QED BY <1>2, <1>3, <1>5, <1>6, <1>7 DEF n, added, d

\* The tables have the stream that was loaded, the others are as they were.
Joins(t, u, s) ==
    /\ s \notin LiveStreams(t) /\ LiveStreams(u) = LiveStreams(t) \cup {s}
    /\ \A i \in LiveStreams(t) : u.streams[i] = t.streams[i]

\* req_on_new_stream() before it looks at what the stream is relative to.
LEMMA LoadedJoins ==
    ASSUME NEW t, Good(t, {}), NEW c, NEW s \in FreeSIDs(t),
           NEW dir \in Dir, NEW rel \in SID \cup {None}
    PROVE  LET loaded == Loaded(t, c, s, dir, rel)
           IN  Joins(t, loaded, s) /\ Good(loaded, {s}) /\ ~ loaded.streams[s].virtual
<1> DEFINE n == streams_new(t, s)
           added == client_stream_add(n, c, s)
           r == [added.streams[s] EXCEPT !.pos_rel_id = rel]
           placed == [added EXCEPT !.streams[s].pos_rel_id = rel]
           loaded == streams_set_dir(placed, s, dir)
<1>1. s \in SID /\ s \notin LiveStreams(t) /\ \A i \in LiveStreams(t) : i \in SID \ {s}
  BY DEF FreeSIDs, LiveStreams
<1>2. /\ Thins(t, streams_delete(n, s), {})
      /\ Good(added, {s}) /\ LiveStreams(added) = LiveStreams(t) \cup {s}
      /\ added.streams[s].dir = "UNSET" /\ added.streams[s].cf = "none"
      /\ ~ added.streams[s].virtual /\ ~ added.streams[s].immutable
      /\ \A i \in LiveStreams(t) : added.streams[i] = t.streams[i]
  BY MakeThins
<1>3. Loaded(t, c, s, dir, rel) = loaded
  BY DEF Loaded
<1>4. placed = Put(added, s, r)
  BY DEF Put
<1> HIDE DEF n, added
<1>6. added \in TablesType /\ added.streams[s] \in Stream
  BY <1>1, <1>2 DEF Good, TablesType, LiveStreams
<1>7. /\ r \in Stream /\ r.dir = "UNSET" /\ r.cf = "none" /\ ~ r.immutable /\ ~ r.virtual
      /\ r.immutable = added.streams[s].immutable
  BY <1>2, <1>6 DEF Stream
<1> HIDE DEF r, placed
<1>8. Good(placed, {s})
  BY <1>2, <1>4, <1>7, PutGood
<1>9. /\ LiveStreams(placed) = LiveStreams(t) \cup {s} /\ placed.streams[s] = r
      /\ \A i \in LiveStreams(t) : placed.streams[i] = t.streams[i]
  BY <1>1, <1>2, <1>4, <1>6, <1>7, PutLeaves
<1>10. /\ Good(loaded, {s}) /\ LiveStreams(loaded) = LiveStreams(t) \cup {s}
       /\ loaded.streams[s] = [r EXCEPT !.dir = dir]
       /\ \A i \in LiveStreams(t) : loaded.streams[i] = t.streams[i]
  BY <1>1, <1>7, <1>8, <1>9, SetDirGood
<1>11. ~ loaded.streams[s].virtual
  BY <1>7, <1>10 DEF Stream
<1> HIDE DEF loaded
<1> QED BY <1>1, <1>3, <1>10, <1>11 DEF Joins

\* The only chain of copies that a request can make endless is its own stream.
LEMMA EndlessSelf ==
    ASSUME NEW t, ThruLinked(t), NEW u, NEW s, Joins(t, u, s), Endless(u, s)
    PROVE  s \in LiveStreams(u) /\ u.streams[s].dir = "THRU" /\ u.streams[s].pos_rel_id = s
<1>1. PICK X \in SUBSET LiveStreams(u) :
        /\ s \in X
        /\ \A i \in X : u.streams[i].dir = "THRU" /\ u.streams[i].pos_rel_id \in X
  BY DEF Endless
<1>2. ASSUME NEW i \in X \ {s}
      PROVE  /\ i \in LiveStreams(t) /\ t.streams[i].dir = "THRU"
             /\ t.streams[i].pos_rel_id \in X \ {s}
  <2>1. i \in LiveStreams(t) /\ u.streams[i] = t.streams[i]
    BY <1>1, <1>2 DEF Joins
  <2>2. t.streams[i].dir = "THRU" /\ t.streams[i].pos_rel_id \in X
    BY <1>1, <1>2, <2>1
  <2>3. t.streams[i].pos_rel_id \in LiveStreams(t)
    BY <2>1, <2>2 DEF ThruLinked
  <2> QED BY <2>1, <2>2, <2>3 DEF Joins
<1>3. X \ {s} = {}
  <2>1. X \ {s} \in SUBSET LiveStreams(t)
    BY <1>2
  <2> QED BY <1>2, <2>1 DEF ThruLinked, NoCircle
<1> QED BY <1>1, <1>3

\* req_on_new_stream(): a copy of a stream that is there, or no stream.
LEMMA CreateThins ==
    ASSUME NEW t, Good(t, {}), NEW c, NEW s \in FreeSIDs(t),
           NEW dir \in Dir, NEW rel \in SID \cup {None}, NEW match \in BOOLEAN
    PROVE  LET u == Create(t, c, s, dir, rel, match) IN Thins(t, u, {s}) /\ Placed(u, s)
<1> DEFINE n == streams_new(t, s)
           loaded == Loaded(t, c, s, dir, rel)
           q == [loaded.streams[s] EXCEPT !.pos_rel_id = None]
<1>1. s \in SID /\ s \notin LiveStreams(t) /\ \A i \in LiveStreams(t) : i \in SID \ {s}
  BY DEF FreeSIDs, LiveStreams
<1>2. Thins(t, streams_delete(n, s), {})
  BY MakeThins
<1>3. Create(t, c, s, dir, rel, match)
          = IF ~ CanAdd(t, c) THEN streams_delete(n, s)
            ELSE IF NewAccepted(loaded, s, match) THEN loaded ELSE Refuse(loaded, s)
  BY DEF Create
<1>5. s \notin LiveStreams(streams_delete(n, s))
  BY <1>1, <1>2 DEF Thins
<1> HIDE DEF n
<1>10. /\ Good(loaded, {s}) /\ LiveStreams(loaded) = LiveStreams(t) \cup {s}
       /\ ~ loaded.streams[s].virtual
       /\ \A i \in LiveStreams(t) : loaded.streams[i] = t.streams[i]
  <2>1. Joins(t, loaded, s) /\ Good(loaded, {s}) /\ ~ loaded.streams[s].virtual
    BY LoadedJoins
  <2> HIDE DEF loaded
  <2> QED BY <2>1 DEF Joins
<1>12. Thins(t, loaded, {s})
  BY <1>10 DEF Thins
<1> HIDE DEF loaded
<1>13. ASSUME NewAccepted(loaded, s, match)
       PROVE  Placed(loaded, s)
  BY <1>10, <1>13 DEF NewAccepted, Placed
<1>14. Thins(t, Refuse(loaded, s), {s}) /\ s \notin LiveStreams(Refuse(loaded, s))
  <2>1. loaded \in TablesType /\ loaded.streams[s] \in Stream
    BY <1>1, <1>10 DEF Good, TablesType, LiveStreams
  <2>2. q \in Stream
    BY <2>1 DEF Stream
  <2>3. \/ Refuse(loaded, s) = streams_delete(loaded, s)
        \/ Refuse(loaded, s) = streams_delete(Put(loaded, s, q), s)
    BY DEF Refuse, Put
  <2> HIDE DEF q
  <2>4. ASSUME NEW v \in TablesType, LiveStreams(v) = LiveStreams(loaded),
               \A i \in LiveStreams(t) : v.streams[i] = t.streams[i]
        PROVE  Thins(t, streams_delete(v, s), {s}) /\ s \notin LiveStreams(streams_delete(v, s))
    <3>1. Thins(v, streams_delete(v, s), {}) /\ s \notin LiveStreams(streams_delete(v, s))
      BY <1>10, <2>4, DeletersThin, DeletedGone
    <3>2. Thins(t, v, {s})
      BY <1>10, <2>4 DEF Thins
    <3> QED BY <3>1, <3>2, ThinsMonotone, ThinsTransitive
  <2>5. /\ Put(loaded, s, q) \in TablesType /\ LiveStreams(Put(loaded, s, q)) = LiveStreams(loaded)
        /\ \A i \in LiveStreams(t) : Put(loaded, s, q).streams[i] = t.streams[i]
    BY <1>1, <1>10, <2>1, <2>2, PutLeaves
  <2> QED BY <1>10, <2>1, <2>3, <2>4, <2>5
<1>15. Thins(t, streams_delete(n, s), {s})
  BY <1>2, ThinsMonotone
<1> QED BY <1>3, <1>5, <1>12, <1>13, <1>14, <1>15 DEF Placed

\* The virtual stream of a container stream is no copy, nor is the container.
LEMMA NewVirtualThins ==
    ASSUME NEW t, Good(t, {}), NEW p \in LiveStreams(t), t.streams[p].cf = "wave",
           NEW v \in FreeSIDs(t)
    PROVE  LET u == NewVirtual(t, p, v) IN Thins(t, u, {v}) /\ Placed(u, v)
<1> DEFINE c == t.streams[p].client
           dir == t.streams[p].dir
           n == streams_new(t, v)
           added == client_stream_add(n, c, v)
           dired == streams_set_dir(added, v, dir)
           r == [dired.streams[v] EXCEPT !.pos_rel_id = p, !.virtual = TRUE]
           u == [dired EXCEPT !.streams[v].pos_rel_id = p, !.streams[v].virtual = TRUE]
<1>1. v \in SID /\ p \in SID /\ v \notin LiveStreams(t) /\ \A i \in LiveStreams(t) : i \in SID \ {v}
  BY DEF FreeSIDs, LiveStreams
<1>2. dir \in Dir /\ dir # "THRU"
  <2>1. t.streams[p] \in Stream
    BY <1>1 DEF Good, TablesType, LiveStreams
  <2> QED BY <2>1 DEF Good, Stream, Raw
<1>3. NewVirtual(t, p, v) = IF CanAdd(t, c) THEN u ELSE streams_delete(n, v)
  BY DEF NewVirtual
<1> HIDE DEF c
<1>4. /\ Thins(t, streams_delete(n, v), {})
      /\ Good(added, {v}) /\ LiveStreams(added) = LiveStreams(t) \cup {v}
      /\ added.streams[v].dir = "UNSET" /\ added.streams[v].cf = "none"
      /\ ~ added.streams[v].virtual /\ ~ added.streams[v].immutable
      /\ \A i \in LiveStreams(t) : added.streams[i] = t.streams[i]
  BY MakeThins
<1>5. v \notin LiveStreams(streams_delete(n, v)) /\ Thins(t, streams_delete(n, v), {v})
  BY <1>1, <1>4, ThinsMonotone DEF Thins
<1> HIDE DEF n, added
<1>6. /\ Good(dired, {v}) /\ LiveStreams(dired) = LiveStreams(t) \cup {v}
      /\ dired.streams[v] = [added.streams[v] EXCEPT !.dir = dir]
      /\ \A i \in LiveStreams(t) : dired.streams[i] = t.streams[i]
  BY <1>1, <1>2, <1>4, SetDirGood
<1> HIDE DEF dired
<1>7. dired \in TablesType /\ dired.streams[v] \in Stream /\ added.streams[v] \in Stream
  BY <1>1, <1>4, <1>6 DEF Good, TablesType, LiveStreams
<1>8. r \in Stream /\ r.dir = dir /\ r.pos_rel_id = p
  <2>1. dired.streams[v].dir = dir
    BY <1>6, <1>7 DEF Stream
  <2> QED BY <1>1, <1>7, <2>1 DEF Stream
<1>9. u = Put(dired, v, r)
  BY <1>1, <1>7, ZenonT(60) DEF Put, TablesType, Stream
<1> HIDE DEF u, r
<1>10. /\ LiveStreams(u) = LiveStreams(t) \cup {v} /\ u.streams[v] = r
       /\ \A i \in LiveStreams(t) : u.streams[i] = t.streams[i]
  <2>1. v \in LiveStreams(dired) /\ r \in Stream
    BY <1>6, <1>8
  <2>2. /\ LiveStreams(u) = LiveStreams(dired) /\ u.streams[v] = r
        /\ \A i \in SID \ {v} : u.streams[i] = dired.streams[i]
    BY <1>7, <1>9, <2>1, PutLeaves
  <2> QED BY <1>1, <1>6, <2>2
<1>11. Thins(t, u, {v}) /\ Placed(u, v)
  <2>1. Thins(t, u, {v})
    BY <1>10 DEF Thins
  <2>2. u.streams[p].dir = dir /\ u.streams[v].pos_rel_id = p /\ u.streams[v].dir # "THRU"
    BY <1>2, <1>8, <1>10
  <2> QED BY <1>2, <2>1, <2>2 DEF Placed
<1> QED BY <1>3, <1>5, <1>11 DEF Placed

\* cf_wave_read(), however far it gets.
LEMMA OpenWaveThins ==
    ASSUME NEW t, Good(t, {}), NEW p \in LiveStreams(t), t.streams[p].cf = "wave",
           NEW v \in FreeSIDs(t), NEW outcome \in FhOutcome \cup {"unknown"},
           NEW again \in BOOLEAN
    PROVE  LET x == OpenWave(t, p, v, outcome, again) IN Thins(t, x, {v}) /\ Placed(x, v)
<1> DEFINE u == NewVirtual(t, p, v)
           w == IF v \in LiveStreams(u) /\ outcome # "unknown"
                THEN streams_set_fh(u, v, outcome, "plain") ELSE u
           r == [w.streams[p] EXCEPT !.fh = FALSE]
           x == OpenWave(t, p, v, outcome, again)
<1>1. v \in SID /\ p \in SID /\ "plain" \in Codec
  BY DEF FreeSIDs, LiveStreams, Codec
<1>2. /\ Thins(t, u, {v}) /\ Placed(u, v) /\ Good(u, {})
      /\ v \in LiveStreams(u) => p \in LiveStreams(u)
  BY NewVirtualThins, NewVirtualGood
<1>3. x = IF v \in LiveStreams(w) /\ w.streams[v].ready
          THEN [w EXCEPT !.streams[p].fh = FALSE]
          ELSE IF again THEN w ELSE streams_delete(w, p)
  BY DEF OpenWave
<1>4. Good(x, {})
  BY OpenWaveGood
<1> HIDE DEF u, x
<1>5. /\ Thins(u, w, {}) /\ w \in TablesType
      /\ v \in LiveStreams(w) => p \in LiveStreams(w)
  <2>1. ASSUME outcome # "unknown"
        PROVE  LET y == streams_set_fh(u, v, outcome, "plain")
               IN  /\ Thins(u, y, {}) /\ y \in TablesType
                   /\ v \in LiveStreams(y) => LiveStreams(y) = LiveStreams(u)
    BY <1>1, <1>2, <2>1, SetFhThins, SetFhGood DEF Good
  <2>2. Thins(u, u, {}) /\ u \in TablesType
    BY <1>2, SameThins DEF Good
  <2> QED BY <1>2, <2>1, <2>2
<1> HIDE DEF w
<1>6. Thins(w, w, {}) /\ Thins(w, streams_delete(w, p), {})
  BY <1>5, SameThins, DeletersThin
<1>7. ASSUME v \in LiveStreams(w)
      PROVE  Thins(w, [w EXCEPT !.streams[p].fh = FALSE], {})
  <2>1. [w EXCEPT !.streams[p].fh = FALSE] = Put(w, p, r)
    BY DEF Put
  <2>2. p \in LiveStreams(w) /\ w.streams[p] \in Stream
    BY <1>5, <1>7 DEF TablesType, LiveStreams
  <2>3. /\ r \in Stream /\ r.dir = w.streams[p].dir /\ r.virtual = w.streams[p].virtual
        /\ r.pos_rel_id = w.streams[p].pos_rel_id
    BY <2>2 DEF Stream
  <2> HIDE DEF r
  <2> QED BY <1>5, <2>1, <2>2, <2>3, PutThins, ZenonT(60)
<1>8. Thins(w, x, {})
  BY <1>3, <1>6, <1>7
<1>9. Thins(u, x, {})
  BY <1>5, <1>8, ThinsTransitive
<1>10. Thins(t, x, {v})
  BY <1>2, <1>9, ThinsMonotone, ThinsTransitive
<1>11. Placed(x, v)
  BY <1>2, <1>4, <1>9, PlacedStays
<1> QED BY <1>10, <1>11 DEF x

\* The step leads to tables that thin out, but for a stream that was created.
Grown == \E u, s : Become(u) /\ s \notin LiveStreams(Now) /\ Thins(Now, u, {s}) /\ Placed(u, s)

\* The step is a request that never returns.
Caught ==
    stuck' = TRUE /\ \E u, s : Store(u) /\ Joins(Now, u, s) /\ Endless(u, s)

\* Every action does the one or the other.
LEMMA NextGrown ==
    ASSUME Inv, Next
    PROVE  UNCHANGED vars \/ Grown \/ Caught
<1>1. Good(Now, {}) /\ Now \in TablesType /\ Now.streams = g_streams
  BY DEF Inv, Good, Now
<1>2. ASSUME NEW u, Become(u), Thins(Now, u, {})
      PROVE  Grown
  <2>1. None \notin LiveStreams(Now)
    BY NoneIsNoStream DEF LiveStreams
  <2>2. Thins(Now, u, {None})
    BY <1>2, ThinsMonotone
  <2>3. None \notin LiveStreams(u)
    BY NoneIsNoStream DEF LiveStreams
  <2> QED BY <1>2, <2>1, <2>2, <2>3 DEF Grown, Placed
<1>3. ASSUME NEW u, NEW s \in FreeSIDs(Now), Become(u), Thins(Now, u, {s}), Placed(u, s)
      PROVE  Grown
  BY <1>3 DEF Grown, FreeSIDs
<1>4. CASE Accept
  <2>1. PICK c \in CID : /\ FirstOf(FreeCIDs(Now), c)
                         /\ Become([clients_new(Now, c) EXCEPT !.clients[c].fh = TRUE])
    BY <1>4 DEF Accept
  <2>2. [clients_new(Now, c) EXCEPT !.clients[c].fh = TRUE].streams = Now.streams
    BY <1>1, <2>1, AcceptLeaves DEF FirstOf
  <2> QED BY <1>2, <2>1, <2>2, SameThins
<1>5. ASSUME NEW c \in CID, Disconnect(c) \/ Req_quit(c)
      PROVE  Grown
  BY <1>1, <1>2, <1>5, DeletersThin DEF Disconnect, Req_quit
<1>6. ASSUME NEW c \in CID, Req_new_stream(c)
      PROVE  Grown \/ Caught
  <2>1. PICK s \in SID, r \in NewRequests :
          /\ FirstOf(FreeSIDs(Now), s)
          /\ IF CanAdd(Now, c) /\ Endless(Loaded(Now, c, s, r[1], r[2]), s)
             THEN Store(Loaded(Now, c, s, r[1], r[2])) /\ stuck' = TRUE
             ELSE \E match \in (IF r[1] = "FILTER" THEN BOOLEAN ELSE {TRUE}) :
                    Become(Create(Now, c, s, r[1], r[2], match))
    BY <1>6 DEF Req_new_stream
  <2>2. s \in FreeSIDs(Now) /\ r[1] \in Dir /\ r[2] \in SID \cup {None}
    BY <2>1, RegistryAssumption DEF FirstOf
  <2> DEFINE loaded == Loaded(Now, c, s, r[1], r[2])
  <2>3. CASE CanAdd(Now, c) /\ Endless(loaded, s)
    <3>1. Joins(Now, loaded, s)
      BY <1>1, <2>2, LoadedJoins
    <3>2. Store(loaded) /\ stuck' = TRUE
      BY <2>1, <2>3
    <3> HIDE DEF loaded
    <3> QED BY <2>3, <3>1, <3>2 DEF Caught
  <2>4. CASE ~ (CanAdd(Now, c) /\ Endless(loaded, s))
    <3>1. PICK match \in BOOLEAN : Become(Create(Now, c, s, r[1], r[2], match))
      BY <2>1, <2>4
    <3> DEFINE u == Create(Now, c, s, r[1], r[2], match)
    <3>2. Thins(Now, u, {s}) /\ Placed(u, s)
      BY <1>1, <2>2, CreateThins
    <3> HIDE DEF u
    <3> QED BY <1>3, <2>2, <3>1, <3>2 DEF u
  <2> QED BY <2>3, <2>4
<1>7. ASSUME NEW c \in CID, Req_exec_stream(c)
      PROVE  Grown
  <2>1. PICK s \in SID, outcome \in FhOutcomes, cf \in CodecKinds :
          Become(IF g_streams[s] = NULL \/ g_streams[s].ready
                 THEN clients_close(Now, c)
                 ELSE client_stream_exec(Now, c, s, outcome, cf))
    BY <1>7 DEF Req_exec_stream
  <2>2. outcome \in FhOutcome /\ cf \in Codec /\ c \in LiveClients(Now)
    BY <1>7, NowLive, RegistryAssumption DEF Req_exec_stream, Requests
  <2>3. Thins(Now, client_stream_exec(Now, c, s, outcome, cf), {})
    BY <1>1, <2>2, ConnectThins
  <2>4. clients_close(Now, c).streams = Now.streams
    BY DEF clients_close, Now
  <2> QED BY <1>2, <2>1, <2>3, <2>4, SameThins
<1>8. ASSUME NEW c \in CID, Req_con_stream(c)
      PROVE  Grown
  <2>1. PICK s \in SID, outcome \in FhOutcomes, cf \in CodecKinds :
          Become(client_stream_set_fh(Now, c, s, outcome, cf))
    BY <1>8 DEF Req_con_stream
  <2>2. outcome \in FhOutcome /\ cf \in Codec
    BY RegistryAssumption
  <2> QED BY <1>1, <1>2, <2>1, <2>2, ConnectThins
<1>9. ASSUME NEW c \in CID, Req_attach(c)
      PROVE  Grown
  BY <1>1, <1>2, <1>9, MoveThins DEF Req_attach
<1>10. ASSUME NEW c \in CID, Req_kick(c)
       PROVE  Grown
  BY <1>1, <1>2, <1>10, DeletersThin DEF Req_kick
<1>11. ASSUME NEW s \in LiveStreams(Now), NEW r \in Stream, r.dir = g_streams[s].dir,
              r.pos_rel_id = g_streams[s].pos_rel_id, r.virtual => g_streams[s].virtual
       PROVE  Thins(Now, Put(Now, s, r), {})
  BY <1>1, <1>11, PutThins
<1>12. ASSUME NEW c \in CID, Req_set_flag(c)
       PROVE  Grown
  <2>1. PICK s \in LiveStreams(Now), flags \in FlagRequests :
          Become([Now EXCEPT !.streams[s].primary = @ \/ "PRIMARY" \in flags])
    BY <1>12 DEF Req_set_flag
  <2> DEFINE prim == g_streams[s].primary \/ "PRIMARY" \in flags
             r == [g_streams[s] EXCEPT !.primary = prim, !.virtual = g_streams[s].virtual]
  <2>2. g_streams[s] \in Stream
    BY <1>1 DEF TablesType, LiveStreams
  <2>3. g_streams[s].virtual \in BOOLEAN /\ prim \in BOOLEAN
    BY <2>2 DEF Stream
  <2>4. Thins(Now, Put(Now, s, r), {})
    <3> HIDE DEF prim
    <3>1. /\ r \in Stream /\ r.dir = g_streams[s].dir /\ r.virtual = g_streams[s].virtual
          /\ r.pos_rel_id = g_streams[s].pos_rel_id
      BY <2>2, <2>3 DEF Stream
    <3> HIDE DEF r
    <3> QED BY <1>11, <3>1
  <2>5. [Now EXCEPT !.streams[s].primary = @ \/ "PRIMARY" \in flags] = Put(Now, s, r)
    BY <1>1, <2>2 DEF Put, Stream
  <2> QED BY <1>2, <2>1, <2>4, <2>5
<1>13. ASSUME NEW c \in CID, Req_reset_flag(c)
       PROVE  Grown
  <2>1. PICK s \in LiveStreams(Now), flags \in FlagRequests :
          Become([Now EXCEPT
            !.streams[s].primary = @ /\ (g_streams[s].immutable \/ "PRIMARY" \notin flags),
            !.streams[s].virtual = @ /\ "VIRTUAL" \notin flags])
    BY <1>13, Zenon DEF Req_reset_flag
  <2> DEFINE prim == g_streams[s].primary /\ (g_streams[s].immutable \/ "PRIMARY" \notin flags)
             virt == g_streams[s].virtual /\ "VIRTUAL" \notin flags
             r == [g_streams[s] EXCEPT !.primary = prim, !.virtual = virt]
  <2>2. s \in SID /\ g_streams[s] \in Stream
    BY <1>1 DEF TablesType, LiveStreams
  <2>3. Thins(Now, Put(Now, s, r), {})
    <3>1. prim \in BOOLEAN /\ virt \in BOOLEAN /\ (virt => g_streams[s].virtual)
      BY Zenon
    <3> HIDE DEF prim, virt
    <3>2. /\ r \in Stream /\ r.dir = g_streams[s].dir /\ r.virtual = virt
          /\ r.pos_rel_id = g_streams[s].pos_rel_id
      BY <2>2, <3>1 DEF Stream
    <3> HIDE DEF r
    <3> QED BY <1>11, <3>1, <3>2
  <2>4. [Now EXCEPT
            !.streams[s].primary = @ /\ (g_streams[s].immutable \/ "PRIMARY" \notin flags),
            !.streams[s].virtual = @ /\ "VIRTUAL" \notin flags] = Put(Now, s, r)
    <3>1. [Now EXCEPT !.streams[s].primary = prim, !.streams[s].virtual = virt] = Put(Now, s, r)
      <4> HIDE DEF prim, virt
      <4> QED BY <1>1, <2>2 DEF Put, TablesType
    <3>2. [Now EXCEPT
            !.streams[s].primary = @ /\ (g_streams[s].immutable \/ "PRIMARY" \notin flags),
            !.streams[s].virtual = @ /\ "VIRTUAL" \notin flags]
          = [Now EXCEPT !.streams[s].primary = prim, !.streams[s].virtual = virt]
      BY <1>1, <2>2 DEF TablesType, Stream
    <3> QED BY <3>1, <3>2
  <2> QED BY <1>2, <2>1, <2>3, <2>4
<1>14. ASSUME NEW c \in CID, Req_exit(c)
       PROVE  Grown
  <2>1. LiveStreams(Quit) = {}
    BY DEF LiveStreams, Quit
  <2>2. Thins(Now, Quit, {})
    BY <2>1 DEF Thins
  <2> QED BY <1>2, <1>14, <2>2 DEF Req_exit
<1>15. ASSUME NEW s \in SID, StreamFails(s)
       PROVE  Grown
  BY <1>1, <1>2, <1>15, DeletersThin DEF StreamFails
<1>16. ASSUME NEW p \in SID, WaveHeader(p)
       PROVE  Grown
  <2>1. PICK v \in SID, outcome \in FhOutcomes \cup {"unknown"}, again \in BOOLEAN :
          /\ FirstOf(FreeSIDs(Now), v)
          /\ Become(OpenWave(Now, p, v, outcome, again))
    BY <1>16 DEF WaveHeader
  <2>2. outcome \in FhOutcome \cup {"unknown"} /\ v \in FreeSIDs(Now)
    BY <2>1, RegistryAssumption DEF FirstOf
  <2>3. p \in LiveStreams(Now) /\ Now.streams[p].cf = "wave"
    BY <1>16, NowLive DEF WaveHeader
  <2> DEFINE x == OpenWave(Now, p, v, outcome, again)
  <2>4. Thins(Now, x, {v}) /\ Placed(x, v)
    BY <1>1, <2>2, <2>3, OpenWaveThins
  <2> HIDE DEF x
  <2> QED BY <1>3, <2>1, <2>2, <2>4 DEF x
<1>17. CASE Exited
  BY <1>17 DEF Exited
<1> QED
  BY <1>4, <1>5, <1>6, <1>7, <1>8, <1>9, <1>10, <1>12, <1>13, <1>14, <1>15, <1>16, <1>17
  DEF Next

\* Once a request does not return nothing happens any more.
LEMMA StuckStays ==
    ASSUME stuck, Next
    PROVE  UNCHANGED vars
<1>1. ~ Runs
  BY DEF Runs
<1>2. \A c : ~ Requests(c)
  BY <1>1 DEF Requests
<1>3. ~ Accept /\ \A c : ~ Disconnect(c)
  BY <1>1 DEF Accept, Disconnect
<1>4. \A c : /\ ~ Req_new_stream(c) /\ ~ Req_exec_stream(c) /\ ~ Req_con_stream(c)
             /\ ~ Req_attach(c) /\ ~ Req_kick(c) /\ ~ Req_set_flag(c)
             /\ ~ Req_reset_flag(c) /\ ~ Req_quit(c) /\ ~ Req_exit(c)
  BY <1>2 DEF Req_new_stream, Req_exec_stream, Req_con_stream, Req_attach, Req_kick,
              Req_set_flag, Req_reset_flag, Req_quit, Req_exit
<1>5. \A s : ~ StreamFails(s) /\ ~ WaveHeader(s)
  BY <1>1 DEF StreamFails, WaveHeader
<1> QED BY <1>3, <1>4, <1>5 DEF Next, Exited

\* A THRU stream always has the stream that it copies, what is deleted with a
\* THRU stream is a THRU stream, and no chain of copies runs in a circle: the
\* calls that copy data along THRU streams come to an end.  The exception is
\* the request for a THRU stream that names the id it gets itself, with which
\* the server never comes back to its main loop; nothing else leads there.
THEOREM CopiesCorrect == Spec => []CopiesEnd
<1>1. Init => CopiesEnd
  <2> SUFFICES ASSUME Init PROVE CopiesEnd
    OBVIOUS
  <2>1. \A i \in LiveStreams(Now) : Now.streams[i].dir = "MIXING"
    BY DEF Init, Now, LiveStreams, MixerStream, NewStream
  <2>2. ThruLinked(Now) /\ ~ stuck
    BY <2>1 DEF ThruLinked, NoCircle, Init
  <2> QED BY <2>2 DEF CopiesEnd
<1>2. Inv /\ Inv' /\ CopiesEnd /\ [Next]_vars => CopiesEnd'
  <2> SUFFICES ASSUME Inv, Inv', CopiesEnd, [Next]_vars
               PROVE  CopiesEnd'
    OBVIOUS
  <2>1. CASE UNCHANGED vars
    <3>1. Now' = Now /\ stuck' = stuck /\ g_streams' = g_streams
      BY <2>1 DEF vars, Now
    <3> QED BY <3>1 DEF CopiesEnd
  <2>2. CASE stuck
    BY <2>1, <2>2, StuckStays
  <2>3. CASE ~ stuck /\ Grown
    <3>1. PICK u, s : Become(u) /\ s \notin LiveStreams(Now) /\ Thins(Now, u, {s}) /\ Placed(u, s)
      BY <2>3 DEF Grown
    <3>2. Now'.streams = u.streams /\ ~ stuck'
      BY <2>3, <3>1 DEF Become, Store, Now
    <3>3. LiveStreams(Now') = LiveStreams(u)
      BY <3>2 DEF LiveStreams
    <3>4. Thins(Now, Now', {s}) /\ Placed(Now', s)
      BY <3>1, <3>2, <3>3 DEF Thins, Placed
    <3>5. Good(Now, {}) /\ Good(Now', {}) /\ ThruLinked(Now)
      BY <2>3 DEF Inv, CopiesEnd
    <3>6. ThruLinked(Now')
      BY <3>1, <3>4, <3>5, GrowLinked
    <3> QED BY <3>2, <3>6 DEF CopiesEnd
  <2>4. CASE ~ stuck /\ Caught
    <3>1. PICK u, s : Store(u) /\ Joins(Now, u, s) /\ Endless(u, s)
      BY <2>4 DEF Caught
    <3>2. ThruLinked(Now) /\ stuck'
      BY <2>4 DEF CopiesEnd, Caught
    <3>3. s \in LiveStreams(u) /\ u.streams[s].dir = "THRU" /\ u.streams[s].pos_rel_id = s
      BY <3>1, <3>2, EndlessSelf
    <3>4. g_streams' = u.streams /\ Now'.streams = u.streams
      BY <3>1 DEF Store, Now
    <3>5. s \in LiveStreams(Now')
      BY <3>3, <3>4 DEF LiveStreams
    <3> QED BY <3>2, <3>3, <3>4, <3>5 DEF CopiesEnd
  <2> QED BY <2>1, <2>2, <2>3, <2>4, NextGrown
<1> QED BY <1>1, <1>2, Invariance, PTL DEF Spec
=============================================================================
