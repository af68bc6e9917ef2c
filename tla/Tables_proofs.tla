---------------------------- MODULE Tables_proofs ----------------------------
(***************************************************************************)
(* Lemmas about the operators of module Tables, for every size of the      *)
(* tables: what each function of clients.c and streams.c leaves in them.   *)
(* The proofs of the modules that EXTEND Tables rest on these.             *)
(***************************************************************************)
EXTENDS Tables, FiniteSetTheorems, WellFoundedInduction, TLAPS

-----------------------------------------------------------------------------
(* Deletion *)

\* The id ranges are finite, so the streams and clients that go can be counted.
LEMMA IdsFinite ==
    /\ \A D \in SUBSET SID : IsFiniteSet(D) /\ Cardinality(D) \in Nat
    /\ \A K \in SUBSET CID : IsFiniteSet(K) /\ Cardinality(K) \in Nat
<1>1. IsFiniteSet(SID) /\ IsFiniteSet(CID)
  BY FS_Interval, TablesAssumption DEF SID, CID
<1> QED BY <1>1, FS_Subset, FS_CardinalityType

\* Deletion frees live streams only.
LEMMA DoomedLive ==
    ASSUME NEW t, NEW R
    PROVE  Doomed(t, R) \subseteq LiveStreams(t)
BY DEF Doomed

\* Freeing streams and clients leaves well-formed tables.
LEMMA RemoveType ==
    ASSUME NEW t \in TablesType, NEW D \in SUBSET SID, NEW K \in SUBSET CID
    PROVE  Remove(t, D, K) \in TablesType
<1>1. Cardinality(D) \in Nat /\ Cardinality(K) \in Nat
      /\ Cardinality({s \in D : t.streams[s].dir = "THRU"}) \in Nat
  BY IdsFinite
<1>2. ASSUME NEW s \in SID, s \in LiveStreams(t)
      PROVE  [t.streams[s] EXCEPT !.pos_rel_id = None] \in Stream
  BY <1>2 DEF TablesType, LiveStreams, Stream
<1>3. ASSUME NEW c \in CID, c \in LiveClients(t)
      PROVE  [t.clients[c] EXCEPT !.streams = FreedSlots(t, c, D)] \in Client
  BY <1>3 DEF TablesType, LiveClients, Client, FreedSlots
<1> QED BY <1>1, <1>2, <1>3 DEF Remove, ThruAmong, Unrelated, TablesType, LiveStreams

\* The empty tables of clean_quit() are well formed.
LEMMA QuitType == Quit \in TablesType
BY DEF Quit, TablesType

\* A deletion, with all that follows from it, leaves well-formed tables.
LEMMA DeleteType ==
    ASSUME NEW t \in TablesType, NEW R, NEW K \in SUBSET CID
    PROVE  Delete(t, R, K) \in TablesType
BY DoomedLive, RemoveType, QuitType DEF Delete, LiveStreams

\* So do streams_delete() and clients_delete().
LEMMA DeletersType ==
    ASSUME NEW t \in TablesType, NEW s, NEW c
    PROVE  streams_delete(t, s) \in TablesType /\ clients_delete(t, c) \in TablesType
BY DeleteType DEF streams_delete, clients_delete, LiveClients

\* The set of streams that go is closed: nothing that is left was to go.
LEMMA DoomedClosed ==
    ASSUME NEW t, NEW R
    PROVE  Closed(t, Doomed(t, R)) /\ R \cap LiveStreams(t) \subseteq Doomed(t, R)
<1> DEFINE Cand == {D \in SUBSET LiveStreams(t) :
                      R \cap LiveStreams(t) \subseteq D /\ Closed(t, D)}
<1>1. \A s \in LiveStreams(t) : s \in Doomed(t, R) <=> \A D \in Cand : s \in D
  BY DEF Doomed
<1>2. ASSUME NEW s \in Doomed(t, R), NEW i \in LiveStreams(t) \ Doomed(t, R)
      PROVE  ~ Triggers(t, s, i)
  <2>1. s \in LiveStreams(t)
    BY DoomedLive
  <2>2. PICK D \in Cand : i \notin D
    BY <1>1
  <2>3. s \in D
    BY <1>1, <2>1
  <2> QED BY <2>2, <2>3 DEF Closed
<1>3. R \cap LiveStreams(t) \subseteq Doomed(t, R)
  BY <1>1
<1> QED BY <1>2, <1>3 DEF Closed

\* Without the streams of D and the clients of K, t is u.
Without(t, D, K, u) ==
    /\ LiveStreams(u) = LiveStreams(t) \ D
    /\ LiveClients(u) = LiveClients(t) \ K
    /\ \A s \in LiveStreams(u) :
         /\ u.streams[s].dir = t.streams[s].dir
         /\ u.streams[s].virtual = t.streams[s].virtual
         /\ u.streams[s].immutable = t.streams[s].immutable
         /\ u.streams[s].primary = t.streams[s].primary
         /\ u.streams[s].cf = t.streams[s].cf
         /\ u.streams[s].client = t.streams[s].client
         /\ u.streams[s].fh = t.streams[s].fh
         /\ u.streams[s].ready = t.streams[s].ready
         /\ u.streams[s].pos_rel_id =
               IF t.streams[s].pos_rel_id \in D THEN None ELSE t.streams[s].pos_rel_id
    /\ \A c \in LiveClients(u) :
         u.clients[c] = [t.clients[c] EXCEPT !.streams = FreedSlots(t, c, D)]
    /\ u.alive = t.alive

\* What Remove leaves in the tables.
LEMMA RemoveLeaves ==
    ASSUME NEW t \in TablesType, NEW D \in SUBSET LiveStreams(t), NEW K \in SUBSET LiveClients(t)
    PROVE  Without(t, D, K, Remove(t, D, K))
<1> DEFINE u == Remove(t, D, K)
<1>1. D \subseteq SID /\ K \subseteq CID
  BY DEF LiveStreams, LiveClients
<1>2. ASSUME NEW s \in SID, s \in LiveStreams(t)
      PROVE  /\ [t.streams[s] EXCEPT !.pos_rel_id = None] \in Stream
             /\ t.streams[s] \in Stream
  BY <1>2 DEF TablesType, LiveStreams, Stream
<1>3. ASSUME NEW c \in CID, c \in LiveClients(t)
      PROVE  [t.clients[c] EXCEPT !.streams = FreedSlots(t, c, D)] \in Client
  BY <1>1, <1>3 DEF TablesType, LiveClients, Client, FreedSlots
<1>4. LiveStreams(u) = LiveStreams(t) \ D
  BY <1>1, <1>2, TablesAssumption DEF Remove, Unrelated, LiveStreams
<1>5. LiveClients(u) = LiveClients(t) \ K
  BY <1>1, <1>3, TablesAssumption DEF Remove, LiveClients
<1>6. ASSUME NEW s \in LiveStreams(u)
      PROVE  /\ u.streams[s].dir = t.streams[s].dir
             /\ u.streams[s].virtual = t.streams[s].virtual
             /\ u.streams[s].immutable = t.streams[s].immutable
             /\ u.streams[s].primary = t.streams[s].primary
             /\ u.streams[s].cf = t.streams[s].cf
             /\ u.streams[s].client = t.streams[s].client
             /\ u.streams[s].fh = t.streams[s].fh
             /\ u.streams[s].ready = t.streams[s].ready
             /\ u.streams[s].pos_rel_id =
                   IF t.streams[s].pos_rel_id \in D THEN None ELSE t.streams[s].pos_rel_id
  <2>1. s \in SID /\ s \in LiveStreams(t) /\ s \notin D
    BY <1>4 DEF LiveStreams
  <2>2. t.streams[s] \in Stream
    BY <1>2, <2>1
  <2>3. u.streams[s] = IF t.streams[s].pos_rel_id \in D
                       THEN [t.streams[s] EXCEPT !.pos_rel_id = None] ELSE t.streams[s]
    BY <2>1 DEF Remove, Unrelated
  <2> QED BY <2>2, <2>3 DEF Stream
<1>7. \A c \in LiveClients(u) :
         u.clients[c] = [t.clients[c] EXCEPT !.streams = FreedSlots(t, c, D)]
  BY <1>1, <1>5 DEF Remove, LiveClients
<1>8. u.alive = t.alive
  BY DEF Remove
<1> QED BY <1>4, <1>5, <1>6, <1>7, <1>8 DEF Without

\* A deletion is the end of the server, or it frees the streams of a closed
\* set with the clients that have been turned into one of them.
LEMMA DeleteCases ==
    ASSUME NEW t, NEW R, NEW K \in SUBSET LiveClients(t)
    PROVE  \/ Delete(t, R, K) = Quit
           \/ \E D, L :
                /\ D = Doomed(t, R)
                /\ L \in SUBSET LiveClients(t)
                /\ L = K \cup {c \in CID : \E s \in D : ExecedBy(t, s, c)}
                /\ ~ (t.alive /\ \E s \in D : t.streams[s].primary)
                /\ Delete(t, R, K) = Remove(t, D, L)
<1> DEFINE D == Doomed(t, R)
           L == K \cup {c \in CID : \E s \in D : ExecedBy(t, s, c)}
<1>1. L \in SUBSET LiveClients(t)
  BY DEF ExecedBy
<1>2. CASE t.alive /\ \E s \in D : t.streams[s].primary
  BY <1>2 DEF Delete
<1>3. CASE ~ (t.alive /\ \E s \in D : t.streams[s].primary)
  <2>1. Delete(t, R, K) = Remove(t, D, L)
    BY <1>3 DEF Delete
  <2> QED BY <1>1, <1>3, <2>1
<1> QED BY <1>2, <1>3

\* The stream that streams_delete() is called for is gone when it returns.
LEMMA DeletedGone ==
    ASSUME NEW t \in TablesType, NEW s \in LiveStreams(t)
    PROVE  s \notin LiveStreams(streams_delete(t, s))
<1>1. CASE Delete(t, {s}, {}) = Quit
  BY <1>1 DEF streams_delete, Quit, LiveStreams
<1>2. ASSUME NEW L \in SUBSET LiveClients(t), Delete(t, {s}, {}) = Remove(t, Doomed(t, {s}), L)
      PROVE  s \notin LiveStreams(Remove(t, Doomed(t, {s}), L))
  <2>1. s \in Doomed(t, {s})
    BY DoomedClosed
  <2>2. Without(t, Doomed(t, {s}), L, Remove(t, Doomed(t, {s}), L))
    BY DoomedLive, RemoveLeaves
  <2> QED BY <2>1, <2>2 DEF Without
<1> QED BY <1>1, <1>2, DeleteCases DEF streams_delete

-----------------------------------------------------------------------------
(* Changing one entry *)

Put(t, s, r) == [t EXCEPT !.streams[s] = r]

\* What overwriting the entry of one live stream leaves in the tables.
LEMMA PutLeaves ==
    ASSUME NEW t \in TablesType, NEW s \in LiveStreams(t), NEW r \in Stream
    PROVE  /\ Put(t, s, r) \in TablesType
           /\ LiveStreams(Put(t, s, r)) = LiveStreams(t)
           /\ LiveClients(Put(t, s, r)) = LiveClients(t)
           /\ Put(t, s, r).streams[s] = r
           /\ \A i \in SID \ {s} : Put(t, s, r).streams[i] = t.streams[i]
           /\ Put(t, s, r).clients = t.clients
           /\ Put(t, s, r).nstreams = t.nstreams
           /\ Put(t, s, r).nclients = t.nclients
           /\ Put(t, s, r).thru = t.thru
           /\ Put(t, s, r).alive = t.alive
<1>1. s \in SID
  BY DEF LiveStreams
<1>2. Put(t, s, r) \in TablesType
  BY <1>1 DEF Put, TablesType
<1>3. Put(t, s, r).streams[s] = r /\ \A i \in SID \ {s} : Put(t, s, r).streams[i] = t.streams[i]
  BY <1>1 DEF Put, TablesType
<1>4. /\ Put(t, s, r).clients = t.clients
      /\ Put(t, s, r).nstreams = t.nstreams
      /\ Put(t, s, r).nclients = t.nclients
      /\ Put(t, s, r).thru = t.thru
      /\ Put(t, s, r).alive = t.alive
  BY DEF Put, TablesType
<1>5. LiveStreams(Put(t, s, r)) = LiveStreams(t)
  BY <1>1, <1>3, TablesAssumption DEF LiveStreams
<1>6. LiveClients(Put(t, s, r)) = LiveClients(t)
  BY <1>4 DEF LiveClients
<1> QED BY <1>2, <1>3, <1>4, <1>5, <1>6

\* The last of two writes to an entry counts.
LEMMA PutTwice ==
    ASSUME NEW t \in TablesType, NEW s \in SID, NEW r, NEW q
    PROVE  Put(Put(t, s, r), s, q) = Put(t, s, q)
BY DEF Put, TablesType

\* A set of ids that is not empty has a first one: the loops over the tables
\* that look for a free entry find it.
LEMMA FirstExists ==
    ASSUME NEW S \in SUBSET Nat, S # {}
    PROVE  \E id : FirstOf(S, id)
<1> DEFINE R == OpToRel(<, Nat)
<1>1. IsWellFoundedOn(R, Nat)
  BY NatLessThanWellFounded
<1>2. \A x, y \in Nat : x < y => <<x, y>> \in R
  BY DEF OpToRel
<1> HIDE DEF R
<1>3. S \subseteq Nat
  OBVIOUS
<1>4. PICK x \in S : \A y \in S : ~ (<<y, x>> \in R)
  BY <1>1, <1>3, WFMin
<1>5. ASSUME NEW y \in S PROVE x <= y
  <2>1. x \in Nat /\ y \in Nat
    BY <1>3
  <2>2. ~ (y < x)
    BY <1>2, <1>4, <2>1, Zenon
  <2> QED BY <2>1, <2>2
<1> QED BY <1>4, <1>5 DEF FirstOf

\* What streams_new() leaves in the tables: one more stream, fresh.
LEMMA NewStreamLeaves ==
    ASSUME NEW t \in TablesType, NEW s \in FreeSIDs(t)
    PROVE  /\ streams_new(t, s) \in TablesType
           /\ LiveStreams(streams_new(t, s)) = LiveStreams(t) \cup {s}
           /\ LiveClients(streams_new(t, s)) = LiveClients(t)
           /\ streams_new(t, s).streams[s] = NewStream
           /\ \A i \in SID \ {s} : streams_new(t, s).streams[i] = t.streams[i]
           /\ streams_new(t, s).clients = t.clients
           /\ streams_new(t, s).alive = t.alive
<1> DEFINE u == streams_new(t, s)
<1>1. s \in SID /\ s \notin LiveStreams(t)
  BY DEF FreeSIDs
<1>2. NewStream \in Stream
  BY DEF NewStream, Stream, Dir, Codec
<1>3. /\ u.streams = [t.streams EXCEPT ![s] = NewStream]
      /\ u.clients = t.clients
      /\ u.nstreams = t.nstreams + 1
      /\ u.alive = t.alive
  BY <1>1 DEF streams_new, TablesType
<1>4. u.streams[s] = NewStream /\ \A i \in SID \ {s} : u.streams[i] = t.streams[i]
  BY <1>1, <1>3 DEF TablesType
<1>5. u \in TablesType
  <2>1. u.nstreams \in Int
    BY <1>3 DEF TablesType
  <2>2. u.streams \in [SID -> Stream \cup {NULL}]
    BY <1>2, <1>3 DEF TablesType
  <2>3. u = [t EXCEPT !.streams = u.streams, !.nstreams = u.nstreams]
    BY DEF streams_new, TablesType
  <2> HIDE DEF u
  <2> QED BY <2>1, <2>2, <2>3 DEF TablesType
<1> HIDE DEF u
<1>6. LiveStreams(u) = LiveStreams(t) \cup {s} /\ LiveClients(u) = LiveClients(t)
  BY <1>1, <1>2, <1>3, <1>4, TablesAssumption DEF LiveStreams, LiveClients
<1> QED BY <1>3, <1>4, <1>5, <1>6 DEF u

\* What streams_set_dir() leaves: the stream has the direction, and no other
\* field of any entry has changed.
LEMMA SetDirLeaves ==
    ASSUME NEW t \in TablesType, NEW s \in LiveStreams(t), NEW dir \in Dir
    PROVE  /\ streams_set_dir(t, s, dir) \in TablesType
           /\ LiveStreams(streams_set_dir(t, s, dir)) = LiveStreams(t)
           /\ LiveClients(streams_set_dir(t, s, dir)) = LiveClients(t)
           /\ streams_set_dir(t, s, dir).streams[s] = [t.streams[s] EXCEPT !.dir = dir]
           /\ \A i \in SID \ {s} : streams_set_dir(t, s, dir).streams[i] = t.streams[i]
           /\ streams_set_dir(t, s, dir).clients = t.clients
           /\ streams_set_dir(t, s, dir).alive = t.alive
<1> DEFINE u == streams_set_dir(t, s, dir)
           r == [t.streams[s] EXCEPT !.dir = dir]
<1>1. s \in SID /\ t.streams[s] # NULL /\ t.streams[s] \in Stream
  BY DEF LiveStreams, TablesType
<1>2. r \in Stream
  BY <1>1 DEF Stream
<1>3. /\ u.streams = [t.streams EXCEPT ![s] = r]
      /\ u.clients = t.clients
      /\ u.thru = (IF dir = "THRU" THEN t.thru + 1 ELSE t.thru)
      /\ u.alive = t.alive
  BY <1>1 DEF streams_set_dir, TablesType
<1>4. u \in TablesType
  <2>1. u.thru \in Int
    BY <1>3 DEF TablesType
  <2>2. u.streams \in [SID -> Stream \cup {NULL}]
    BY <1>2, <1>3 DEF TablesType
  <2>3. u = [t EXCEPT !.streams = u.streams, !.thru = u.thru]
    BY DEF streams_set_dir, TablesType
  <2> HIDE DEF u
  <2> QED BY <2>1, <2>2, <2>3 DEF TablesType
<1>5. u.streams[s] = r /\ \A i \in SID \ {s} : u.streams[i] = t.streams[i]
  BY <1>1, <1>3 DEF TablesType
<1> HIDE DEF u, r
<1>6. LiveStreams(u) = LiveStreams(t) /\ LiveClients(u) = LiveClients(t)
  BY <1>1, <1>2, <1>3, <1>5, TablesAssumption DEF LiveStreams, LiveClients
<1> QED BY <1>3, <1>4, <1>5, <1>6 DEF u, r

\* The tables u are t but for the direction of stream s.
Directed(t, s, dir, u) ==
    /\ u \in TablesType
    /\ LiveStreams(u) = LiveStreams(t)
    /\ LiveClients(u) = LiveClients(t)
    /\ u.streams[s] = [t.streams[s] EXCEPT !.dir = dir]
    /\ \A i \in SID \ {s} : u.streams[i] = t.streams[i]
    /\ u.clients = t.clients

\* That is what streams_set_dir() leaves.
LEMMA SetDirDirects ==
    ASSUME NEW t \in TablesType, NEW s \in LiveStreams(t), NEW dir \in Dir
    PROVE  Directed(t, s, dir, streams_set_dir(t, s, dir))
<1> DEFINE u == streams_set_dir(t, s, dir)
<1>1. /\ u \in TablesType
      /\ LiveStreams(u) = LiveStreams(t) /\ LiveClients(u) = LiveClients(t)
      /\ u.streams[s] = [t.streams[s] EXCEPT !.dir = dir]
      /\ \A i \in SID \ {s} : u.streams[i] = t.streams[i]
      /\ u.clients = t.clients
  BY SetDirLeaves
<1> HIDE DEF u
<1>2. Directed(t, s, dir, u)
  BY <1>1 DEF Directed
<1> QED BY <1>2 DEF u

\* What writing the entry of a live client leaves in the tables.
LEMMA ClientLeaves ==
    ASSUME NEW t \in TablesType, NEW c \in LiveClients(t), NEW r \in Client
    PROVE  LET u == [t EXCEPT !.clients[c] = r] IN
           /\ u \in TablesType
           /\ u.streams = t.streams /\ u.alive = t.alive
           /\ LiveStreams(u) = LiveStreams(t)
           /\ LiveClients(u) = LiveClients(t)
           /\ u.clients[c] = r
           /\ \A d \in CID \ {c} : u.clients[d] = t.clients[d]
<1> DEFINE u == [t EXCEPT !.clients[c] = r]
<1>1. c \in CID
  BY DEF LiveClients
<1>2. u \in TablesType
  BY <1>1 DEF TablesType
<1>3. u.streams = t.streams /\ u.alive = t.alive /\ u.clients = [t.clients EXCEPT ![c] = r]
  BY DEF TablesType
<1> HIDE DEF u
<1>4. u.clients[c] = r /\ \A d \in CID \ {c} : u.clients[d] = t.clients[d]
  BY <1>1, <1>3 DEF TablesType
<1>5. LiveStreams(u) = LiveStreams(t)
  BY <1>3 DEF LiveStreams
<1>6. LiveClients(u) = LiveClients(t)
  BY <1>1, <1>4, TablesAssumption DEF LiveClients
<1> QED BY <1>2, <1>3, <1>4, <1>5, <1>6 DEF u

\* Slot k of client c, which was free in t, names stream s in u, and s names c.
Added(t, c, s, k, u) ==
    /\ t.clients[c].streams[k] = None
    /\ u \in TablesType
    /\ LiveStreams(u) = LiveStreams(t)
    /\ LiveClients(u) = LiveClients(t)
    /\ u.clients[c] = [t.clients[c] EXCEPT !.streams[k] = s]
    /\ \A d \in CID \ {c} : u.clients[d] = t.clients[d]
    /\ s \in LiveStreams(t) => u.streams[s] = [t.streams[s] EXCEPT !.client = c]
    /\ \A i \in SID \ {s} : u.streams[i] = t.streams[i]
    /\ u.alive = t.alive

\* What client_stream_add() leaves when it succeeds.
LEMMA AddLeaves ==
    ASSUME NEW t \in TablesType, NEW c, NEW s \in SID, CanAdd(t, c)
    PROVE  \E k \in Slot : Added(t, c, s, k, client_stream_add(t, c, s))
<1> DEFINE k == CHOOSE j \in Slot : FirstOf(FreeSlots(t, c), j)
           r == [t.clients[c] EXCEPT !.streams[k] = s]
           v == [t EXCEPT !.clients[c] = r]
           u == client_stream_add(t, c, s)
<1>1. c \in LiveClients(t) /\ c \in CID /\ t.clients[c] \in Client
  BY DEF CanAdd, LiveClients, TablesType
<1>2. k \in Slot /\ t.clients[c].streams[k] = None
  <2>1. FreeSlots(t, c) \in SUBSET Nat /\ FreeSlots(t, c) # {}
    BY TablesAssumption DEF CanAdd, FreeSlots, Slot
  <2>2. PICK j : FirstOf(FreeSlots(t, c), j)
    BY <2>1, FirstExists
  <2>3. j \in Slot
    BY <2>2 DEF FirstOf, FreeSlots
  <2>4. k \in Slot /\ FirstOf(FreeSlots(t, c), k)
    BY <2>2, <2>3
  <2> QED BY <2>4 DEF FirstOf, FreeSlots
<1>3. u = streams_set_client(v, s, c)
  BY DEF client_stream_add
<1> HIDE DEF k
<1>4. r \in Client
  BY <1>1, <1>2 DEF Client
<1> HIDE DEF r, u
<1>5. /\ v \in TablesType
      /\ v.streams = t.streams /\ v.alive = t.alive
      /\ LiveStreams(v) = LiveStreams(t)
      /\ LiveClients(v) = LiveClients(t)
      /\ v.clients[c] = r
      /\ \A d \in CID \ {c} : v.clients[d] = t.clients[d]
  BY <1>1, <1>4, ClientLeaves
<1> HIDE DEF v
<1>6. ASSUME s \notin LiveStreams(t) PROVE Added(t, c, s, k, u)
  <2>1. u = v
    BY <1>3, <1>5, <1>6 DEF streams_set_client
  <2> QED BY <1>2, <1>5, <1>6, <2>1 DEF Added, r
<1>7. ASSUME s \in LiveStreams(t) PROVE Added(t, c, s, k, u)
  <2> DEFINE q == [t.streams[s] EXCEPT !.client = c]
  <2>1. t.streams[s] \in Stream
    BY <1>7 DEF LiveStreams, TablesType
  <2>2. q \in Stream
    BY <1>1, <2>1 DEF Stream
  <2>3. u = Put(v, s, q)
    BY <1>3, <1>5, <1>7 DEF streams_set_client, Put
  <2> HIDE DEF q
  <2>4. /\ u \in TablesType
        /\ LiveStreams(u) = LiveStreams(v) /\ LiveClients(u) = LiveClients(v)
        /\ u.streams[s] = q
        /\ \A i \in SID \ {s} : u.streams[i] = v.streams[i]
        /\ u.clients = v.clients /\ u.alive = v.alive
    BY <1>5, <1>7, <2>2, <2>3, PutLeaves
  <2> QED BY <1>2, <1>5, <2>4 DEF Added, r, q
<1>8. Added(t, c, s, k, u)
  BY <1>6, <1>7
<1> QED BY <1>2, <1>8 DEF u

\* Connecting a stream that is not ready: it is deleted when its codecfilter
\* does not open, and nothing but its entry changes otherwise.
LEMMA SetFhLeaves ==
    ASSUME NEW t \in TablesType, NEW s \in SID, NEW outcome \in FhOutcome, NEW cf \in Codec
    PROVE  LET w == streams_set_fh(t, s, outcome, cf) IN
           \/ w = t /\ (s \in LiveStreams(t) => t.streams[s].ready)
           \/ /\ s \in LiveStreams(t) /\ ~ t.streams[s].ready
              /\ \E r \in Stream :
                   /\ r.client = t.streams[s].client
                   /\ r.dir = t.streams[s].dir
                   /\ r.pos_rel_id = t.streams[s].pos_rel_id
                   /\ r.primary = t.streams[s].primary
                   /\ r.virtual = t.streams[s].virtual
                   /\ r.immutable = t.streams[s].immutable
                   /\ r.fh
                   /\ \/ w = streams_delete(Put(t, s, r), s) /\ outcome = "codec"
                      \/ w = Put(t, s, r) /\ r.ready = (outcome # "nonblock")
<1> DEFINE w == streams_set_fh(t, s, outcome, cf)
           raw == t.streams[s].dir \in {"THRU", "RAW_IN", "RAW_OUT"}
           r1 == [t.streams[s] EXCEPT !.fh = TRUE]
           r2 == [r1 EXCEPT !.cf = IF raw THEN "none" ELSE cf, !.ready = outcome # "nonblock"]
           u == [t EXCEPT !.streams[s].fh = TRUE]
<1>1. CASE s \notin LiveStreams(t) \/ t.streams[s].ready
  BY <1>1 DEF streams_set_fh
<1>2. CASE s \in LiveStreams(t) /\ ~ t.streams[s].ready
  <2>1. t.streams[s] \in Stream
    BY <1>2 DEF TablesType, LiveStreams
  <2>2. u = Put(t, s, r1)
    BY DEF Put
  <2>3. /\ r1 \in Stream /\ r1.client = t.streams[s].client /\ r1.dir = t.streams[s].dir
        /\ r1.pos_rel_id = t.streams[s].pos_rel_id /\ r1.primary = t.streams[s].primary
        /\ r1.virtual = t.streams[s].virtual /\ r1.immutable = t.streams[s].immutable
        /\ r1.fh
    BY <2>1 DEF Stream
  <2>4. CASE outcome = "codec" /\ ~ raw
    <3>1. w = streams_delete(Put(t, s, r1), s)
      BY <1>2, <2>2, <2>4 DEF streams_set_fh
    <3> HIDE DEF r1, w, u
    <3> QED BY <1>2, <2>3, <2>4, <3>1 DEF w
  <2>5. CASE ~ (outcome = "codec" /\ ~ raw)
    <3>1. w = [u EXCEPT !.streams[s].cf = IF raw THEN "none" ELSE cf,
                        !.streams[s].ready = outcome # "nonblock"]
      BY <1>2, <2>5 DEF streams_set_fh
    <3>2. [u EXCEPT !.streams[s].cf = IF raw THEN "none" ELSE cf,
                    !.streams[s].ready = outcome # "nonblock"] = Put(t, s, r2)
      <4>1. u \in TablesType /\ u.streams[s] = r1
        <5> HIDE DEF u, r1
        <5> QED BY <1>2, <2>1, <2>2, <2>3, PutLeaves
      <4>2. [u EXCEPT !.streams[s].cf = IF raw THEN "none" ELSE cf,
                      !.streams[s].ready = outcome # "nonblock"] = Put(u, s, r2)
        <5> DEFINE x == IF raw THEN "none" ELSE cf
                   y == outcome # "nonblock"
        <5> HIDE DEF u, r1, x, y
        <5>1. [u EXCEPT !.streams[s].cf = x, !.streams[s].ready = y]
                  = Put(u, s, [r1 EXCEPT !.cf = x, !.ready = y])
          BY <4>1 DEF Put, TablesType
        <5> QED BY <5>1 DEF x, y
      <4>3. Put(u, s, r2) = Put(t, s, r2)
        <5> HIDE DEF u, r1, r2
        <5> QED BY <2>1, <2>2, PutTwice
      <4> QED BY <4>2, <4>3
    <3>3. /\ r2 \in Stream /\ r2.client = t.streams[s].client /\ r2.dir = t.streams[s].dir
          /\ r2.pos_rel_id = t.streams[s].pos_rel_id /\ r2.primary = t.streams[s].primary
          /\ r2.virtual = t.streams[s].virtual /\ r2.immutable = t.streams[s].immutable
          /\ r2.fh /\ r2.ready = (outcome # "nonblock")
      BY <2>1, ZenonT(60) DEF Stream, Codec
    <3>4. w = Put(t, s, r2)
      BY <3>1, <3>2
    <3> HIDE DEF r2, u, w, r1
    <3> QED BY <1>2, <3>3, <3>4 DEF w
  <2> QED BY <2>4, <2>5
<1> QED BY <1>1, <1>2

-----------------------------------------------------------------------------
(* Ownership *)

\* None is no stream.
LEMMA NoneIsNoStream == None \notin SID
BY TablesAssumption DEF None, SID

\* clean_quit() leaves nobody who could disagree.
LEMMA QuitTidy ==
    ASSUME NEW X
    PROVE  Tidy(Quit, X)
<1>1. LiveStreams(Quit) = {} /\ LiveClients(Quit) = {}
  BY DEF Quit, LiveStreams, LiveClients
<1> QED BY <1>1, QuitType DEF Tidy, SlotsAgree, StreamsAgree, ExecedListed

\* What a client that stays has in its slots when the streams of D are gone:
\* those of its streams that stay.
LEMMA FreedSlotsLeave ==
    ASSUME NEW t \in TablesType, SlotsAgree(t), NEW D \in SUBSET LiveStreams(t),
           NEW c \in LiveClients(t), NEW k \in Slot
    PROVE  FreedSlots(t, c, D)[k] =
               IF t.clients[c].streams[k] \in D THEN None ELSE t.clients[c].streams[k]
<1> DEFINE s == t.clients[c].streams[k]
<1>1. CASE s \in D
  <2>1. s # None
    BY <1>1, NoneIsNoStream DEF LiveStreams
  <2>2. t.streams[s].client = c /\ \A j \in Slot : t.clients[c].streams[j] = s => j = k
    BY <2>1 DEF SlotsAgree
  <2>3. \A j \in Slot : j < k => t.clients[c].streams[j] # s
    <3>1. \A j \in Slot : j < k => j # k
      BY TablesAssumption DEF Slot
    <3> QED BY <2>2, <3>1
  <2>4. \E x \in D : /\ t.streams[x].client = c
                     /\ t.clients[c].streams[k] = x
                     /\ \A j \in Slot : j < k => t.clients[c].streams[j] # x
    BY <1>1, <2>2, <2>3
  <2> QED BY <1>1, <2>4 DEF FreedSlots
<1>2. CASE s \notin D
  BY <1>2 DEF FreedSlots
<1> QED BY <1>1, <1>2

\* A closed set of streams can be taken out with the clients that became one
\* of them and with clients all of whose streams go.
LEMMA RemoveTidy ==
    ASSUME NEW t, NEW X, Tidy(t, X),
           NEW D \in SUBSET LiveStreams(t), Closed(t, D),
           NEW K \in SUBSET LiveClients(t),
           \A c \in K : SlotSet(t, c) \subseteq D,
           NEW L, L = K \cup {c \in CID : \E s \in D : ExecedBy(t, s, c)}
    PROVE  Tidy(Remove(t, D, L), X \ D)
<1> DEFINE u == Remove(t, D, L)
<1>1. t \in TablesType /\ SlotsAgree(t) /\ StreamsAgree(t, X) /\ ExecedListed(t)
  BY DEF Tidy
<1>2. L \in SUBSET LiveClients(t) /\ L \in SUBSET CID /\ D \in SUBSET SID
  BY DEF ExecedBy, LiveClients, LiveStreams
<1>3. u \in TablesType
  BY <1>1, <1>2, RemoveType
<1>4. /\ LiveStreams(u) = LiveStreams(t) \ D
      /\ LiveClients(u) = LiveClients(t) \ L
      /\ \A s \in LiveStreams(u) : u.streams[s].client = t.streams[s].client
      /\ \A c \in LiveClients(u) :
           u.clients[c] = [t.clients[c] EXCEPT !.streams = FreedSlots(t, c, D)]
  <2>1. Without(t, D, L, u)
    BY <1>1, <1>2, RemoveLeaves
  <2> HIDE DEF u
  <2> QED BY <2>1 DEF Without
<1> HIDE DEF u
<1>5. ASSUME NEW c \in LiveClients(u)
      PROVE  /\ c \in LiveClients(t) \ L
             /\ u.clients[c].execed = t.clients[c].execed
             /\ \A k \in Slot : u.clients[c].streams[k] =
                    IF t.clients[c].streams[k] \in D THEN None ELSE t.clients[c].streams[k]
  <2>1. c \in LiveClients(t) \ L /\ t.clients[c] \in Client
    BY <1>1, <1>4 DEF LiveClients, TablesType
  <2>2. u.clients[c].execed = t.clients[c].execed /\ u.clients[c].streams = FreedSlots(t, c, D)
    BY <1>4, <2>1, ZenonT(60) DEF Client
  <2> QED BY <1>1, <2>1, <2>2, FreedSlotsLeave
<1>6. SlotsAgree(u)
  <2>1. SUFFICES ASSUME NEW c \in LiveClients(u), NEW k \in Slot,
                        u.clients[c].streams[k] # None
                 PROVE  /\ u.clients[c].streams[k] \in LiveStreams(u)
                        /\ u.streams[u.clients[c].streams[k]].client = c
                        /\ \A j \in Slot :
                             u.clients[c].streams[j] = u.clients[c].streams[k] => j = k
    BY DEF SlotsAgree
  <2> DEFINE s == t.clients[c].streams[k]
  <2>2. s \notin D /\ u.clients[c].streams[k] = s /\ s # None
    BY <1>5, <2>1
  <2>3. /\ s \in LiveStreams(t)
        /\ t.streams[s].client = c
        /\ \A j \in Slot : t.clients[c].streams[j] = s => j = k
    BY <1>1, <1>5, <2>2 DEF SlotsAgree
  <2>4. \A j \in Slot : u.clients[c].streams[j] = s => t.clients[c].streams[j] = s
    BY <1>5, <2>2
  <2> QED BY <1>4, <2>2, <2>3, <2>4
<1>7. StreamsAgree(u, X \ D)
  <2>1. SUFFICES ASSUME NEW s \in LiveStreams(u) \ (X \ D)
                 PROVE  /\ u.streams[s].client \in LiveClients(u)
                        /\ s \in SlotSet(u, u.streams[s].client)
    BY DEF StreamsAgree
  <2> DEFINE c == t.streams[s].client
  <2>2. s \in LiveStreams(t) /\ s \notin D /\ s \notin X /\ u.streams[s].client = c
    BY <1>4
  <2>3. c \in LiveClients(t) /\ s \in SlotSet(t, c)
    BY <1>1, <2>2 DEF StreamsAgree
  <2>4. c \notin K
    BY <2>2, <2>3
  <2>5. ASSUME NEW x \in D, ExecedBy(t, x, c) PROVE FALSE
    <3>1. Triggers(t, x, s)
      BY <2>3, <2>5 DEF Triggers, LiveClients
    <3> QED BY <2>2, <3>1 DEF Closed
  <2>6. c \in LiveClients(u)
    BY <1>4, <2>3, <2>4, <2>5
  <2>7. PICK k \in Slot : t.clients[c].streams[k] = s /\ s # None
    BY <2>3 DEF SlotSet
  <2>8. u.clients[c].streams[k] = s
    BY <1>5, <2>2, <2>6, <2>7, SMTT(60)
  <2> QED BY <2>2, <2>6, <2>7, <2>8 DEF SlotSet
<1>8. ExecedListed(u)
  <2>1. SUFFICES ASSUME NEW c \in LiveClients(u), u.clients[c].execed # None
                 PROVE  u.clients[c].execed \in SlotSet(u, c)
    BY DEF ExecedListed
  <2> DEFINE s == t.clients[c].execed
  <2>2. c \in LiveClients(t) \ L /\ u.clients[c].execed = s /\ s # None
    BY <1>5, <2>1
  <2>3. s \in SlotSet(t, c)
    BY <1>1, <2>2 DEF ExecedListed
  <2>4. PICK k \in Slot : t.clients[c].streams[k] = s
    BY <2>3 DEF SlotSet
  <2>5. t.streams[s].client = c
    BY <1>1, <2>2, <2>4 DEF SlotsAgree
  <2>6. s \notin D
    BY <2>2, <2>3, <2>5 DEF ExecedBy, LiveClients
  <2>7. u.clients[c].streams[k] = s
    BY <1>5, <2>4, <2>6
  <2> QED BY <2>2, <2>7 DEF SlotSet
<1> QED BY <1>3, <1>6, <1>7, <1>8 DEF Tidy, u

\* Only the live streams among X matter.
LEMMA TidyMonotone ==
    ASSUME NEW t, NEW X, NEW Y, Tidy(t, X), X \cap LiveStreams(t) \subseteq Y
    PROVE  Tidy(t, Y)
BY DEF Tidy, StreamsAgree

\* A deletion leaves the owners in agreement when the streams of the clients
\* that it was asked to free are among those that it was asked to delete.
LEMMA DeleteTidy ==
    ASSUME NEW t, NEW X, Tidy(t, X), NEW R, NEW K \in SUBSET LiveClients(t),
           \A c \in K : SlotSet(t, c) \subseteq R
    PROVE  Tidy(Delete(t, R, K), X \ R)
<1> DEFINE D == Doomed(t, R)
<1>1. CASE Delete(t, R, K) = Quit
  BY <1>1, QuitTidy
<1>2. ASSUME NEW L \in SUBSET LiveClients(t),
             L = K \cup {c \in CID : \E s \in D : ExecedBy(t, s, c)},
             Delete(t, R, K) = Remove(t, D, L)
      PROVE  Tidy(Remove(t, D, L), X \ R)
  <2>1. D \in SUBSET LiveStreams(t) /\ Closed(t, D) /\ R \cap LiveStreams(t) \subseteq D
    BY DoomedLive, DoomedClosed
  <2>2. \A c \in K : SlotSet(t, c) \subseteq LiveStreams(t)
    BY DEF Tidy, SlotsAgree, SlotSet
  <2>3. \A c \in K : SlotSet(t, c) \subseteq D
    BY <2>1, <2>2
  <2> HIDE DEF D
  <2>4. Tidy(Remove(t, D, L), X \ D)
    BY <1>2, <2>1, <2>3, RemoveTidy
  <2>5. LiveStreams(Remove(t, D, L)) = LiveStreams(t) \ D
    <3>1. t \in TablesType
      BY DEF Tidy
    <3>2. Without(t, D, L, Remove(t, D, L))
      BY <2>1, <3>1, RemoveLeaves
    <3> QED BY <3>2 DEF Without
  <2>6. (X \ D) \cap LiveStreams(Remove(t, D, L)) \subseteq X \ R
    BY <2>1, <2>5
  <2> QED BY <2>4, <2>6, TidyMonotone
<1> HIDE DEF D
<1>3. \/ Delete(t, R, K) = Quit
      \/ \E L \in SUBSET LiveClients(t) :
           /\ L = K \cup {c \in CID : \E s \in D : ExecedBy(t, s, c)}
           /\ Delete(t, R, K) = Remove(t, D, L)
  BY DeleteCases DEF D
<1> QED BY <1>1, <1>2, <1>3

\* So do streams_delete() and clients_delete().
LEMMA DeletersTidy ==
    ASSUME NEW t, NEW X, Tidy(t, X), NEW s, NEW c
    PROVE  Tidy(streams_delete(t, s), X \ {s}) /\ Tidy(clients_delete(t, c), X)
<1>1. Tidy(streams_delete(t, s), X \ {s})
  <2>1. CASE s \in LiveStreams(t)
    <3>1. Tidy(Delete(t, {s}, {}), X \ {s})
      BY DeleteTidy
    <3> QED BY <2>1, <3>1 DEF streams_delete
  <2>2. CASE s \notin LiveStreams(t)
    <3>1. Tidy(t, X \ {s})
      BY <2>2, TidyMonotone
    <3> QED BY <2>2, <3>1 DEF streams_delete
  <2> QED BY <2>1, <2>2
<1>2. Tidy(clients_delete(t, c), X)
  <2>1. CASE c \in LiveClients(t)
    <3>1. Tidy(Delete(t, SlotSet(t, c), {c}), X \ SlotSet(t, c))
      BY <2>1, DeleteTidy
    <3>2. Tidy(Delete(t, SlotSet(t, c), {c}), X)
      BY <3>1, TidyMonotone
    <3> QED BY <2>1, <3>2 DEF clients_delete
  <2>2. CASE c \notin LiveClients(t)
    BY <2>2 DEF clients_delete
  <2> QED BY <2>1, <2>2
<1> QED BY <1>1, <1>2

\* A change that leaves the owners alone leaves them in agreement.
LEMMA SameOwnersTidy ==
    ASSUME NEW t, NEW X, Tidy(t, X), NEW u \in TablesType,
           LiveStreams(u) = LiveStreams(t), LiveClients(u) = LiveClients(t),
           \A s \in LiveStreams(t) : u.streams[s].client = t.streams[s].client,
           \A c \in LiveClients(t) : /\ u.clients[c].streams = t.clients[c].streams
                                     /\ u.clients[c].execed = t.clients[c].execed
    PROVE  Tidy(u, X)
<1>1. \A c \in LiveClients(t) : SlotSet(u, c) = SlotSet(t, c)
  BY DEF SlotSet
<1>2. SlotsAgree(u)
  BY SMTT(60) DEF Tidy, SlotsAgree
<1>3. StreamsAgree(u, X)
  BY <1>1 DEF Tidy, StreamsAgree
<1>4. ExecedListed(u)
  BY <1>1 DEF Tidy, ExecedListed
<1> QED BY <1>2, <1>3, <1>4 DEF Tidy

\* So writing the entry of a stream and keeping its client is harmless.
LEMMA PutTidy ==
    ASSUME NEW t, NEW X, Tidy(t, X), NEW s \in LiveStreams(t), NEW r \in Stream,
           r.client = t.streams[s].client
    PROVE  Tidy(Put(t, s, r), X)
<1> DEFINE u == Put(t, s, r)
<1>1. t \in TablesType
  BY DEF Tidy
<1>2. /\ u \in TablesType
      /\ LiveStreams(u) = LiveStreams(t) /\ LiveClients(u) = LiveClients(t)
      /\ u.streams[s] = r
      /\ \A i \in SID \ {s} : u.streams[i] = t.streams[i]
      /\ u.clients = t.clients
  BY <1>1, PutLeaves
<1> HIDE DEF u
<1>3. \A i \in LiveStreams(t) : u.streams[i].client = t.streams[i].client
  BY <1>2 DEF LiveStreams
<1>4. Tidy(u, X)
  BY <1>2, <1>3, SameOwnersTidy
<1> QED BY <1>4 DEF u

\* A new stream belongs to nobody yet; nobody else is disturbed.
LEMMA NewStreamTidy ==
    ASSUME NEW t, Tidy(t, {}), NEW s \in FreeSIDs(t)
    PROVE  Tidy(streams_new(t, s), {s})
<1> DEFINE u == streams_new(t, s)
<1>1. t \in TablesType /\ s \notin LiveStreams(t)
  BY DEF Tidy, FreeSIDs
<1>2. /\ u \in TablesType
      /\ LiveStreams(u) = LiveStreams(t) \cup {s} /\ LiveClients(u) = LiveClients(t)
      /\ \A i \in SID \ {s} : u.streams[i] = t.streams[i]
      /\ u.clients = t.clients
  BY <1>1, NewStreamLeaves
<1> HIDE DEF u
<1>3. \A i \in LiveStreams(t) : u.streams[i] = t.streams[i]
  BY <1>1, <1>2 DEF LiveStreams
<1>4. \A c : SlotSet(u, c) = SlotSet(t, c)
  BY <1>2 DEF SlotSet
<1>5. SlotsAgree(u)
  BY <1>2, <1>3 DEF Tidy, SlotsAgree
<1>6. StreamsAgree(u, {s})
  <2> SUFFICES ASSUME NEW i \in LiveStreams(u) \ {s}
               PROVE  /\ u.streams[i].client \in LiveClients(u)
                      /\ i \in SlotSet(u, u.streams[i].client)
    BY DEF StreamsAgree
  <2>1. i \in LiveStreams(t)
    BY <1>2
  <2> QED BY <1>2, <1>3, <1>4, <2>1 DEF Tidy, StreamsAgree
<1>7. ExecedListed(u)
  BY <1>2, <1>4 DEF Tidy, ExecedListed
<1> QED BY <1>2, <1>5, <1>6, <1>7 DEF Tidy, u

\* client_stream_add() gives the stream that belonged to nobody to the client.
LEMMA AddTidy ==
    ASSUME NEW t, NEW s \in LiveStreams(t), Tidy(t, {s}), t.streams[s].client = None,
           NEW c, CanAdd(t, c)
    PROVE  Tidy(client_stream_add(t, c, s), {})
<1> DEFINE u == client_stream_add(t, c, s)
<1>1. /\ t \in TablesType /\ s \in SID /\ c \in LiveClients(t) /\ c \in CID
      /\ t.clients[c] \in Client /\ t.streams[s] \in Stream
  BY DEF Tidy, LiveStreams, LiveClients, CanAdd, TablesType
<1>2. PICK k \in Slot : Added(t, c, s, k, u)
  BY <1>1, AddLeaves
<1> HIDE DEF u
<1>3. /\ u.clients[c].execed = t.clients[c].execed
      /\ u.clients[c].streams = [t.clients[c].streams EXCEPT ![k] = s]
      /\ u.streams[s].client = c
  BY <1>1, <1>2 DEF Added, Client, Stream
<1>4. /\ u.clients[c].streams[k] = s
      /\ \A j \in Slot \ {k} : u.clients[c].streams[j] = t.clients[c].streams[j]
  BY <1>1, <1>2, <1>3 DEF Client
<1>5. \A d \in LiveClients(t), j \in Slot : t.clients[d].streams[j] # s
  <2> SUFFICES ASSUME NEW d \in LiveClients(t), NEW j \in Slot, t.clients[d].streams[j] = s
               PROVE  FALSE
    OBVIOUS
  <2>1. t.streams[s].client = d
    BY <1>1, NoneIsNoStream DEF Tidy, SlotsAgree
  <2>2. None \notin CID
    BY TablesAssumption DEF None, CID
  <2> QED BY <2>1, <2>2 DEF LiveClients
<1>6. \A d \in LiveClients(t) \ {c} : u.clients[d] = t.clients[d]
  BY <1>2 DEF Added, LiveClients
<1>7. \A i \in LiveStreams(t) \ {s} : u.streams[i] = t.streams[i]
  BY <1>2 DEF Added, LiveStreams
<1>8. \A d \in LiveClients(t) : SlotSet(t, d) \subseteq SlotSet(u, d)
  <2> SUFFICES ASSUME NEW d \in LiveClients(t), NEW j \in Slot, t.clients[d].streams[j] # None
               PROVE  t.clients[d].streams[j] = u.clients[d].streams[j]
    BY DEF SlotSet
  <2>1. CASE d # c
    BY <1>6, <2>1
  <2>2. CASE d = c
    BY <1>2, <1>4, <2>2 DEF Added
  <2> QED BY <2>1, <2>2
<1>9. SlotsAgree(u)
  <2> SUFFICES ASSUME NEW d \in LiveClients(t), NEW j \in Slot, u.clients[d].streams[j] # None
               PROVE  /\ u.clients[d].streams[j] \in LiveStreams(t)
                      /\ u.streams[u.clients[d].streams[j]].client = d
                      /\ \A i \in Slot :
                           u.clients[d].streams[i] = u.clients[d].streams[j] => i = j
    BY <1>2 DEF Added, SlotsAgree
  <2>1. CASE d # c
    <3>1. u.clients[d] = t.clients[d]
      BY <1>6, <2>1
    <3>2. /\ t.clients[d].streams[j] \in LiveStreams(t) \ {s}
          /\ t.streams[t.clients[d].streams[j]].client = d
          /\ \A i \in Slot : t.clients[d].streams[i] = t.clients[d].streams[j] => i = j
      BY <1>5, <3>1 DEF Tidy, SlotsAgree
    <3> QED BY <1>7, <3>1, <3>2
  <2>2. CASE d = c /\ j = k
    <3>1. \A i \in Slot \ {k} : u.clients[c].streams[i] # s
      BY <1>1, <1>4, <1>5
    <3> QED BY <1>3, <1>4, <2>2, <3>1
  <2>3. CASE d = c /\ j # k
    <3>1. u.clients[c].streams[j] = t.clients[c].streams[j]
      BY <1>4, <2>3
    <3>2. /\ t.clients[c].streams[j] \in LiveStreams(t) \ {s}
          /\ t.streams[t.clients[c].streams[j]].client = c
          /\ \A i \in Slot : t.clients[c].streams[i] = t.clients[c].streams[j] => i = j
      BY <1>1, <1>5, <2>3, <3>1 DEF Tidy, SlotsAgree
    <3>3. \A i \in Slot : u.clients[c].streams[i] = t.clients[c].streams[j] => i = j
      BY <1>4, <3>2
    <3> QED BY <1>7, <2>3, <3>1, <3>2, <3>3
  <2> QED BY <2>1, <2>2, <2>3
<1>10. StreamsAgree(u, {})
  <2> SUFFICES ASSUME NEW i \in LiveStreams(t)
               PROVE  /\ u.streams[i].client \in LiveClients(t)
                      /\ i \in SlotSet(u, u.streams[i].client)
    BY <1>2 DEF Added, StreamsAgree
  <2>1. CASE i = s
    BY <1>1, <1>3, <1>4, <2>1, NoneIsNoStream DEF SlotSet
  <2>2. CASE i # s
    <3>1. t.streams[i].client \in LiveClients(t) /\ i \in SlotSet(t, t.streams[i].client)
      BY <2>2 DEF Tidy, StreamsAgree
    <3> QED BY <1>7, <1>8, <2>2, <3>1
  <2> QED BY <2>1, <2>2
<1>11. ExecedListed(u)
  <2>1. \A d \in LiveClients(t) : u.clients[d].execed = t.clients[d].execed
    BY <1>3, <1>6
  <2> QED BY <1>2, <1>8, <2>1 DEF Added, Tidy, ExecedListed
<1> QED BY <1>2, <1>9, <1>10, <1>11 DEF Added, Tidy, u

\* Connecting a stream leaves the owners in agreement, also when it deletes it.
LEMMA SetFhTidy ==
    ASSUME NEW t, NEW X, Tidy(t, X), NEW s \in SID, NEW outcome \in FhOutcome, NEW cf \in Codec
    PROVE  Tidy(streams_set_fh(t, s, outcome, cf), X)
<1> DEFINE w == streams_set_fh(t, s, outcome, cf)
<1>1. t \in TablesType
  BY DEF Tidy
<1>2. \/ w = t
      \/ /\ s \in LiveStreams(t)
         /\ \E r \in Stream :
              /\ r.client = t.streams[s].client
              /\ w = streams_delete(Put(t, s, r), s) \/ w = Put(t, s, r)
  BY <1>1, SetFhLeaves
<1> HIDE DEF w
<1>3. CASE w = t
  BY <1>3 DEF w
<1>4. ASSUME s \in LiveStreams(t), NEW r \in Stream, r.client = t.streams[s].client
      PROVE  Tidy(Put(t, s, r), X) /\ Tidy(streams_delete(Put(t, s, r), s), X)
  <2>1. Tidy(Put(t, s, r), X)
    BY <1>4, PutTidy
  <2>2. Tidy(streams_delete(Put(t, s, r), s), X \ {s})
    BY <2>1, DeletersTidy
  <2> QED BY <2>1, <2>2, TidyMonotone
<1> QED BY <1>2, <1>3, <1>4 DEF w

\* Writing the entry of a client and keeping its slots is harmless when the
\* stream that it has become is in one of them.
LEMMA ClientTidy ==
    ASSUME NEW t, NEW X, Tidy(t, X), NEW c \in LiveClients(t), NEW r \in Client,
           r.streams = t.clients[c].streams,
           r.execed # None => r.execed \in SlotSet(t, c)
    PROVE  Tidy([t EXCEPT !.clients[c] = r], X)
<1> DEFINE u == [t EXCEPT !.clients[c] = r]
<1>1. t \in TablesType
  BY DEF Tidy
<1>2. /\ u \in TablesType
      /\ u.streams = t.streams
      /\ LiveStreams(u) = LiveStreams(t) /\ LiveClients(u) = LiveClients(t)
      /\ u.clients[c] = r
      /\ \A d \in CID \ {c} : u.clients[d] = t.clients[d]
  BY <1>1, ClientLeaves
<1> HIDE DEF u
<1>3. \A d \in LiveClients(t) \ {c} : u.clients[d] = t.clients[d]
  BY <1>2 DEF LiveClients
<1>4. \A d \in LiveClients(t) : u.clients[d].streams = t.clients[d].streams
  BY <1>2, <1>3
<1>5. \A d \in LiveClients(t) : SlotSet(u, d) = SlotSet(t, d)
  BY <1>4 DEF SlotSet
<1>6. SlotsAgree(u)
  BY <1>2, <1>4 DEF Tidy, SlotsAgree
<1>7. StreamsAgree(u, X)
  BY <1>2, <1>5 DEF Tidy, StreamsAgree
<1>8. ExecedListed(u)
  BY <1>2, <1>3, <1>5 DEF Tidy, ExecedListed
<1> QED BY <1>2, <1>6, <1>7, <1>8 DEF Tidy, u

\* The three ways in which a request connects a stream: client_stream_exec()
\* turns the client into the stream that it lists, client_stream_set_fh()
\* hands the connection over, and clients_close() gives it up.
LEMMA ConnectTidy ==
    ASSUME NEW t, Tidy(t, {}), NEW c \in LiveClients(t), NEW s \in SID,
           NEW outcome \in FhOutcome, NEW cf \in Codec
    PROVE  /\ Tidy(client_stream_exec(t, c, s, outcome, cf), {})
           /\ Tidy(client_stream_set_fh(t, c, s, outcome, cf), {})
           /\ Tidy(clients_close(t, c), {})
<1>1. t \in TablesType /\ t.clients[c] \in Client
  BY DEF Tidy, TablesType, LiveClients
<1>2. Tidy(client_stream_exec(t, c, s, outcome, cf), {})
  <2> DEFINE r == [t.clients[c] EXCEPT !.execed = s]
             u == [t EXCEPT !.clients[c] = r]
  <2>1. CASE Lists(t, c, s)
    <3>1. r \in Client /\ r.streams = t.clients[c].streams /\ r.execed = s
      BY <1>1 DEF Client
    <3>2. s \in SlotSet(t, c)
      BY <2>1 DEF Lists
    <3>3. client_stream_exec(t, c, s, outcome, cf) = streams_set_fh(u, s, outcome, cf)
      BY <2>1 DEF client_stream_exec
    <3> HIDE DEF r
    <3>4. Tidy(u, {})
      BY <3>1, <3>2, ClientTidy
    <3> HIDE DEF u
    <3> QED BY <3>3, <3>4, SetFhTidy
  <2>2. CASE ~ Lists(t, c, s)
    BY <2>2 DEF client_stream_exec
  <2> QED BY <2>1, <2>2
<1>3. Tidy(client_stream_set_fh(t, c, s, outcome, cf), {})
  BY SetFhTidy DEF client_stream_set_fh
<1>4. Tidy(clients_close(t, c), {})
  <2> DEFINE r == [t.clients[c] EXCEPT !.fh = FALSE]
  <2>1. r \in Client /\ r.streams = t.clients[c].streams /\ r.execed = t.clients[c].execed
    BY <1>1 DEF Client
  <2>2. r.execed # None => r.execed \in SlotSet(t, c)
    BY <2>1 DEF Tidy, ExecedListed
  <2>3. clients_close(t, c) = [t EXCEPT !.clients[c] = r]
    BY DEF clients_close
  <2> HIDE DEF r
  <2> QED BY <2>1, <2>2, <2>3, ClientTidy
<1> QED BY <1>2, <1>3, <1>4

\* A new client has no streams and is no stream.
LEMMA NewClientTidy ==
    ASSUME NEW t, Tidy(t, {}), NEW c \in FreeCIDs(t),
           NEW u \in TablesType,
           u.streams = t.streams, u.clients = [t.clients EXCEPT ![c] = [NewClient EXCEPT !.fh = TRUE]]
    PROVE  Tidy(u, {})
<1>1. t \in TablesType /\ c \in CID /\ c \notin LiveClients(t)
  BY DEF Tidy, FreeCIDs
<1>2. /\ [NewClient EXCEPT !.fh = TRUE] \in Client
      /\ \A k \in Slot : [NewClient EXCEPT !.fh = TRUE].streams[k] = None
      /\ [NewClient EXCEPT !.fh = TRUE].execed = None
  BY DEF NewClient, Client
<1>3. /\ u.clients[c] = [NewClient EXCEPT !.fh = TRUE]
      /\ \A d \in CID \ {c} : u.clients[d] = t.clients[d]
  BY <1>1 DEF TablesType
<1>4. \A k \in Slot : u.clients[c].streams[k] = None
  BY <1>2, <1>3
<1>5. LiveStreams(u) = LiveStreams(t) /\ LiveClients(u) = LiveClients(t) \cup {c}
  BY <1>1, <1>2, <1>3, TablesAssumption, ZenonT(60) DEF LiveStreams, LiveClients
<1>6. \A d \in LiveClients(t) : u.clients[d] = t.clients[d] /\ SlotSet(u, d) = SlotSet(t, d)
  BY <1>1, <1>3 DEF LiveClients, SlotSet
<1>7. SlotsAgree(u)
  BY <1>4, <1>5, <1>6 DEF Tidy, SlotsAgree
<1>8. StreamsAgree(u, {})
  BY <1>5, <1>6 DEF Tidy, StreamsAgree
<1>9. ExecedListed(u)
  BY <1>2, <1>3, <1>5, <1>6 DEF Tidy, ExecedListed
<1> QED BY <1>7, <1>8, <1>9 DEF Tidy

\* The direction of a stream does not matter to its owner.
LEMMA SetDirTidy ==
    ASSUME NEW t, NEW X, Tidy(t, X), NEW s \in LiveStreams(t), NEW dir \in Dir
    PROVE  Tidy(streams_set_dir(t, s, dir), X)
<1> DEFINE u == streams_set_dir(t, s, dir)
<1>1. t \in TablesType /\ t.streams[s] \in Stream
  BY DEF Tidy, TablesType, LiveStreams
<1>2. /\ u \in TablesType
      /\ LiveStreams(u) = LiveStreams(t) /\ LiveClients(u) = LiveClients(t)
      /\ u.streams[s] = [t.streams[s] EXCEPT !.dir = dir]
      /\ \A i \in SID \ {s} : u.streams[i] = t.streams[i]
      /\ u.clients = t.clients
  BY <1>1, SetDirLeaves
<1> HIDE DEF u
<1>3. u.streams[s].client = t.streams[s].client
  BY <1>1, <1>2 DEF Stream
<1>4. \A i \in LiveStreams(t) : u.streams[i].client = t.streams[i].client
  BY <1>2, <1>3 DEF LiveStreams
<1>5. Tidy(u, X)
  BY <1>2, <1>4, SameOwnersTidy
<1> QED BY <1>5 DEF u

-----------------------------------------------------------------------------
(* Well-formed tables, also where owners disagree.                          *)

\* The functions of clients.c that link streams leave well-formed tables.
LEMMA LinkType ==
    ASSUME NEW t \in TablesType, NEW c, NEW s \in SID
    PROVE  /\ client_stream_add(t, c, s) \in TablesType
           /\ client_stream_delete(t, c, s) \in TablesType
<1>1. client_stream_add(t, c, s) \in TablesType
  <2>1. CASE CanAdd(t, c)
    BY <2>1, AddLeaves DEF Added
  <2>2. CASE ~ CanAdd(t, c)
    BY <2>2 DEF client_stream_add
  <2> QED BY <2>1, <2>2
<1>2. client_stream_delete(t, c, s) \in TablesType
  <2> DEFINE k == CHOOSE j \in Slot : FirstOf({i \in Slot : t.clients[c].streams[i] = s}, j)
             r == [t.clients[c] EXCEPT !.streams[k] = None]
             u == [t EXCEPT !.clients[c] = r]
  <2>1. CASE ~ Lists(t, c, s)
    BY <2>1 DEF client_stream_delete
  <2>2. CASE Lists(t, c, s)
    <3>1. client_stream_delete(t, c, s)
              = IF t.clients[c].execed = s THEN clients_delete(u, c) ELSE u
      BY <2>2 DEF client_stream_delete
    <3> HIDE DEF k
    <3>2. c \in LiveClients(t) /\ t.clients[c] \in Client
      BY <2>2 DEF Lists, LiveClients, TablesType
    <3>3. r \in Client
      BY <3>2 DEF Client
    <3> HIDE DEF r
    <3>4. u \in TablesType
      BY <3>2, <3>3, ClientLeaves
    <3> HIDE DEF u
    <3> QED BY <3>1, <3>4, DeletersType
  <2> QED BY <2>1, <2>2
<1> QED BY <1>1, <1>2

\* So does client_stream_move(), also of a stream that does not exist.
LEMMA MoveType ==
    ASSUME NEW t \in TablesType, NEW c, NEW s \in SID
    PROVE  client_stream_move(t, c, s) \in TablesType
<1> DEFINE old == IF s \in LiveStreams(t) THEN t.streams[s].client ELSE None
           u == client_stream_delete(t, old, s)
<1>1. client_stream_move(t, c, s)
          = IF old = None THEN client_stream_add(t, c, s)
            ELSE IF Lists(t, old, s) THEN client_stream_add(u, c, s) ELSE t
  BY DEF client_stream_move
<1> HIDE DEF old
<1>2. u \in TablesType
  BY LinkType
<1> HIDE DEF u
<1> QED BY <1>1, <1>2, LinkType

\* So does streams_set_fh().
LEMMA SetFhType ==
    ASSUME NEW t \in TablesType, NEW s \in SID, NEW outcome \in FhOutcome, NEW cf \in Codec
    PROVE  streams_set_fh(t, s, outcome, cf) \in TablesType
<1> DEFINE w == streams_set_fh(t, s, outcome, cf)
<1>1. \/ w = t
      \/ /\ s \in LiveStreams(t)
         /\ \E r \in Stream : w = streams_delete(Put(t, s, r), s) \/ w = Put(t, s, r)
  BY SetFhLeaves
<1> HIDE DEF w
<1>2. ASSUME s \in LiveStreams(t), NEW r \in Stream
      PROVE  Put(t, s, r) \in TablesType
  BY <1>2, PutLeaves
<1>3. w \in TablesType
  BY <1>1, <1>2, DeletersType
<1> QED BY <1>3 DEF w

\* So do the three ways in which a request connects a stream.
LEMMA ConnectType ==
    ASSUME NEW t \in TablesType, NEW c \in LiveClients(t), NEW s \in SID,
           NEW outcome \in FhOutcome, NEW cf \in Codec
    PROVE  /\ streams_set_fh(t, s, outcome, cf) \in TablesType
           /\ client_stream_exec(t, c, s, outcome, cf) \in TablesType
           /\ client_stream_set_fh(t, c, s, outcome, cf) \in TablesType
           /\ clients_close(t, c) \in TablesType
<1>1. ASSUME NEW u \in TablesType
      PROVE  streams_set_fh(u, s, outcome, cf) \in TablesType
  BY SetFhType
<1>2. t.clients[c] \in Client
  BY DEF TablesType, LiveClients
<1>3. client_stream_exec(t, c, s, outcome, cf) \in TablesType
  <2> DEFINE r == [t.clients[c] EXCEPT !.execed = s]
             u == [t EXCEPT !.clients[c] = r]
  <2>1. r \in Client
    BY <1>2 DEF Client
  <2>2. client_stream_exec(t, c, s, outcome, cf) \in {t, streams_set_fh(u, s, outcome, cf)}
    BY DEF client_stream_exec
  <2> HIDE DEF r
  <2>3. u \in TablesType
    BY <2>1, ClientLeaves
  <2> HIDE DEF u
  <2> QED BY <1>1, <2>2, <2>3
<1>4. client_stream_set_fh(t, c, s, outcome, cf) \in TablesType
  BY <1>1 DEF client_stream_set_fh
<1>5. clients_close(t, c) \in TablesType
  <2> DEFINE r == [t.clients[c] EXCEPT !.fh = FALSE]
  <2>1. r \in Client
    BY <1>2 DEF Client
  <2>2. clients_close(t, c) = [t EXCEPT !.clients[c] = r]
    BY DEF clients_close
  <2> HIDE DEF r
  <2> QED BY <2>1, <2>2, ClientLeaves
<1> QED BY <1>1, <1>3, <1>4, <1>5

\* A stream that is made and given to a client that has a free slot.
LEMMA MakeType ==
    ASSUME NEW t \in TablesType, NEW s \in FreeSIDs(t), NEW c, NEW dir \in Dir
    PROVE  streams_set_dir(client_stream_add(streams_new(t, s), c, s), s, dir) \in TablesType
<1> DEFINE u == streams_new(t, s)
           v == client_stream_add(u, c, s)
<1>1. s \in SID /\ u \in TablesType /\ s \in LiveStreams(u)
  BY NewStreamLeaves DEF FreeSIDs
<1> HIDE DEF u
<1>2. v \in TablesType /\ LiveStreams(v) = LiveStreams(u)
  <2>1. CASE CanAdd(u, c)
    BY <1>1, <2>1, AddLeaves DEF Added
  <2>2. CASE ~ CanAdd(u, c)
    BY <1>1, <2>2 DEF client_stream_add
  <2> QED BY <2>1, <2>2
<1> HIDE DEF v
<1> QED BY <1>1, <1>2, SetDirLeaves DEF u, v

\* A client that is made for a connection.
LEMMA AcceptLeaves ==
    ASSUME NEW t \in TablesType, NEW c \in FreeCIDs(t)
    PROVE  LET u == [clients_new(t, c) EXCEPT !.clients[c].fh = TRUE]
           IN  /\ u \in TablesType
               /\ u.streams = t.streams
               /\ u.clients = [t.clients EXCEPT ![c] = [NewClient EXCEPT !.fh = TRUE]]
               /\ LiveStreams(u) = LiveStreams(t)
               /\ LiveClients(u) = LiveClients(t) \cup {c}
<1> DEFINE u == [clients_new(t, c) EXCEPT !.clients[c].fh = TRUE]
           r == [NewClient EXCEPT !.fh = TRUE]
<1>1. c \in CID /\ c \notin LiveClients(t)
  BY DEF FreeCIDs
<1>2. r \in Client
  BY DEF NewClient, Client
<1>3. /\ u.streams = t.streams /\ u.nclients = t.nclients + 1
      /\ u.clients = [t.clients EXCEPT ![c] = r]
      /\ u = [t EXCEPT !.clients = u.clients, !.nclients = u.nclients]
  BY <1>1 DEF clients_new, TablesType
<1> HIDE DEF u, r
<1>4. u.clients \in [CID -> Client \cup {NULL}] /\ u.nclients \in Int
  BY <1>1, <1>2, <1>3 DEF TablesType
<1>5. u \in TablesType
  BY <1>3, <1>4 DEF TablesType
<1>6. u.clients[c] = r /\ \A d \in CID \ {c} : u.clients[d] = t.clients[d]
  BY <1>1, <1>3 DEF TablesType
<1>7. LiveStreams(u) = LiveStreams(t) /\ LiveClients(u) = LiveClients(t) \cup {c}
  BY <1>1, <1>2, <1>3, <1>6, TablesAssumption DEF LiveStreams, LiveClients
<1> QED BY <1>3, <1>5, <1>7 DEF u, r
==============================================================================
