---------------------------- MODULE Poll_proofs -----------------------------
(***************************************************************************)
(* Proofs about module Poll, for every size of the tables, every number of *)
(* handles and of entries in streamless[], and every number of requests.   *)
(***************************************************************************)
EXTENDS Poll, Tables_proofs

-----------------------------------------------------------------------------
(* The inductive invariant *)

States == {"closed", "quiet", "ready", "gone", "listen"}

\* Handles of neither clients nor streams.
Others == leaked \cup listen

\* Handle f belongs to a client, to a stream, or is one of the others, lk.
Held(t, cf, sf, lk, f) ==
    \/ \E c \in LiveClients(t) : cf[c] = f
    \/ \E s \in LiveStreams(t) : sf[s] = f
    \/ f \in lk

\* The handles of tables t: those that are open are held, and apart.
Owned(t, cf, sf, st, lk) ==
    /\ Tidy(t, {})
    /\ cf \in [CID -> FH \cup {None}] /\ sf \in [SID -> FH \cup {None, Full}]
    /\ st \in [FH -> States] /\ lk \subseteq FH
    /\ \A c \in CID \ LiveClients(t) : cf[c] = None
    /\ \A s \in SID \ LiveStreams(t) : sf[s] = None
    /\ Apart(t, cf, sf)
    /\ \A f \in FH : st[f] # "closed" <=> Held(t, cf, sf, lk, f)
    /\ \A f \in lk : /\ \A c \in LiveClients(t) : cf[c] # f
                     /\ \A s \in LiveStreams(t) : sf[s] # f

\* A stream that is not connected has no handle.
Unready(t, sf) == \A s \in LiveStreams(t) : ~ t.streams[s].ready => sf[s] = None

\* Nobody waits for client c: there is something to read from it, or it came
\* in this turn.
Readied(c) == state[cfh[c]] # "quiet" \/ cfh[c] \in fresh

\* What streamless[] holds.
Entries(q) ==
    /\ q \in Seq([id : CID, fh : FH])
    /\ Len(q) <= MAX_STREAMLESS /\ Len(q) <= CLIENTS_MAX

\* The entries of streamless[] are of different clients, which have the handle
\* they had unless they came in this turn.
EntriesKept ==
    /\ Entries(streamless)
    /\ \A m, n \in DOMAIN streamless : m # n =>
         streamless[m].id # streamless[n].id /\ streamless[m].fh # streamless[n].fh
    /\ pass = "first" => streamless = <<>>
    /\ \A n \in DOMAIN streamless : LET c == streamless[n].id IN
         c \in Live /\ cfh[c] # None => cfh[c] = streamless[n].fh \/ cfh[c] \in fresh

\* What is left of the second pass.
AllLeft ==
    pass = "all" => \A c \in Live :
        Pos(c) >= at /\ cfh[c] \in r /\ tab.clients[c].execed = None => Readied(c)

\* What is left of the third.
AgainLeft ==
    pass = "streamless" => \A n \in DOMAIN streamless : LET c == streamless[n].id IN
        n > at /\ streamless[n].fh \in r /\ c \in Live /\ cfh[c] # None =>
            tab.clients[c].execed = None /\ Readied(c)

TurnType ==
    /\ pass \in {"first", "all", "second", "streamless"}
    /\ at \in 0 .. Pos(CLIENTS_MAX)
    /\ r \subseteq FH /\ fresh \subseteq FH

Strict ==
    /\ Owned(tab, cfh, sfh, state, Others) /\ Unready(tab, sfh)
    /\ TurnType /\ EntriesKept /\ AllLeft /\ AgainLeft

\* What keeps its type, whatever numbers the clients keep.
ObjectTypes ==
    /\ Tidy(tab, {})
    /\ cfh \in [CID -> FH \cup {None}] /\ sfh \in [SID -> FH \cup {None, Full}]
    /\ state \in [FH -> States]
    /\ leaked \subseteq FH /\ listen \subseteq FH /\ fresh \subseteq FH /\ odd \subseteq listen
    /\ ghosts \subseteq CID /\ kept \in BOOLEAN

\* The inductive invariant: the types, and all of the above until a connection
\* of an unknown protocol was closed and kept.
PollInv ==
    /\ ObjectTypes /\ TurnType /\ Entries(streamless)
    /\ kept \/ (Strict /\ leaked \cap listen = {})

-----------------------------------------------------------------------------
(* Positions *)

\* Multiples of a positive number.
LEMMA Multiples ==
    ASSUME NEW m \in Nat, m > 0, NEW c \in Nat, NEW d \in Nat
    PROVE  /\ c * m \in Nat /\ (c + 1) * m = c * m + m
           /\ c <= d => c * m <= d * m
           /\ c < d => c * m + m <= d * m
           /\ (c * m) \div m = c
           /\ c <= c * m
  <1>1. c * m \in Nat /\ (c + 1) * m = c * m + m
    OBVIOUS
  <1>2. c <= d => c * m <= d * m
    OBVIOUS
  <1>3. c < d => c * m + m <= d * m
    OBVIOUS
  <1>4. (c * m) \div m = c
    OBVIOUS
  <1>5. c <= c * m
    OBVIOUS
  <1> QED BY <1>1, <1>2, <1>3, <1>4, <1>5

\* Positions of the second pass: the handle of a client comes before its slots,
\* and these before the next client.
LEMMA Positions ==
    ASSUME NEW c \in CID
    PROVE  /\ Pos(c) \in Nat /\ Pos(CLIENTS_MAX) \in Nat /\ CLIENTS_MAX <= Pos(CLIENTS_MAX)
           /\ Pos(c) \div (STREAMS_PER_CLIENT + 1) = c
           /\ Pos(c) + 1 <= Pos(CLIENTS_MAX)
           /\ \A k \in Slot : Pos(c) + 1 + k + 1 <= Pos(CLIENTS_MAX)
           /\ \A d \in CID, j \in Slot, k \in Slot :
                Pos(c) + 1 + k = Pos(d) + 1 + j => c = d /\ k = j
  <1> DEFINE m == STREAMS_PER_CLIENT + 1
  <1>1. m \in Nat /\ m > 0 /\ c \in Nat /\ CLIENTS_MAX \in Nat /\ c < CLIENTS_MAX
        /\ \A k \in Slot : k \in Nat /\ k + 1 < m
        /\ \A d \in CID : d \in Nat
    BY TablesAssumption DEF CID, Slot
  <1>2. \A d \in Nat : Pos(d) = d * m
    BY DEF Pos
  <1> HIDE DEF m
  <1>3. /\ Pos(c) \in Nat /\ Pos(CLIENTS_MAX) \in Nat /\ CLIENTS_MAX <= Pos(CLIENTS_MAX)
        /\ Pos(c) \div m = c
        /\ Pos(c) + m <= Pos(CLIENTS_MAX)
    BY <1>1, <1>2, Multiples, SMTT(60)
  <1>4. ASSUME NEW d \in CID, NEW j \in Slot, NEW k \in Slot, Pos(c) + 1 + k = Pos(d) + 1 + j
        PROVE  c = d /\ k = j
    <2>1. Pos(d) \in Nat /\ d \in Nat /\ (c < d => Pos(c) + m <= Pos(d)) /\ (d < c => Pos(d) + m <= Pos(c))
      BY <1>1, <1>2, Multiples
    <2>2. ~ (c < d) /\ ~ (d < c)
      BY <1>1, <1>3, <1>4, <2>1
    <2>3. c = d
      BY <1>1, <2>1, <2>2
    <2> QED BY <1>1, <1>3, <1>4, <2>3
  <1> QED BY <1>1, <1>3, <1>4 DEF m

\* The size of the table is a position, also without clients.
LEMMA LastPosition == Pos(CLIENTS_MAX) \in Nat /\ CLIENTS_MAX <= Pos(CLIENTS_MAX)
  <1> DEFINE m == STREAMS_PER_CLIENT + 1
  <1>1. m \in Nat /\ m > 0 /\ CLIENTS_MAX \in Nat /\ Pos(CLIENTS_MAX) = CLIENTS_MAX * m
    BY TablesAssumption DEF Pos
  <1> HIDE DEF m
  <1> QED BY <1>1, Multiples

-----------------------------------------------------------------------------
(* The entries of streamless[] *)

\* Ids are numbers.
LEMMA IdsAreNumbers == CLIENTS_MAX \in Nat /\ \A c \in CID : c \in Nat /\ c < CLIENTS_MAX
BY TablesAssumption DEF CID

\* A set of ids that is not empty has a last one.
LEMMA LastExists ==
    ASSUME NEW B \in SUBSET CID, B # {}
    PROVE  \E c \in B : \A b \in B : b <= c
  <1> DEFINE S == {CLIENTS_MAX - b : b \in B}
  <1>1. S \in SUBSET Nat /\ S # {}
    <2>1. \A b \in B : CLIENTS_MAX - b \in Nat
      BY IdsAreNumbers
    <2> QED BY <2>1
  <1> HIDE DEF S
  <1>2. PICK x : FirstOf(S, x)
    BY <1>1, FirstExists
  <1>3. PICK c \in B : x = CLIENTS_MAX - c
    BY <1>2 DEF FirstOf, S
  <1>4. \A b \in B : CLIENTS_MAX - c <= CLIENTS_MAX - b
    BY <1>2, <1>3 DEF FirstOf, S
  <1>5. CLIENTS_MAX \in Nat /\ c \in Nat /\ \A b \in B : b \in Nat
    BY IdsAreNumbers
  <1> QED BY <1>4, <1>5

Below(B, c) == {b \in B : b < c}

\* The last client of a set has all the others below it.
LEMMA LastRank ==
    ASSUME NEW B \in SUBSET CID, NEW c \in B, \A b \in B : b <= c
    PROVE  Cardinality(Below(B, c)) = Cardinality(B) - 1 /\ Cardinality(B) \in Nat
  <1>1. IsFiniteSet(B) /\ Cardinality(B) \in Nat
    BY IdsFinite
  <1>2. Below(B, c) = B \ {c}
    <2>1. c \in Nat /\ \A b \in B : b \in Nat
      BY IdsAreNumbers
    <2>2. \A b \in B : b < c <=> b # c
      BY <2>1
    <2> QED BY <2>2 DEF Below
  <1>3. Cardinality(B \ {c}) = Cardinality(B) - 1
    BY <1>1, FS_RemoveElement
  <1> QED BY <1>1, <1>2, <1>3

\* There is a client with n others below it in a set with more than n.
LEMMA RankExists ==
    ASSUME NEW B \in SUBSET CID, NEW n \in Nat, n < Cardinality(B)
    PROVE  \E c \in B : Cardinality(Below(B, c)) = n
  <1> DEFINE L == {b \in B : Cardinality(Below(B, b)) >= n}
  <1>1. Cardinality(B) \in Nat /\ \A b : Cardinality(Below(B, b)) \in Nat
    BY IdsFinite DEF Below
  <1>2. B # {}
    BY <1>1, FS_EmptySet
  <1>3. L # {} /\ L \in SUBSET Nat /\ L \subseteq B
    <2>1. PICK c \in B : \A b \in B : b <= c
      BY <1>2, LastExists
    <2>2. Cardinality(Below(B, c)) >= n
      BY <1>1, <2>1, LastRank
    <2>3. \A b \in B : b \in Nat
      BY IdsAreNumbers
    <2> QED BY <2>1, <2>2, <2>3
  <1>4. PICK c : FirstOf(L, c)
    <2> HIDE DEF L
    <2> QED BY <1>3, FirstExists
  <1>5. c \in B /\ Cardinality(Below(B, c)) >= n
    BY <1>4 DEF FirstOf
  <1>6. CASE Cardinality(Below(B, c)) > n
    <2> DEFINE P == Below(B, c)
    <2>1. P \in SUBSET CID /\ P # {}
      <3>1. P \in SUBSET CID
        BY DEF Below
      <3> QED BY <1>1, <1>6, <3>1, FS_EmptySet
    <2> HIDE DEF P
    <2>2. PICK p \in P : \A b \in P : b <= p
      BY <2>1, LastExists
    <2>3. Cardinality(Below(P, p)) = Cardinality(P) - 1
      BY <2>1, <2>2, LastRank
    <2>4. p \in B /\ p < c /\ Below(P, p) = Below(B, p)
      <3>1. p \in B /\ p < c
        BY <2>2 DEF P, Below
      <3>2. c \in Nat /\ p \in Nat /\ \A b \in B : b \in Nat
        BY <1>5, <3>1, IdsAreNumbers
      <3>3. \A b \in B : b < p => b < c
        BY <3>1, <3>2
      <3> QED BY <3>1, <3>3 DEF P, Below
    <2>5. Cardinality(Below(B, p)) >= n
      BY <1>1, <1>6, <2>3, <2>4 DEF P
    <2>6. p \in L
      BY <2>4, <2>5
    <2>7. c <= p
      BY <1>4, <2>6 DEF FirstOf
    <2>8. c \in Nat /\ p \in Nat
      BY <1>5, <2>4, IdsAreNumbers
    <2> QED BY <2>4, <2>7, <2>8
  <1> QED BY <1>1, <1>5, <1>6

\* Entries of different clients, with their handles.
Filled(cf, q) ==
    /\ Entries(q)
    /\ \A n \in DOMAIN q : cf[q[n].id] = q[n].fh
    /\ \A m, n \in DOMAIN q : m # n => q[m].id # q[n].id /\ q[m].fh # q[n].fh

\* What streamless[] is filled with.
LEMMA StreamlessLeaves ==
    ASSUME NEW t,
           cfh \in [CID -> FH \cup {None}]
    PROVE  /\ Entries(Streamless(t))
           /\ (\A c, d \in LiveClients(t) : cfh[c] \in FH /\ cfh[c] = cfh[d] => c = d) =>
                Filled(cfh, Streamless(t))
  <1> DEFINE B == Bare(t)
             nth(n) == CHOOSE c \in B : Cardinality({b \in B : b < c}) = n - 1
             N == IF Cardinality(B) < MAX_STREAMLESS THEN Cardinality(B) ELSE MAX_STREAMLESS
             e(n) == [id |-> nth(n), fh |-> cfh[nth(n)]]
             q == [n \in 1 .. N |-> e(n)]
  <1>1. Streamless(t) = q
    BY DEF Streamless
  <1>2. B \in SUBSET CID /\ B \subseteq LiveClients(t) /\ \A c \in B : cfh[c] \in FH
    BY DEF Bare, LiveClients
  <1> HIDE DEF B
  <1>3. Cardinality(B) \in Nat /\ Cardinality(B) <= CLIENTS_MAX
    <2>1. IsFiniteSet(CID) /\ Cardinality(CID) = CLIENTS_MAX
      BY TablesAssumption, FS_Interval DEF CID
    <2> QED BY <1>2, <2>1, FS_Subset, IdsFinite
  <1>4. N \in Nat /\ N <= MAX_STREAMLESS /\ N <= Cardinality(B) /\ N <= CLIENTS_MAX
    BY <1>3, PollAssumption, TablesAssumption
  <1> HIDE DEF N
  <1>5. ASSUME NEW n \in 1 .. N
        PROVE  nth(n) \in B /\ Cardinality(Below(B, nth(n))) = n - 1
    <2>1. n - 1 \in Nat /\ n - 1 < Cardinality(B)
      BY <1>3, <1>4
    <2>2. \E c \in B : Cardinality(Below(B, c)) = n - 1
      BY <1>2, <2>1, RankExists
    <2> QED BY <2>2 DEF Below
  <1> HIDE DEF nth
  <1>6. ASSUME NEW n \in 1 .. N
        PROVE  e(n).id = nth(n) /\ e(n).fh = cfh[nth(n)] /\ e(n) \in [id : CID, fh : FH]
    BY <1>2, <1>5
  <1> HIDE DEF e
  <1>7. ASSUME \A c, d \in LiveClients(t) : cfh[c] \in FH /\ cfh[c] = cfh[d] => c = d,
               NEW m \in 1 .. N, NEW n \in 1 .. N, m # n
        PROVE  nth(m) # nth(n) /\ cfh[nth(m)] # cfh[nth(n)]
    <2>1. nth(m) # nth(n)
      BY <1>5, <1>7
    <2> QED BY <1>2, <1>5, <1>7, <2>1
  <1>8. q \in Seq([id : CID, fh : FH]) /\ Len(q) = N /\ DOMAIN q = 1 .. N
    BY <1>4, <1>6
  <1>9. \A n \in 1 .. N : q[n].id = nth(n) /\ q[n].fh = cfh[nth(n)]
    BY <1>6
  <1> HIDE DEF q
  <1>10. Entries(q)
    BY <1>4, <1>8 DEF Entries
  <1>11. ASSUME \A c, d \in LiveClients(t) : cfh[c] \in FH /\ cfh[c] = cfh[d] => c = d
         PROVE  Filled(cfh, q)
    BY <1>7, <1>8, <1>9, <1>10, <1>11 DEF Filled
  <1> QED BY <1>1, <1>10, <1>11

-----------------------------------------------------------------------------
(* Deletions *)

\* u is t without some clients and streams.
Shrunk(t, u) ==
    /\ Tidy(u, {})
    /\ LiveStreams(u) \subseteq LiveStreams(t)
    /\ LiveClients(u) \subseteq LiveClients(t)
    /\ \A s \in LiveStreams(u) : /\ u.streams[s].client = t.streams[s].client
                                 /\ u.streams[s].ready = t.streams[s].ready
    /\ \A c \in LiveClients(u) : u.clients[c].execed = t.clients[c].execed

\* Deletions shrink the tables.
LEMMA DeleteShrinks ==
    ASSUME NEW t, Tidy(t, {}), NEW R, NEW K \in SUBSET LiveClients(t),
           \A c \in K : SlotSet(t, c) \subseteq R
    PROVE  Shrunk(t, Delete(t, R, K))
  <1> DEFINE u == Delete(t, R, K)
  <1>1. t \in TablesType /\ Tidy(u, {})
    <2>1. Tidy(u, {} \ R) /\ {} \ R = {}
      BY DeleteTidy
    <2> QED BY <2>1 DEF Tidy
  <1>2. CASE u = Quit
    <2>1. LiveStreams(u) = {} /\ LiveClients(u) = {}
      BY <1>2 DEF Quit, LiveStreams, LiveClients
    <2> QED BY <1>1, <2>1 DEF Shrunk
  <1>3. ASSUME NEW D, NEW L, D = Doomed(t, R), L \in SUBSET LiveClients(t), u = Remove(t, D, L)
        PROVE  Shrunk(t, u)
    <2>1. Without(t, D, L, u)
      BY <1>1, <1>3, DoomedLive, RemoveLeaves
    <2> HIDE DEF u
    <2>2. \A c \in LiveClients(u) : u.clients[c].execed = t.clients[c].execed
      <3> TAKE c \in LiveClients(u)
      <3>1. u.clients[c] = [t.clients[c] EXCEPT !.streams = FreedSlots(t, c, D)]
        BY <2>1 DEF Without
      <3>2. t.clients[c] \in Client
        BY <1>1, <2>1 DEF Without, LiveClients, TablesType
      <3> QED BY <3>1, <3>2 DEF Client
    <2> QED BY <1>1, <2>1, <2>2 DEF Shrunk, Without
  <1> QED BY <1>2, <1>3, DeleteCases

\* So do streams_delete() and clients_delete().
LEMMA DeletersShrink ==
    ASSUME NEW t, Tidy(t, {}), NEW s, NEW c
    PROVE  Shrunk(t, t) /\ Shrunk(t, streams_delete(t, s)) /\ Shrunk(t, clients_delete(t, c))
  <1>1. Shrunk(t, t)
    BY DEF Shrunk
  <1>2. Shrunk(t, streams_delete(t, s))
    BY <1>1, DeleteShrinks DEF streams_delete
  <1>3. Shrunk(t, clients_delete(t, c))
    BY <1>1, DeleteShrinks DEF clients_delete
  <1> QED BY <1>1, <1>2, <1>3

\* The handles that deletions from t to u close.
ClosedBy(t, u, cf, sf) ==
    ({sf[s] : s \in LiveStreams(t) \ LiveStreams(u)} \cup
     {cf[c] : c \in {k \in LiveClients(t) \ LiveClients(u) : t.clients[k].execed = None}})
    \cap FH

\* Deletions keep the client and the stream it became together.
LEMMA ShrunkTogether ==
    ASSUME NEW t, Tidy(t, {}), NEW u, Shrunk(t, u), NEW c \in LiveClients(t),
           t.clients[c].execed # None
    PROVE  /\ t.clients[c].execed \in LiveStreams(t)
           /\ c \in LiveClients(u) <=> t.clients[c].execed \in LiveStreams(u)
  <1> DEFINE s == t.clients[c].execed
  <1>1. s \in SlotSet(t, c)
    BY DEF Tidy, ExecedListed
  <1>2. s \in LiveStreams(t) /\ t.streams[s].client = c
    BY <1>1 DEF Tidy, SlotsAgree, SlotSet
  <1>3. ASSUME c \in LiveClients(u) PROVE s \in LiveStreams(u)
    <2>1. s \in SlotSet(u, c)
      BY <1>3 DEF Shrunk, Tidy, ExecedListed
    <2> QED BY <1>3, <2>1 DEF Shrunk, Tidy, SlotsAgree, SlotSet
  <1>4. ASSUME s \in LiveStreams(u) PROVE c \in LiveClients(u)
    BY <1>2, <1>4 DEF Shrunk, Tidy, StreamsAgree
  <1> QED BY <1>2, <1>3, <1>4

\* After deletions every handle that is open has its owner, and those that
\* were closed were of nobody who stays.
LEMMA ShrinkOwned ==
    ASSUME NEW t, NEW cf, NEW sf, NEW st, NEW lk, Owned(t, cf, sf, st, lk),
           NEW u, Shrunk(t, u)
    PROVE  LET cl == ClosedBy(t, u, cf, sf) IN
           /\ Owned(u, [c \in CID |-> IF c \in LiveClients(u) THEN cf[c] ELSE None],
                    [s \in SID |-> IF s \in LiveStreams(u) THEN sf[s] ELSE None],
                    [f \in FH |-> IF f \in cl THEN "closed" ELSE st[f]], lk)
           /\ \A c \in LiveClients(u) : cf[c] \notin cl
           /\ \A s \in LiveStreams(u) : sf[s] \notin cl
  <1> DEFINE cl == ClosedBy(t, u, cf, sf)
             cf2 == [c \in CID |-> IF c \in LiveClients(u) THEN cf[c] ELSE None]
             sf2 == [s \in SID |-> IF s \in LiveStreams(u) THEN sf[s] ELSE None]
             st2 == [f \in FH |-> IF f \in cl THEN "closed" ELSE st[f]]
  <1>1. /\ Tidy(t, {}) /\ Apart(t, cf, sf) /\ Tidy(u, {})
        /\ cf \in [CID -> FH \cup {None}] /\ sf \in [SID -> FH \cup {None, Full}]
        /\ st \in [FH -> States] /\ lk \subseteq FH
        /\ LiveStreams(u) \subseteq LiveStreams(t) /\ LiveClients(u) \subseteq LiveClients(t)
        /\ LiveStreams(t) \subseteq SID /\ LiveClients(t) \subseteq CID
        /\ \A c \in LiveClients(u) : u.clients[c].execed = t.clients[c].execed
        /\ None \notin SID
    BY NoneIsNoStream DEF Owned, Shrunk, LiveStreams, LiveClients
  <1>2. /\ \A c \in LiveClients(u) : cf2[c] = cf[c]
        /\ \A s \in LiveStreams(u) : sf2[s] = sf[s]
        /\ \A f \in FH : st2[f] = IF f \in cl THEN "closed" ELSE st[f]
    BY <1>1
  <1>3. /\ cf2 \in [CID -> FH \cup {None}] /\ sf2 \in [SID -> FH \cup {None, Full}]
        /\ st2 \in [FH -> States]
        /\ \A c \in CID \ LiveClients(u) : cf2[c] = None
        /\ \A s \in SID \ LiveStreams(u) : sf2[s] = None
    BY <1>1 DEF States
  <1>4. \A c \in LiveClients(t) : t.clients[c].execed # None =>
          /\ t.clients[c].execed \in LiveStreams(t)
          /\ c \in LiveClients(u) <=> t.clients[c].execed \in LiveStreams(u)
          /\ cf[c] \in FH /\ sf[t.clients[c].execed] = cf[c]
    BY <1>1, ShrunkTogether DEF Apart
  <1> HIDE DEF cf2, sf2, st2
  <1>5. \A c \in LiveClients(u) : cf[c] \notin cl
    <2> SUFFICES ASSUME NEW c \in LiveClients(u), cf[c] \in cl PROVE FALSE
      OBVIOUS
    <2>1. CASE \E s \in LiveStreams(t) \ LiveStreams(u) : cf[c] = sf[s]
      <3>1. PICK s \in LiveStreams(t) \ LiveStreams(u) : cf[c] = sf[s]
        BY <2>1
      <3>2. cf[c] \in FH
        BY DEF ClosedBy
      <3>3. t.clients[c].execed = s
        BY <1>1, <3>1, <3>2 DEF Apart
      <3> QED BY <1>1, <1>4, <3>1, <3>3
    <2>2. CASE \E k \in LiveClients(t) \ LiveClients(u) : cf[c] = cf[k]
      BY <1>1, <2>2 DEF Apart, ClosedBy
    <2> QED BY <2>1, <2>2 DEF ClosedBy
  <1>6. \A s \in LiveStreams(u) : sf[s] \notin cl
    <2> SUFFICES ASSUME NEW s \in LiveStreams(u), sf[s] \in cl PROVE FALSE
      OBVIOUS
    <2>1. CASE \E i \in LiveStreams(t) \ LiveStreams(u) : sf[s] = sf[i]
      BY <1>1, <2>1 DEF Apart, ClosedBy
    <2>2. CASE \E k \in LiveClients(t) \ LiveClients(u) : sf[s] = cf[k] /\ t.clients[k].execed = None
      <3>1. PICK k \in LiveClients(t) \ LiveClients(u) : sf[s] = cf[k] /\ t.clients[k].execed = None
        BY <2>2
      <3>2. t.clients[k].execed = s
        BY <1>1, <3>1 DEF Apart, ClosedBy
      <3> QED BY <1>1, <3>1, <3>2
    <2> QED BY <2>1, <2>2 DEF ClosedBy
  <1>7. Apart(u, cf2, sf2)
    <2>1. ASSUME NEW c \in LiveClients(u), u.clients[c].execed # None
          PROVE  cf2[c] \in FH /\ sf2[u.clients[c].execed] = cf2[c]
      <3>1. c \in LiveClients(t) /\ u.clients[c].execed = t.clients[c].execed
        BY <1>1
      <3>2. t.clients[c].execed \in LiveStreams(u) /\ cf[c] \in FH /\ sf[t.clients[c].execed] = cf[c]
        BY <1>4, <2>1, <3>1
      <3> QED BY <1>2, <3>1, <3>2
    <2> QED BY <1>1, <1>2, <2>1 DEF Apart
  <1>8. ASSUME NEW f \in FH
        PROVE  st2[f] # "closed" <=> Held(u, cf2, sf2, lk, f)
    <2>1. st[f] # "closed" <=> Held(t, cf, sf, lk, f)
      BY DEF Owned
    <2>2. ASSUME st2[f] # "closed"
          PROVE  Held(u, cf2, sf2, lk, f)
      <3>1. f \notin cl /\ Held(t, cf, sf, lk, f)
        BY <1>2, <2>1, <2>2
      <3>2. ASSUME NEW s \in LiveStreams(t), sf[s] = f
            PROVE  Held(u, cf2, sf2, lk, f)
        BY <1>2, <3>1, <3>2 DEF ClosedBy, Held
      <3>3. ASSUME NEW c \in LiveClients(t), cf[c] = f
            PROVE  Held(u, cf2, sf2, lk, f)
        <4>1. CASE c \in LiveClients(u)
          BY <1>2, <3>3, <4>1 DEF Held
        <4>2. CASE c \notin LiveClients(u)
          <5>1. t.clients[c].execed # None
            BY <3>1, <3>3, <4>2 DEF ClosedBy
          <5> QED BY <1>4, <3>2, <3>3, <5>1
        <4> QED BY <4>1, <4>2
      <3> QED BY <3>1, <3>2, <3>3 DEF Held
    <2>3. ASSUME Held(u, cf2, sf2, lk, f)
          PROVE  st2[f] # "closed"
      <3>1. CASE f \in lk
        <4>1. f \notin cl
          BY <3>1 DEF Owned, ClosedBy
        <4> QED BY <1>2, <2>1, <3>1, <4>1 DEF Held
      <3>2. ASSUME NEW c \in LiveClients(u), cf2[c] = f
            PROVE  st2[f] # "closed"
        <4>1. cf[c] = f /\ c \in LiveClients(t) /\ f \notin cl
          BY <1>1, <1>2, <1>5, <3>2
        <4> QED BY <1>2, <2>1, <4>1 DEF Held
      <3>3. ASSUME NEW s \in LiveStreams(u), sf2[s] = f
            PROVE  st2[f] # "closed"
        <4>1. sf[s] = f /\ s \in LiveStreams(t) /\ f \notin cl
          BY <1>1, <1>2, <1>6, <3>3
        <4> QED BY <1>2, <2>1, <4>1 DEF Held
      <3> QED BY <2>3, <3>1, <3>2, <3>3 DEF Held
    <2> QED BY <2>2, <2>3
  <1>9. \A f \in lk : /\ \A c \in LiveClients(u) : cf2[c] # f
                      /\ \A s \in LiveStreams(u) : sf2[s] # f
    BY <1>1, <1>2 DEF Owned
  <1>10. Owned(u, cf2, sf2, st2, lk)
    BY <1>1, <1>3, <1>7, <1>8, <1>9 DEF Owned
  <1> QED BY <1>5, <1>6, <1>10 DEF cf2, sf2, st2

-----------------------------------------------------------------------------
(* Handles that are given and taken *)

\* Nothing changes but entries that say nothing of handles, new streams, which
\* have none, and what can be read.
LEMMA GrownOwned ==
    ASSUME NEW t, NEW cf, NEW sf, NEW st, NEW lk, Owned(t, cf, sf, st, lk),
           NEW u, Tidy(u, {}), LiveClients(u) = LiveClients(t),
           LiveStreams(t) \subseteq LiveStreams(u),
           \A c \in LiveClients(t) : u.clients[c].execed = t.clients[c].execed,
           NEW st2 \in [FH -> States],
           \A f \in FH : st2[f] = "closed" <=> st[f] = "closed"
    PROVE  Owned(u, cf, sf, st2, lk)
  <1>1. /\ Apart(t, cf, sf) /\ sf \in [SID -> FH \cup {None, Full}]
        /\ \A s \in LiveStreams(u) \ LiveStreams(t) : sf[s] = None
        /\ None \notin FH
    BY PollAssumption DEF Owned, LiveStreams, FH, None
  <1>2. Apart(u, cf, sf)
    <2>1. \A s \in LiveStreams(u) : sf[s] \in FH => s \in LiveStreams(t)
      BY <1>1
    <2> QED BY <1>1, <2>1 DEF Apart
  <1>3. \A f \in FH : Held(u, cf, sf, lk, f) <=> Held(t, cf, sf, lk, f)
    BY <1>1 DEF Held
  <1>4. \A s \in SID \ LiveStreams(u) : sf[s] = None
    BY DEF Owned
  <1>5. \A f \in lk : \A s \in LiveStreams(u) : sf[s] # f
    BY <1>1 DEF Owned
  <1> QED BY <1>2, <1>3, <1>4, <1>5 DEF Owned

\* A new client gets a handle that was free.
LEMMA GivenOwned ==
    ASSUME NEW t, NEW cf, NEW sf, NEW st, NEW lk, Owned(t, cf, sf, st, lk),
           NEW k \in FreeCIDs(t), NEW f \in FH, st[f] = "closed", NEW x \in States, x # "closed",
           NEW u, Tidy(u, {}), LiveClients(u) = LiveClients(t) \cup {k},
           LiveStreams(u) = LiveStreams(t), u.clients[k].execed = None,
           \A c \in LiveClients(t) : u.clients[c].execed = t.clients[c].execed
    PROVE  Owned(u, [cf EXCEPT ![k] = f], sf, [st EXCEPT ![f] = x], lk)
  <1> DEFINE cf2 == [cf EXCEPT ![k] = f]
             st2 == [st EXCEPT ![f] = x]
  <1>1. /\ k \in CID /\ k \notin LiveClients(t) /\ LiveClients(t) \subseteq CID
        /\ cf \in [CID -> FH \cup {None}] /\ st \in [FH -> States]
        /\ Apart(t, cf, sf)
        /\ ~ Held(t, cf, sf, lk, f)
    BY DEF Owned, FreeCIDs, LiveClients
  <1>2. /\ cf2 \in [CID -> FH \cup {None}] /\ st2 \in [FH -> States]
        /\ cf2[k] = f /\ \A c \in CID \ {k} : cf2[c] = cf[c]
        /\ st2[f] = x /\ \A g \in FH \ {f} : st2[g] = st[g]
    BY <1>1
  <1> HIDE DEF cf2, st2
  <1>3. /\ \A c \in LiveClients(t) : c # k /\ cf2[c] = cf[c] /\ cf[c] # f
        /\ \A s \in LiveStreams(t) : sf[s] # f
        /\ f \notin lk
    BY <1>1, <1>2 DEF Held
  <1>4. Apart(u, cf2, sf)
    BY <1>1, <1>2, <1>3 DEF Apart
  <1>5. ASSUME NEW g \in FH
        PROVE  st2[g] # "closed" <=> Held(u, cf2, sf, lk, g)
    <2>1. CASE g = f
      BY <1>2, <2>1 DEF Held
    <2>2. CASE g # f
      <3>1. Held(u, cf2, sf, lk, g) <=> Held(t, cf, sf, lk, g)
        BY <1>2, <1>3, <2>2 DEF Held
      <3> QED BY <1>2, <2>2, <3>1 DEF Owned
    <2> QED BY <2>1, <2>2
  <1>6. \A c \in CID \ LiveClients(u) : cf2[c] = None
    BY <1>2 DEF Owned
  <1>7. \A g \in lk : \A c \in LiveClients(u) : cf2[c] # g
    BY <1>2, <1>3 DEF Owned
  <1>8. Owned(u, cf2, sf, st2, lk)
    BY <1>2, <1>4, <1>5, <1>6, <1>7 DEF Owned
  <1> QED BY <1>8 DEF cf2, st2

\* A stream that had no handle gets one that was free.
LEMMA TakenOwned ==
    ASSUME NEW t, NEW cf, NEW sf, NEW st, NEW lk, Owned(t, cf, sf, st, lk),
           NEW s \in LiveStreams(t), sf[s] = None,
           NEW f \in FH, st[f] = "closed", NEW x \in States, x # "closed",
           NEW u, Tidy(u, {}), LiveClients(u) = LiveClients(t), LiveStreams(u) = LiveStreams(t),
           \A c \in LiveClients(t) : u.clients[c].execed = t.clients[c].execed
    PROVE  Owned(u, cf, [sf EXCEPT ![s] = f], [st EXCEPT ![f] = x], lk)
  <1> DEFINE sf2 == [sf EXCEPT ![s] = f]
             st2 == [st EXCEPT ![f] = x]
  <1>1. /\ s \in SID /\ LiveStreams(t) \subseteq SID /\ None \notin FH
        /\ sf \in [SID -> FH \cup {None, Full}] /\ st \in [FH -> States]
        /\ Apart(t, cf, sf)
        /\ ~ Held(t, cf, sf, lk, f)
    BY PollAssumption DEF Owned, LiveStreams, FH, None
  <1>2. /\ sf2 \in [SID -> FH \cup {None, Full}] /\ st2 \in [FH -> States]
        /\ sf2[s] = f /\ \A i \in SID \ {s} : sf2[i] = sf[i]
        /\ st2[f] = x /\ \A g \in FH \ {f} : st2[g] = st[g]
    BY <1>1
  <1> HIDE DEF sf2, st2
  <1>3. /\ \A i \in LiveStreams(t) : sf[i] # f
        /\ \A c \in LiveClients(t) : cf[c] # f /\ t.clients[c].execed # s
        /\ f \notin lk
    BY <1>1, NoneIsNoStream DEF Held, Apart
  <1>4. Apart(u, cf, sf2)
    <2>1. \A c \in LiveClients(t) : t.clients[c].execed # None => t.clients[c].execed \in LiveStreams(t)
      BY DEF Owned, Tidy, ExecedListed, SlotsAgree, SlotSet
    <2> QED BY <1>1, <1>2, <1>3, <2>1 DEF Apart
  <1>5. ASSUME NEW g \in FH
        PROVE  st2[g] # "closed" <=> Held(u, cf, sf2, lk, g)
    <2>1. CASE g = f
      BY <1>2, <2>1 DEF Held
    <2>2. CASE g # f
      <3>1. Held(u, cf, sf2, lk, g) <=> Held(t, cf, sf, lk, g)
        BY <1>1, <1>2, <2>2 DEF Held
      <3> QED BY <1>2, <2>2, <3>1 DEF Owned
    <2> QED BY <2>1, <2>2
  <1>6. \A i \in SID \ LiveStreams(u) : sf2[i] = None
    BY <1>2 DEF Owned
  <1>7. \A g \in lk : \A i \in LiveStreams(u) : sf2[i] # g
    BY <1>1, <1>2, <1>3 DEF Owned
  <1>8. Owned(u, cf, sf2, st2, lk)
    BY <1>2, <1>4, <1>5, <1>6, <1>7 DEF Owned
  <1> QED BY <1>8 DEF sf2, st2

\* A stream that had no handle gets that of the client that becomes it.
LEMMA SharedOwned ==
    ASSUME NEW t, NEW cf, NEW sf, NEW st, NEW lk, Owned(t, cf, sf, st, lk),
           NEW s \in LiveStreams(t), sf[s] = None,
           NEW c \in LiveClients(t), cf[c] \in FH, t.clients[c].execed = None,
           NEW u, Tidy(u, {}), LiveClients(u) = LiveClients(t), LiveStreams(u) = LiveStreams(t),
           u.clients[c].execed = s,
           \A d \in LiveClients(t) \ {c} : u.clients[d].execed = t.clients[d].execed
    PROVE  Owned(u, cf, [sf EXCEPT ![s] = cf[c]], st, lk)
  <1> DEFINE sf2 == [sf EXCEPT ![s] = cf[c]]
  <1>1. /\ s \in SID /\ LiveStreams(t) \subseteq SID /\ None \notin FH /\ s # None
        /\ sf \in [SID -> FH \cup {None, Full}]
        /\ Apart(t, cf, sf)
    BY PollAssumption, NoneIsNoStream DEF Owned, LiveStreams, FH, None
  <1>2. /\ sf2 \in [SID -> FH \cup {None, Full}]
        /\ sf2[s] = cf[c] /\ \A i \in SID \ {s} : sf2[i] = sf[i]
    BY <1>1
  <1> HIDE DEF sf2
  <1>3. /\ \A i \in LiveStreams(t) : sf[i] # cf[c]
        /\ \A d \in LiveClients(t) : t.clients[d].execed # s
        /\ \A d \in LiveClients(t) : cf[d] = cf[c] => d = c
    BY <1>1, NoneIsNoStream DEF Apart, LiveStreams
  <1>4. Apart(u, cf, sf2)
    <2>1. \A d \in LiveClients(t) : t.clients[d].execed # None => t.clients[d].execed \in LiveStreams(t)
      BY DEF Owned, Tidy, ExecedListed, SlotsAgree, SlotSet
    <2>2. ASSUME NEW i \in LiveStreams(t), NEW j \in LiveStreams(t), sf2[i] \in FH, sf2[i] = sf2[j]
          PROVE  i = j
      BY <1>1, <1>2, <1>3, <2>2 DEF Apart
    <2>3. ASSUME NEW d \in LiveClients(t), NEW i \in LiveStreams(t), cf[d] \in FH, cf[d] = sf2[i]
          PROVE  u.clients[d].execed = i
      BY <1>1, <1>2, <1>3, <2>3 DEF Apart
    <2>4. ASSUME NEW d \in LiveClients(t), u.clients[d].execed # None
          PROVE  cf[d] \in FH /\ sf2[u.clients[d].execed] = cf[d]
      BY <1>1, <1>2, <1>3, <2>1, <2>4 DEF Apart
    <2> QED BY <1>1, <2>2, <2>3, <2>4 DEF Apart
  <1>5. \A g \in FH : Held(u, cf, sf2, lk, g) <=> Held(t, cf, sf, lk, g)
    BY <1>1, <1>2 DEF Held
  <1>6. \A i \in SID \ LiveStreams(u) : sf2[i] = None
    BY <1>2 DEF Owned
  <1>7. \A g \in lk : \A i \in LiveStreams(u) : sf2[i] # g
    BY <1>1, <1>2 DEF Owned
  <1>8. Owned(u, cf, sf2, st, lk)
    BY <1>2, <1>4, <1>5, <1>6, <1>7 DEF Owned
  <1> QED BY <1>8 DEF sf2

\* A client that is closed has no handle any more.
LEMMA ClosedOwned ==
    ASSUME NEW t, NEW cf, NEW sf, NEW st, NEW lk, Owned(t, cf, sf, st, lk),
           NEW c \in LiveClients(t), cf[c] \in FH, t.clients[c].execed = None,
           NEW u, Tidy(u, {}), LiveClients(u) = LiveClients(t), LiveStreams(u) = LiveStreams(t),
           \A d \in LiveClients(t) : u.clients[d].execed = t.clients[d].execed
    PROVE  Owned(u, [cf EXCEPT ![c] = None], sf, [st EXCEPT ![cf[c]] = "closed"], lk)
  <1> DEFINE f == cf[c]
             cf2 == [cf EXCEPT ![c] = None]
             st2 == [st EXCEPT ![f] = "closed"]
  <1>1. /\ c \in CID /\ LiveClients(t) \subseteq CID /\ LiveStreams(t) \subseteq SID
        /\ None \notin FH /\ f \in FH
        /\ cf \in [CID -> FH \cup {None}] /\ st \in [FH -> States]
        /\ Apart(t, cf, sf)
    BY PollAssumption DEF Owned, LiveClients, LiveStreams, FH, None
  <1>2. /\ cf2 \in [CID -> FH \cup {None}] /\ st2 \in [FH -> States]
        /\ cf2[c] = None /\ \A d \in CID \ {c} : cf2[d] = cf[d]
        /\ st2[f] = "closed" /\ \A g \in FH \ {f} : st2[g] = st[g]
    BY <1>1 DEF States
  <1> HIDE DEF cf2, st2
  <1>3. /\ \A d \in LiveClients(t) : cf[d] = f => d = c
        /\ \A s \in LiveStreams(t) : sf[s] # f
        /\ f \notin lk
    <2>1. \A s \in LiveStreams(t) : sf[s] # f
      BY <1>1, NoneIsNoStream DEF Apart
    <2> QED BY <1>1, <2>1 DEF Apart, Owned
  <1>4. Apart(u, cf2, sf)
    BY <1>1, <1>2, <1>3 DEF Apart
  <1>5. ASSUME NEW g \in FH
        PROVE  st2[g] # "closed" <=> Held(u, cf2, sf, lk, g)
    <2>1. CASE g = f
      BY <1>1, <1>2, <1>3, <2>1 DEF Held
    <2>2. CASE g # f
      <3>1. Held(u, cf2, sf, lk, g) <=> Held(t, cf, sf, lk, g)
        BY <1>1, <1>2, <2>2 DEF Held
      <3> QED BY <1>2, <2>2, <3>1 DEF Owned
    <2> QED BY <2>1, <2>2
  <1>6. \A d \in CID \ LiveClients(u) : cf2[d] = None
    BY <1>2 DEF Owned
  <1>7. \A g \in lk : \A d \in LiveClients(u) : cf2[d] # g
    BY <1>1, <1>2 DEF Owned
  <1>8. Owned(u, cf2, sf, st2, lk)
    BY <1>2, <1>4, <1>5, <1>6, <1>7 DEF Owned
  <1> QED BY <1>8 DEF cf2, st2

\* A handle that was free is open, and has no client or stream.
LEMMA LeakedOwned ==
    ASSUME NEW t, NEW cf, NEW sf, NEW st, NEW lk, Owned(t, cf, sf, st, lk),
           NEW f \in FH, st[f] = "closed", NEW x \in States, x # "closed"
    PROVE  Owned(t, cf, sf, [st EXCEPT ![f] = x], lk \cup {f})
  <1> DEFINE st2 == [st EXCEPT ![f] = x]
  <1>1. st \in [FH -> States] /\ lk \subseteq FH /\ ~ Held(t, cf, sf, lk, f)
    BY DEF Owned
  <1>2. st2 \in [FH -> States] /\ st2[f] = x /\ \A g \in FH \ {f} : st2[g] = st[g]
    BY <1>1 DEF States
  <1> HIDE DEF st2
  <1>3. ASSUME NEW g \in FH
        PROVE  st2[g] # "closed" <=> Held(t, cf, sf, lk \cup {f}, g)
    <2>1. st[g] # "closed" <=> Held(t, cf, sf, lk, g)
      BY DEF Owned
    <2> QED BY <1>2, <2>1 DEF Held
  <1>4. \A g \in lk \cup {f} : /\ \A c \in LiveClients(t) : cf[c] # g
                               /\ \A s \in LiveStreams(t) : sf[s] # g
    BY <1>1 DEF Owned, Held
  <1>5. Owned(t, cf, sf, st2, lk \cup {f})
    BY <1>1, <1>2, <1>3, <1>4 DEF Owned
  <1> QED BY <1>5 DEF st2

\* Handles of no client and no stream are closed.
LEMMA ShutOwned ==
    ASSUME NEW t, NEW cf, NEW sf, NEW st, NEW lk, Owned(t, cf, sf, st, lk),
           NEW Q \in SUBSET lk
    PROVE  Owned(t, cf, sf, [f \in FH |-> IF f \in Q THEN "closed" ELSE st[f]], lk \ Q)
  <1> DEFINE st2 == [f \in FH |-> IF f \in Q THEN "closed" ELSE st[f]]
  <1>1. st \in [FH -> States] /\ lk \subseteq FH
    BY DEF Owned
  <1>2. st2 \in [FH -> States] /\ \A g \in FH : st2[g] = IF g \in Q THEN "closed" ELSE st[g]
    BY <1>1 DEF States
  <1> HIDE DEF st2
  <1>3. ASSUME NEW g \in FH
        PROVE  st2[g] # "closed" <=> Held(t, cf, sf, lk \ Q, g)
    <2>1. st[g] # "closed" <=> Held(t, cf, sf, lk, g)
      BY DEF Owned
    <2>2. g \in Q => ~ Held(t, cf, sf, lk \ Q, g)
      BY DEF Owned, Held
    <2>3. g \notin Q => (Held(t, cf, sf, lk \ Q, g) <=> Held(t, cf, sf, lk, g))
      BY DEF Held
    <2> QED BY <1>2, <2>1, <2>2, <2>3
  <1>4. \A g \in lk \ Q : /\ \A c \in LiveClients(t) : cf[c] # g
                          /\ \A s \in LiveStreams(t) : sf[s] # g
    BY DEF Owned
  <1>5. Owned(t, cf, sf, st2, lk \ Q)
    BY <1>1, <1>2, <1>3, <1>4 DEF Owned
  <1> QED BY <1>5 DEF st2

-----------------------------------------------------------------------------
(* Requests *)

Objects == Owned(tab, cfh, sfh, state, Others) /\ Unready(tab, sfh) /\ fresh \subseteq FH

\* Client c may be read from: it has a connection, and has not become a stream.
Served(c) == c \in Live /\ cfh[c] \in FH /\ tab.clients[c].execed = None

\* Reading from client c leaves what there is to read from the others.
Spares(c, st) ==
    /\ st \in [FH -> States]
    /\ \A f \in FH : st[f] = "closed" <=> state[f] = "closed"
    /\ \A d \in Live \ {c} :
         cfh[d] \in FH /\ tab.clients[d].execed = None /\ state[cfh[d]] # "quiet" =>
             st[cfh[d]] # "quiet"

\* What a turn may count on when client c has been served: a client has the
\* handle it had, and what there was to read from it if it is not c, or it
\* came in this turn.
Mild(c) ==
    /\ Owned(tab', cfh', sfh', state', Others') /\ Unready(tab', sfh') /\ fresh' \subseteq FH
    /\ \A d \in LiveClients(tab') : cfh'[d] # None =>
         \/ cfh'[d] \in fresh' /\ tab'.clients[d].execed = None
         \/ /\ d \in Live /\ cfh'[d] = cfh[d]
            /\ cfh[d] \in fresh => cfh[d] \in fresh'
            /\ d # c => /\ tab'.clients[d].execed = tab.clients[d].execed
                        /\ tab.clients[d].execed = None /\ state[cfh[d]] # "quiet" =>
                               state'[cfh[d]] # "quiet"

\* Reading from a client spares the others, and so does reading nothing.
LEMMA ReadSpares ==
    ASSUME Objects, NEW c
    PROVE  Spares(c, state) /\ (Served(c) => Spares(c, [state EXCEPT ![cfh[c]] = "quiet"]))
  <1>1. state \in [FH -> States] /\ Apart(tab, cfh, sfh)
        /\ \A f \in FH : state[f] # "closed" <=> Held(tab, cfh, sfh, Others, f)
    BY DEF Objects, Owned
  <1>2. ASSUME Served(c)
        PROVE  Spares(c, [state EXCEPT ![cfh[c]] = "quiet"])
    <2> DEFINE st == [state EXCEPT ![cfh[c]] = "quiet"]
    <2>1. c \in Live /\ cfh[c] \in FH /\ state[cfh[c]] # "closed"
      BY <1>1, <1>2 DEF Served, Held, Live
    <2>2. st \in [FH -> States] /\ st[cfh[c]] = "quiet" /\ \A g \in FH \ {cfh[c]} : st[g] = state[g]
      BY <1>1, <2>1 DEF States
    <2> HIDE DEF st
    <2>3. \A d \in Live \ {c} : cfh[d] # cfh[c]
      BY <1>1, <2>1 DEF Apart, Live
    <2>4. Spares(c, st)
      BY <2>1, <2>2, <2>3 DEF Spares
    <2> QED BY <2>4 DEF st
  <1> QED BY <1>1, <1>2 DEF Spares

\* Deletions are mild.
LEMMA DeletedMild ==
    ASSUME Objects, NEW c, NEW st, Spares(c, st), NEW u, Shrunk(tab, u), Deleted(tab, u, st)
    PROVE  Mild(c)
  <1> DEFINE cl == ClosedBy(tab, u, cfh, sfh)
  <1>1. Closes(tab, u) = cl
    BY DEF Closes, ClosedBy
  <1> HIDE DEF cl
  <1>2. /\ tab' = u
        /\ cfh' = [d \in CID |-> IF d \in LiveClients(u) THEN cfh[d] ELSE None]
        /\ sfh' = [s \in SID |-> IF s \in LiveStreams(u) THEN sfh[s] ELSE None]
        /\ state' = [f \in FH |-> IF f \in cl THEN "closed" ELSE st[f]]
        /\ fresh' = fresh \ cl
        /\ Others' = Others
    BY <1>1 DEF Deleted, Others
  <1>3. Owned(tab, cfh, sfh, st, Others)
    <2>1. /\ Tidy(tab, {}) /\ Owned(tab, cfh, sfh, state, Others)
          /\ st \in [FH -> States] /\ \A f \in FH : st[f] = "closed" <=> state[f] = "closed"
      BY DEF Objects, Owned, Spares
    <2> QED BY <2>1, GrownOwned
  <1>4. /\ Owned(tab', cfh', sfh', state', Others')
        /\ \A d \in LiveClients(u) : cfh[d] \notin cl
    BY <1>2, <1>3, ShrinkOwned DEF cl
  <1>5. /\ LiveStreams(u) \subseteq LiveStreams(tab) /\ LiveClients(u) \subseteq Live
        /\ LiveClients(u) \subseteq CID /\ LiveStreams(u) \subseteq SID
        /\ \A s \in LiveStreams(u) : u.streams[s].ready = tab.streams[s].ready
        /\ \A d \in LiveClients(u) : u.clients[d].execed = tab.clients[d].execed
        /\ cfh \in [CID -> FH \cup {None}]
    BY DEF Shrunk, Live, LiveClients, LiveStreams, Objects, Owned
  <1>6. Unready(tab', sfh')
    BY <1>2, <1>5 DEF Unready, Objects
  <1>7. ASSUME NEW d \in LiveClients(u), cfh'[d] # None
        PROVE  /\ d \in Live /\ cfh'[d] = cfh[d] /\ cfh[d] \in FH
               /\ cfh[d] \in fresh => cfh[d] \in fresh'
               /\ tab'.clients[d].execed = tab.clients[d].execed
               /\ state'[cfh[d]] = st[cfh[d]]
    <2>1. d \in CID /\ cfh'[d] = cfh[d] /\ cfh[d] \in FH /\ cfh[d] \notin cl
      BY <1>2, <1>4, <1>5, <1>7
    <2> QED BY <1>2, <1>5, <2>1
  <1>8. fresh' \subseteq FH
    BY <1>2 DEF Objects
  <1> QED BY <1>2, <1>4, <1>6, <1>7, <1>8 DEF Mild, Spares

\* What is served when nothing but the states of handles changes, and new
\* streams come.
LEMMA GrownMild ==
    ASSUME Objects, NEW c, NEW st, Spares(c, st), state' = st,
           UNCHANGED <<cfh, sfh, Others, fresh>>,
           Tidy(tab', {}), LiveClients(tab') = Live,
           LiveStreams(tab) \subseteq LiveStreams(tab'),
           \A d \in Live : tab'.clients[d].execed = tab.clients[d].execed,
           Unready(tab', sfh)
    PROVE  Mild(c)
  <1>1. Owned(tab', cfh', sfh', state', Others')
    <2>1. /\ Owned(tab, cfh, sfh, state, Others)
          /\ st \in [FH -> States] /\ \A f \in FH : st[f] = "closed" <=> state[f] = "closed"
      BY DEF Objects, Owned, Spares
    <2>2. Owned(tab', cfh, sfh, st, Others)
      BY <2>1, GrownOwned DEF Live
    <2> QED BY <2>2
  <1>2. \A d \in Live : cfh[d] # None => cfh[d] \in FH
    BY DEF Objects, Owned, Live, LiveClients
  <1> QED BY <1>1, <1>2 DEF Mild, Spares, Objects

\* NEW_STREAM.
LEMMA NewStreamMild ==
    ASSUME Objects, NEW c, NEW st, Spares(c, st), Req_new_stream(c, st)
    PROVE  Mild(c)
  <1>1. PICK s \in SID : /\ FirstOf(FreeSIDs(tab), s) /\ CanAdd(tab, c)
                         /\ tab' = streams_set_dir(client_stream_add(streams_new(tab, s), c, s), s, "PLAY")
    BY DEF Req_new_stream
  <1>2. state' = st /\ UNCHANGED <<cfh, sfh, Others, fresh>>
    BY DEF Req_new_stream, listening, Others
  <1>3. /\ Tidy(tab, {}) /\ tab \in TablesType /\ s \in FreeSIDs(tab) /\ s \notin LiveStreams(tab)
        /\ Unready(tab, sfh) /\ \A i \in SID \ LiveStreams(tab) : sfh[i] = None
        /\ LiveClients(tab) \subseteq CID
    BY <1>1 DEF Objects, Owned, Tidy, FirstOf, FreeSIDs, LiveClients
  <1> DEFINE u == streams_new(tab, s)
             v == client_stream_add(u, c, s)
  <1>4. /\ u \in TablesType /\ LiveStreams(u) = LiveStreams(tab) \cup {s}
        /\ LiveClients(u) = LiveClients(tab) /\ u.streams[s] = NewStream
        /\ \A i \in SID \ {s} : u.streams[i] = tab.streams[i]
        /\ u.clients = tab.clients
        /\ Tidy(u, {s})
    BY <1>3, NewStreamLeaves, NewStreamTidy
  <1> HIDE DEF u
  <1>5. s \in LiveStreams(u) /\ u.streams[s].client = None /\ CanAdd(u, c)
    BY <1>1, <1>4 DEF NewStream, CanAdd, FreeSlots
  <1>6. Tidy(v, {})
    BY <1>4, <1>5, AddTidy
  <1>7. PICK k \in Slot : Added(u, c, s, k, v)
    BY <1>4, <1>5, AddLeaves
  <1> HIDE DEF v
  <1>8. /\ v \in TablesType /\ LiveStreams(v) = LiveStreams(u) /\ LiveClients(v) = LiveClients(u)
        /\ \A i \in SID \ {s} : v.streams[i] = u.streams[i]
        /\ \A d \in CID \ {c} : v.clients[d] = u.clients[d]
        /\ v.clients[c].execed = u.clients[c].execed
    <2>1. c \in CID /\ u.clients[c] \in Client
      BY <1>4, <1>5 DEF CanAdd, LiveClients, TablesType
    <2> QED BY <1>7, <2>1 DEF Added, Client
  <1>9. tab' = streams_set_dir(v, s, "PLAY") /\ "PLAY" \in Dir
    BY <1>1 DEF v, u, Dir
  <1> DEFINE w == streams_set_dir(v, s, "PLAY")
  <1>10. /\ Tidy(w, {}) /\ LiveStreams(w) = LiveStreams(v) /\ LiveClients(w) = LiveClients(v)
         /\ \A i \in SID \ {s} : w.streams[i] = v.streams[i]
         /\ w.clients = v.clients
    <2>1. s \in LiveStreams(v) /\ v \in TablesType /\ "PLAY" \in Dir
      BY <1>5, <1>8, <1>9
    <2>2. Tidy(w, {})
      BY <1>6, <2>1, SetDirTidy
    <2>3. Directed(v, s, "PLAY", w)
      BY <2>1, SetDirDirects
    <2> HIDE DEF w
    <2> QED BY <2>2, <2>3 DEF Directed
  <1> HIDE DEF w
  <1>11. /\ Tidy(tab', {}) /\ LiveClients(tab') = Live
         /\ LiveStreams(tab) \subseteq LiveStreams(tab')
         /\ \A d \in Live : tab'.clients[d].execed = tab.clients[d].execed
    BY <1>3, <1>4, <1>8, <1>9, <1>10 DEF w, Live
  <1>12. Unready(tab', sfh)
    <2>1. \A i \in LiveStreams(tab) : tab'.streams[i] = tab.streams[i]
      BY <1>3, <1>4, <1>8, <1>9, <1>10 DEF w, LiveStreams
    <2>2. \A i \in LiveStreams(tab') \ LiveStreams(tab) : sfh[i] = None
      BY <1>3 DEF LiveStreams
    <2> QED BY <1>3, <2>1, <2>2 DEF Unready
  <1> QED BY <1>2, <1>11, <1>12, GrownMild

\* How connecting a stream that is not ready ends: it is ready, and nothing else
\* changes, or it is deleted.
LEMMA ConnectEnds ==
    ASSUME NEW t, Tidy(t, {}), NEW s \in LiveStreams(t), ~ t.streams[s].ready,
           NEW outcome \in Outcomes
    PROVE  LET w == streams_set_fh(t, s, outcome, "plain") IN
           \E v : /\ Tidy(v, {})
                  /\ LiveStreams(v) = LiveStreams(t) /\ LiveClients(v) = LiveClients(t)
                  /\ v.clients = t.clients
                  /\ \A i \in LiveStreams(t) : v.streams[i].client = t.streams[i].client
                  /\ \A i \in LiveStreams(t) \ {s} : v.streams[i].ready = t.streams[i].ready
                  /\ \/ w = v /\ v.streams[s].ready
                     \/ Shrunk(v, w) /\ s \notin LiveStreams(w)
  <1> DEFINE w == streams_set_fh(t, s, outcome, "plain")
  <1>1. t \in TablesType /\ s \in SID /\ outcome \in FhOutcome /\ outcome # "nonblock" /\ "plain" \in Codec
    BY PollAssumption DEF Tidy, LiveStreams, FhOutcome, Codec
  <1>2. PICK q \in Stream :
          /\ q.client = t.streams[s].client
          /\ \/ w = streams_delete(Put(t, s, q), s)
             \/ w = Put(t, s, q) /\ q.ready = (outcome # "nonblock")
    BY <1>1, SetFhLeaves
  <1> HIDE DEF w
  <1> DEFINE v == Put(t, s, q)
  <1>3. /\ v \in TablesType
        /\ LiveStreams(v) = LiveStreams(t) /\ LiveClients(v) = LiveClients(t)
        /\ v.streams[s] = q
        /\ \A i \in SID \ {s} : v.streams[i] = t.streams[i]
        /\ v.clients = t.clients
    BY <1>1, PutLeaves
  <1>4. Tidy(v, {})
    BY <1>2, PutTidy
  <1>5. Shrunk(v, streams_delete(v, s)) /\ s \notin LiveStreams(streams_delete(v, s))
    <2>1. Shrunk(v, streams_delete(v, s))
      BY <1>4, DeletersShrink
    <2> QED BY <1>3, <2>1, DeletedGone
  <1>6. w = streams_delete(v, s) \/ (w = v /\ q.ready)
    BY <1>1, <1>2
  <1> HIDE DEF v
  <1>7. /\ \A i \in LiveStreams(t) : v.streams[i].client = t.streams[i].client
        /\ \A i \in LiveStreams(t) \ {s} : v.streams[i].ready = t.streams[i].ready
    BY <1>2, <1>3 DEF LiveStreams
  <1>8. (w = v /\ v.streams[s].ready) \/ (Shrunk(v, w) /\ s \notin LiveStreams(w))
    BY <1>3, <1>5, <1>6
  <1>9. \E x : /\ Tidy(x, {})
               /\ LiveStreams(x) = LiveStreams(t) /\ LiveClients(x) = LiveClients(t)
               /\ x.clients = t.clients
               /\ \A i \in LiveStreams(t) : x.streams[i].client = t.streams[i].client
               /\ \A i \in LiveStreams(t) \ {s} : x.streams[i].ready = t.streams[i].ready
               /\ (w = x /\ x.streams[s].ready) \/ (Shrunk(x, w) /\ s \notin LiveStreams(w))
    BY <1>3, <1>4, <1>7, <1>8
  <1> QED BY <1>9 DEF w

\* CON_STREAM, and PASSFH for a stream.
LEMMA ConStreamMild ==
    ASSUME Objects, NEW c, NEW st, Spares(c, st), Req_con_stream(c, st)
    PROVE  Mild(c)
  <1>1. PICK s \in SID, f \in FH, outcome \in Outcomes :
          LET u == client_stream_set_fh(tab, c, s, outcome, "plain") IN
          /\ FirstOf(FreeFH, f)
          /\ IF u # tab /\ s \in LiveStreams(u)
             THEN /\ tab' = u
                  /\ sfh' = [sfh EXCEPT ![s] = f]
                  /\ Opens(f, st)
                  /\ UNCHANGED <<cfh, listening, leaked, fresh>>
             ELSE Deleted(tab, u, st)
    BY Zenon DEF Req_con_stream
  <1> DEFINE u == client_stream_set_fh(tab, c, s, outcome, "plain")
  <1>2. /\ Tidy(tab, {}) /\ Owned(tab, cfh, sfh, state, Others) /\ Unready(tab, sfh)
        /\ fresh \subseteq FH /\ cfh \in [CID -> FH \cup {None}]
        /\ state \in [FH -> States]
        /\ st \in [FH -> States] /\ \A g \in FH : st[g] = "closed" <=> state[g] = "closed"
    BY DEF Objects, Owned, Spares
  <1>3. CASE ~ Lists(tab, c, s) \/ tab.streams[s].ready
    <2>1. u = tab
      <3>1. CASE ~ Lists(tab, c, s)
        BY <3>1 DEF client_stream_set_fh
      <3>2. CASE Lists(tab, c, s) /\ tab.streams[s].ready
        BY <3>2 DEF client_stream_set_fh, streams_set_fh
      <3> QED BY <1>3, <3>1, <3>2
    <2> HIDE DEF u
    <2>2. Deleted(tab, tab, st)
      BY <1>1, <2>1 DEF u
    <2>3. Shrunk(tab, tab)
      BY <1>2, DeletersShrink
    <2> QED BY <2>2, <2>3, DeletedMild
  <1>4. CASE Lists(tab, c, s) /\ ~ tab.streams[s].ready
    <2>1. s \in LiveStreams(tab) /\ sfh[s] = None
      <3>1. s \in LiveStreams(tab)
        BY <1>2, <1>4 DEF Lists, SlotSet, Tidy, SlotsAgree
      <3> QED BY <1>2, <1>4, <3>1 DEF Unready
    <2>2. u = streams_set_fh(tab, s, outcome, "plain")
      BY <1>4 DEF client_stream_set_fh
    <2> HIDE DEF u
    <2>3. PICK v : /\ Tidy(v, {})
                   /\ LiveStreams(v) = LiveStreams(tab) /\ LiveClients(v) = LiveClients(tab)
                   /\ v.clients = tab.clients
                   /\ \A i \in LiveStreams(tab) : v.streams[i].client = tab.streams[i].client
                   /\ \A i \in LiveStreams(tab) \ {s} : v.streams[i].ready = tab.streams[i].ready
                   /\ (u = v /\ v.streams[s].ready) \/ (Shrunk(v, u) /\ s \notin LiveStreams(u))
      BY <1>2, <1>4, <2>1, <2>2, ConnectEnds
    <2>4. CASE u = v /\ v.streams[s].ready
      <3>1. u # tab /\ s \in LiveStreams(u)
        BY <1>4, <2>1, <2>3, <2>4
      <3>2. /\ tab' = u /\ sfh' = [sfh EXCEPT ![s] = f]
            /\ Opens(f, st)
            /\ cfh' = cfh /\ Others' = Others /\ fresh' = fresh
        BY <1>1, <3>1 DEF u, listening, Others
      <3>3. PICK x \in {"quiet", "ready"} : state' = [st EXCEPT ![f] = x]
        BY <3>2 DEF Opens
      <3>4. state[f] = "closed" /\ st[f] = "closed" /\ x \in States /\ x # "closed"
        <4>1. f \in FreeFH
          BY <1>1 DEF FirstOf
        <4> QED BY <1>2, <4>1 DEF FreeFH, IsOpen, States
      <3>5. Owned(tab, cfh, sfh, st, Others)
        BY <1>2, GrownOwned
      <3>6. Owned(tab', cfh', sfh', state', Others')
        <4>1. Owned(u, cfh, [sfh EXCEPT ![s] = f], [st EXCEPT ![f] = x], Others)
          BY <2>1, <2>3, <2>4, <3>4, <3>5, TakenOwned
        <4> QED BY <3>2, <3>3, <4>1
      <3>7. Unready(tab', sfh')
        <4>1. \A i \in SID \ {s} : sfh'[i] = sfh[i]
          BY <1>2, <3>2 DEF Owned
        <4> QED BY <1>2, <2>3, <2>4, <3>2, <4>1 DEF Unready, LiveStreams
      <3>8. \A d \in Live : cfh[d] # None => cfh[d] \in FH /\ state'[cfh[d]] = st[cfh[d]]
        <4>1. \A d \in Live : cfh[d] # None => cfh[d] \in FH /\ cfh[d] # f
          BY <1>2, <3>4 DEF Live, LiveClients, Owned, Held
        <4> QED BY <1>2, <3>3, <4>1
      <3>9. LiveClients(tab') = Live /\ \A d \in Live : tab'.clients[d].execed = tab.clients[d].execed
        BY <2>3, <2>4, <3>2 DEF Live
      <3> QED BY <1>2, <3>2, <3>6, <3>7, <3>8, <3>9 DEF Mild, Spares
    <2>5. CASE Shrunk(v, u) /\ s \notin LiveStreams(u)
      <3>1. Deleted(tab, u, st)
        BY <1>1, <2>5 DEF u
      <3>2. Shrunk(tab, u)
        BY <2>3, <2>5 DEF Shrunk
      <3> QED BY <3>1, <3>2, DeletedMild
    <2> QED BY <2>3, <2>4, <2>5
  <1> QED BY <1>3, <1>4

\* EXEC that closes the connection.
LEMMA CloseMild ==
    ASSUME Objects, NEW c, Served(c), NEW st, Spares(c, st),
           tab' = clients_close(tab, c), cfh' = [cfh EXCEPT ![c] = None],
           state' = [st EXCEPT ![cfh[c]] = "closed"], fresh' = fresh \ {cfh[c]},
           UNCHANGED <<sfh, Others>>
    PROVE  Mild(c)
  <1> DEFINE x == [tab.clients[c] EXCEPT !.fh = FALSE]
             u == [tab EXCEPT !.clients[c] = x]
  <1>1. /\ Tidy(tab, {}) /\ tab \in TablesType /\ Owned(tab, cfh, sfh, state, Others)
        /\ Unready(tab, sfh) /\ fresh \subseteq FH /\ cfh \in [CID -> FH \cup {None}]
        /\ Apart(tab, cfh, sfh)
        /\ c \in LiveClients(tab) /\ c \in CID /\ cfh[c] \in FH /\ tab.clients[c].execed = None
        /\ st \in [FH -> States] /\ \A g \in FH : st[g] = "closed" <=> state[g] = "closed"
        /\ None \notin FH
    BY PollAssumption DEF Objects, Owned, Spares, Served, Live, LiveClients, Tidy, FH, None
  <1>2. x \in Client /\ x.streams = tab.clients[c].streams /\ x.execed = None
    <2>1. tab.clients[c] \in Client
      BY <1>1 DEF TablesType, LiveClients
    <2> QED BY <1>1, <2>1 DEF Client
  <1>3. tab' = u
    BY DEF clients_close
  <1> HIDE DEF x
  <1>4. /\ Tidy(u, {}) /\ u.streams = tab.streams
        /\ LiveStreams(u) = LiveStreams(tab) /\ LiveClients(u) = LiveClients(tab)
        /\ u.clients[c] = x /\ \A d \in CID \ {c} : u.clients[d] = tab.clients[d]
    BY <1>1, <1>2, ClientLeaves, ClientTidy, SMTT(60)
  <1> HIDE DEF u
  <1>5. \A d \in LiveClients(tab) : u.clients[d].execed = tab.clients[d].execed
    BY <1>1, <1>2, <1>4 DEF LiveClients
  <1>6. Owned(tab, cfh, sfh, st, Others)
    BY <1>1, GrownOwned
  <1>7. Owned(tab', cfh', sfh', state', Others')
    <2>1. Owned(u, [cfh EXCEPT ![c] = None], sfh, [st EXCEPT ![cfh[c]] = "closed"], Others)
      BY <1>1, <1>4, <1>5, <1>6, ClosedOwned, ZenonT(60)
    <2> QED BY <1>3, <2>1
  <1>8. Unready(tab', sfh')
    BY <1>1, <1>3, <1>4 DEF Unready
  <1>9. ASSUME NEW d \in LiveClients(tab'), cfh'[d] # None
        PROVE  /\ d \in Live /\ cfh'[d] = cfh[d] /\ cfh[d] \in FH
               /\ cfh[d] \in fresh => cfh[d] \in fresh'
               /\ tab'.clients[d].execed = tab.clients[d].execed
               /\ state'[cfh[d]] = st[cfh[d]]
    <2>1. d \in LiveClients(tab) /\ d \in CID /\ d # c /\ cfh'[d] = cfh[d] /\ cfh[d] \in FH
      BY <1>1, <1>3, <1>4, <1>9 DEF LiveClients
    <2>2. cfh[d] # cfh[c]
      BY <1>1, <2>1 DEF Apart
    <2> QED BY <1>1, <1>3, <1>5, <2>1, <2>2 DEF Live
  <1>10. fresh' \subseteq FH
    BY <1>1
  <1> QED BY <1>7, <1>8, <1>9, <1>10 DEF Mild, Spares

\* EXEC.
LEMMA ExecMild ==
    ASSUME Objects, NEW c, Served(c), NEW st, Spares(c, st), Req_exec_stream(c, st)
    PROVE  Mild(c)
  <1>1. PICK s \in SID, outcome \in Outcomes :
          IF s \notin LiveStreams(tab) \/ tab.streams[s].ready
          THEN /\ tab' = clients_close(tab, c)
               /\ cfh' = [cfh EXCEPT ![c] = None]
               /\ state' = [st EXCEPT ![cfh[c]] = "closed"]
               /\ fresh' = fresh \ {cfh[c]}
               /\ UNCHANGED <<sfh, listening, leaked>>
          ELSE LET t == IF Lists(tab, c, s) THEN [tab EXCEPT !.clients[c].execed = s] ELSE tab
                   u == client_stream_exec(tab, c, s, outcome, "plain")
               IN  IF Lists(tab, c, s) /\ s \in LiveStreams(u)
                   THEN /\ tab' = u
                        /\ sfh' = [sfh EXCEPT ![s] = cfh[c]]
                        /\ state' = st
                        /\ UNCHANGED <<cfh, listening, leaked, fresh>>
                   ELSE Deleted(t, u, IF t = tab THEN st ELSE [st EXCEPT ![cfh[c]] = "closed"])
    BY Zenon DEF Req_exec_stream
  <1> DEFINE x == [tab.clients[c] EXCEPT !.execed = s]
             t == [tab EXCEPT !.clients[c] = x]
             u == client_stream_exec(tab, c, s, outcome, "plain")
  <1>2. /\ Tidy(tab, {}) /\ tab \in TablesType /\ Owned(tab, cfh, sfh, state, Others)
        /\ Unready(tab, sfh) /\ fresh \subseteq FH /\ cfh \in [CID -> FH \cup {None}]
        /\ sfh \in [SID -> FH \cup {None, Full}]
        /\ Apart(tab, cfh, sfh)
        /\ c \in LiveClients(tab) /\ c \in CID /\ cfh[c] \in FH /\ tab.clients[c].execed = None
        /\ st \in [FH -> States] /\ \A g \in FH : st[g] = "closed" <=> state[g] = "closed"
        /\ None \notin FH /\ s # None
    BY PollAssumption, NoneIsNoStream DEF Objects, Owned, Spares, Served, Live, LiveClients, Tidy, FH, None
  <1>3. CASE s \notin LiveStreams(tab) \/ tab.streams[s].ready
    <2>1. /\ tab' = clients_close(tab, c) /\ cfh' = [cfh EXCEPT ![c] = None]
          /\ state' = [st EXCEPT ![cfh[c]] = "closed"] /\ fresh' = fresh \ {cfh[c]}
          /\ UNCHANGED <<sfh, listening, leaked>>
      BY <1>1, <1>3
    <2>2. UNCHANGED <<sfh, Others>>
      BY <2>1 DEF listening, Others
    <2> QED BY <2>1, <2>2, CloseMild
  <1>4. CASE s \in LiveStreams(tab) /\ ~ tab.streams[s].ready /\ ~ Lists(tab, c, s)
    <2>1. u = tab
      BY <1>4 DEF client_stream_exec
    <2> HIDE DEF u
    <2>2. Deleted(tab, tab, st)
      BY <1>1, <1>4, <2>1 DEF u
    <2>3. Shrunk(tab, tab)
      BY <1>2, DeletersShrink
    <2> QED BY <2>2, <2>3, DeletedMild
  <1>5. CASE s \in LiveStreams(tab) /\ ~ tab.streams[s].ready /\ Lists(tab, c, s)
    <2>1. sfh[s] = None
      BY <1>2, <1>5 DEF Unready
    <2>2. x \in Client /\ x.streams = tab.clients[c].streams /\ x.execed = s
      BY <1>2 DEF TablesType, LiveClients, Client
    <2>3. u = streams_set_fh(t, s, outcome, "plain") /\ t = [tab EXCEPT !.clients[c].execed = s]
      BY <1>5 DEF client_stream_exec
    <2> HIDE DEF x, u
    <2>4. /\ Tidy(t, {}) /\ t.streams = tab.streams
          /\ LiveStreams(t) = LiveStreams(tab) /\ LiveClients(t) = LiveClients(tab)
          /\ t.clients[c] = x /\ \A d \in CID \ {c} : t.clients[d] = tab.clients[d]
      <3>1. x.execed \in SlotSet(tab, c)
        BY <1>5, <2>2 DEF Lists
      <3> QED BY <1>2, <2>2, <3>1, ClientLeaves, ClientTidy, SMTT(60)
    <2>5. t # tab
      BY <1>2, <2>2, <2>4
    <2>6. IF s \in LiveStreams(u)
          THEN tab' = u /\ sfh' = [sfh EXCEPT ![s] = cfh[c]] /\ state' = st /\ UNCHANGED <<cfh, listening, leaked, fresh>>
          ELSE Deleted(t, u, [st EXCEPT ![cfh[c]] = "closed"])
      <3>1. (IF Lists(tab, c, s) THEN [tab EXCEPT !.clients[c].execed = s] ELSE tab) = t
        BY <1>5, <2>3
      <3> HIDE DEF t
      <3> QED BY <1>1, <1>5, <2>5, <3>1 DEF u
    <2> HIDE DEF t
    <2>7. PICK v : /\ Tidy(v, {})
                   /\ LiveStreams(v) = LiveStreams(t) /\ LiveClients(v) = LiveClients(t)
                   /\ v.clients = t.clients
                   /\ \A i \in LiveStreams(t) : v.streams[i].client = t.streams[i].client
                   /\ \A i \in LiveStreams(t) \ {s} : v.streams[i].ready = t.streams[i].ready
                   /\ (u = v /\ v.streams[s].ready) \/ (Shrunk(v, u) /\ s \notin LiveStreams(u))
      <3>1. s \in LiveStreams(t) /\ ~ t.streams[s].ready
        BY <1>5, <2>4
      <3> QED BY <2>3, <2>4, <3>1, ConnectEnds
    <2> DEFINE sf2 == [sfh EXCEPT ![s] = cfh[c]]
    <2>8. Owned(v, cfh, sf2, st, Others)
      <3>1. Owned(tab, cfh, sfh, st, Others)
        BY <1>2, GrownOwned
      <3>2. /\ LiveClients(v) = LiveClients(tab) /\ LiveStreams(v) = LiveStreams(tab)
            /\ v.clients[c].execed = s
            /\ \A d \in LiveClients(tab) \ {c} : v.clients[d].execed = tab.clients[d].execed
        BY <2>2, <2>4, <2>7 DEF LiveClients
      <3> QED BY <1>2, <1>5, <2>1, <2>7, <3>1, <3>2, SharedOwned, ZenonT(60)
    <2>9. sf2[s] = cfh[c] /\ \A i \in SID \ {s} : sf2[i] = sfh[i]
      BY <1>2
    <2>10. \A d \in LiveClients(tab) \ {c} : v.clients[d].execed = tab.clients[d].execed
      BY <2>4, <2>7 DEF LiveClients
    <2> HIDE DEF sf2
    <2>11. \A d \in Live : cfh[d] # None => cfh[d] \in FH
      BY <1>2 DEF Live, LiveClients
    <2>12. CASE u = v /\ v.streams[s].ready
      <3>1. tab' = v /\ sfh' = sf2 /\ state' = st /\ cfh' = cfh /\ Others' = Others /\ fresh' = fresh
        BY <1>5, <2>4, <2>6, <2>7, <2>12 DEF sf2, listening, Others
      <3>2. Unready(tab', sfh')
        BY <1>2, <2>4, <2>7, <2>9, <2>12, <3>1 DEF Unready, LiveStreams
      <3>3. LiveClients(tab') = Live
        BY <2>4, <2>7, <3>1 DEF Live
      <3> QED BY <1>2, <2>8, <2>10, <2>11, <3>1, <3>2, <3>3 DEF Mild, Spares, Live
    <2>13. CASE Shrunk(v, u) /\ s \notin LiveStreams(u)
      <3> DEFINE st2 == [st EXCEPT ![cfh[c]] = "closed"]
                 cl == Closes(t, u)
                 cl2 == ClosedBy(v, u, cfh, sf2)
      <3>1. /\ tab' = u
            /\ cfh' = [d \in CID |-> IF d \in LiveClients(u) THEN cfh[d] ELSE None]
            /\ sfh' = [i \in SID |-> IF i \in LiveStreams(u) THEN sfh[i] ELSE None]
            /\ state' = [f \in FH |-> IF f \in cl THEN "closed" ELSE st2[f]]
            /\ fresh' = fresh \ cl
            /\ Others' = Others
        BY <2>6, <2>13 DEF Deleted, Others
      <3>2. cl2 = cl \cup {cfh[c]}
        <4>1. LiveStreams(t) \subseteq SID /\ s \in LiveStreams(t) \ LiveStreams(u)
          BY <1>5, <2>4, <2>13 DEF LiveStreams
        <4>2. LiveStreams(v) \ LiveStreams(u) = LiveStreams(t) \ LiveStreams(u)
              /\ LiveClients(v) \ LiveClients(u) = LiveClients(t) \ LiveClients(u)
          BY <2>7
        <4>3. {sf2[i] : i \in LiveStreams(t) \ LiveStreams(u)} \cap FH
                = ({sfh[i] : i \in LiveStreams(t) \ LiveStreams(u)} \cap FH) \cup {cfh[c]}
          BY <1>2, <2>1, <2>9, <4>1
        <4> QED BY <2>7, <4>2, <4>3 DEF Closes, ClosedBy
      <3>3. st2 \in [FH -> States] /\ st2[cfh[c]] = "closed" /\ \A g \in FH \ {cfh[c]} : st2[g] = st[g]
        BY <1>2 DEF States
      <3>4. state' = [f \in FH |-> IF f \in cl2 THEN "closed" ELSE st[f]]
        <4> HIDE DEF st2, cl, cl2
        <4>1. \A f \in FH : (IF f \in cl THEN "closed" ELSE st2[f]) = (IF f \in cl2 THEN "closed" ELSE st[f])
          BY <3>2, <3>3
        <4> QED BY <3>1, <4>1
      <3>5. sfh' = [i \in SID |-> IF i \in LiveStreams(u) THEN sf2[i] ELSE None]
        <4>1. \A i \in SID : (IF i \in LiveStreams(u) THEN sfh[i] ELSE None)
                               = (IF i \in LiveStreams(u) THEN sf2[i] ELSE None)
          BY <2>9, <2>13
        <4> QED BY <3>1, <4>1
      <3> HIDE DEF st2, cl, cl2
      <3>6. /\ Owned(tab', cfh', sfh', state', Others')
            /\ \A d \in LiveClients(u) : cfh[d] \notin cl2
        BY <2>8, <2>13, <3>1, <3>4, <3>5, ShrinkOwned DEF cl2
      <3>7. /\ LiveStreams(u) \subseteq LiveStreams(tab) /\ LiveClients(u) \subseteq Live
            /\ LiveClients(u) \subseteq CID /\ LiveStreams(u) \subseteq SID
            /\ \A i \in LiveStreams(u) : u.streams[i].ready = tab.streams[i].ready
            /\ \A d \in LiveClients(u) : u.clients[d].execed = v.clients[d].execed
        BY <2>4, <2>7, <2>13 DEF Shrunk, Live, LiveClients, LiveStreams
      <3>8. Unready(tab', sfh')
        BY <1>2, <3>1, <3>7 DEF Unready
      <3>9. ASSUME NEW d \in LiveClients(u), cfh'[d] # None
            PROVE  /\ d \in Live /\ cfh'[d] = cfh[d] /\ cfh[d] \in FH
                   /\ cfh[d] \in fresh => cfh[d] \in fresh'
                   /\ d # c => tab'.clients[d].execed = tab.clients[d].execed
                   /\ state'[cfh[d]] = st[cfh[d]]
        <4>1. /\ d \in CID /\ d \in Live /\ cfh'[d] = cfh[d] /\ cfh[d] \in FH /\ cfh[d] \notin cl2
              /\ cfh[d] \notin cl
          BY <2>11, <3>1, <3>2, <3>6, <3>7, <3>9
        <4> QED BY <2>10, <3>1, <3>4, <3>7, <4>1 DEF Live
      <3>10. fresh' \subseteq FH
        BY <1>2, <3>1
      <3> QED BY <3>1, <3>6, <3>8, <3>9, <3>10 DEF Mild, Spares
    <2> QED BY <2>7, <2>12, <2>13
  <1> QED BY <1>3, <1>4, <1>5

\* A handle is opened for no client and no stream.
LEMMA OpenMild ==
    ASSUME Objects, NEW c, NEW st, Spares(c, st), NEW f, FirstOf(FreeFH, f),
           NEW x \in States, x # "closed", state' = [st EXCEPT ![f] = x],
           Others' = Others \cup {f}, UNCHANGED <<tab, cfh, sfh, fresh>>
    PROVE  Mild(c)
  <1>1. /\ Owned(tab, cfh, sfh, state, Others)
        /\ Unready(tab, sfh) /\ fresh \subseteq FH
        /\ st \in [FH -> States] /\ \A g \in FH : st[g] = "closed" <=> state[g] = "closed"
        /\ \A d \in Live : cfh[d] # None => cfh[d] \in FH /\ state[cfh[d]] # "closed"
        /\ Tidy(tab, {})
    BY DEF Objects, Owned, Spares, Live, LiveClients, Held
  <1>2. Owned(tab, cfh, sfh, st, Others)
    BY <1>1, GrownOwned
  <1>3. f \in FH /\ state[f] = "closed" /\ st[f] = "closed"
    <2>1. f \in FreeFH
      BY DEF FirstOf
    <2> QED BY <1>1, <2>1 DEF FreeFH, IsOpen
  <1>4. Owned(tab, cfh, sfh, [st EXCEPT ![f] = x], Others \cup {f})
    BY <1>2, <1>3, LeakedOwned
  <1>5. Owned(tab', cfh', sfh', state', Others')
    BY <1>4
  <1>6. \A d \in Live : cfh[d] # None => cfh[d] \in FH /\ state'[cfh[d]] = st[cfh[d]]
    BY <1>1, <1>3
  <1>7. tab' = tab /\ cfh' = cfh /\ sfh' = sfh /\ fresh' = fresh
    OBVIOUS
  <1> QED BY <1>1, <1>5, <1>6, <1>7 DEF Mild, Spares, Live

\* PASSFH for a client.
LEMMA PassMild ==
    ASSUME Objects, NEW c, NEW st, Spares(c, st), Req_passfh(c, st)
    PROVE  Mild(c)
  <1>1. /\ Tidy(tab, {}) /\ tab \in TablesType /\ Owned(tab, cfh, sfh, state, Others)
        /\ Unready(tab, sfh) /\ fresh \subseteq FH /\ cfh \in [CID -> FH \cup {None}]
        /\ LiveClients(tab) \subseteq CID
        /\ st \in [FH -> States] /\ \A g \in FH : st[g] = "closed" <=> state[g] = "closed"
        /\ \A d \in Live : cfh[d] # None => cfh[d] \in FH /\ state[cfh[d]] # "closed"
    BY DEF Objects, Owned, Spares, Live, LiveClients, Tidy, Held
  <1>2. Owned(tab, cfh, sfh, st, Others)
    BY <1>1, GrownOwned
  <1>3. ASSUME NEW f \in FH, NEW k \in CID, FirstOf(FreeCIDs(tab), k),
               Opens(f, st), fresh' = fresh \cup {f},
               tab' = [clients_new(tab, k) EXCEPT !.clients[k].fh = TRUE],
               cfh' = [cfh EXCEPT ![k] = f], UNCHANGED <<sfh, listening, leaked>>
        PROVE  Mild(c)
    <2> DEFINE u == [clients_new(tab, k) EXCEPT !.clients[k].fh = TRUE]
    <2>1. /\ Opens(f, st) /\ fresh' = fresh \cup {f} /\ tab' = u
          /\ cfh' = [cfh EXCEPT ![k] = f] /\ UNCHANGED <<sfh, Others>>
      BY <1>3 DEF listening, Others
    <2>2. k \in FreeCIDs(tab)
      BY <1>3 DEF FirstOf
    <2>3. /\ u \in TablesType /\ u.streams = tab.streams
          /\ u.clients = [tab.clients EXCEPT ![k] = [NewClient EXCEPT !.fh = TRUE]]
          /\ LiveStreams(u) = LiveStreams(tab) /\ LiveClients(u) = LiveClients(tab) \cup {k}
      BY <1>1, <2>2, AcceptLeaves
    <2> HIDE DEF u
    <2>4. Tidy(u, {})
      BY <1>1, <2>2, <2>3, NewClientTidy
    <2>5. /\ k \in CID /\ k \notin LiveClients(tab)
          /\ u.clients[k].execed = None
          /\ \A d \in LiveClients(tab) : u.clients[d].execed = tab.clients[d].execed
      <3>1. k \in CID /\ k \notin LiveClients(tab)
        BY <2>2 DEF FreeCIDs
      <3>2. u.clients[k] = [NewClient EXCEPT !.fh = TRUE] /\ \A d \in CID \ {k} : u.clients[d] = tab.clients[d]
        BY <1>1, <2>3, <3>1 DEF TablesType
      <3> QED BY <1>1, <3>1, <3>2 DEF NewClient
    <2>6. state[f] = "closed" /\ st[f] = "closed"
      <3>1. f \in FreeFH
        BY <2>1 DEF Opens, FirstOf
      <3> QED BY <1>1, <3>1 DEF FreeFH, IsOpen
    <2>7. PICK x \in {"quiet", "ready"} : state' = [st EXCEPT ![f] = x]
      BY <2>1 DEF Opens
    <2>8. x \in States /\ x # "closed"
      BY DEF States
    <2>9. Owned(u, [cfh EXCEPT ![k] = f], sfh, [st EXCEPT ![f] = x], Others)
      BY <1>2, <2>2, <2>3, <2>4, <2>5, <2>6, <2>8, GivenOwned
    <2>10. Owned(tab', cfh', sfh', state', Others')
      BY <2>1, <2>7, <2>9
    <2>11. Unready(tab', sfh') /\ fresh' \subseteq FH
      BY <1>1, <2>1, <2>3 DEF Unready
    <2>12. ASSUME NEW d \in LiveClients(tab'), cfh'[d] # None
           PROVE  \/ cfh'[d] \in fresh' /\ tab'.clients[d].execed = None
                  \/ /\ d \in Live /\ cfh'[d] = cfh[d] /\ cfh[d] \in FH
                     /\ cfh[d] \in fresh => cfh[d] \in fresh'
                     /\ tab'.clients[d].execed = tab.clients[d].execed
                     /\ state'[cfh[d]] = st[cfh[d]]
      <3>1. CASE d = k
        BY <1>1, <2>1, <2>5, <3>1
      <3>2. CASE d # k
        <4>1. d \in LiveClients(tab) /\ d \in Live /\ cfh'[d] = cfh[d]
          BY <1>1, <2>1, <2>3, <3>2 DEF Live
        <4>2. cfh[d] \in FH /\ cfh[d] # f
          BY <1>1, <2>6, <2>12, <4>1
        <4>3. state'[cfh[d]] = st[cfh[d]]
          BY <1>1, <2>7, <4>2
        <4> QED BY <2>1, <2>5, <4>1, <4>2, <4>3
      <3> QED BY <3>1, <3>2
    <2> QED BY <2>10, <2>11, <2>12 DEF Mild, Spares
  <1>4. ASSUME NEW f \in FH, FirstOf(FreeFH, f), leaked' = leaked \cup {f},
               state' = [st EXCEPT ![f] = "quiet"],
               UNCHANGED <<tab, cfh, sfh, listening, fresh>>
        PROVE  Mild(c)
    <2>1. Others' = Others \cup {f}
      BY <1>4 DEF listening, Others
    <2>2. "quiet" \in States
      BY DEF States
    <2> QED BY <1>4, <2>1, <2>2, OpenMild
  <1> QED BY <1>3, <1>4, Zenon DEF Req_passfh

\* PASSFH for a listen socket.
LEMMA ListenMild ==
    ASSUME Objects, NEW c, NEW st, Spares(c, st), Req_listen(c, st)
    PROVE  Mild(c)
  <1>1. PICK f \in FH :
          /\ FirstOf(FreeFH, f)
          /\ IF Cardinality(listen) < LISTEN_MAX
             THEN /\ listen' = listen \cup {f}
                  /\ odd' \in {odd, odd \cup {f}}
                  /\ state' = [st EXCEPT ![f] = "listen"]
             ELSE state' = st /\ UNCHANGED <<listen, odd>>
          /\ UNCHANGED <<tab, cfh, sfh, ghosts, kept, leaked, fresh>>
    BY Zenon DEF Req_listen
  <1>2. CASE listen' = listen \cup {f} /\ state' = [st EXCEPT ![f] = "listen"]
    <2>1. Others' = Others \cup {f}
      BY <1>1, <1>2 DEF Others
    <2>2. "listen" \in States
      BY DEF States
    <2> QED BY <1>1, <1>2, <2>1, <2>2, OpenMild
  <1>3. CASE listen' = listen /\ state' = st
    <2>1. UNCHANGED <<cfh, sfh, Others, fresh>> /\ tab' = tab
      BY <1>1, <1>3 DEF Others
    <2>2. Tidy(tab, {}) /\ Unready(tab, sfh)
      BY DEF Objects, Owned
    <2> QED BY <1>3, <2>1, <2>2, GrownMild DEF Live
  <1> QED BY <1>1, <1>2, <1>3

\* EXIT.
LEMMA ExitMild ==
    ASSUME Objects, leaked \cap listen = {}, NEW c, NEW st, Spares(c, st), Req_exit(c, st)
    PROVE  Mild(c)
  <1>1. /\ listen' = {} /\ leaked' = leaked
        /\ state' = [f \in FH |-> IF f \in listen THEN "closed" ELSE st[f]]
        /\ tab' = tab /\ cfh' = cfh /\ sfh' = sfh /\ fresh' = fresh
    BY DEF Req_exit
  <1>2. Others' = Others \ listen /\ listen \in SUBSET Others
    BY <1>1 DEF Others
  <1>3. /\ Tidy(tab, {}) /\ Owned(tab, cfh, sfh, state, Others)
        /\ Unready(tab, sfh) /\ fresh \subseteq FH
        /\ st \in [FH -> States] /\ \A g \in FH : st[g] = "closed" <=> state[g] = "closed"
        /\ \A d \in Live : cfh[d] # None => cfh[d] \in FH
    BY DEF Objects, Owned, Spares, Live, LiveClients
  <1>4. Owned(tab, cfh, sfh, st, Others)
    BY <1>3, GrownOwned
  <1>5. Owned(tab', cfh', sfh', state', Others')
    BY <1>1, <1>2, <1>4, ShutOwned
  <1>6. \A d \in Live : cfh[d] # None => state'[cfh[d]] = st[cfh[d]]
    <2>1. \A d \in Live : cfh[d] \notin listen
      BY <1>2, <1>3 DEF Owned, Live
    <2> QED BY <1>1, <1>3, <2>1
  <1> QED BY <1>1, <1>3, <1>5, <1>6 DEF Mild, Spares, Live

\* KICK and QUIT.
LEMMA KickMild ==
    ASSUME Objects, NEW c, NEW st, Spares(c, st), Req_kick(c, st)
    PROVE  Mild(c)
  <1>1. Tidy(tab, {})
    BY DEF Objects, Owned
  <1>2. ASSUME NEW k \in CID, Deleted(tab, clients_delete(tab, k), st)
        PROVE  Mild(c)
    BY <1>1, <1>2, DeletersShrink, DeletedMild
  <1>3. ASSUME NEW s \in SID, Deleted(tab, streams_delete(tab, s), st)
        PROVE  Mild(c)
    BY <1>1, <1>3, DeletersShrink, DeletedMild
  <1> QED BY <1>2, <1>3 DEF Req_kick

\* clients_check().
LEMMA CheckMild ==
    ASSUME Objects, leaked \cap listen = {}, NEW c, Served(c), clients_check(c)
    PROVE  Mild(c)
  <1> DEFINE st == [state EXCEPT ![cfh[c]] = "quiet"]
  <1>1. /\ Tidy(tab, {}) /\ Unready(tab, sfh)
        /\ Spares(c, state) /\ Spares(c, st)
    BY ReadSpares DEF Objects, Owned
  <1>2. \/ Deleted(tab, clients_delete(tab, c), state)
        \/ Req_new_stream(c, st) \/ Req_exec_stream(c, st) \/ Req_con_stream(c, st)
        \/ Req_passfh(c, st) \/ Req_listen(c, st) \/ Req_exit(c, st) \/ Req_kick(c, st)
        \/ state' = st /\ UNCHANGED <<tab, cfh, sfh, listening, leaked, fresh, changes>>
    BY Zenon DEF clients_check
  <1> HIDE DEF st
  <1>3. CASE Deleted(tab, clients_delete(tab, c), state)
    BY <1>1, <1>3, DeletersShrink, DeletedMild
  <1>4. CASE state' = st /\ UNCHANGED <<tab, cfh, sfh, listening, leaked, fresh, changes>>
    <2>1. /\ tab' = tab /\ state' = st /\ UNCHANGED <<cfh, sfh, Others, fresh>>
          /\ Tidy(tab', {}) /\ LiveClients(tab') = Live /\ LiveStreams(tab) \subseteq LiveStreams(tab')
          /\ \A d \in Live : tab'.clients[d].execed = tab.clients[d].execed
          /\ Unready(tab', sfh)
      BY <1>1, <1>4 DEF Live, listening, Others
    <2> QED BY <1>1, <2>1, GrownMild
  <1> QED BY <1>1, <1>2, <1>3, <1>4, NewStreamMild, ExecMild, ConStreamMild, PassMild,
         ListenMild, ExitMild, KickMild

-----------------------------------------------------------------------------
(* The passes *)

\* When no object changes the turn can count on all of them.
LEMMA StillMild ==
    ASSUME Objects, NEW st, Spares(None, st), state' = st,
           UNCHANGED <<tab, cfh, sfh, Others, fresh>>
    PROVE  Mild(None)
  <1>1. /\ Tidy(tab', {}) /\ LiveClients(tab') = Live /\ LiveStreams(tab) \subseteq LiveStreams(tab')
        /\ \A d \in Live : tab'.clients[d].execed = tab.clients[d].execed
        /\ Unready(tab', sfh)
    BY DEF Objects, Owned, Live
  <1> QED BY <1>1, GrownMild

\* streams_check() reads from no client.
LEMMA StreamMild ==
    ASSUME Objects, NEW s \in LiveStreams(tab), sfh[s] \in FH, streams_check(s)
    PROVE  Mild(None)
  <1> DEFINE f == sfh[s]
             st == [state EXCEPT ![f] = "quiet"]
  <1>1. /\ Tidy(tab, {}) /\ state \in [FH -> States] /\ Apart(tab, cfh, sfh)
        /\ state[f] # "closed"
        /\ Spares(None, state)
    BY ReadSpares DEF Objects, Owned, Held
  <1>2. CASE UNCHANGED objects
    <2>1. state' = state /\ UNCHANGED <<tab, cfh, sfh, Others, fresh>>
      BY <1>2 DEF objects, listening, Others
    <2> QED BY <1>1, <2>1, StillMild
  <1>3. CASE state' = st /\ UNCHANGED <<tab, cfh, sfh, listening, leaked, fresh, changes>>
    <2>1. \A d \in Live : cfh[d] \in FH /\ tab.clients[d].execed = None => cfh[d] # f
      BY <1>1, NoneIsNoStream DEF Apart, Live, LiveStreams
    <2>2. st \in [FH -> States] /\ st[f] = "quiet" /\ \A g \in FH \ {f} : st[g] = state[g]
      BY <1>1 DEF States
    <2> HIDE DEF st
    <2>3. Spares(None, st)
      BY <1>1, <2>1, <2>2 DEF Spares
    <2>4. UNCHANGED <<tab, cfh, sfh, Others, fresh>>
      BY <1>3 DEF listening, Others
    <2> QED BY <1>3, <2>3, <2>4, StillMild
  <1>4. CASE Deleted(tab, streams_delete(tab, s), state)
    BY <1>1, <1>4, DeletersShrink, DeletedMild
  <1> QED BY <1>2, <1>3, <1>4 DEF streams_check

\* A step that serves client c, or none, leaves what the turn counts on.
LEMMA ServeInv ==
    ASSUME Strict, NEW c, Mild(c), UNCHANGED <<pass, streamless>>,
           r' \subseteq r, at' \in 0 .. Pos(CLIENTS_MAX),
           pass = "all" => \A d \in CID : Pos(d) >= at' => Pos(d) >= at /\ d # c,
           pass = "streamless" => \A n \in DOMAIN streamless :
                                    n > at' => n > at /\ streamless[n].id # c
    PROVE  Strict'
  <1>1. /\ TurnType /\ EntriesKept /\ Entries(streamless) /\ AllLeft /\ AgainLeft
        /\ pass' = pass /\ streamless' = streamless
        /\ LiveClients(tab') \subseteq CID
        /\ cfh' \in [CID -> FH \cup {None}] /\ None \notin FH
    BY PollAssumption DEF Strict, EntriesKept, Mild, Owned, LiveClients, FH, None
  <1>2. Owned(tab', cfh', sfh', state', Others') /\ Unready(tab', sfh') /\ fresh' \subseteq FH
    BY DEF Mild
  <1>3. TurnType'
    BY <1>1, <1>2 DEF TurnType
  <1>4. ASSUME NEW d \in LiveClients(tab'), cfh'[d] # None
        PROVE  \/ cfh'[d] \in fresh' /\ tab'.clients[d].execed = None
               \/ /\ d \in Live /\ cfh'[d] = cfh[d] /\ (cfh[d] \in fresh => cfh[d] \in fresh')
                  /\ d # c => /\ tab'.clients[d].execed = tab.clients[d].execed
                              /\ tab.clients[d].execed = None /\ state[cfh[d]] # "quiet" =>
                                     state'[cfh[d]] # "quiet"
    BY <1>4 DEF Mild
  <1>5. EntriesKept'
    <2>1. ASSUME NEW n \in DOMAIN streamless, NEW d, d = streamless[n].id,
                 d \in LiveClients(tab'), cfh'[d] # None
          PROVE  cfh'[d] = streamless[n].fh \/ cfh'[d] \in fresh'
      BY <1>1, <1>4, <2>1 DEF EntriesKept, Entries
    <2> QED BY <1>1, <2>1 DEF EntriesKept, Entries, Live
  <1>6. AllLeft'
    <2>1. ASSUME pass = "all", NEW d \in LiveClients(tab'),
                 Pos(d) >= at', cfh'[d] \in r', tab'.clients[d].execed = None
          PROVE  state'[cfh'[d]] # "quiet" \/ cfh'[d] \in fresh'
      <3>1. d \in CID /\ Pos(d) >= at /\ d # c /\ cfh'[d] # None /\ cfh'[d] \in r
        BY <1>1, <2>1 DEF TurnType
      <3>2. CASE cfh'[d] \in fresh'
        BY <3>2
      <3>3. CASE cfh'[d] \notin fresh'
        <4>1. /\ d \in Live /\ cfh'[d] = cfh[d] /\ (cfh[d] \in fresh => cfh[d] \in fresh')
              /\ tab.clients[d].execed = None
              /\ state[cfh[d]] # "quiet" => state'[cfh[d]] # "quiet"
          BY <1>4, <2>1, <3>1, <3>3
        <4>2. Readied(d)
          BY <1>1, <2>1, <3>1, <4>1 DEF AllLeft
        <4> QED BY <4>1, <4>2 DEF Readied
      <3> QED BY <3>2, <3>3
    <2> QED BY <1>1, <2>1 DEF AllLeft, Live, Readied, Pos
  <1>7. AgainLeft'
    <2>1. ASSUME pass = "streamless", NEW n \in DOMAIN streamless, NEW d, d = streamless[n].id,
                 n > at', streamless[n].fh \in r', d \in LiveClients(tab'), cfh'[d] # None
          PROVE  tab'.clients[d].execed = None /\ (state'[cfh'[d]] # "quiet" \/ cfh'[d] \in fresh')
      <3>1. n > at /\ d # c /\ streamless[n].fh \in r
        BY <2>1
      <3>2. CASE cfh'[d] \in fresh' /\ tab'.clients[d].execed = None
        BY <3>2
      <3>3. CASE ~ (cfh'[d] \in fresh' /\ tab'.clients[d].execed = None)
        <4>1. /\ d \in Live /\ cfh'[d] = cfh[d] /\ (cfh[d] \in fresh => cfh[d] \in fresh')
              /\ tab'.clients[d].execed = tab.clients[d].execed
              /\ tab.clients[d].execed = None /\ state[cfh[d]] # "quiet" => state'[cfh[d]] # "quiet"
          BY <1>4, <2>1, <3>1, <3>3
        <4>2. tab.clients[d].execed = None /\ Readied(d)
          BY <1>1, <2>1, <3>1, <4>1 DEF AgainLeft
        <4> QED BY <4>1, <4>2 DEF Readied
      <3> QED BY <3>2, <3>3
    <2> QED BY <1>1, <2>1 DEF AgainLeft, Live, Readied
  <1> QED BY <1>2, <1>3, <1>5, <1>6, <1>7 DEF Strict

\* Entries hold ids and handles.
LEMMA EntriesType ==
    ASSUME Entries(streamless)
    PROVE  \A n \in DOMAIN streamless : streamless[n].id \in CID /\ streamless[n].fh \in FH
  <1>1. ASSUME NEW T, NEW q \in Seq(T)
        PROVE  \A n \in DOMAIN q : q[n] \in T
    OBVIOUS
  <1> DEFINE T == [id : CID, fh : FH]
  <1>2. streamless \in Seq(T)
    BY DEF EntriesKept, Entries
  <1>3. \A x \in T : x.id \in CID /\ x.fh \in FH
    OBVIOUS
  <1> HIDE DEF T
  <1> QED BY <1>1, <1>2, <1>3

\* There is one position to go on with.
LEMMA NextPosition ==
    ASSUME TurnType, Entries(streamless), NEW p, Here(p)
    PROVE  /\ p \in Todo /\ p \in Nat /\ p >= at /\ at \in Nat
           /\ (CHOOSE q \in Todo : Here(q)) = p
  <1>1. at \in Nat /\ Len(streamless) \in Nat /\ Pos(CLIENTS_MAX) \in Nat
    BY LastPosition DEF TurnType, EntriesKept, Entries
  <1>2. Todo \subseteq {q \in Nat : q >= at}
    BY <1>1 DEF Todo
  <1>3. p \in Todo /\ \A q \in Todo : Here(q) => q = p
    <2>1. p \in Todo /\ \A q \in Todo : p <= q
      BY DEF Here, FirstOf
    <2>2. ASSUME NEW q \in Todo, Here(q)
          PROVE  q = p
      <3>1. q <= p
        BY <2>1, <2>2 DEF Here, FirstOf
      <3> QED BY <1>2, <2>1, <3>1
    <2> QED BY <2>1, <2>2
  <1> QED BY <1>1, <1>2, <1>3

\* The second pass reads from the client whose position it has come to.
LEMMA CheckedAll ==
    ASSUME TurnType, Entries(streamless), pass = "all", NEW p, Here(p), HasRequest(p)
    PROVE  /\ Checked \in Live /\ p = Pos(Checked)
           /\ cfh[Checked] \in r /\ tab.clients[Checked].execed = None
  <1>1. p \in Todo /\ (CHOOSE q \in Todo : Here(q)) = p
    BY NextPosition
  <1>2. PICK c \in Live : p = Pos(c) /\ cfh[c] \in r /\ tab.clients[c].execed = None
    BY DEF HasRequest
  <1>3. Checked = p \div (STREAMS_PER_CLIENT + 1)
    BY <1>1 DEF Checked
  <1>4. Pos(c) \div (STREAMS_PER_CLIENT + 1) = c
    BY Positions DEF Live, LiveClients
  <1> QED BY <1>2, <1>3, <1>4

\* The third pass reads from a client that is there and has a connection.
LEMMA CheckedAgain ==
    ASSUME TurnType, Entries(streamless), pass = "streamless", NEW p, Here(p)
    PROVE  /\ p + 1 \in DOMAIN streamless /\ streamless[p + 1].fh \in r
           /\ Checked # None => /\ Checked = streamless[p + 1].id /\ Checked \in Live
                                /\ cfh[Checked] # None
  <1>1. p \in Todo /\ p \in Nat /\ (CHOOSE q \in Todo : Here(q)) = p
    BY NextPosition
  <1>2. HasEntry(p)
    BY <1>1 DEF Todo
  <1>3. p + 1 \in DOMAIN streamless
    BY <1>1, <1>2 DEF HasEntry, EntriesKept, Entries
  <1>4. Checked = IF streamless[p + 1].id \in Live \ ghosts /\ cfh[streamless[p + 1].id] # None
                  THEN streamless[p + 1].id ELSE None
    BY <1>1 DEF Checked
  <1> QED BY <1>2, <1>3, <1>4 DEF HasEntry

\* The second pass reads a request.
LEMMA ServeClientKeeps ==
    ASSUME Strict, leaked \cap listen = {}, NEW p, ServeClient(p)
    PROVE  Strict'
  <1>1. TurnType /\ EntriesKept /\ Entries(streamless) /\ Objects /\ pass = "all" /\ Here(p) /\ HasRequest(p)
    BY DEF Strict, EntriesKept, Objects, TurnType, ServeClient
  <1> DEFINE c == Checked
  <1>2. c \in Live /\ c \in CID /\ p = Pos(c) /\ cfh[c] \in r /\ tab.clients[c].execed = None
    BY <1>1, CheckedAll DEF Live, LiveClients
  <1>3. p \in Nat /\ p >= at /\ at \in Nat
    BY <1>1, NextPosition
  <1> HIDE DEF c
  <1>4. /\ clients_check(c) /\ r' \subseteq r /\ at' = p + 1
        /\ pass' = pass /\ streamless' = streamless
    BY DEF ServeClient, c
  <1>5. Served(c)
    BY <1>1, <1>2 DEF Served, TurnType
  <1>6. Mild(c)
    BY <1>1, <1>4, <1>5, CheckMild
  <1>7. at' \in 0 .. Pos(CLIENTS_MAX)
    BY <1>2, <1>3, <1>4, Positions
  <1>8. \A d \in CID : Pos(d) >= at' => Pos(d) >= at /\ d # c
    <2>1. \A d \in CID : Pos(d) \in Nat
      BY Positions
    <2> QED BY <1>2, <1>3, <1>4, <2>1
  <1> QED BY <1>1, <1>4, <1>6, <1>7, <1>8, ServeInv

\* The second pass checks a stream.
LEMMA ServeStreamKeeps ==
    ASSUME Strict, NEW p, ServeStream(p)
    PROVE  Strict'
  <1>1. TurnType /\ EntriesKept /\ Entries(streamless) /\ Objects /\ pass = "all" /\ Here(p) /\ HasStream(p)
        /\ Tidy(tab, {})
    BY DEF Strict, EntriesKept, Objects, TurnType, ServeStream, Owned
  <1>2. PICK c \in Live, k \in Slot : p = Pos(c) + 1 + k /\ streams_check(tab.clients[c].streams[k])
    BY DEF ServeStream
  <1>3. PICK d \in Live, j \in Slot :
          p = Pos(d) + 1 + j /\ tab.clients[d].streams[j] # None /\ sfh[tab.clients[d].streams[j]] \in r
    BY <1>1 DEF HasStream
  <1>4. c \in CID /\ d \in CID
    BY DEF Live, LiveClients
  <1>5. c = d /\ k = j
    BY <1>2, <1>3, <1>4, Positions
  <1> DEFINE s == tab.clients[c].streams[k]
  <1>6. s \in LiveStreams(tab) /\ sfh[s] \in FH
    BY <1>1, <1>3, <1>5 DEF Tidy, SlotsAgree, Live, TurnType
  <1>7. Mild(None)
    BY <1>1, <1>2, <1>6, StreamMild
  <1>8. p \in Nat /\ p >= at /\ at \in Nat
    BY <1>1, NextPosition
  <1>9. r' \subseteq r /\ at' = p + 1 /\ pass' = pass /\ streamless' = streamless
    BY DEF ServeStream
  <1>10. at' \in 0 .. Pos(CLIENTS_MAX)
    BY <1>2, <1>4, <1>8, <1>9, Positions
  <1>11. \A i \in CID : Pos(i) >= at' => Pos(i) >= at /\ i # None
    <2>1. \A i \in CID : Pos(i) \in Nat /\ i \in Nat
      BY Positions, IdsAreNumbers
    <2> QED BY <1>8, <1>9, <2>1 DEF None
  <1> QED BY <1>1, <1>7, <1>9, <1>10, <1>11, ServeInv

\* The third pass reads a request, or finds that the client has gone.
LEMMA ServeAgainKeeps ==
    ASSUME Strict, leaked \cap listen = {}, NEW p, ServeAgain(p)
    PROVE  Strict'
  <1>1. TurnType /\ EntriesKept /\ Entries(streamless) /\ AgainLeft /\ Objects /\ pass = "streamless" /\ Here(p)
    BY DEF Strict, EntriesKept, Objects, TurnType, ServeAgain
  <1> DEFINE c == Checked
  <1>2. /\ p + 1 \in DOMAIN streamless /\ streamless[p + 1].fh \in r
        /\ c # None => c = streamless[p + 1].id /\ c \in Live /\ cfh[c] # None
    BY <1>1, CheckedAgain
  <1>3. p \in Nat /\ p >= at /\ at \in Nat
    BY <1>1, NextPosition
  <1> HIDE DEF c
  <1>4. /\ c # None => clients_check(c)
        /\ c = None => UNCHANGED objects
        /\ r' \subseteq r /\ at' = p + 1
        /\ pass' = pass /\ streamless' = streamless
    BY DEF ServeAgain, c
  <1>5. Mild(c)
    <2>1. CASE c # None
      <3>1. p + 1 > at
        BY <1>3
      <3>2. tab.clients[c].execed = None
        BY <1>1, <1>2, <2>1, <3>1 DEF AgainLeft
      <3>3. Served(c)
        BY <1>1, <1>2, <2>1, <3>2 DEF Served, Objects, Owned, Live, LiveClients
      <3> QED BY <1>1, <1>4, <2>1, <3>3, CheckMild
    <2>2. CASE c = None
      <3>1. state' = state /\ UNCHANGED <<tab, cfh, sfh, Others, fresh>>
        BY <1>4, <2>2 DEF objects, listening, Others
      <3>2. Spares(None, state)
        BY <1>1, ReadSpares
      <3> QED BY <1>1, <2>2, <3>1, <3>2, StillMild
    <2> QED BY <2>1, <2>2
  <1>6. at' \in 0 .. Pos(CLIENTS_MAX)
    <2>1. Len(streamless) <= CLIENTS_MAX /\ Len(streamless) \in Nat /\ p + 1 <= Len(streamless)
      BY <1>1, <1>2 DEF EntriesKept, Entries
    <2> QED BY <1>3, <1>4, <2>1, LastPosition, IdsAreNumbers
  <1>7. \A n \in DOMAIN streamless : n > at' => n > at /\ streamless[n].id # c
    <2> SUFFICES ASSUME NEW n \in DOMAIN streamless, n > at'
                 PROVE  n > at /\ streamless[n].id # c
      OBVIOUS
    <2>1. n \in Nat /\ n > at /\ n # p + 1
      BY <1>1, <1>3, <1>4 DEF EntriesKept, Entries
    <2>2. streamless[n].id # streamless[p + 1].id /\ streamless[n].id \in CID
      <3>1. streamless[n].id \in CID
        BY <1>1, EntriesType
      <3>2. streamless[n].id # streamless[p + 1].id
        BY <1>1, <1>2, <2>1 DEF EntriesKept, Entries
      <3> QED BY <3>1, <3>2
    <2>3. streamless[n].id # None
      BY <2>2, IdsAreNumbers DEF None
    <2> QED BY <1>2, <2>1, <2>2, <2>3
  <1> QED BY <1>1, <1>4, <1>5, <1>6, <1>7, ServeInv

-----------------------------------------------------------------------------
(* The turn *)

\* Between the turns there is nothing left to do.
LEMMA FirstKeeps ==
    ASSUME Owned(tab', cfh', sfh', state', Others'), Unready(tab', sfh'),
           pass' = "first", at' \in 0 .. Pos(CLIENTS_MAX), r' \subseteq FH, fresh' \subseteq FH,
           streamless' = <<>>
    PROVE  Strict'
  <1>1. MAX_STREAMLESS \in Nat /\ CLIENTS_MAX \in Nat
    BY PollAssumption, IdsAreNumbers
  <1>2. TurnType' /\ AllLeft' /\ AgainLeft'
    BY DEF TurnType, AllLeft, AgainLeft, Pos
  <1>3. EntriesKept'
    BY <1>1 DEF EntriesKept, Entries
  <1> QED BY <1>2, <1>3 DEF Strict

\* The first pass and its select().
LEMMA SelectKeeps ==
    ASSUME Strict, Select
    PROVE  Strict'
  <1>1. PICK ended \in SUBSET {s \in LiveStreams(tab) : sfh[s] = Full} :
          LET u == Delete(tab, ended, {})
              S == UNION {Handles(u, c) : c \in LiveClients(u)}
          IN  /\ Deleted(tab, u, state)
              /\ IF S \cap FreeFH = {} /\ Readable(S) # {}
                 THEN pass' = "all" /\ r' = Readable(S) /\ streamless' = Streamless(u)
                 ELSE UNCHANGED <<pass, r, streamless>>
    BY Zenon DEF Select
  <1> DEFINE u == Delete(tab, ended, {})
             S == UNION {Handles(u, c) : c \in LiveClients(u)}
  <1>2. /\ Objects /\ TurnType /\ EntriesKept /\ Entries(streamless) /\ pass = "first" /\ at' = 0
        /\ Tidy(tab, {}) /\ Apart(tab, cfh, sfh) /\ cfh \in [CID -> FH \cup {None}]
        /\ streamless = <<>>
    BY DEF Strict, Objects, Owned, TurnType, EntriesKept, Entries, Select
  <1>3. Shrunk(tab, u)
    BY <1>2, DeleteShrinks
  <1>4. S \subseteq FH /\ Readable(S) \subseteq FH /\ \A f \in Readable(S) : state[f] # "quiet"
    BY DEF Handles, Readable
  <1>5. Mild(None)
    <2>1. Spares(None, state)
      BY <1>2, ReadSpares
    <2>2. Deleted(tab, u, state)
      BY <1>1
    <2> HIDE DEF u
    <2> QED BY <1>2, <1>3, <2>1, <2>2, DeletedMild
  <1>6. \/ pass' = "all" /\ r' = Readable(S) /\ streamless' = Streamless(u)
        \/ pass' = pass /\ r' = r /\ streamless' = streamless
    BY <1>1
  <1>7. tab' = u
    BY <1>1 DEF Deleted
  <1> HIDE DEF u, S
  <1>8. /\ Owned(tab', cfh', sfh', state', Others') /\ Unready(tab', sfh') /\ fresh' \subseteq FH
        /\ at' \in 0 .. Pos(CLIENTS_MAX)
    BY <1>2, <1>5, LastPosition DEF Mild
  <1>9. CASE pass' = pass /\ r' = r /\ streamless' = streamless
    BY <1>2, <1>8, <1>9, FirstKeeps DEF TurnType
  <1>10. CASE pass' = "all" /\ r' = Readable(S) /\ streamless' = Streamless(u)
    <2>1. ASSUME NEW d \in LiveClients(tab'), cfh'[d] # None
          PROVE  \/ cfh'[d] \in fresh'
                 \/ /\ cfh'[d] = cfh[d]
                    /\ tab'.clients[d].execed = None /\ state[cfh[d]] # "quiet" => state'[cfh[d]] # "quiet"
      <3>1. d # None
        BY IdsAreNumbers DEF LiveClients, None
      <3> QED BY <1>5, <2>1, <3>1 DEF Mild
    <2>2. TurnType'
      BY <1>4, <1>8, <1>10 DEF TurnType
    <2>3. Filled(cfh, streamless')
      <3>1. \A c, d \in LiveClients(u) : cfh[c] \in FH /\ cfh[c] = cfh[d] => c = d
        BY <1>2, <1>3 DEF Shrunk, Apart
      <3> QED BY <1>2, <1>10, <3>1, StreamlessLeaves
    <2>4. EntriesKept'
      BY <1>10, <2>1, <2>3 DEF EntriesKept, Entries, Filled, Live
    <2>5. AllLeft'
      <3>1. ASSUME NEW d \in LiveClients(tab'), cfh'[d] \in r', tab'.clients[d].execed = None
            PROVE  state'[cfh'[d]] # "quiet" \/ cfh'[d] \in fresh'
        <4>1. cfh'[d] # None
          BY <1>4, <1>10, <3>1, PollAssumption DEF FH, None
        <4> QED BY <1>4, <1>10, <2>1, <3>1, <4>1
      <3> QED BY <3>1 DEF AllLeft, Live, Readied
    <2>6. AgainLeft'
      BY <1>10 DEF AgainLeft
    <2> QED BY <1>8, <2>2, <2>4, <2>5, <2>6 DEF Strict
  <1> QED BY <1>6, <1>9, <1>10

\* The end of the second pass.
LEMMA ServedAllKeeps ==
    ASSUME Strict, ServedAll
    PROVE  Strict'
  <1>1. /\ tab' = tab /\ cfh' = cfh /\ sfh' = sfh /\ state' = state /\ Others' = Others
        /\ streamless' = streamless /\ r' = {} /\ at' = 0
        /\ \/ streamless = <<>> /\ pass' = "first" /\ fresh' = {}
           \/ pass' = "second" /\ fresh' = fresh
    BY DEF ServedAll, listening, Others
  <1>2. /\ Owned(tab', cfh', sfh', state', Others') /\ Unready(tab', sfh')
        /\ at' \in 0 .. Pos(CLIENTS_MAX) /\ TurnType /\ EntriesKept /\ Entries(streamless)
    BY <1>1, LastPosition DEF Strict, EntriesKept
  <1>3. CASE streamless = <<>> /\ pass' = "first" /\ fresh' = {}
    BY <1>1, <1>2, <1>3, FirstKeeps
  <1>4. CASE pass' = "second" /\ fresh' = fresh
    <2>1. TurnType'
      BY <1>1, <1>2, <1>4 DEF TurnType
    <2>2. EntriesKept'
      BY <1>1, <1>2, <1>4 DEF EntriesKept, Entries, Live
    <2>3. AllLeft' /\ AgainLeft'
      BY <1>4 DEF AllLeft, AgainLeft
    <2> QED BY <1>2, <2>1, <2>2, <2>3 DEF Strict
  <1> QED BY <1>1, <1>3, <1>4

\* The second select().
LEMMA SelectAgainKeeps ==
    ASSUME Strict, SelectAgain
    PROVE  Strict'
  <1> DEFINE S == {streamless[n].fh : n \in Again}
  <1>1. /\ tab' = tab /\ cfh' = cfh /\ sfh' = sfh /\ state' = state /\ Others' = Others /\ at' = at
        /\ \/ pass' = "streamless" /\ r' = Readable(S) /\ streamless' = streamless /\ fresh' = fresh
           \/ pass' = "first" /\ r' = {} /\ streamless' = <<>> /\ fresh' = {}
    BY DEF SelectAgain, listening, Others
  <1>2. /\ Owned(tab', cfh', sfh', state', Others') /\ Unready(tab', sfh')
        /\ TurnType /\ EntriesKept /\ Entries(streamless)
    BY <1>1 DEF Strict, EntriesKept
  <1>3. CASE pass' = "first" /\ r' = {} /\ streamless' = <<>> /\ fresh' = {}
    BY <1>1, <1>2, <1>3, FirstKeeps DEF TurnType
  <1>4. CASE pass' = "streamless" /\ r' = Readable(S) /\ streamless' = streamless /\ fresh' = fresh
    <2>1. \A n \in DOMAIN streamless : streamless[n].fh \in FH
      BY <1>2, EntriesType
    <2>2. Readable(S) \subseteq FH /\ \A f \in Readable(S) : state[f] # "quiet"
      BY <2>1 DEF Readable, Again
    <2>3. TurnType'
      BY <1>1, <1>2, <1>4, <2>2 DEF TurnType
    <2>4. EntriesKept'
      BY <1>1, <1>2, <1>4 DEF EntriesKept, Entries, Live
    <2>5. AllLeft'
      BY <1>4 DEF AllLeft
    <2>6. ASSUME NEW n \in DOMAIN streamless, NEW c, c = streamless[n].id,
                 streamless[n].fh \in Readable(S), c \in Live, cfh[c] # None
          PROVE  tab.clients[c].execed = None /\ Readied(c)
      <3>1. PICK m \in Again : streamless[m].fh = streamless[n].fh
        BY <2>6 DEF Readable
      <3>2. m \in DOMAIN streamless /\ tab.clients[streamless[m].id].execed = None
        BY DEF Again
      <3>3. m = n
        BY <1>2, <3>1, <3>2 DEF EntriesKept, Entries
      <3>4. cfh[c] = streamless[n].fh \/ cfh[c] \in fresh
        BY <1>2, <2>6 DEF EntriesKept, Entries
      <3> QED BY <2>2, <2>6, <3>2, <3>3, <3>4 DEF Readied
    <2>7. AgainLeft'
      <3> HIDE DEF S
      <3> QED BY <1>1, <1>4, <2>6 DEF AgainLeft, Live, Readied
    <2> QED BY <1>2, <2>3, <2>4, <2>5, <2>7 DEF Strict
  <1> QED BY <1>1, <1>3, <1>4

\* The end of the turn.
LEMMA ServedAgainKeeps ==
    ASSUME Strict, ServedAgain
    PROVE  Strict'
  <1>1. /\ tab' = tab /\ cfh' = cfh /\ sfh' = sfh /\ state' = state /\ Others' = Others /\ at' = 0
        /\ pass' = "first" /\ r' = {} /\ streamless' = <<>> /\ fresh' = {}
    BY DEF ServedAgain, listening, Others
  <1>2. /\ Owned(tab', cfh', sfh', state', Others') /\ Unready(tab', sfh')
        /\ at' \in 0 .. Pos(CLIENTS_MAX)
    BY <1>1, LastPosition DEF Strict
  <1> QED BY <1>1, <1>2, FirstKeeps

\* A connection of a protocol that is known.
LEMMA AcceptKeeps ==
    ASSUME Strict, Accept, ~ kept'
    PROVE  Strict'
  <1>1. PICK l \in listen, f \in FH, k \in CID :
          /\ FirstOf(FreeFH, f) /\ FirstOf(FreeCIDs(tab), k)
          /\ tab' = [clients_new(tab, k) EXCEPT !.clients[k].fh = TRUE]
          /\ cfh' = [cfh EXCEPT ![k] = f]
          /\ state' = [state EXCEPT ![f] = "quiet"]
    BY Zenon DEF Accept
  <1>2. /\ pass' = "first" /\ at' = at /\ r' = r /\ streamless' = streamless
        /\ sfh' = sfh /\ Others' = Others /\ fresh' = fresh /\ pass = "first"
    BY DEF Accept, loop, Others
  <1>3. /\ Owned(tab, cfh, sfh, state, Others) /\ Unready(tab, sfh) /\ TurnType
        /\ Tidy(tab, {}) /\ tab \in TablesType /\ streamless = <<>>
        /\ k \in FreeCIDs(tab) /\ state[f] = "closed" /\ LiveClients(tab) \subseteq CID
    BY <1>1, <1>2 DEF Strict, Owned, Tidy, EntriesKept, Entries, FirstOf, FreeFH, IsOpen, LiveClients
  <1> DEFINE u == [clients_new(tab, k) EXCEPT !.clients[k].fh = TRUE]
  <1>4. /\ u \in TablesType /\ u.streams = tab.streams
        /\ u.clients = [tab.clients EXCEPT ![k] = [NewClient EXCEPT !.fh = TRUE]]
        /\ LiveStreams(u) = LiveStreams(tab) /\ LiveClients(u) = LiveClients(tab) \cup {k}
    BY <1>3, AcceptLeaves
  <1>5. tab' = u
    BY <1>1
  <1> HIDE DEF u
  <1>6. Tidy(u, {})
    BY <1>3, <1>4, NewClientTidy
  <1>7. /\ u.clients[k].execed = None
        /\ \A d \in LiveClients(tab) : u.clients[d].execed = tab.clients[d].execed
    <2>1. k \in CID /\ k \notin LiveClients(tab)
      BY <1>3 DEF FreeCIDs
    <2>2. u.clients[k] = [NewClient EXCEPT !.fh = TRUE] /\ \A d \in CID \ {k} : u.clients[d] = tab.clients[d]
      BY <1>3, <1>4, <2>1 DEF TablesType
    <2> QED BY <1>3, <2>1, <2>2 DEF NewClient
  <1>8. "quiet" \in States
    BY DEF States
  <1>9. Owned(u, [cfh EXCEPT ![k] = f], sfh, [state EXCEPT ![f] = "quiet"], Others)
    BY <1>3, <1>4, <1>6, <1>7, <1>8, GivenOwned
  <1>10. Owned(tab', cfh', sfh', state', Others')
    BY <1>1, <1>2, <1>5, <1>9
  <1>11. Unready(tab', sfh')
    BY <1>2, <1>3, <1>4, <1>5 DEF Unready
  <1> QED BY <1>2, <1>3, <1>10, <1>11, FirstKeeps DEF TurnType

\* A peer sends something, or goes.
LEMMA PeerKeeps ==
    ASSUME Strict, NEW f \in FH, NEW new \in {"ready", "gone"}, Peer(f, new)
    PROVE  Strict'
  <1>1. /\ state[f] = "quiet" /\ state' = [state EXCEPT ![f] = new]
        /\ UNCHANGED <<tab, cfh, sfh, Others, fresh>>
        /\ pass' = pass /\ at' = at /\ r' = r /\ streamless' = streamless
    BY DEF Peer, loop, listening, Others
  <1>2. Objects /\ TurnType /\ state \in [FH -> States] /\ EntriesKept
    BY DEF Strict, Objects, TurnType, Owned
  <1> DEFINE st == [state EXCEPT ![f] = new]
  <1>3. st \in [FH -> States] /\ st[f] = new /\ \A g \in FH \ {f} : st[g] = state[g]
    BY <1>2 DEF States
  <1>4. state' = st
    BY <1>1
  <1> HIDE DEF st
  <1>5. Spares(None, st)
    BY <1>1, <1>2, <1>3 DEF Spares
  <1>6. Mild(None)
    BY <1>1, <1>2, <1>4, <1>5, StillMild
  <1>7. \A d \in CID : d # None
    BY IdsAreNumbers DEF None
  <1>8. \A n \in DOMAIN streamless : streamless[n].id # None
    <2>1. \A n \in DOMAIN streamless : streamless[n].id \in CID
      BY <1>2, EntriesType DEF EntriesKept
    <2> QED BY <1>7, <2>1
  <1>9. at' \in 0 .. Pos(CLIENTS_MAX)
    BY <1>1, <1>2 DEF TurnType
  <1> QED BY <1>1, <1>6, <1>7, <1>8, <1>9, ServeInv

\* The servers to start from.
LEMMA InitKeeps ==
    ASSUME Init
    PROVE  PollInv
  <1>1. PICK u \in Starts :
          /\ tab = u.tab /\ cfh = u.cfh /\ sfh = u.sfh /\ listen = u.listen /\ odd = u.odd
          /\ state = [f \in FH |-> IF f \in u.listen THEN "listen"
                                   ELSE IF \/ \E c \in CID : u.cfh[c] = f
                                           \/ \E s \in SID : u.sfh[s] = f
                                   THEN "quiet" ELSE "closed"]
    BY Zenon DEF Init
  <1>2. /\ Tidy(tab, {})
        /\ cfh \in [CID -> FH \cup {None}] /\ sfh \in [SID -> FH \cup {None, Full}]
        /\ \A c \in CID \ LiveClients(tab) : cfh[c] = None
        /\ \A s \in SID : s \notin LiveStreams(tab) \/ ~ tab.streams[s].ready => sfh[s] = None
        /\ Apart(tab, cfh, sfh)
        /\ listen \subseteq FH /\ odd \subseteq listen
        /\ \A f \in listen : (\A c \in CID : cfh[c] # f) /\ (\A s \in SID : sfh[s] # f)
        /\ LiveClients(tab) \subseteq CID /\ LiveStreams(tab) \subseteq SID /\ None \notin FH
    BY <1>1, PollAssumption DEF Startable, LiveClients, LiveStreams, FH, None
  <1>3. /\ state \in [FH -> States]
        /\ \A f \in FH : state[f] # "closed" <=>
             (\E c \in CID : cfh[c] = f) \/ (\E s \in SID : sfh[s] = f) \/ f \in listen
    BY <1>1 DEF States
  <1>4. /\ leaked = {} /\ fresh = {} /\ r = {} /\ pass = "first" /\ at = 0 /\ streamless = <<>>
        /\ ghosts = {} /\ kept = FALSE /\ Others = listen
    BY DEF Init, Others
  <1>5. Owned(tab, cfh, sfh, state, Others)
    <2>1. \A f \in FH : state[f] # "closed" <=> Held(tab, cfh, sfh, Others, f)
      BY <1>2, <1>3, <1>4 DEF Held
    <2> QED BY <1>2, <1>3, <1>4, <2>1 DEF Owned
  <1>6. Unready(tab, sfh)
    BY <1>2 DEF Unready
  <1>7. TurnType /\ AllLeft /\ AgainLeft
    BY <1>4, LastPosition DEF TurnType, AllLeft, AgainLeft
  <1>8. EntriesKept /\ Entries(streamless)
    BY <1>4, PollAssumption, IdsAreNumbers DEF EntriesKept, Entries
  <1>9. ObjectTypes
    BY <1>2, <1>3, <1>4 DEF ObjectTypes
  <1> QED BY <1>4, <1>5, <1>6, <1>7, <1>8, <1>9 DEF PollInv, Strict

-----------------------------------------------------------------------------
(* Types, whoever keeps which number *)

\* Deletions.
LEMMA DeletedTypes ==
    ASSUME ObjectTypes, NEW t, NEW u, Tidy(u, {}), NEW st \in [FH -> States], Deleted(t, u, st)
    PROVE  ObjectTypes'
  <1>1. /\ tab' = u
        /\ cfh' = [c \in CID |-> IF c \in LiveClients(u) THEN cfh[c] ELSE None]
        /\ sfh' = [s \in SID |-> IF s \in LiveStreams(u) THEN sfh[s] ELSE None]
        /\ state' = [f \in FH |-> IF f \in Closes(t, u) THEN "closed" ELSE st[f]]
        /\ fresh' \subseteq fresh /\ ghosts' \subseteq ghosts
        /\ leaked' = leaked /\ listen' = listen /\ odd' = odd /\ kept' = kept
    BY DEF Deleted
  <1>2. /\ cfh' \in [CID -> FH \cup {None}] /\ sfh' \in [SID -> FH \cup {None, Full}]
        /\ state' \in [FH -> States]
    BY <1>1 DEF ObjectTypes, States
  <1> QED BY <1>1, <1>2 DEF ObjectTypes

\* A new client.
LEMMA GuestTypes ==
    ASSUME ObjectTypes, NEW f \in FH, NEW k \in CID, FirstOf(FreeCIDs(tab), k),
           tab' = [clients_new(tab, k) EXCEPT !.clients[k].fh = TRUE],
           cfh' = [cfh EXCEPT ![k] = f]
    PROVE  Tidy(tab', {}) /\ cfh' \in [CID -> FH \cup {None}]
  <1>1. Tidy(tab, {}) /\ tab \in TablesType /\ k \in FreeCIDs(tab)
        /\ cfh \in [CID -> FH \cup {None}]
    BY DEF ObjectTypes, Tidy, FirstOf
  <1> DEFINE u == [clients_new(tab, k) EXCEPT !.clients[k].fh = TRUE]
  <1>2. /\ u \in TablesType /\ u.streams = tab.streams
        /\ u.clients = [tab.clients EXCEPT ![k] = [NewClient EXCEPT !.fh = TRUE]]
    BY <1>1, AcceptLeaves
  <1>3. tab' = u
    OBVIOUS
  <1> HIDE DEF u
  <1>4. Tidy(u, {})
    BY <1>1, <1>2, NewClientTidy
  <1> QED BY <1>1, <1>3, <1>4

\* EXEC.
LEMMA ExecTypes ==
    ASSUME ObjectTypes, NEW c \in Live, NEW st \in [FH -> States], Req_exec_stream(c, st)
    PROVE  ObjectTypes'
  <1>1. PICK s \in SID, outcome \in Outcomes :
          IF s \notin LiveStreams(tab) \/ tab.streams[s].ready
          THEN /\ tab' = clients_close(tab, c)
               /\ cfh' = [cfh EXCEPT ![c] = None]
               /\ state' = [st EXCEPT ![cfh[c]] = "closed"]
               /\ fresh' = fresh \ {cfh[c]}
               /\ UNCHANGED <<sfh, listening, leaked>>
          ELSE LET t == IF Lists(tab, c, s) THEN [tab EXCEPT !.clients[c].execed = s] ELSE tab
                   u == client_stream_exec(tab, c, s, outcome, "plain")
               IN  IF Lists(tab, c, s) /\ s \in LiveStreams(u)
                   THEN /\ tab' = u
                        /\ sfh' = [sfh EXCEPT ![s] = cfh[c]]
                        /\ state' = st
                        /\ UNCHANGED <<cfh, listening, leaked, fresh>>
                   ELSE Deleted(t, u, IF t = tab THEN st ELSE [st EXCEPT ![cfh[c]] = "closed"])
    BY Zenon DEF Req_exec_stream
  <1>2. /\ Tidy(tab, {}) /\ tab \in TablesType /\ c \in LiveClients(tab) /\ c \in CID
        /\ cfh \in [CID -> FH \cup {None}] /\ sfh \in [SID -> FH \cup {None, Full}]
        /\ [st EXCEPT ![cfh[c]] = "closed"] \in [FH -> States]
        /\ tab.clients[c] \in Client
        /\ tab.clients[c].execed # None => tab.clients[c].execed \in SlotSet(tab, c)
    BY DEF ObjectTypes, Tidy, Live, LiveClients, TablesType, ExecedListed, States
  <1>3. CASE s \notin LiveStreams(tab) \/ tab.streams[s].ready
    <2> DEFINE x == [tab.clients[c] EXCEPT !.fh = FALSE]
    <2>1. x \in Client /\ x.streams = tab.clients[c].streams /\ x.execed = tab.clients[c].execed
      BY <1>2 DEF Client
    <2>2. tab' = [tab EXCEPT !.clients[c] = x]
      BY <1>1, <1>3 DEF clients_close
    <2> HIDE DEF x
    <2>3. Tidy(tab', {})
      BY <1>2, <2>1, <2>2, ClientTidy
    <2>4. /\ cfh' \in [CID -> FH \cup {None}] /\ state' \in [FH -> States]
          /\ fresh' \subseteq fresh /\ sfh' = sfh /\ leaked' = leaked
          /\ listen' = listen /\ odd' = odd /\ ghosts' = ghosts /\ kept' = kept
      BY <1>1, <1>2, <1>3 DEF listening
    <2> QED BY <2>3, <2>4 DEF ObjectTypes
  <1>4. CASE s \in LiveStreams(tab) /\ ~ tab.streams[s].ready
    <2> DEFINE t == IF Lists(tab, c, s) THEN [tab EXCEPT !.clients[c].execed = s] ELSE tab
               u == client_stream_exec(tab, c, s, outcome, "plain")
               st2 == IF t = tab THEN st ELSE [st EXCEPT ![cfh[c]] = "closed"]
    <2>1. \/ /\ tab' = u /\ sfh' = [sfh EXCEPT ![s] = cfh[c]] /\ state' = st
             /\ UNCHANGED <<cfh, listening, leaked, fresh>>
          \/ Deleted(t, u, st2)
      BY <1>1, <1>4
    <2>2. st2 \in [FH -> States]
      BY <1>2
    <2>3. Tidy(u, {})
      <3>1. CASE ~ Lists(tab, c, s)
        BY <1>2, <3>1 DEF client_stream_exec
      <3>2. CASE Lists(tab, c, s)
        <4> DEFINE x == [tab.clients[c] EXCEPT !.execed = s]
                   v == [tab EXCEPT !.clients[c] = x]
        <4>1. x \in Client /\ x.streams = tab.clients[c].streams /\ x.execed = s
          BY <1>2 DEF Client
        <4>2. u = streams_set_fh(v, s, outcome, "plain")
          BY <3>2 DEF client_stream_exec
        <4> HIDE DEF x, u
        <4>3. Tidy(v, {}) /\ v.streams = tab.streams /\ LiveStreams(v) = LiveStreams(tab)
          BY <1>2, <3>2, <4>1, ClientTidy, ClientLeaves DEF Lists
        <4> HIDE DEF v
        <4>4. s \in LiveStreams(v) /\ ~ v.streams[s].ready
          BY <1>4, <4>3
        <4> QED BY <4>2, <4>3, <4>4, ConnectEnds DEF Shrunk
      <3> QED BY <3>1, <3>2
    <2> HIDE DEF t, u, st2
    <2>4. CASE Deleted(t, u, st2)
      BY <2>2, <2>3, <2>4, DeletedTypes
    <2>5. CASE /\ tab' = u /\ sfh' = [sfh EXCEPT ![s] = cfh[c]] /\ state' = st
               /\ UNCHANGED <<cfh, listening, leaked, fresh>>
      <3>1. sfh' \in [SID -> FH \cup {None, Full}]
        BY <1>2, <2>5
      <3> QED BY <2>3, <2>5, <3>1 DEF ObjectTypes, listening
    <2> QED BY <2>1, <2>4, <2>5
  <1> QED BY <1>3, <1>4

\* CON_STREAM, and PASSFH for a stream.
LEMMA ConStreamTypes ==
    ASSUME ObjectTypes, NEW c, NEW st \in [FH -> States], Req_con_stream(c, st)
    PROVE  ObjectTypes'
  <1>1. PICK s \in SID, f \in FH, outcome \in Outcomes :
          LET u == client_stream_set_fh(tab, c, s, outcome, "plain") IN
          /\ FirstOf(FreeFH, f)
          /\ IF u # tab /\ s \in LiveStreams(u)
             THEN /\ tab' = u
                  /\ sfh' = [sfh EXCEPT ![s] = f]
                  /\ Opens(f, st)
                  /\ UNCHANGED <<cfh, listening, leaked, fresh>>
             ELSE Deleted(tab, u, st)
    BY Zenon DEF Req_con_stream
  <1> DEFINE u == client_stream_set_fh(tab, c, s, outcome, "plain")
  <1>2. Tidy(u, {})
    <2>1. Tidy(tab, {})
      BY DEF ObjectTypes
    <2>2. CASE ~ Lists(tab, c, s) \/ tab.streams[s].ready
      BY <2>1, <2>2 DEF client_stream_set_fh, streams_set_fh
    <2>3. CASE Lists(tab, c, s) /\ ~ tab.streams[s].ready
      <3>1. s \in LiveStreams(tab) /\ u = streams_set_fh(tab, s, outcome, "plain")
        BY <2>1, <2>3 DEF Lists, SlotSet, Tidy, SlotsAgree, client_stream_set_fh
      <3> HIDE DEF u
      <3> QED BY <2>1, <2>3, <3>1, ConnectEnds DEF Shrunk
    <2> QED BY <2>2, <2>3
  <1>3. \/ Deleted(tab, u, st)
        \/ /\ tab' = u /\ sfh' = [sfh EXCEPT ![s] = f] /\ Opens(f, st)
           /\ UNCHANGED <<cfh, listening, leaked, fresh>>
    BY <1>1
  <1> HIDE DEF u
  <1>4. CASE Deleted(tab, u, st)
    BY <1>2, <1>4, DeletedTypes
  <1>5. CASE /\ tab' = u /\ sfh' = [sfh EXCEPT ![s] = f] /\ Opens(f, st)
             /\ UNCHANGED <<cfh, listening, leaked, fresh>>
    <2>1. sfh' \in [SID -> FH \cup {None, Full}] /\ state' \in [FH -> States]
      BY <1>5 DEF ObjectTypes, Opens, States
    <2> QED BY <1>2, <1>5, <2>1 DEF ObjectTypes, listening
  <1> QED BY <1>3, <1>4, <1>5

\* PASSFH for a client.
LEMMA PassTypes ==
    ASSUME ObjectTypes, NEW c, NEW st \in [FH -> States], Req_passfh(c, st)
    PROVE  ObjectTypes'
  <1>1. PICK f \in FH :
          \/ \E k \in CID :
              /\ FirstOf(FreeCIDs(tab), k)
              /\ Opens(f, st)
              /\ fresh' = fresh \cup {f}
              /\ tab' = [clients_new(tab, k) EXCEPT !.clients[k].fh = TRUE]
              /\ cfh' = [cfh EXCEPT ![k] = f]
              /\ UNCHANGED <<sfh, listening, leaked>>
          \/ /\ FirstOf(FreeFH, f)
             /\ leaked' = leaked \cup {f}
             /\ state' = [st EXCEPT ![f] = "quiet"]
             /\ UNCHANGED <<tab, cfh, sfh, listening, fresh>>
    BY Zenon DEF Req_passfh
  <1>2. ASSUME NEW k \in CID, FirstOf(FreeCIDs(tab), k), Opens(f, st), fresh' = fresh \cup {f},
               tab' = [clients_new(tab, k) EXCEPT !.clients[k].fh = TRUE],
               cfh' = [cfh EXCEPT ![k] = f], UNCHANGED <<sfh, listening, leaked>>
        PROVE  ObjectTypes'
    <2>1. Tidy(tab', {}) /\ cfh' \in [CID -> FH \cup {None}]
      BY <1>2, GuestTypes
    <2>2. state' \in [FH -> States] /\ fresh' \subseteq FH
      BY <1>2 DEF ObjectTypes, Opens, States
    <2> QED BY <1>2, <2>1, <2>2 DEF ObjectTypes, listening
  <1>3. CASE /\ leaked' = leaked \cup {f}
             /\ state' = [st EXCEPT ![f] = "quiet"]
             /\ UNCHANGED <<tab, cfh, sfh, listening, fresh>>
    <2>1. state' \in [FH -> States] /\ leaked' \subseteq FH
      BY <1>3 DEF ObjectTypes, States
    <2> QED BY <1>3, <2>1 DEF ObjectTypes, listening
  <1> QED BY <1>1, <1>2, <1>3, Zenon

\* clients_check().
LEMMA CheckTypes ==
    ASSUME ObjectTypes, NEW c \in Live, clients_check(c)
    PROVE  ObjectTypes'
  <1> DEFINE st == [state EXCEPT ![cfh[c]] = "quiet"]
  <1>1. Tidy(tab, {}) /\ tab \in TablesType /\ state \in [FH -> States] /\ st \in [FH -> States]
    BY DEF ObjectTypes, Tidy, States
  <1>2. \/ Deleted(tab, clients_delete(tab, c), state)
        \/ Req_new_stream(c, st) \/ Req_exec_stream(c, st) \/ Req_con_stream(c, st)
        \/ Req_passfh(c, st) \/ Req_listen(c, st) \/ Req_exit(c, st) \/ Req_kick(c, st)
        \/ state' = st /\ UNCHANGED <<tab, cfh, sfh, listening, leaked, fresh, changes>>
    BY Zenon DEF clients_check
  <1> HIDE DEF st
  <1>3. CASE Deleted(tab, clients_delete(tab, c), state)
    BY <1>1, <1>3, DeletersShrink, DeletedTypes DEF Shrunk
  <1>4. CASE Req_kick(c, st)
    <2>1. ASSUME NEW k \in CID, Deleted(tab, clients_delete(tab, k), st)
          PROVE  ObjectTypes'
      BY <1>1, <2>1, DeletersShrink, DeletedTypes DEF Shrunk
    <2>2. ASSUME NEW s \in SID, Deleted(tab, streams_delete(tab, s), st)
          PROVE  ObjectTypes'
      BY <1>1, <2>2, DeletersShrink, DeletedTypes DEF Shrunk
    <2> QED BY <1>4, <2>1, <2>2 DEF Req_kick
  <1>5. CASE Req_new_stream(c, st)
    <2>1. PICK s \in SID :
            /\ FirstOf(FreeSIDs(tab), s) /\ CanAdd(tab, c)
            /\ tab' = streams_set_dir(client_stream_add(streams_new(tab, s), c, s), s, "PLAY")
      BY <1>5 DEF Req_new_stream
    <2> DEFINE u == streams_new(tab, s)
               v == client_stream_add(u, c, s)
    <2>2. /\ s \in LiveStreams(u) /\ u \in TablesType /\ u.streams[s].client = None /\ CanAdd(u, c)
          /\ Tidy(u, {s})
      <3>1. s \in FreeSIDs(tab)
        BY <2>1 DEF FirstOf
      <3>2. /\ u \in TablesType /\ LiveStreams(u) = LiveStreams(tab) \cup {s}
            /\ LiveClients(u) = LiveClients(tab) /\ u.streams[s] = NewStream
            /\ u.clients = tab.clients /\ Tidy(u, {s})
        BY <1>1, <3>1, NewStreamLeaves, NewStreamTidy
      <3> HIDE DEF u
      <3> QED BY <2>1, <3>2 DEF NewStream, CanAdd, FreeSlots
    <2> HIDE DEF u
    <2>3. Tidy(v, {})
      BY <2>2, AddTidy
    <2>4. s \in LiveStreams(v)
      <3>1. PICK k \in Slot : Added(u, c, s, k, v)
        BY <2>2, AddLeaves
      <3> HIDE DEF v
      <3> QED BY <2>2, <3>1 DEF Added
    <2> HIDE DEF v
    <2>5. "PLAY" \in Dir
      BY DEF Dir
    <2>6. Tidy(streams_set_dir(v, s, "PLAY"), {})
      BY <2>3, <2>4, <2>5, SetDirTidy
    <2>7. Tidy(tab', {})
      BY <2>1, <2>6 DEF u, v
    <2> QED BY <1>1, <1>5, <2>7 DEF ObjectTypes, Req_new_stream, listening
  <1>6. CASE Req_listen(c, st)
    <2>1. PICK f \in FH :
            /\ IF Cardinality(listen) < LISTEN_MAX
               THEN /\ listen' = listen \cup {f}
                    /\ odd' \in {odd, odd \cup {f}}
                    /\ state' = [st EXCEPT ![f] = "listen"]
               ELSE state' = st /\ UNCHANGED <<listen, odd>>
            /\ UNCHANGED <<tab, cfh, sfh, ghosts, kept, leaked, fresh>>
      BY <1>6, Zenon DEF Req_listen
    <2>2. state' \in [FH -> States]
      BY <1>1, <2>1 DEF States
    <2>3. listen' \subseteq FH /\ odd' \subseteq listen'
      BY <2>1 DEF ObjectTypes
    <2> QED BY <2>1, <2>2, <2>3 DEF ObjectTypes
  <1>7. CASE Req_exit(c, st)
    <2>1. state' \in [FH -> States]
      BY <1>1, <1>7 DEF Req_exit, States
    <2> QED BY <1>7, <2>1 DEF ObjectTypes, Req_exit
  <1>8. CASE state' = st /\ UNCHANGED <<tab, cfh, sfh, listening, leaked, fresh, changes>>
    BY <1>1, <1>8 DEF ObjectTypes, listening
  <1> QED BY <1>1, <1>2, <1>3, <1>4, <1>5, <1>6, <1>7, <1>8, ExecTypes, ConStreamTypes, PassTypes

\* Every step.
LEMMA TypesKeep ==
    ASSUME ObjectTypes, TurnType, Entries(streamless), Next
    PROVE  ObjectTypes' /\ TurnType' /\ Entries(streamless)'
  <1>1. /\ Tidy(tab, {}) /\ state \in [FH -> States] /\ cfh \in [CID -> FH \cup {None}]
        /\ 0 \in 0 .. Pos(CLIENTS_MAX) /\ fresh \subseteq FH /\ r \subseteq FH
        /\ Entries(<<>>)
    <2>1. Tidy(tab, {}) /\ state \in [FH -> States] /\ cfh \in [CID -> FH \cup {None}]
          /\ fresh \subseteq FH /\ r \subseteq FH
      BY DEF ObjectTypes, TurnType
    <2>2. 0 \in 0 .. Pos(CLIENTS_MAX)
      BY LastPosition
    <2>3. Entries(<<>>)
      BY PollAssumption, IdsAreNumbers DEF Entries
    <2> QED BY <2>1, <2>2, <2>3
  <1>2. CASE Select
    <2>1. PICK ended \in SUBSET {s \in LiveStreams(tab) : sfh[s] = Full} :
            LET u == Delete(tab, ended, {})
                S == UNION {Handles(u, c) : c \in LiveClients(u)}
            IN  /\ Deleted(tab, u, state)
                /\ IF S \cap FreeFH = {} /\ Readable(S) # {}
                   THEN pass' = "all" /\ r' = Readable(S) /\ streamless' = Streamless(u)
                   ELSE UNCHANGED <<pass, r, streamless>>
      BY <1>2, Zenon DEF Select
    <2> DEFINE u == Delete(tab, ended, {})
               S == UNION {Handles(u, c) : c \in LiveClients(u)}
    <2>2. Tidy(u, {})
      BY <1>1, DeleteShrinks DEF Shrunk
    <2>3. Readable(S) \subseteq FH
      BY DEF Handles, Readable
    <2>4. /\ Deleted(tab, u, state)
          /\ \/ pass' = "all" /\ r' = Readable(S) /\ streamless' = Streamless(u)
             \/ UNCHANGED <<pass, r, streamless>>
      BY <2>1
    <2> HIDE DEF u, S
    <2>5. ObjectTypes'
      BY <1>1, <2>2, <2>4, DeletedTypes
    <2>6. at' = 0
      BY <1>2 DEF Select
    <2>7. TurnType'
      BY <1>1, <2>3, <2>4, <2>5, <2>6 DEF TurnType, ObjectTypes, Pos
    <2>8. Entries(streamless)'
      BY <1>1, <2>4, StreamlessLeaves DEF Entries
    <2> QED BY <2>5, <2>7, <2>8
  <1>3. CASE ServedAll
    BY <1>1, <1>3 DEF ServedAll, ObjectTypes, TurnType, Entries, listening, Pos
  <1>4. CASE SelectAgain
    <2> DEFINE S == {streamless[n].fh : n \in Again}
    <2>1. Readable(S) \subseteq FH
      BY EntriesType DEF Readable, Again
    <2>2. /\ tab' = tab /\ cfh' = cfh /\ sfh' = sfh /\ listening' = listening /\ state' = state
          /\ leaked' = leaked /\ at' = at
          /\ \/ pass' = "streamless" /\ r' = Readable(S) /\ streamless' = streamless /\ fresh' = fresh
             \/ pass' = "first" /\ r' = {} /\ streamless' = <<>> /\ fresh' = {}
      BY <1>4 DEF SelectAgain
    <2> HIDE DEF S
    <2> QED BY <1>1, <2>1, <2>2 DEF ObjectTypes, TurnType, Entries, listening, Pos
  <1>5. CASE ServedAgain
    BY <1>1, <1>5 DEF ServedAgain, ObjectTypes, TurnType, Entries, listening, Pos
  <1>6. ASSUME NEW p, ServeClient(p)
        PROVE  ObjectTypes' /\ TurnType' /\ Entries(streamless)'
    <2>1. /\ Checked \in Live /\ Checked \in CID /\ p = Pos(Checked)
      BY <1>6, CheckedAll DEF ServeClient, Live, LiveClients
    <2>2. ObjectTypes'
      BY <1>6, <2>1, CheckTypes DEF ServeClient
    <2>3. p \in Nat /\ p + 1 <= Pos(CLIENTS_MAX)
      BY <2>1, Positions
    <2>4. at' = p + 1 /\ r' \subseteq r /\ pass' = pass /\ streamless' = streamless
      BY <1>6 DEF ServeClient
    <2>5. at' \in 0 .. Pos(CLIENTS_MAX)
      BY <2>3, <2>4, LastPosition
    <2> QED BY <2>2, <2>4, <2>5 DEF TurnType, ObjectTypes, Entries, Pos
  <1>7. ASSUME NEW p, ServeStream(p)
        PROVE  ObjectTypes' /\ TurnType' /\ Entries(streamless)'
    <2>1. PICK c \in Live, k \in Slot : p = Pos(c) + 1 + k /\ streams_check(tab.clients[c].streams[k])
      BY <1>7, SMTT(60) DEF ServeStream
    <2> DEFINE s == tab.clients[c].streams[k]
               st == [state EXCEPT ![sfh[s]] = "quiet"]
    <2>2. \/ UNCHANGED objects
          \/ state' = st /\ UNCHANGED <<tab, cfh, sfh, listening, leaked, fresh, changes>>
          \/ Deleted(tab, streams_delete(tab, s), state)
      BY <2>1 DEF streams_check
    <2>3. st \in [FH -> States]
      BY <1>1 DEF States
    <2>4. Tidy(streams_delete(tab, s), {})
      BY <1>1, DeletersShrink DEF Shrunk
    <2> HIDE DEF s, st
    <2>5. ObjectTypes'
      <3>1. CASE UNCHANGED objects
        BY <3>1 DEF objects, listening, ObjectTypes
      <3>2. CASE state' = st /\ UNCHANGED <<tab, cfh, sfh, listening, leaked, fresh, changes>>
        BY <2>3, <3>2 DEF listening, ObjectTypes
      <3>3. CASE Deleted(tab, streams_delete(tab, s), state)
        BY <1>1, <2>4, <3>3, DeletedTypes
      <3> QED BY <2>2, <3>1, <3>2, <3>3
    <2>6. c \in CID
      BY DEF Live, LiveClients
    <2>7. p \in Nat /\ p + 1 <= Pos(CLIENTS_MAX)
      <3>1. k \in Nat /\ Pos(c) \in Nat
        BY <2>6, Positions DEF Slot
      <3> QED BY <2>1, <2>6, <3>1, Positions
    <2>8. at' = p + 1 /\ r' = r /\ pass' = pass /\ streamless' = streamless
      BY <1>7 DEF ServeStream
    <2>9. at' \in 0 .. Pos(CLIENTS_MAX)
      BY <2>7, <2>8, LastPosition
    <2> QED BY <2>5, <2>8, <2>9 DEF TurnType, ObjectTypes, Entries, Pos
  <1>8. ASSUME NEW p, ServeAgain(p)
        PROVE  ObjectTypes' /\ TurnType' /\ Entries(streamless)'
    <2>1. /\ p + 1 \in DOMAIN streamless /\ Checked # None => Checked \in Live
          /\ p \in Nat
      BY <1>8, CheckedAgain, NextPosition DEF ServeAgain
    <2>2. ObjectTypes'
      <3>1. CASE Checked # None
        BY <1>8, <2>1, <3>1, CheckedAgain, CheckTypes DEF ServeAgain
      <3>2. CASE UNCHANGED objects
        BY <3>2 DEF objects, listening, ObjectTypes
      <3> QED BY <1>8, <3>1, <3>2 DEF ServeAgain
    <2>3. p + 1 \in DOMAIN streamless
      BY <1>8, CheckedAgain DEF ServeAgain
    <2>4. p + 1 <= Pos(CLIENTS_MAX)
      <3>1. Len(streamless) <= CLIENTS_MAX /\ Len(streamless) \in Nat /\ p + 1 <= Len(streamless)
        BY <2>1, <2>3 DEF Entries
      <3> QED BY <2>1, <3>1, LastPosition, IdsAreNumbers
    <2>5. at' = p + 1 /\ r' = r /\ pass' = pass /\ streamless' = streamless
      BY <1>8 DEF ServeAgain
    <2>6. at' \in 0 .. Pos(CLIENTS_MAX)
      BY <2>1, <2>4, <2>5, LastPosition
    <2> QED BY <2>2, <2>5, <2>6 DEF TurnType, ObjectTypes, Entries, Pos
  <1>9. CASE Accept
    <2>1. PICK l \in listen, f \in FH, k \in CID :
            /\ FirstOf(FreeCIDs(tab), k)
            /\ tab' = [clients_new(tab, k) EXCEPT !.clients[k].fh = TRUE]
            /\ cfh' = [cfh EXCEPT ![k] = f]
            /\ IF l \in odd
               THEN ghosts' = ghosts \cup {k} /\ kept' = TRUE /\ state' = state
               ELSE state' = [state EXCEPT ![f] = "quiet"] /\ UNCHANGED <<ghosts, kept>>
      BY <1>9, Zenon DEF Accept
    <2>2. Tidy(tab', {}) /\ cfh' \in [CID -> FH \cup {None}]
      BY <2>1, GuestTypes
    <2>3. state' \in [FH -> States] /\ ghosts' \subseteq CID /\ kept' \in BOOLEAN
      BY <1>1, <2>1 DEF States, ObjectTypes
    <2>4. UNCHANGED <<sfh, listen, odd, leaked, fresh, loop>>
      BY <1>9 DEF Accept
    <2> QED BY <2>2, <2>3, <2>4 DEF ObjectTypes, TurnType, Entries, loop, Pos
  <1>10. ASSUME NEW f \in FH, NEW new \in {"ready", "gone"}, Peer(f, new)
         PROVE  ObjectTypes' /\ TurnType' /\ Entries(streamless)'
    <2>1. state' \in [FH -> States]
      BY <1>1, <1>10 DEF Peer, States
    <2> QED BY <1>10, <2>1 DEF Peer, ObjectTypes, TurnType, Entries, listening, loop, Pos
  <1> QED BY <1>2, <1>3, <1>4, <1>5, <1>6, <1>7, <1>8, <1>9, <1>10 DEF Next, Server

-----------------------------------------------------------------------------
(* Listen sockets, and handles that nobody knows *)

\* A request opens one or the other.
LEMMA CheckDistinct ==
    ASSUME leaked \cap listen = {}, Objects, NEW c, clients_check(c)
    PROVE  leaked' \cap listen' = {}
  <1> DEFINE st == [state EXCEPT ![cfh[c]] = "quiet"]
  <1>1. \/ \E t, u, x : Deleted(t, u, x)
        \/ Req_new_stream(c, st) \/ Req_exec_stream(c, st) \/ Req_con_stream(c, st)
        \/ Req_passfh(c, st) \/ Req_listen(c, st) \/ Req_exit(c, st) \/ Req_kick(c, st)
        \/ UNCHANGED <<listening, leaked>>
    BY Zenon DEF clients_check
  <1> HIDE DEF st
  <1>2. \A f \in FreeFH : f \notin leaked /\ f \notin listen
    BY DEF Objects, Owned, Held, Others, FreeFH, IsOpen
  <1>3. ASSUME NEW t, NEW u, NEW x, Deleted(t, u, x)
        PROVE  leaked' \cap listen' = {}
    BY <1>3 DEF Deleted
  <1>4. CASE Req_kick(c, st)
    BY <1>3, <1>4 DEF Req_kick
  <1>5. CASE Req_exec_stream(c, st) \/ Req_con_stream(c, st)
    <2>1. (\E t, u, x : Deleted(t, u, x)) \/ UNCHANGED <<listening, leaked>>
      BY <1>5, Zenon DEF Req_exec_stream, Req_con_stream
    <2> QED BY <1>3, <2>1 DEF listening
  <1>6. CASE Req_passfh(c, st)
    <2>1. \/ UNCHANGED <<listening, leaked>>
          \/ \E f \in FreeFH : leaked' = leaked \cup {f} /\ UNCHANGED listening
      BY <1>6, Zenon DEF Req_passfh, FirstOf
    <2> QED BY <1>2, <2>1 DEF listening
  <1>7. CASE Req_listen(c, st)
    <2>1. \/ UNCHANGED <<listen, leaked>>
          \/ \E f \in FreeFH : listen' = listen \cup {f} /\ leaked' = leaked
      BY <1>7, Zenon DEF Req_listen, FirstOf
    <2> QED BY <1>2, <2>1
  <1>8. CASE Req_exit(c, st) \/ Req_new_stream(c, st) \/ UNCHANGED <<listening, leaked>>
    BY <1>8 DEF Req_exit, Req_new_stream, listening
  <1> QED BY <1>1, <1>3, <1>4, <1>5, <1>6, <1>7, <1>8

\* No other step opens any.
LEMMA DistinctKeeps ==
    ASSUME leaked \cap listen = {}, Objects, Next
    PROVE  leaked' \cap listen' = {}
  <1>1. CASE Select
    <2>1. \E t, u, x : Deleted(t, u, x)
      BY <1>1, Zenon DEF Select
    <2> QED BY <2>1 DEF Deleted
  <1>2. CASE ServedAll \/ SelectAgain \/ ServedAgain
    BY <1>2 DEF ServedAll, SelectAgain, ServedAgain, listening
  <1>3. ASSUME NEW p, ServeClient(p)
        PROVE  leaked' \cap listen' = {}
    BY <1>3, CheckDistinct DEF ServeClient
  <1>4. ASSUME NEW p, ServeStream(p)
        PROVE  leaked' \cap listen' = {}
    <2>1. \E s : streams_check(s)
      BY <1>4, Zenon DEF ServeStream
    <2>2. (\E t, u, x : Deleted(t, u, x)) \/ UNCHANGED <<listening, leaked>>
      BY <2>1, Zenon DEF streams_check, objects
    <2> QED BY <2>2 DEF Deleted, listening
  <1>5. ASSUME NEW p, ServeAgain(p)
        PROVE  leaked' \cap listen' = {}
    BY <1>5, CheckDistinct DEF ServeAgain, objects, listening
  <1>6. CASE Accept
    BY <1>6 DEF Accept
  <1>7. ASSUME NEW f, NEW new, Peer(f, new)
        PROVE  leaked' \cap listen' = {}
    BY <1>7 DEF Peer, listening
  <1> QED BY <1>1, <1>2, <1>3, <1>4, <1>5, <1>6, <1>7 DEF Next, Server

\* Until a connection of an unknown protocol is closed and kept, all of the
\* invariant is.
LEMMA StrictKeeps ==
    ASSUME Strict, leaked \cap listen = {}, Next, ~ kept'
    PROVE  Strict' /\ leaked' \cap listen' = {}
  <1>1. Strict'
    BY SelectKeeps, ServedAllKeeps, SelectAgainKeeps, ServedAgainKeeps, ServeClientKeeps,
       ServeStreamKeeps, ServeAgainKeeps, AcceptKeeps, PeerKeeps DEF Next, Server
  <1>2. Objects
    BY DEF Strict, Objects, TurnType
  <1> QED BY <1>1, <1>2, DistinctKeeps

\* That such a client was kept is never forgotten.
LEMMA KeptStays ==
    ASSUME Next, kept
    PROVE  kept'
  <1>1. ASSUME NEW c, clients_check(c) PROVE kept'
    <2> DEFINE st == [state EXCEPT ![cfh[c]] = "quiet"]
    <2>1. \/ \E t, u, x : Deleted(t, u, x)
          \/ Req_new_stream(c, st) \/ Req_exec_stream(c, st) \/ Req_con_stream(c, st)
          \/ Req_passfh(c, st) \/ Req_listen(c, st) \/ Req_exit(c, st) \/ Req_kick(c, st)
          \/ UNCHANGED listening
      BY <1>1, Zenon DEF clients_check
    <2> HIDE DEF st
    <2>2. (\E t, u, x : Deleted(t, u, x)) \/ UNCHANGED listening \/ kept' = kept
      BY <2>1, Zenon DEF Req_new_stream, Req_exec_stream, Req_con_stream, Req_passfh, Req_listen,
         Req_exit, Req_kick
    <2> QED BY <2>2 DEF Deleted, listening
  <1>2. ASSUME NEW s, streams_check(s) PROVE kept'
    BY <1>2 DEF streams_check, Deleted, objects, listening
  <1>3. CASE Accept
    BY <1>3 DEF Accept
  <1>4. CASE Select
    BY <1>4 DEF Select, Deleted
  <1>5. ASSUME NEW p, ServeAgain(p) PROVE kept'
    BY <1>1, <1>5 DEF ServeAgain, objects, listening
  <1>6. ASSUME NEW p, ServeClient(p) \/ ServeStream(p) PROVE kept'
    BY <1>1, <1>2, <1>6 DEF ServeClient, ServeStream
  <1>7. CASE ServedAll \/ SelectAgain \/ ServedAgain \/ \E f, new : Peer(f, new)
    BY <1>7 DEF ServedAll, SelectAgain, ServedAgain, Peer, listening
  <1> QED BY <1>3, <1>4, <1>5, <1>6, <1>7 DEF Next, Server

-----------------------------------------------------------------------------
(* What is proved of clients_check_all() *)

\* However requests, connections and the passes of the turns interleave:
\* everything keeps its type; and until a connection of an unknown protocol is
\* closed and kept, every handle has its owners, and nothing that is left of a
\* turn would stop the server.
THEOREM PollInvariance == Spec => []PollInv
  <1>1. Init => PollInv
    BY InitKeeps
  <1>2. PollInv /\ [Next]_vars => PollInv'
    <2> SUFFICES ASSUME PollInv, [Next]_vars
                 PROVE  PollInv'
      OBVIOUS
    <2>1. CASE UNCHANGED vars
      <3>1. /\ tab' = tab /\ cfh' = cfh /\ sfh' = sfh /\ state' = state /\ leaked' = leaked
            /\ listen' = listen /\ odd' = odd /\ ghosts' = ghosts /\ kept' = kept
            /\ pass' = pass /\ at' = at /\ r' = r /\ streamless' = streamless /\ fresh' = fresh
        BY <2>1 DEF vars, objects, loop, listening
      <3> QED BY <3>1 DEF PollInv, ObjectTypes, Strict, Others, TurnType, EntriesKept, Entries,
              AllLeft, AgainLeft, Readied, Live, Pos
    <2>2. CASE Next
      <3>1. ObjectTypes' /\ TurnType' /\ Entries(streamless)'
        BY <2>2, TypesKeep DEF PollInv
      <3>2. kept' \/ (Strict' /\ leaked' \cap listen' = {})
        BY <2>2, KeptStays, StrictKeeps DEF PollInv
      <3> QED BY <3>1, <3>2 DEF PollInv
    <2> QED BY <2>1, <2>2
  <1> QED BY <1>1, <1>2, PTL DEF Spec

\* The tables, the handles and the state of the turn keep their types.
THEOREM PTypesCorrect == Spec => []PTypeOK
  <1>1. PollInv => PTypeOK
    <2> SUFFICES ASSUME PollInv PROVE PTypeOK
      OBVIOUS
    <2>1. /\ tab \in TablesType /\ cfh \in [CID -> FH \cup {None}]
          /\ sfh \in [SID -> FH \cup {None, Full}]
          /\ leaked \subseteq FH /\ listen \subseteq FH /\ fresh \subseteq FH /\ odd \subseteq listen
          /\ ghosts \subseteq CID /\ kept \in BOOLEAN
          /\ state \in [FH -> {"closed", "quiet", "ready", "gone", "listen"}]
      BY DEF PollInv, ObjectTypes, Tidy, States
    <2>2. /\ r \subseteq FH
          /\ pass \in {"first", "all", "second", "streamless"} /\ at \in 0 .. Pos(CLIENTS_MAX)
          /\ streamless \in Seq([id : CID, fh : FH]) /\ Len(streamless) <= MAX_STREAMLESS
      BY DEF PollInv, TurnType, Entries
    <2> QED BY <2>1, <2>2 DEF PTypeOK
  <1> QED BY <1>1, PollInvariance, PTL

\* Until a connection of an unknown protocol is closed and kept, every open
\* handle has one owner, or a client and the stream it became, or is one that
\* came with a PASSFH that was malformed or refused: no request, however it
\* ends, leaves a handle with two owners or closes that of somebody else.
THEOREM HandlesCorrect == Spec => []HandlesOwned
  <1>1. PollInv => HandlesOwned
    <2> SUFFICES ASSUME Strict, leaked \cap listen = {}, NEW f \in FH
                 PROVE  /\ IsOpen(f) <=> Holders(f) # {} \/ f \in leaked
                        /\ \/ Cardinality(Holders(f)) <= 1 /\ (f \in leaked => Holders(f) = {})
                           \/ \E c \in Live :
                                /\ Holders(f) = {<<"client", c>>, <<"stream", tab.clients[c].execed>>}
                                /\ tab.streams[tab.clients[c].execed].client = c
      BY DEF HandlesOwned, PollInv
    <2>1. /\ Tidy(tab, {}) /\ Apart(tab, cfh, sfh)
          /\ state[f] # "closed" <=> Held(tab, cfh, sfh, Others, f)
          /\ f \in Others <=> f \in leaked \/ f \in listen
          /\ f \in Others => /\ \A c \in Live : cfh[c] # f
                             /\ \A s \in LiveStreams(tab) : sfh[s] # f
      BY DEF Strict, Owned, Live, Others
    <2>2. /\ \A c \in Live : cfh[c] = f => <<"client", c>> \in Holders(f)
          /\ \A s \in LiveStreams(tab) : sfh[s] = f => <<"stream", s>> \in Holders(f)
          /\ f \in listen => <<"listen", f>> \in Holders(f)
          /\ \A h \in Holders(f) : \/ \E c \in Live : cfh[c] = f /\ h = <<"client", c>>
                                   \/ \E s \in LiveStreams(tab) : sfh[s] = f /\ h = <<"stream", s>>
                                   \/ f \in listen /\ h = <<"listen", f>>
      BY DEF Holders
    <2>3. IsOpen(f) <=> Holders(f) # {} \/ f \in leaked
      BY <2>1, <2>2 DEF IsOpen, Held, Live
    <2>4. f \in leaked => Holders(f) = {}
      BY <2>1, <2>2
    <2>5. CASE Holders(f) = {}
      BY <2>3, <2>5, FS_EmptySet
    <2>6. ASSUME NEW h, Holders(f) = {h}
          PROVE  Cardinality(Holders(f)) <= 1
      <3>1. Cardinality({h}) = 1
        BY FS_Singleton, Zenon
      <3>2. Cardinality(Holders(f)) = 1
        BY <2>6, <3>1, Zenon
      <3> QED BY <3>2
    <2>7. ASSUME NEW c \in Live, cfh[c] = f, NEW s \in LiveStreams(tab), sfh[s] = f
          PROVE  /\ Holders(f) = {<<"client", c>>, <<"stream", tab.clients[c].execed>>}
                 /\ tab.streams[tab.clients[c].execed].client = c
      <3>1. tab.clients[c].execed = s
        BY <2>1, <2>7 DEF Apart, Live
      <3>2. (\A d \in Live : cfh[d] = f => d = c) /\ (\A i \in LiveStreams(tab) : sfh[i] = f => i = s)
        BY <2>1, <2>7 DEF Apart, Live
      <3>3. tab.streams[s].client = c
        <4>1. s # None
          BY NoneIsNoStream DEF LiveStreams
        <4>2. s \in SlotSet(tab, c)
          BY <2>1, <3>1, <4>1 DEF Tidy, ExecedListed, Live
        <4> QED BY <2>1, <4>2 DEF Tidy, SlotsAgree, SlotSet, Live
      <3>4. Holders(f) = {<<"client", c>>, <<"stream", s>>}
        BY <2>1, <2>2, <2>7, <3>2
      <3> QED BY <3>1, <3>3, <3>4
    <2>8. ASSUME NEW c \in Live, cfh[c] = f, \A s \in LiveStreams(tab) : sfh[s] # f
          PROVE  Cardinality(Holders(f)) <= 1
      <3>1. \A d \in Live : cfh[d] = f => d = c
        BY <2>1, <2>8 DEF Apart, Live
      <3>2. Holders(f) = {<<"client", c>>}
        BY <2>1, <2>2, <2>8, <3>1
      <3> QED BY <2>6, <3>2
    <2>9. ASSUME NEW s \in LiveStreams(tab), sfh[s] = f, \A c \in Live : cfh[c] # f
          PROVE  Cardinality(Holders(f)) <= 1
      <3>1. \A i \in LiveStreams(tab) : sfh[i] = f => i = s
        BY <2>1, <2>9 DEF Apart
      <3>2. Holders(f) = {<<"stream", s>>}
        BY <2>1, <2>2, <2>9, <3>1
      <3> QED BY <2>6, <3>2
    <2>10. CASE f \in listen
      <3>1. Holders(f) = {<<"listen", f>>}
        BY <2>1, <2>2, <2>10
      <3> QED BY <2>3, <2>4, <2>6, <3>1
    <2>11. CASE Holders(f) # {} /\ f \notin listen
      BY <2>2, <2>3, <2>4, <2>7, <2>8, <2>9, <2>11
    <2> QED BY <2>5, <2>10, <2>11
  <1> QED BY <1>1, PollInvariance, PTL

\* Until then clients_check() is only called for clients that are no streams and have
\* something to be read, or came in the turn itself: a read that would wait for
\* ever is never begun because of what the turn remembers.
THEOREM ReadsCorrect == Spec => []ReadsOnlyReady
  <1>1. PollInv => ReadsOnlyReady
    <2> SUFFICES ASSUME Strict, Checked # None
                 PROVE  tab.clients[Checked].execed = None /\ Readied(Checked)
      BY DEF ReadsOnlyReady, Readied, PollInv
    <2>1. TurnType /\ EntriesKept /\ Entries(streamless) /\ AllLeft /\ AgainLeft
      BY DEF Strict, EntriesKept
    <2>2. Todo # {}
      BY DEF Checked
    <2>3. PICK p : Here(p)
      <3>1. at \in Nat /\ Len(streamless) \in Nat /\ Pos(CLIENTS_MAX) \in Nat
        BY <2>1, LastPosition DEF TurnType, EntriesKept, Entries
      <3>2. Todo \in SUBSET Nat
        BY <3>1 DEF Todo
      <3> QED BY <2>2, <3>2, FirstExists DEF Here
    <2>4. p \in Todo /\ p \in Nat /\ p >= at /\ at \in Nat /\ (CHOOSE q \in Todo : Here(q)) = p
      BY <2>1, <2>3, NextPosition
    <2>5. CASE pass = "all"
      <3>1. HasRequest(p)
        BY <2>2, <2>4, <2>5 DEF Checked
      <3>2. /\ Checked \in Live /\ p = Pos(Checked)
            /\ cfh[Checked] \in r /\ tab.clients[Checked].execed = None
        BY <2>1, <2>3, <2>5, <3>1, CheckedAll
      <3> QED BY <2>1, <2>4, <2>5, <3>2 DEF AllLeft
    <2>6. CASE pass = "streamless"
      <3>1. /\ p + 1 \in DOMAIN streamless /\ streamless[p + 1].fh \in r
            /\ Checked = streamless[p + 1].id /\ Checked \in Live /\ cfh[Checked] # None
        BY <2>1, <2>3, <2>6, CheckedAgain
      <3>2. p + 1 > at
        BY <2>4
      <3> QED BY <2>1, <2>6, <3>1, <3>2 DEF AgainLeft
    <2>7. pass = "all" \/ pass = "streamless"
      BY <2>2 DEF Todo
    <2> QED BY <2>5, <2>6, <2>7
  <1> QED BY <1>1, PollInvariance, PTL
=============================================================================
