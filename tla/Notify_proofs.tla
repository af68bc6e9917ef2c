---------------------------- MODULE Notify_proofs ----------------------------
(***************************************************************************)
(* Proofs about module Notify, for every number of clients, lists, events  *)
(* and subscribers and for every request.                                  *)
(***************************************************************************)
EXTENDS Notify, WellFoundedInduction, TLAPS

-----------------------------------------------------------------------------
(* The inductive invariant                                                  *)

\* The memory m: its lists hold the linked subscribers, each once and in the
\* list of its pattern.
Cells == [lists : [Bucket -> Seq(Node)], node : [Node -> Subscriber]]

Linked(m, n) == m.node[n].state = "linked"
Stale(m, n)  == m.node[n].state \in {"leaked", "freed"}

Used(m) ==
    \A n \in Node : m.node[n].state # "unused" =>
        m.node[n].pattern \in Pattern /\ m.node[n].client \in Client

ListsLinked(m) ==
    \A b \in Bucket : \A i \in DOMAIN m.lists[b] :
        Linked(m, m.lists[b][i]) /\ m.node[m.lists[b][i]].pattern.hash = b

Distinct(s) == \A i, j \in DOMAIN s : s[i] = s[j] => i = j

ListedOnce(m) == \A b \in Bucket : Distinct(m.lists[b])

LinkedListed(m) ==
    \A n \in Node : Linked(m, n) => Contains(m.lists[m.node[n].pattern.hash], n)

Sound(m) ==
    m \in Cells /\ Used(m) /\ ListsLinked(m) /\ ListedOnce(m) /\ LinkedListed(m)

\* A client is waiting when it has a cs->waits: its subscribers are those in
\* there, cl being the clients that exist and ws their cs->waits.
Owned(m, cl, ws) ==
    /\ cl \subseteq Client
    /\ ws \in [Client -> Seq(Node) \cup {NIL}]
    /\ \A c \in Client \ cl : ws[c] = NIL
    /\ \A c \in Client : ws[c] # NIL =>
        /\ Distinct(ws[c])
        /\ \A i \in DOMAIN ws[c] : Linked(m, ws[c][i]) /\ m.node[ws[c][i]].client = c
    /\ \A n \in Node : Linked(m, n) =>
        ws[m.node[n].client] # NIL /\ Contains(ws[m.node[n].client], n)

\* Nobody waits with subscribers that were unlinked; what they point to was
\* in their list.
Forgotten(m, ws) ==
    \A n \in Node : Stale(m, n) =>
        /\ ws[m.node[n].client] = NIL
        /\ m.node[n].next # NIL =>
            /\ m.node[m.node[n].next].state # "unused"
            /\ m.node[m.node[n].next].pattern.hash = m.node[n].pattern.hash

\* They are there only as long as an event is being emitted.
Settled == walk = NIL /\ ~ crashed => \A n \in Node : ~ Stale(Memory, n)

Blocked == blockc \in [Client -> Nat] /\ BlockedWhileWaiting

\* The cursor of the walk w is in the list of its event, or was.
OnList(m, w) ==
    w.cur # NIL =>
        m.node[w.cur].state # "unused" /\ m.node[w.cur].pattern.hash = hash[w.event]

\* The order of the lists: rank says where a subscriber is, or was.
Increasing(m, rank) ==
    \A b \in Bucket : \A i, j \in DOMAIN m.lists[b] :
        i < j => rank[m.lists[b][i]] < rank[m.lists[b][j]]

\* Nothing that is linked lies between n, which is not, and what n points to.
Follows(m, rank, n) ==
    \A x \in Node :
        Linked(m, x) /\ m.node[x].pattern.hash = m.node[n].pattern.hash =>
            \/ rank[x] < rank[n]
            \/ /\ m.node[n].next # NIL
               /\ rank[n] < rank[x]
               /\ rank[m.node[n].next] <= rank[x]

\* Another subscriber of the client of n in the list of n.
Overlap(m, n) ==
    \E k \in Node \ {n} :
        /\ m.node[k].pattern # NIL
        /\ m.node[k].client = m.node[n].client
        /\ m.node[k].pattern.hash = m.node[n].pattern.hash

\* Everybody who waits for the event is at the cursor or behind it.
Ahead(m, w, rank) ==
    \A x \in Node :
        (/\ Linked(m, x) /\ m.node[x].pattern.hash = hash[w.event]
         /\ w.event \in m.node[x].pattern.events) =>
            w.cur # NIL /\ rank[w.cur] <= rank[x]

\* The pointer of n, which is not linked, leads into the list or on to another
\* subscriber of the same client.
LeadsOn(m, rank, n) ==
    /\ Follows(m, rank, n)
    /\ (m.node[n].next # NIL /\ Stale(m, m.node[n].next)) =>
        m.node[n].next # n /\ m.node[m.node[n].next].client = m.node[n].client

\* The cursor may be on a subscriber that was unlinked.
Astray(m, w, rank) ==
    (w.cur # NIL /\ Stale(m, w.cur)) =>
        /\ Overlap(m, w.cur)
        /\ \A n \in Node :
            (Stale(m, n) /\ m.node[n].client = m.node[w.cur].client) => LeadsOn(m, rank, n)

Ordered(m, w) ==
    \E rank \in [Node -> Nat] :
        Increasing(m, rank) /\ Ahead(m, w, rank) /\ Astray(m, w, rank)

\* The walk w is over the list of the event its place in the emit() says.
InPlace(w) == w.at \in DOMAIN Emits(w.of) /\ w.event = Emits(w.of)[w.at]

\* Nobody waits for what emit() has emitted before the walk w.
Heard(m, w) ==
    \A k \in 1 .. w.at - 1 : \A x \in Node :
        Linked(m, x) /\ m.node[x].pattern.hash = hash[Emits(w.of)[k]] =>
            Emits(w.of)[k] \notin m.node[x].pattern.events

Walking ==
    /\ walk # NIL => walk \in Walk /\ OnList(Memory, walk) /\ Ordered(Memory, walk)
    /\ walk # NIL => InPlace(walk) /\ Heard(Memory, walk)
    /\ crashed \in BOOLEAN
    /\ walk # NIL => ~ crashed

\* The inductive invariant.
NInv ==
    /\ Sound(Memory) /\ Owned(Memory, clients, waits) /\ Forgotten(Memory, waits)
    /\ Settled /\ Blocked /\ Walking

-----------------------------------------------------------------------------
(* Lists                                                                    *)

\* A set that holds 0 and the successor of what it holds holds all up to n.
LEMMA UpTo ==
    ASSUME NEW n \in Nat, NEW T, 0 \in T, \A k \in 0 .. n - 1 : k \in T => k + 1 \in T
    PROVE  0 .. n \subseteq T
<1> DEFINE R == OpToRel(<, Nat)
           U == (0 .. n) \ T
<1>1. IsWellFoundedOn(R, Nat)
  BY NatLessThanWellFounded
<1> SUFFICES ASSUME U # {} PROVE FALSE
  OBVIOUS
<1>2. U \subseteq Nat
  OBVIOUS
<1> HIDE DEF U, R
<1>3. PICK m \in U : \A y \in U : ~ (<<y, m>> \in R)
  BY <1>1, <1>2, WFMin
<1>4. m \in 0 .. n /\ m # 0 /\ m \notin T
  BY <1>3 DEF U
<1>5. m - 1 \in 0 .. n - 1 /\ m - 1 \in 0 .. n /\ m - 1 < m /\ (m - 1) + 1 = m
  BY <1>4
<1>6. <<m - 1, m>> \in R
  BY <1>4, <1>5 DEF R, OpToRel
<1>7. m - 1 \in T
  BY <1>3, <1>5, <1>6 DEF U
<1> QED BY <1>4, <1>5, <1>7

\* The place of n in a list that holds it.
LEMMA IndexLeaves ==
    ASSUME NEW S, NEW l \in Seq(S), NEW n, Contains(l, n)
    PROVE  Index(l, n) \in 1 .. Len(l) /\ Index(l, n) \in DOMAIN l /\ l[Index(l, n)] = n
<1>1. DOMAIN l = 1 .. Len(l)
  OBVIOUS
<1>2. \E j \in DOMAIN l : l[j] = n
  BY <1>1 DEF Contains
<1> QED BY <1>1, <1>2 DEF Index

\* What is left of a list when its element i is unlinked.
LEMMA RemoveAtLeaves ==
    ASSUME NEW S, NEW l \in Seq(S), NEW i \in 1 .. Len(l)
    PROVE  /\ RemoveAt(l, i) \in Seq(S)
           /\ Len(RemoveAt(l, i)) = Len(l) - 1
           /\ \A j \in 1 .. Len(l) - 1 :
                RemoveAt(l, i)[j] = IF j < i THEN l[j] ELSE l[j + 1]
<1> DEFINE a == SubSeq(l, 1, i - 1)
           b == SubSeq(l, i + 1, Len(l))
<1>1. a \in Seq(S) /\ Len(a) = i - 1 /\ \A j \in 1 .. i - 1 : a[j] = l[j]
  OBVIOUS
<1>2. /\ b \in Seq(S) /\ Len(b) = Len(l) - i
      /\ \A j \in 1 .. Len(l) - i : b[j] = l[i + j]
  OBVIOUS
<1>3. RemoveAt(l, i) = a \o b
  BY DEF RemoveAt
<1>4. Len(l) \in Nat
  OBVIOUS
<1> HIDE DEF a, b
<1>5. a \o b \in Seq(S) /\ Len(a \o b) = Len(l) - 1
  <2>0. a \in Seq(S) /\ b \in Seq(S)
    BY <1>1, <1>2
  <2>1. a \o b \in Seq(S) /\ Len(a \o b) = Len(a) + Len(b)
    BY ONLY <2>0
  <2>2. (i - 1) + (Len(l) - i) = Len(l) - 1
    BY <1>4
  <2> QED BY <1>1, <1>2, <2>1, <2>2
<1>6. ASSUME NEW j \in 1 .. Len(l) - 1
      PROVE  (a \o b)[j] = IF j < i THEN l[j] ELSE l[j + 1]
  <2>1. CASE j < i
    BY <1>1, <1>2, <1>4, <2>1
  <2>2. CASE ~ (j < i)
    <3>1. j - (i - 1) \in 1 .. Len(l) - i /\ i + (j - (i - 1)) = j + 1
      BY <1>4, <2>2
    <3>2. (a \o b)[j] = b[j - (i - 1)]
      BY <1>1, <1>2, <1>4, <2>2, SMTT(60)
    <3> QED BY <1>2, <3>1, <3>2, <2>2
  <2> QED BY <2>1, <2>2
<1> QED BY <1>3, <1>5, <1>6

-----------------------------------------------------------------------------
(* Cancelling and making subscriptions                                      *)

\* The memory u is m without the subscribers S.
Unlinked(m, u, S) ==
    /\ Sound(u)
    /\ \A n \in Node \ S : u.node[n] = m.node[n]
    /\ \A n \in S :
        /\ Stale(u, n)
        /\ u.node[n].pattern = m.node[n].pattern
        /\ u.node[n].client = m.node[n].client
        /\ u.node[n].next # NIL =>
            /\ u.node[n].next \in Node \ {n}
            /\ Linked(m, u.node[n].next)
            /\ m.node[u.node[n].next].pattern.hash = m.node[n].pattern.hash

\* The lists keep their order, and what S points to is right behind it.
KeepsOrder(m, u, S) ==
    \A rank \in [Node -> Nat] : Increasing(m, rank) =>
        Increasing(u, rank) /\ \A n \in S : Follows(u, rank, n)

\* The parts of a linked subscriber.
LEMMA LinkedParts ==
    ASSUME NEW m, Sound(m), NEW n \in Node, Linked(m, n)
    PROVE  /\ m.node[n] \in Subscriber
           /\ m.node[n].pattern \in Pattern /\ m.node[n].client \in Client
           /\ m.node[n].pattern.hash \in Bucket
           /\ m.lists[m.node[n].pattern.hash] \in Seq(Node)
           /\ Contains(m.lists[m.node[n].pattern.hash], n)
<1>1. m.node[n] \in Subscriber
  BY DEF Sound, Cells
<1>2. m.node[n].pattern \in Pattern /\ m.node[n].client \in Client
  BY DEF Sound, Used, Linked
<1>3. m.node[n].pattern.hash \in Bucket
  BY <1>2 DEF Pattern
<1>4. m.lists[m.node[n].pattern.hash] \in Seq(Node)
  BY <1>3 DEF Sound, Cells
<1>5. Contains(m.lists[m.node[n].pattern.hash], n)
  BY SMTT(60) DEF Sound, LinkedListed
<1> QED BY <1>1, <1>2, <1>3, <1>4, <1>5

\* What roar_notify_core_unsubscribe() leaves in memory.
LEMMA UnsubscribeLeaves ==
    ASSUME NEW m, Sound(m), NEW n \in Node, Linked(m, n)
    PROVE  LET b == m.node[n].pattern.hash
               l == m.lists[b]
               i == Index(l, n)
               u == unsubscribe(m, n)
           IN  /\ u \in Cells
               /\ u.lists = [m.lists EXCEPT ![b] = RemoveAt(l, i)]
               /\ \A x \in Node \ {n} : u.node[x] = m.node[x]
               /\ Stale(u, n)
               /\ u.node[n].pattern = m.node[n].pattern
               /\ u.node[n].client = m.node[n].client
               /\ u.node[n].next = IF i = Len(l) THEN NIL ELSE l[i + 1]
<1> DEFINE b == m.node[n].pattern.hash
           l == m.lists[b]
           i == Index(l, n)
           q == IF i = Len(l) THEN NIL ELSE l[i + 1]
           st == IF Head(l) = n THEN "leaked" ELSE "freed"
           x0 == m.node[n]
           y == [x0 EXCEPT !.state = st, !.next = q]
           ls == [m.lists EXCEPT ![b] = RemoveAt(l, i)]
<1>1. /\ x0 \in Subscriber /\ b \in Bucket
      /\ l \in Seq(Node) /\ Contains(l, n)
  BY LinkedParts, ZenonT(60)
<1>2. i \in 1 .. Len(l) /\ l[i] = n
  BY <1>1, IndexLeaves, ZenonT(60)
<1>3. q \in Node \cup {NIL}
  <2>1. i # Len(l) => i + 1 \in 1 .. Len(l)
    BY <1>1, <1>2, SMTT(60)
  <2> QED BY <1>1, <2>1, SMTT(60)
<1>4. Next(m, n) = q
  BY DEF Next, Linked
<1>5. unsubscribe(m, n) = [lists |-> ls, node |-> [m.node EXCEPT ![n] = y]]
  BY <1>1, <1>4, ZenonT(60) DEF unsubscribe
<1>6. m.lists \in [Bucket -> Seq(Node)] /\ m.node \in [Node -> Subscriber]
  BY SMTT(60) DEF Sound, Cells
<1>7. ls \in [Bucket -> Seq(Node)]
  BY <1>1, <1>2, <1>6, RemoveAtLeaves
<1>8. /\ y \in Subscriber /\ y.state \in {"leaked", "freed"}
      /\ y.pattern = x0.pattern /\ y.client = x0.client /\ y.next = q
  <2> HIDE DEF q, x0
  <2>1. st \in {"leaked", "freed"}
    OBVIOUS
  <2> HIDE DEF st
  <2> QED BY <1>1, <1>3, <2>1 DEF Subscriber
<1> HIDE DEF y, ls
<1> DEFINE u == unsubscribe(m, n)
<1>9. u.lists = ls /\ u.node = [m.node EXCEPT ![n] = y] /\ u \in Cells
  BY <1>5, <1>6, <1>7, <1>8 DEF Cells
<1>10. u.node[n] = y /\ \A x \in Node \ {n} : u.node[x] = m.node[x]
  BY <1>6, <1>9
<1> QED BY <1>8, <1>9, <1>10 DEF Stale, ls

\* The place in the list l of what is at place j when element i is unlinked.
Place(i, j) == IF j < i THEN j ELSE j + 1

Places(l, k, i) ==
    /\ DOMAIN l = 1 .. Len(l)
    /\ \A j \in DOMAIN k :
        Place(i, j) \in DOMAIN l /\ Place(i, j) # i /\ k[j] = l[Place(i, j)]
    /\ \A j, h \in DOMAIN k : j < h => Place(i, j) < Place(i, h)
    /\ \A j, h \in DOMAIN k : Place(i, j) = Place(i, h) => j = h
    /\ \A j \in DOMAIN l : j # i => \E h \in DOMAIN k : k[h] = l[j]

\* The places of a list before and after its element i was unlinked.
LEMMA RemoveAtPlaces ==
    ASSUME NEW S, NEW l \in Seq(S), NEW i \in 1 .. Len(l)
    PROVE  Places(l, RemoveAt(l, i), i)
<1> DEFINE k == RemoveAt(l, i)
           e(j) == Place(i, j)
<1>1. /\ k \in Seq(S) /\ Len(k) = Len(l) - 1
      /\ \A j \in 1 .. Len(l) - 1 : k[j] = IF j < i THEN l[j] ELSE l[j + 1]
  BY RemoveAtLeaves
<1> HIDE DEF k
<1>2. DOMAIN k = 1 .. Len(l) - 1 /\ DOMAIN l = 1 .. Len(l) /\ Len(l) \in Nat
  BY <1>1
<1>3. ASSUME NEW j \in DOMAIN k
      PROVE  e(j) \in DOMAIN l /\ e(j) # i /\ k[j] = l[e(j)]
  BY <1>1, <1>2 DEF Place
<1>4. ASSUME NEW j \in DOMAIN k, NEW h \in DOMAIN k
      PROVE  (j < h => e(j) < e(h)) /\ (e(j) = e(h) => j = h)
  BY <1>2 DEF Place
<1>5. ASSUME NEW j \in DOMAIN l, j # i
      PROVE  \E h \in DOMAIN k : k[h] = l[j]
  <2>1. CASE j < i
    <3>1. j \in DOMAIN k /\ k[j] = l[j]
      BY <1>1, <1>2, <2>1
    <3> QED BY <3>1
  <2>2. CASE ~ (j < i)
    <3>1. j - 1 \in DOMAIN k /\ ~ (j - 1 < i) /\ (j - 1) + 1 = j
      BY <1>2, <1>5, <2>2
    <3>2. k[j - 1] = l[j]
      BY <1>1, <1>2, <3>1, SMTT(60)
    <3> QED BY <3>1, <3>2
  <2> QED BY <2>1, <2>2
<1> QED BY <1>2, <1>3, <1>4, <1>5 DEF k, Places

\* A place that is not the last has one behind it.
LEMMA NextPlace ==
    ASSUME NEW k \in Nat, NEW i \in 1 .. k, i # k
    PROVE  i + 1 \in 1 .. k /\ i + 1 # i
OBVIOUS

\* roar_notify_core_unsubscribe() leaves sound lists.
LEMMA UnsubscribeSound ==
    ASSUME NEW m, Sound(m), NEW n \in Node, Linked(m, n)
    PROVE  Unlinked(m, unsubscribe(m, n), {n})
<1> DEFINE b0 == m.node[n].pattern.hash
           l == m.lists[b0]
           i0 == Index(l, n)
           k == RemoveAt(l, i0)
           e(j) == Place(i0, j)
           u == unsubscribe(m, n)
<1>1. /\ m.node[n].pattern \in Pattern /\ m.node[n].client \in Client
      /\ b0 \in Bucket /\ l \in Seq(Node) /\ Contains(l, n)
  BY LinkedParts, ZenonT(60)
<1>2. i0 \in 1 .. Len(l) /\ l[i0] = n
  BY <1>1, IndexLeaves, ZenonT(60)
<1>3. /\ u \in Cells
      /\ u.lists = [m.lists EXCEPT ![b0] = k]
      /\ \A x \in Node \ {n} : u.node[x] = m.node[x]
      /\ Stale(u, n)
      /\ u.node[n].pattern = m.node[n].pattern
      /\ u.node[n].client = m.node[n].client
      /\ u.node[n].next = IF i0 = Len(l) THEN NIL ELSE l[i0 + 1]
  BY UnsubscribeLeaves, SMTT(60)
<1>4. /\ DOMAIN l = 1 .. Len(l)
      /\ \A j \in DOMAIN k : e(j) \in DOMAIN l /\ e(j) # i0 /\ k[j] = l[e(j)]
      /\ \A j, h \in DOMAIN k : e(j) = e(h) => j = h
      /\ \A j \in DOMAIN l : j # i0 => \E h \in DOMAIN k : k[h] = l[j]
  <2>1. Places(l, k, i0)
    BY <1>1, <1>2, RemoveAtPlaces, Zenon
  <2> QED BY <2>1 DEF Places
<1>5. /\ m.lists \in [Bucket -> Seq(Node)] /\ m.node \in [Node -> Subscriber]
      /\ Used(m) /\ ListsLinked(m) /\ ListedOnce(m) /\ LinkedListed(m)
  BY SMTT(60) DEF Sound, Cells
<1>6. u.lists[b0] = k /\ \A b \in Bucket : b # b0 => u.lists[b] = m.lists[b]
  BY <1>1, <1>3, <1>5
<1> HIDE DEF u, k, e, i0
<1>7. ~ Linked(u, n)
  BY <1>3, SMTT(60) DEF Stale, Linked
<1>8. Used(u)
  BY <1>1, <1>3, <1>5 DEF Used
<1>9. ASSUME NEW b \in Bucket, NEW j \in DOMAIN u.lists[b]
      PROVE  /\ u.lists[b][j] \in Node \ {n} /\ Linked(m, u.lists[b][j])
             /\ m.node[u.lists[b][j]].pattern.hash = b
  <2>1. CASE b = b0
    <3>1. e(j) \in DOMAIN l /\ e(j) # i0 /\ u.lists[b][j] = l[e(j)]
      BY <1>4, <1>6, <1>9, <2>1
    <3>2. i0 \in DOMAIN l
      BY <1>2, <1>4
    <3>3. l[e(j)] # n
      BY <1>1, <1>2, <1>5, <3>1, <3>2, ZenonT(60) DEF ListedOnce, Distinct
    <3>4. l[e(j)] \in Node
      BY <1>1, <3>1
    <3> QED BY <1>1, <1>5, <2>1, <3>1, <3>3, <3>4, ZenonT(60) DEF ListsLinked
  <2>2. CASE b # b0
    <3>1. u.lists[b] = m.lists[b] /\ m.lists[b] \in Seq(Node)
      BY <1>5, <1>6, <2>2
    <3>2. u.lists[b][j] \in Node
      BY <1>9, <3>1
    <3>3. Linked(m, m.lists[b][j]) /\ m.node[m.lists[b][j]].pattern.hash = b
      BY <1>5, <1>9, <3>1 DEF ListsLinked
    <3> QED BY <2>2, <3>1, <3>2, <3>3
  <2> QED BY <2>1, <2>2
<1>10. ListsLinked(u)
  <2> SUFFICES ASSUME NEW b \in Bucket, NEW j \in DOMAIN u.lists[b]
               PROVE  Linked(u, u.lists[b][j]) /\ u.node[u.lists[b][j]].pattern.hash = b
    BY DEF ListsLinked
  <2> DEFINE x == u.lists[b][j]
  <2>1. x \in Node \ {n} /\ Linked(m, x) /\ m.node[x].pattern.hash = b
    BY <1>9, ZenonT(60)
  <2>2. u.node[x] = m.node[x]
    BY <1>3, <2>1
  <2> QED BY <2>1, <2>2 DEF Linked
<1>11. ListedOnce(u)
  <2> SUFFICES ASSUME NEW b \in Bucket, NEW j \in DOMAIN u.lists[b], NEW h \in DOMAIN u.lists[b],
                      u.lists[b][j] = u.lists[b][h]
               PROVE  j = h
    BY ZenonT(60) DEF ListedOnce, Distinct
  <2>1. CASE b = b0
    <3>1. /\ j \in DOMAIN k /\ h \in DOMAIN k /\ l[e(j)] = l[e(h)]
          /\ e(j) \in DOMAIN l /\ e(h) \in DOMAIN l
      BY <1>4, <1>6, <2>1, ZenonT(60)
    <3>2. e(j) = e(h)
      BY <1>1, <1>5, <3>1 DEF ListedOnce, Distinct
    <3> QED BY <1>4, <3>1, <3>2, SMTT(60)
  <2>2. CASE b # b0
    BY <1>5, <1>6, <2>2 DEF ListedOnce, Distinct
  <2> QED BY <2>1, <2>2
<1>12. LinkedListed(u)
  <2> SUFFICES ASSUME NEW x \in Node, Linked(u, x)
               PROVE  Contains(u.lists[u.node[x].pattern.hash], x)
    BY DEF LinkedListed
  <2>1. x # n /\ u.node[x] = m.node[x] /\ Linked(m, x)
    BY <1>3, <1>7 DEF Linked
  <2> DEFINE b == m.node[x].pattern.hash
  <2>2. b \in Bucket /\ m.lists[b] \in Seq(Node) /\ Contains(m.lists[b], x)
    BY <2>1, LinkedParts
  <2>3. CASE b = b0
    <3>1. PICK j \in DOMAIN l : l[j] = x
      BY <1>4, <2>2, <2>3 DEF Contains
    <3>2. j # i0
      BY <1>2, <2>1, <3>1, SMTT(60)
    <3>3. PICK h \in DOMAIN k : k[h] = x
      BY <1>4, <3>1, <3>2, ZenonT(60)
    <3>4. k \in Seq(Node)
      BY <1>3, <1>6, <1>1 DEF Cells
    <3>5. Contains(k, x)
      BY <3>3, <3>4 DEF Contains
    <3> QED BY <1>6, <2>1, <2>3, <3>5, SMTT(60)
  <2>4. CASE b # b0
    BY <1>6, <2>1, <2>2, <2>4
  <2> QED BY <2>3, <2>4
<1>13. Sound(u)
  BY <1>3, <1>8, <1>10, <1>11, <1>12, SMTT(60) DEF Sound
<1>14. ASSUME u.node[n].next # NIL
       PROVE  /\ u.node[n].next \in Node \ {n} /\ Linked(m, u.node[n].next)
              /\ m.node[u.node[n].next].pattern.hash = b0
  <2>1. i0 # Len(l) /\ u.node[n].next = l[i0 + 1]
    BY <1>3, <1>14
  <2>2. i0 + 1 \in DOMAIN l /\ i0 \in DOMAIN l /\ i0 + 1 # i0
    <3>1. l \in Seq(Node)
      BY <1>1
    <3>2. DOMAIN l = 1 .. Len(l)
      BY <1>4
    <3> HIDE DEF l
    <3>3. Len(l) \in Nat /\ i0 \in 1 .. Len(l) /\ i0 # Len(l)
      BY <1>2, <2>1, <3>1, SMTT(60)
    <3> QED BY <3>2, <3>3, NextPlace, Zenon
  <2>3. l[i0 + 1] # n /\ l[i0 + 1] \in Node
    BY <1>1, <1>2, <1>5, <2>2 DEF ListedOnce, Distinct
  <2> QED BY <1>1, <1>5, <2>1, <2>2, <2>3, ZenonT(60) DEF ListsLinked
<1> QED BY <1>3, <1>13, <1>14 DEF Unlinked, u

\* It keeps the order of the lists, and the subscriber that it unlinks points
\* to the one behind it.
LEMMA UnsubscribeOrder ==
    ASSUME NEW m, Sound(m), NEW n \in Node, Linked(m, n)
    PROVE  KeepsOrder(m, unsubscribe(m, n), {n})
<1> DEFINE b0 == m.node[n].pattern.hash
           l == m.lists[b0]
           i0 == Index(l, n)
           k == RemoveAt(l, i0)
           u == unsubscribe(m, n)
<1>1. b0 \in Bucket /\ l \in Seq(Node) /\ Contains(l, n)
  BY LinkedParts, SMTT(60)
<1>2. i0 \in 1 .. Len(l) /\ l[i0] = n
  BY <1>1, IndexLeaves
<1>3. /\ u \in Cells
      /\ u.lists = [m.lists EXCEPT ![b0] = k]
      /\ \A x \in Node \ {n} : u.node[x] = m.node[x]
      /\ Stale(u, n)
      /\ u.node[n].pattern = m.node[n].pattern
      /\ u.node[n].client = m.node[n].client
      /\ u.node[n].next = IF i0 = Len(l) THEN NIL ELSE l[i0 + 1]
  BY UnsubscribeLeaves
<1>4. Places(l, k, i0)
  BY <1>1, <1>2, RemoveAtPlaces, Zenon
<1>5. m.lists \in [Bucket -> Seq(Node)] /\ ListsLinked(m)
  BY SMTT(60) DEF Sound, Cells
<1>6. u.lists[b0] = k /\ \A b \in Bucket : b # b0 => u.lists[b] = m.lists[b]
  BY <1>1, <1>3, <1>5, SMTT(60)
<1>7. DOMAIN l = 1 .. Len(l)
  BY <1>4 DEF Places
<1>8. Len(l) \in Nat
  <2>1. l \in Seq(Node)
    BY <1>1
  <2> HIDE DEF l
  <2> QED BY <2>1
<1> HIDE DEF u, k, i0
<1> SUFFICES ASSUME NEW rank \in [Node -> Nat], Increasing(m, rank)
             PROVE  Increasing(u, rank) /\ Follows(u, rank, n)
  BY SMTT(60) DEF KeepsOrder, u
<1>9. \A j, h \in DOMAIN l : j < h => rank[l[j]] < rank[l[h]]
  BY <1>1, ZenonT(60) DEF Increasing
<1>10. Increasing(u, rank)
  <2> SUFFICES ASSUME NEW b \in Bucket, NEW j \in DOMAIN u.lists[b], NEW h \in DOMAIN u.lists[b],
                      j < h
               PROVE  rank[u.lists[b][j]] < rank[u.lists[b][h]]
    BY DEF Increasing
  <2>1. CASE b = b0
    <3>1. j \in DOMAIN k /\ h \in DOMAIN k
      BY <1>6, <2>1
    <3>2. /\ Place(i0, j) \in DOMAIN l /\ Place(i0, h) \in DOMAIN l
          /\ Place(i0, j) < Place(i0, h)
          /\ k[j] = l[Place(i0, j)] /\ k[h] = l[Place(i0, h)]
      BY <1>4, <3>1, SMTT(60) DEF Places
    <3>3. rank[l[Place(i0, j)]] < rank[l[Place(i0, h)]]
      BY <1>9, <3>2
    <3> QED BY <1>6, <2>1, <3>2, <3>3, ZenonT(60)
  <2>2. CASE b # b0
    BY <1>6, <2>2 DEF Increasing
  <2> QED BY <2>1, <2>2
<1>11. Follows(u, rank, n)
  <2> SUFFICES ASSUME NEW x \in Node, Linked(u, x), u.node[x].pattern.hash = b0
               PROVE  \/ rank[x] < rank[n]
                      \/ /\ u.node[n].next # NIL
                         /\ rank[n] < rank[x]
                         /\ rank[u.node[n].next] <= rank[x]
    BY <1>3 DEF Follows
  <2>1. x # n /\ u.node[x] = m.node[x] /\ Linked(m, x)
    BY <1>3 DEF Linked, Stale
  <2>2. Contains(l, x)
    BY <2>1, LinkedParts, ZenonT(60)
  <2>3. PICK j \in DOMAIN l : l[j] = x
    BY <1>7, <2>2 DEF Contains
  <2>4. i0 \in DOMAIN l /\ j # i0 /\ j \in 1 .. Len(l)
    BY <1>2, <1>7, <2>1, <2>3
  <2> HIDE DEF l
  <2>5. j < i0 \/ i0 < j
    BY <1>2, <1>8, <2>4
  <2>6. CASE j < i0
    BY <1>2, <1>9, <2>3, <2>4, <2>6
  <2>7. CASE i0 < j
    <3>1. i0 # Len(l) /\ i0 + 1 \in 1 .. Len(l) /\ (i0 + 1 = j \/ i0 + 1 < j)
      BY <1>2, <1>8, <2>4, <2>7
    <3>2. rank[n] < rank[x]
      BY <1>2, <1>9, <2>3, <2>4, <2>7
    <3>3. i0 + 1 \in DOMAIN l
      BY <1>7, <3>1
    <3>4. l[i0 + 1] \in Node /\ NIL \notin Node
      BY <1>1, <3>1, NotifyAssumption
    <3>5. rank[l[i0 + 1]] <= rank[x]
      <4>1. CASE i0 + 1 = j
        BY <2>3, <4>1
      <4>2. CASE i0 + 1 < j
        <5>1. rank[l[i0 + 1]] < rank[x]
          BY <1>9, <2>3, <3>3, <4>2
        <5>2. rank[l[i0 + 1]] \in Nat /\ rank[x] \in Nat
          BY <3>4, ZenonT(60)
        <5> QED BY <5>1, <5>2
      <4> QED BY <3>1, <4>1, <4>2
    <3> QED BY <1>3, <3>1, <3>2, <3>4, <3>5
  <2> QED BY <2>5, <2>6, <2>7, SMTT(60)
<1> QED BY <1>10, <1>11

\* Unlinking S and then n.
LEMMA UnlinkedMore ==
    ASSUME NEW m, NEW u, NEW v, NEW S, NEW n \in Node, S \subseteq Node,
           Unlinked(m, u, S), Linked(u, n), Unlinked(u, v, {n})
    PROVE  Unlinked(m, v, S \cup {n})
<1>1. n \notin S
  BY DEF Unlinked, Stale, Linked
<1>2. \A x \in Node \ {n} : v.node[x] = u.node[x]
  BY DEF Unlinked
<1>3. ASSUME NEW x \in Node, Linked(u, x)
      PROVE  x \notin S /\ u.node[x] = m.node[x] /\ Linked(m, x)
  BY <1>3 DEF Unlinked, Stale, Linked
<1>4. ASSUME NEW x \in Node \ (S \cup {n})
      PROVE  v.node[x] = m.node[x]
  BY <1>2 DEF Unlinked
<1>5. ASSUME NEW x \in S \cup {n}
      PROVE  /\ Stale(v, x)
             /\ v.node[x].pattern = m.node[x].pattern
             /\ v.node[x].client = m.node[x].client
             /\ v.node[x].next # NIL =>
                 /\ v.node[x].next \in Node \ {x}
                 /\ Linked(m, v.node[x].next)
                 /\ m.node[v.node[x].next].pattern.hash = m.node[x].pattern.hash
  <2>1. CASE x = n
    <3>1. u.node[n] = m.node[n]
      BY <1>3
    <3>2. /\ Stale(v, n)
          /\ v.node[n].pattern = u.node[n].pattern
          /\ v.node[n].client = u.node[n].client
          /\ v.node[n].next # NIL =>
              /\ v.node[n].next \in Node \ {n}
              /\ Linked(u, v.node[n].next)
              /\ u.node[v.node[n].next].pattern.hash = u.node[n].pattern.hash
      BY DEF Unlinked
    <3> QED BY <1>3, <2>1, <3>1, <3>2
  <2>2. CASE x # n
    <3>1. x \in S /\ v.node[x] = u.node[x]
      BY <1>2, <1>5, <2>2
    <3> QED BY <3>1 DEF Unlinked, Stale
  <2> QED BY <2>1, <2>2
<1>6. Sound(v)
  BY DEF Unlinked
<1> QED BY <1>4, <1>5, <1>6 DEF Unlinked

\* The order is kept by both.
LEMMA KeepsOrderMore ==
    ASSUME NEW m, NEW u, NEW v, NEW S, NEW n \in Node, S \subseteq Node,
           Unlinked(m, u, S), Linked(u, n), Unlinked(u, v, {n}),
           KeepsOrder(m, u, S), KeepsOrder(u, v, {n})
    PROVE  KeepsOrder(m, v, S \cup {n})
<1> SUFFICES ASSUME NEW rank \in [Node -> Nat], Increasing(m, rank)
             PROVE  Increasing(v, rank) /\ \A y \in S \cup {n} : Follows(v, rank, y)
  BY DEF KeepsOrder
<1>1. Increasing(u, rank) /\ \A x \in S : Follows(u, rank, x)
  BY DEF KeepsOrder
<1>2. Increasing(v, rank) /\ Follows(v, rank, n)
  BY <1>1 DEF KeepsOrder
<1>3. ASSUME NEW y \in S, y # n
      PROVE  Follows(v, rank, y)
  <2>1. Follows(u, rank, y)
    BY <1>1
  <2>2. v.node[y] = u.node[y]
    BY <1>3 DEF Unlinked
  <2>3. ASSUME NEW x \in Node, Linked(v, x)
        PROVE  v.node[x] = u.node[x] /\ Linked(u, x)
    BY <2>3 DEF Unlinked, Linked, Stale
  <2> QED BY <2>1, <2>2, <2>3 DEF Follows
<1> QED BY <1>2, <1>3

\* The rounds of the loop in UnsubscribeAll.
LEMMA UnsubscribeRun ==
    ASSUME NEW m, NEW s, Len(s) \in Nat
    PROVE  \E f : /\ f[0] = m
                  /\ \A k \in 1 .. Len(s) : f[k] = unsubscribe(f[k - 1], s[k])
                  /\ UnsubscribeAll(m, s) = f[Len(s)]
<1> DEFINE n == Len(s)
           Run(f, h) == f = [k \in 0 .. h |-> IF k = 0 THEN m ELSE unsubscribe(f[k - 1], s[k])]
           T == {h \in 0 .. n : \E f : Run(f, h)}
<1> HIDE DEF n
<1>n. n \in Nat
  BY DEF n
<1>1. 0 \in T
  <2> DEFINE g == [k \in 0 .. 0 |-> m]
  <2>1. \A k \in 0 .. 0 : g[k] = IF k = 0 THEN m ELSE unsubscribe(g[k - 1], s[k])
    OBVIOUS
  <2>2. Run(g, 0)
    BY <2>1
  <2> HIDE DEF g
  <2> QED BY <1>n, <2>2
<1>2. ASSUME NEW h \in 0 .. n - 1, h \in T
      PROVE  h + 1 \in T
  <2>1. PICK f : Run(f, h)
    BY <1>2
  <2> DEFINE g == [k \in 0 .. h + 1 |-> IF k = h + 1 THEN unsubscribe(f[h], s[h + 1]) ELSE f[k]]
             G(k) == IF k = 0 THEN m ELSE unsubscribe(g[k - 1], s[k])
  <2>2. h + 1 \in 0 .. n /\ h \in Nat
    BY <1>n
  <2>3. ASSUME NEW k \in 0 .. h + 1
        PROVE  g[k] = G(k)
    <3>1. CASE k = h + 1
      <4>1. g[k] = unsubscribe(f[h], s[h + 1])
        BY <3>1
      <4>2. k # 0 /\ k - 1 = h /\ h \in 0 .. h + 1 /\ h # h + 1
        BY <2>2, <3>1
      <4>3. g[h] = f[h]
        BY <4>2
      <4> HIDE DEF g
      <4> QED BY <3>1, <4>1, <4>2, <4>3
    <3>2. CASE k # h + 1
      <4>1. k \in 0 .. h /\ k # h + 1
        BY <2>2, <3>2
      <4>2. g[k] = f[k]
        BY <4>1
      <4>3. f[k] = IF k = 0 THEN m ELSE unsubscribe(f[k - 1], s[k])
        BY <2>1, <4>1
      <4>4. k # 0 => g[k - 1] = f[k - 1]
        BY <2>2, <4>1
      <4> HIDE DEF g
      <4> QED BY <4>2, <4>3, <4>4
    <3> QED BY <3>1, <3>2
  <2>4. Run(g, h + 1)
    <3>1. g = [k \in 0 .. h + 1 |-> g[k]]
      OBVIOUS
    <3>2. [k \in 0 .. h + 1 |-> g[k]] = [k \in 0 .. h + 1 |-> G(k)]
      BY <2>3
    <3> HIDE DEF g
    <3> QED BY <3>1, <3>2
  <2> HIDE DEF g
  <2> QED BY <2>2, <2>4
<1>3. n \in T
  <2> HIDE DEF T
  <2>1. 0 .. n \subseteq T
    BY <1>n, <1>1, <1>2, UpTo
  <2> QED BY <1>n, <2>1
<1> DEFINE up == CHOOSE f : Run(f, n)
<1>4. \E f : Run(f, n)
  BY <1>3
<1>5. Run(up, n)
  BY <1>4
<1>6. UnsubscribeAll(m, s) = up[n]
  BY DEF UnsubscribeAll, n
<1> HIDE DEF up
<1>7. up[0] = m /\ \A k \in 1 .. n : up[k] = unsubscribe(up[k - 1], s[k])
  <2>1. \A k \in 0 .. n : up[k] = IF k = 0 THEN m ELSE unsubscribe(up[k - 1], s[k])
    BY <1>5
  <2> QED BY <1>n, <2>1
<1> QED BY <1>6, <1>7 DEF n

\* The subscribers of the sequence s.
Members(s) == {s[i] : i \in DOMAIN s}

\* UnsubscribeAll unlinks every subscriber of s.
LEMMA UnsubscribeAllLeaves ==
    ASSUME NEW m, Sound(m), NEW s \in Seq(Node), Distinct(s),
           \A i \in DOMAIN s : Linked(m, s[i])
    PROVE  /\ Unlinked(m, UnsubscribeAll(m, s), Members(s))
           /\ KeepsOrder(m, UnsubscribeAll(m, s), Members(s))
<1> DEFINE n == Len(s)
           S(k) == {s[i] : i \in 1 .. k}
<1>1. n \in Nat /\ DOMAIN s = 1 .. n /\ \A i \in 1 .. n : s[i] \in Node
  OBVIOUS
<1>2. PICK f : /\ f[0] = m
               /\ \A k \in 1 .. n : f[k] = unsubscribe(f[k - 1], s[k])
               /\ UnsubscribeAll(m, s) = f[n]
  BY <1>1, UnsubscribeRun
<1> HIDE DEF n
<1> DEFINE T == {k \in 0 .. n : Unlinked(m, f[k], S(k)) /\ KeepsOrder(m, f[k], S(k))}
<1>3. 0 \in T
  <2>1. S(0) = {}
    OBVIOUS
  <2>2. Unlinked(m, m, {}) /\ KeepsOrder(m, m, {})
    BY DEF Unlinked, KeepsOrder
  <2>3. 0 \in 0 .. n
    BY <1>1
  <2>4. Unlinked(m, f[0], S(0)) /\ KeepsOrder(m, f[0], S(0))
    BY <1>2, <2>1, <2>2, Zenon
  <2> HIDE DEF S
  <2> QED BY <2>3, <2>4
<1>4. ASSUME NEW k \in 0 .. n - 1, k \in T
      PROVE  k + 1 \in T
  <2>1. k + 1 \in 1 .. n /\ k + 1 \in 0 .. n /\ (k + 1) - 1 = k /\ k \in Nat
    BY <1>1
  <2> DEFINE x == s[k + 1]
  <2>2. S(k + 1) = S(k) \cup {x}
    <3>1. 1 .. k + 1 = (1 .. k) \cup {k + 1}
      BY <2>1
    <3> QED BY <3>1
  <2>3. x \in Node /\ Linked(m, x)
    BY <1>1, <2>1
  <2>4. S(k) \subseteq Node
    BY <1>1, <2>1
  <2>5. x \notin S(k)
    <3> SUFFICES ASSUME NEW i \in 1 .. k, s[i] = x PROVE FALSE
      OBVIOUS
    <3>1. i \in 1 .. n /\ i # k + 1
      BY <1>1, <2>1
    <3> QED BY <1>1, <2>1, <3>1 DEF Distinct
  <2>6. f[k + 1] = unsubscribe(f[k], x)
    BY <1>2, <2>1
  <2>7. Unlinked(m, f[k], S(k)) /\ KeepsOrder(m, f[k], S(k))
    BY <1>4
  <2> HIDE DEF S, x
  <2>8. Sound(f[k]) /\ Linked(f[k], x)
    BY <2>3, <2>5, <2>7 DEF Unlinked, Linked
  <2>9. Unlinked(f[k], f[k + 1], {x}) /\ KeepsOrder(f[k], f[k + 1], {x})
    BY <2>3, <2>6, <2>8, UnsubscribeSound, UnsubscribeOrder
  <2>10. Unlinked(m, f[k + 1], S(k + 1)) /\ KeepsOrder(m, f[k + 1], S(k + 1))
    BY <2>2, <2>3, <2>4, <2>7, <2>8, <2>9, UnlinkedMore, KeepsOrderMore
  <2> QED BY <2>1, <2>10
<1> HIDE DEF T
<1>5. n \in T
  <2>1. 0 .. n \subseteq T
    BY <1>1, <1>3, <1>4, UpTo
  <2> QED BY <1>1, <2>1
<1>6. S(n) = Members(s)
  BY <1>1 DEF Members
<1> HIDE DEF S
<1> QED BY <1>2, <1>5, <1>6 DEF T

\* The rounds of the loop in SubscribeAll.
LEMMA SubscribeRun ==
    ASSUME NEW m, NEW s, NEW c, NEW r, Len(s) \in Nat
    PROVE  \E f : /\ f[0] = m
                  /\ \A k \in 1 .. Len(s) : f[k] = subscribe(f[k - 1], s[k], c, r[k])
                  /\ SubscribeAll(m, s, c, r) = f[Len(s)]
<1> DEFINE n == Len(s)
           Run(f, h) == f = [k \in 0 .. h |-> IF k = 0 THEN m ELSE subscribe(f[k - 1], s[k], c, r[k])]
           T == {h \in 0 .. n : \E f : Run(f, h)}
<1> HIDE DEF n
<1>n. n \in Nat
  BY DEF n
<1>1. 0 \in T
  <2> DEFINE g == [k \in 0 .. 0 |-> m]
  <2>1. \A k \in 0 .. 0 : g[k] = IF k = 0 THEN m ELSE subscribe(g[k - 1], s[k], c, r[k])
    OBVIOUS
  <2>2. Run(g, 0)
    BY <2>1
  <2> HIDE DEF g
  <2> QED BY <1>n, <2>2
<1>2. ASSUME NEW h \in 0 .. n - 1, h \in T
      PROVE  h + 1 \in T
  <2>1. PICK f : Run(f, h)
    BY <1>2
  <2> DEFINE g == [k \in 0 .. h + 1 |-> IF k = h + 1 THEN subscribe(f[h], s[h + 1], c, r[h + 1]) ELSE f[k]]
             G(k) == IF k = 0 THEN m ELSE subscribe(g[k - 1], s[k], c, r[k])
  <2>2. h + 1 \in 0 .. n /\ h \in Nat
    BY <1>n
  <2>3. ASSUME NEW k \in 0 .. h + 1
        PROVE  g[k] = G(k)
    <3>1. CASE k = h + 1
      <4>1. g[k] = subscribe(f[h], s[h + 1], c, r[h + 1])
        BY <3>1
      <4>2. k # 0 /\ k - 1 = h /\ h \in 0 .. h + 1 /\ h # h + 1
        BY <2>2, <3>1
      <4>3. g[h] = f[h]
        BY <4>2
      <4> HIDE DEF g
      <4> QED BY <3>1, <4>1, <4>2, <4>3
    <3>2. CASE k # h + 1
      <4>1. k \in 0 .. h /\ k # h + 1
        BY <2>2, <3>2
      <4>2. g[k] = f[k]
        BY <4>1
      <4>3. f[k] = IF k = 0 THEN m ELSE subscribe(f[k - 1], s[k], c, r[k])
        BY <2>1, <4>1
      <4>4. k # 0 => g[k - 1] = f[k - 1]
        BY <2>2, <4>1
      <4> HIDE DEF g
      <4> QED BY <4>2, <4>3, <4>4
    <3> QED BY <3>1, <3>2
  <2>4. Run(g, h + 1)
    <3>1. g = [k \in 0 .. h + 1 |-> g[k]]
      OBVIOUS
    <3>2. [k \in 0 .. h + 1 |-> g[k]] = [k \in 0 .. h + 1 |-> G(k)]
      BY <2>3
    <3> HIDE DEF g
    <3> QED BY <3>1, <3>2
  <2> HIDE DEF g
  <2> QED BY <2>2, <2>4
<1>3. n \in T
  <2> HIDE DEF T
  <2>1. 0 .. n \subseteq T
    BY <1>n, <1>1, <1>2, UpTo
  <2> QED BY <1>n, <2>1
<1> DEFINE up == CHOOSE f : Run(f, n)
<1>4. \E f : Run(f, n)
  BY <1>3
<1>5. Run(up, n)
  BY <1>4
<1>6. SubscribeAll(m, s, c, r) = up[n]
  BY DEF SubscribeAll, n
<1> HIDE DEF up
<1>7. up[0] = m /\ \A k \in 1 .. n : up[k] = subscribe(up[k - 1], s[k], c, r[k])
  <2>1. \A k \in 0 .. n : up[k] = IF k = 0 THEN m ELSE subscribe(up[k - 1], s[k], c, r[k])
    BY <1>5
  <2> QED BY <1>n, <2>1
<1> QED BY <1>6, <1>7 DEF n

\* What roar_notify_core_subscribe() makes of an unused subscriber.
NewSub(p, c) == [state |-> "linked", pattern |-> p, client |-> c, next |-> NIL]

\* The parts of a new subscriber.
LEMMA NewSubParts ==
    \A p, c : /\ NewSub(p, c).state = "linked" /\ NewSub(p, c).pattern = p
              /\ NewSub(p, c).client = c
BY DEF NewSub

\* It leaves sound lists.
LEMMA SubscribeLeaves ==
    ASSUME NEW m, Sound(m), NEW n \in Node, m.node[n].state = "unused",
           NEW c \in Client, NEW p \in Pattern
    PROVE  LET u == subscribe(m, n, c, p) IN
           /\ Sound(u)
           /\ \A x \in Node \ {n} : u.node[x] = m.node[x]
           /\ u.node[n] = NewSub(p, c)
<1> DEFINE u == subscribe(m, n, c, p)
           b0 == p.hash
           l == m.lists[b0]
           k == Append(l, n)
           y == NewSub(p, c)
<1>1. /\ m.lists \in [Bucket -> Seq(Node)] /\ m.node \in [Node -> Subscriber]
      /\ Used(m) /\ ListsLinked(m) /\ ListedOnce(m) /\ LinkedListed(m)
  BY DEF Sound, Cells
<1>2. b0 \in Bucket /\ l \in Seq(Node)
  BY <1>1 DEF Pattern
<1>3. /\ y \in Subscriber /\ y.state = "linked" /\ y.pattern = p /\ y.client = c
  BY DEF NewSub, Subscriber
<1>4. u = [lists |-> [m.lists EXCEPT ![b0] = k], node |-> [m.node EXCEPT ![n] = y]]
  BY DEF subscribe, NewSub
<1> HIDE DEF y, l
<1>5. /\ k \in Seq(Node) /\ DOMAIN l = 1 .. Len(l) /\ Len(l) \in Nat
      /\ DOMAIN k = 1 .. Len(l) + 1
      /\ k[Len(l) + 1] = n
      /\ \A j \in 1 .. Len(l) : k[j] = l[j]
  BY <1>2
<1> HIDE DEF k
<1>6. u \in Cells /\ u.lists = [m.lists EXCEPT ![b0] = k] /\ u.node = [m.node EXCEPT ![n] = y]
  <2>1. [m.lists EXCEPT ![b0] = k] \in [Bucket -> Seq(Node)]
    BY <1>1, <1>5
  <2>2. [m.node EXCEPT ![n] = y] \in [Node -> Subscriber]
    BY <1>1, <1>3
  <2> QED BY <1>4, <2>1, <2>2 DEF Cells
<1>7. u.node[n] = y /\ \A x \in Node \ {n} : u.node[x] = m.node[x]
  BY <1>1, <1>6
<1>8. u.lists[b0] = k /\ \A b \in Bucket : b # b0 => u.lists[b] = m.lists[b]
  BY <1>1, <1>2, <1>6
<1> HIDE DEF u
<1>9. Used(u)
  BY <1>1, <1>3, <1>7 DEF Used
<1>10. ASSUME NEW b \in Bucket, NEW j \in DOMAIN m.lists[b]
       PROVE  /\ m.lists[b][j] \in Node \ {n} /\ Linked(m, m.lists[b][j])
              /\ m.node[m.lists[b][j]].pattern.hash = b
  <2>1. m.lists[b][j] \in Node
    BY <1>1
  <2>2. Linked(m, m.lists[b][j]) /\ m.node[m.lists[b][j]].pattern.hash = b
    BY <1>1 DEF ListsLinked
  <2> QED BY <2>1, <2>2 DEF Linked
<1>11. \A j \in DOMAIN l : l[j] # n
  BY <1>2, <1>10 DEF l
<1>12. ListsLinked(u)
  <2> SUFFICES ASSUME NEW b \in Bucket, NEW j \in DOMAIN u.lists[b]
               PROVE  Linked(u, u.lists[b][j]) /\ u.node[u.lists[b][j]].pattern.hash = b
    BY DEF ListsLinked
  <2>1. CASE j \in DOMAIN m.lists[b] /\ u.lists[b][j] = m.lists[b][j]
    <3>1. /\ u.lists[b][j] \in Node \ {n} /\ Linked(m, u.lists[b][j])
          /\ m.node[u.lists[b][j]].pattern.hash = b
      BY <1>10, <2>1
    <3> QED BY <1>7, <3>1 DEF Linked
  <2>2. CASE b = b0 /\ u.lists[b][j] = n
    BY <1>3, <1>7, <2>2 DEF Linked
  <2>3. CASE b = b0
    <3>1. j \in 1 .. Len(l) + 1 /\ u.lists[b][j] = k[j]
      BY <1>5, <1>8, <2>3
    <3>2. j = Len(l) + 1 \/ j \in 1 .. Len(l)
      BY <1>5, <3>1
    <3>3. CASE j = Len(l) + 1
      BY <1>5, <2>2, <2>3, <3>1, <3>3
    <3>4. CASE j \in 1 .. Len(l)
      <4>1. u.lists[b][j] = l[j] /\ j \in DOMAIN l
        BY <1>5, <3>1, <3>4
      <4> QED BY <2>1, <2>3, <4>1 DEF l
    <3> QED BY <3>2, <3>3, <3>4
  <2>4. CASE b # b0
    BY <1>8, <2>1, <2>4
  <2> QED BY <2>3, <2>4
<1>13. ListedOnce(u)
  <2> SUFFICES ASSUME NEW b \in Bucket, NEW i \in DOMAIN u.lists[b], NEW j \in DOMAIN u.lists[b],
                      u.lists[b][i] = u.lists[b][j]
               PROVE  i = j
    BY DEF ListedOnce, Distinct
  <2>1. CASE b = b0
    <3>1. /\ i \in 1 .. Len(l) + 1 /\ j \in 1 .. Len(l) + 1 /\ k[i] = k[j]
      BY <1>5, <1>8, <2>1
    <3>2. \A g, h \in DOMAIN l : l[g] = l[h] => g = h
      BY <1>1, <1>2 DEF ListedOnce, Distinct, l
    <3> QED BY <1>5, <1>11, <3>1, <3>2
  <2>2. CASE b # b0
    BY <1>1, <1>8, <2>2 DEF ListedOnce, Distinct
  <2> QED BY <2>1, <2>2
<1>14. LinkedListed(u)
  <2> SUFFICES ASSUME NEW x \in Node, Linked(u, x)
               PROVE  Contains(u.lists[u.node[x].pattern.hash], x)
    BY DEF LinkedListed
  <2>0. Len(k) = Len(l) + 1
    BY <1>5
  <2>1. CASE x = n
    <3>1. Len(l) + 1 \in 1 .. Len(k)
      BY <1>5, <2>0
    <3>2. Contains(k, n)
      BY <1>5, <3>1 DEF Contains
    <3> QED BY <1>3, <1>7, <1>8, <2>1, <3>2
  <2>2. CASE x # n
    <3>1. u.node[x] = m.node[x] /\ Linked(m, x)
      BY <1>7, <2>2 DEF Linked
    <3> DEFINE b == m.node[x].pattern.hash
    <3>2. b \in Bucket /\ Contains(m.lists[b], x)
      BY <3>1, LinkedParts
    <3>3. CASE b = b0
      <4>1. PICK j \in 1 .. Len(l) : l[j] = x
        BY <3>2, <3>3 DEF Contains, l
      <4>2. j \in 1 .. Len(k) /\ k[j] = x
        BY <1>5, <2>0, <4>1
      <4>3. Contains(k, x)
        BY <4>2 DEF Contains
      <4> QED BY <1>8, <3>1, <3>3, <4>3
    <3>4. CASE b # b0
      BY <1>8, <3>1, <3>2, <3>4
    <3> QED BY <3>3, <3>4
  <2> QED BY <2>1, <2>2
<1>15. Sound(u)
  BY <1>6, <1>9, <1>12, <1>13, <1>14 DEF Sound, u
<1> QED BY <1>7, <1>15 DEF u, y

\* The memory u is m with the subscribers s, which were unused, for client c.
Subscribed(m, u, s, c, r) ==
    /\ Sound(u)
    /\ \A x \in Node \ Members(s) : u.node[x] = m.node[x]
    /\ \A i \in DOMAIN s : u.node[s[i]] = NewSub(r[i], c)

\* SubscribeAll links every subscriber of s.
LEMMA SubscribeAllLeaves ==
    ASSUME NEW m, Sound(m), NEW s \in Seq(Node), Distinct(s), NEW c \in Client, NEW r,
           \A i \in DOMAIN s : m.node[s[i]].state = "unused" /\ r[i] \in Pattern
    PROVE  Subscribed(m, SubscribeAll(m, s, c, r), s, c, r)
<1> DEFINE n == Len(s)
           Done(u, k) == /\ Sound(u)
                         /\ \A x \in Node : (\A i \in 1 .. k : s[i] # x) => u.node[x] = m.node[x]
                         /\ \A i \in 1 .. k : u.node[s[i]] = NewSub(r[i], c)
<1>1. n \in Nat /\ DOMAIN s = 1 .. n /\ \A i \in 1 .. n : s[i] \in Node
  OBVIOUS
<1>2. PICK f : /\ f[0] = m
               /\ \A k \in 1 .. n : f[k] = subscribe(f[k - 1], s[k], c, r[k])
               /\ SubscribeAll(m, s, c, r) = f[n]
  <2>1. Len(s) \in Nat
    OBVIOUS
  <2>2. \E f : /\ f[0] = m
               /\ \A k \in 1 .. Len(s) : f[k] = subscribe(f[k - 1], s[k], c, r[k])
               /\ SubscribeAll(m, s, c, r) = f[Len(s)]
    BY ONLY <2>1, SubscribeRun
  <2> QED BY <2>2
<1> HIDE DEF n
<1> DEFINE T == {k \in 0 .. n : Done(f[k], k)}
<1>3. 0 \in T
  <2>1. 0 \in 0 .. n
    BY <1>1
  <2>2. Done(m, 0)
    OBVIOUS
  <2>3. Done(f[0], 0)
    BY <1>2, <2>2, Zenon
  <2> HIDE DEF Done
  <2> QED BY <2>1, <2>3
<1>4. ASSUME NEW k \in 0 .. n - 1, k \in T
      PROVE  k + 1 \in T
  <2>1. k + 1 \in 1 .. n /\ k + 1 \in 0 .. n /\ (k + 1) - 1 = k /\ k \in Nat
    BY <1>1
  <2> DEFINE y == s[k + 1]
             p == r[k + 1]
             u == f[k]
             v == f[k + 1]
  <2>2. y \in Node /\ m.node[y].state = "unused" /\ p \in Pattern
    BY <1>1, <2>1
  <2>3. v = subscribe(u, y, c, p)
    BY <1>2, <2>1
  <2>4. Done(u, k)
    BY <1>4
  <2>5. \A i \in 1 .. k : i \in 1 .. n /\ s[i] \in Node /\ s[i] # y
    <3> SUFFICES ASSUME NEW i \in 1 .. k PROVE i \in 1 .. n /\ s[i] \in Node /\ s[i] # y
      OBVIOUS
    <3>1. i \in 1 .. n /\ i # k + 1
      BY <1>1, <2>1
    <3> QED BY <1>1, <2>1, <3>1 DEF Distinct
  <2> HIDE DEF y, p, u, v
  <2>6. Sound(u) /\ u.node[y].state = "unused"
    BY <2>2, <2>4, <2>5
  <2>7. /\ Sound(v)
        /\ \A x \in Node \ {y} : v.node[x] = u.node[x]
        /\ v.node[y] = NewSub(p, c)
    BY <2>2, <2>3, <2>6, SubscribeLeaves
  <2>8. ASSUME NEW x \in Node, \A i \in 1 .. k + 1 : s[i] # x
        PROVE  v.node[x] = m.node[x]
    <3>1. x # y
      BY <2>1, <2>8 DEF y
    <3>2. \A i \in 1 .. k : s[i] # x
      BY <2>1, <2>8
    <3> QED BY <2>4, <2>7, <3>1, <3>2
  <2>9. ASSUME NEW i \in 1 .. k + 1
        PROVE  v.node[s[i]] = NewSub(r[i], c)
    <3>1. CASE i = k + 1
      BY <2>7, <3>1 DEF y, p
    <3>2. CASE i # k + 1
      <4>1. i \in 1 .. k
        BY <2>1, <3>2
      <4> QED BY <2>4, <2>5, <2>7, <4>1
    <3> QED BY <3>1, <3>2
  <2>10. Done(v, k + 1)
    BY <2>7, <2>8, <2>9
  <2> HIDE DEF Done
  <2> QED BY <2>1, <2>10 DEF v
<1> HIDE DEF T
<1>5. n \in T
  <2>1. 0 .. n \subseteq T
    BY <1>1, <1>3, <1>4, UpTo
  <2> QED BY <1>1, <2>1
<1>6. Done(f[n], n)
  BY <1>5 DEF T
<1> DEFINE u == f[n]
<1> HIDE DEF u
<1>7. Done(u, n)
  BY <1>6 DEF u
<1>8. \A x \in Node \ Members(s) : \A i \in 1 .. n : s[i] # x
  BY <1>1 DEF Members
<1>9. Subscribed(m, u, s, c, r)
  BY <1>1, <1>7, <1>8 DEF Subscribed
<1> QED BY <1>2, <1>9 DEF u

-----------------------------------------------------------------------------
(* The walk of roar_notify_core_emit()                                      *)

\* The places of the subscribers order the lists.
LEMMA RankExists ==
    ASSUME NEW m, Sound(m)
    PROVE  \E rank \in [Node -> Nat] :
             \A b \in Bucket : \A j \in DOMAIN m.lists[b] : rank[m.lists[b][j]] = j
<1> DEFINE rank == [n \in Node |->
                      IF Linked(m, n) THEN Index(m.lists[m.node[n].pattern.hash], n) ELSE 0]
<1>1. rank \in [Node -> Nat]
  <2> SUFFICES ASSUME NEW n \in Node, Linked(m, n)
               PROVE  Index(m.lists[m.node[n].pattern.hash], n) \in Nat
    OBVIOUS
  <2> DEFINE l == m.lists[m.node[n].pattern.hash]
  <2>1. l \in Seq(Node) /\ Contains(l, n)
    BY LinkedParts
  <2> HIDE DEF l
  <2>2. Index(l, n) \in 1 .. Len(l) /\ Len(l) \in Nat
    BY <2>1, IndexLeaves, SMTT(60)
  <2> QED BY <2>2 DEF l
<1>2. ASSUME NEW b \in Bucket, NEW j \in DOMAIN m.lists[b]
      PROVE  rank[m.lists[b][j]] = j
  <2> DEFINE l == m.lists[b]
             x == l[j]
  <2>1. l \in Seq(Node)
    BY DEF Sound, Cells
  <2>2. x \in Node
    BY <2>1
  <2>3. Linked(m, x) /\ m.node[x].pattern.hash = b
    BY DEF Sound, ListsLinked
  <2>4. Contains(l, x)
    BY <2>2, <2>3, LinkedParts
  <2>5. Index(l, x) \in DOMAIN l /\ l[Index(l, x)] = x
    BY <2>1, <2>4, IndexLeaves
  <2>6. Index(l, x) = j
    BY <2>5 DEF Sound, ListedOnce, Distinct
  <2> QED BY <2>2, <2>3, <2>6
<1> HIDE DEF rank
<1> QED BY <1>1, <1>2

\* The linked subscribers of a list are those in it.
LEMMA LinkedPlace ==
    ASSUME NEW m, Sound(m), NEW n \in Node, Linked(m, n)
    PROVE  \E j \in DOMAIN m.lists[m.node[n].pattern.hash] :
             m.lists[m.node[n].pattern.hash][j] = n
<1> DEFINE l == m.lists[m.node[n].pattern.hash]
<1>1. l \in Seq(Node) /\ Contains(l, n)
  BY LinkedParts
<1> HIDE DEF l
<1>2. \E j \in DOMAIN l : l[j] = n
  BY <1>1 DEF Contains
<1> QED BY <1>2 DEF l

\* What is in a list is linked, and in the list of its pattern.
LEMMA ListedParts ==
    ASSUME NEW m, Sound(m), NEW b \in Bucket, NEW j \in DOMAIN m.lists[b]
    PROVE  /\ m.lists[b] \in Seq(Node)
           /\ m.lists[b][j] \in Node
           /\ Linked(m, m.lists[b][j])
           /\ m.node[m.lists[b][j]].pattern.hash = b
<1>1. m.lists[b] \in Seq(Node)
  BY DEF Sound, Cells
<1>2. m.lists[b][j] \in Node
  BY <1>1
<1>3. Linked(m, m.lists[b][j]) /\ m.node[m.lists[b][j]].pattern.hash = b
  BY DEF Sound, ListsLinked
<1> QED BY <1>1, <1>2, <1>3

\* A walk over the memory m that is where it should be.
GoodWalk(m, w) == w \in Walk /\ OnList(m, w) /\ Ordered(m, w)

\* The events that emit(e) emits: the groups of e, and e as the last.
LEMMA EmitsParts ==
    ASSUME NEW e \in Event \ Group
    PROVE  /\ Emits(e) \in Seq(Event) /\ proxy[e] \in Seq(Group)
           /\ Len(Emits(e)) = Len(proxy[e]) + 1 /\ Emits(e)[Len(Emits(e))] = e
           /\ \A i \in DOMAIN proxy[e] : i \in DOMAIN Emits(e) /\ Emits(e)[i] = proxy[e][i]
           /\ 1 \in DOMAIN Emits(e) /\ DOMAIN Emits(e) = 1 .. Len(Emits(e))
           /\ \A i \in DOMAIN Emits(e) : Emits(e)[i] \in Event
           /\ \A i \in DOMAIN Emits(e) : Emits(e)[i] = e => i = Len(Emits(e))
<1>1. proxy[e] \in Seq(Group) /\ Group \subseteq Event
  BY NotifyAssumption
<1>2. proxy[e] \in Seq(Event)
  BY <1>1
<1>3. Append(proxy[e], e) \in Seq(Event) /\ Len(Append(proxy[e], e)) = Len(proxy[e]) + 1
  BY <1>2
<1>4. Append(proxy[e], e)[Len(proxy[e]) + 1] = e
  BY <1>2
<1>5. \A i \in DOMAIN proxy[e] : Append(proxy[e], e)[i] = proxy[e][i]
  BY <1>2
<1>6. \A i \in DOMAIN proxy[e] : proxy[e][i] # e
  BY <1>1
<1> QED BY <1>1, <1>2, <1>3, <1>4, <1>5, <1>6 DEF Emits

\* At the head of its list the walk has everybody before it.
LEMMA WalkStarts ==
    ASSUME NEW m, Sound(m), NEW e \in Event \ Group, NEW k \in DOMAIN Emits(e)
    PROVE  GoodWalk(m, WalkFrom(m.lists, e, k))
<1> DEFINE f == Emits(e)[k]
           b == hash[f]
           l == m.lists[b]
           w == WalkFrom(m.lists, e, k)
<1>0. f \in Event /\ k \in Nat
  BY EmitsParts
<1> HIDE DEF f
<1>1. b \in Bucket /\ l \in Seq(Node) /\ NIL \notin Node
  BY <1>0, NotifyAssumption DEF Sound, Cells
<1>2. PICK rank \in [Node -> Nat] :
        \A d \in Bucket : \A j \in DOMAIN m.lists[d] : rank[m.lists[d][j]] = j
  BY RankExists
<1>3. Increasing(m, rank)
  BY <1>2 DEF Increasing
<1>4. w.event = f /\ w.cur = IF l = <<>> THEN NIL ELSE Head(l)
  BY DEF WalkFrom, f
<1>5. CASE l = <<>>
  <2>1. w.cur = NIL /\ w \in Walk
    BY <1>0, <1>4, <1>5 DEF Walk, WalkFrom, f
  <2>2. ASSUME NEW x \in Node, Linked(m, x), m.node[x].pattern.hash = b
        PROVE  FALSE
    BY <1>5, <2>2, LinkedPlace, SMTT(60)
  <2> HIDE DEF w
  <2>3. Ahead(m, w, rank) /\ Astray(m, w, rank) /\ OnList(m, w)
    BY <1>4, <2>1, <2>2 DEF Ahead, Astray, OnList
  <2> QED BY <1>3, <2>1, <2>3 DEF GoodWalk, Ordered, w
<1>6. CASE l # <<>>
  <2>1. 1 \in DOMAIN l /\ Head(l) = l[1] /\ Head(l) \in Node
    BY <1>1, <1>6
  <2>2. /\ w.cur = l[1] /\ w.cur \in Node /\ Linked(m, w.cur)
        /\ m.node[w.cur].pattern.hash = b
    BY <1>1, <1>4, <1>6, <2>1, ListedParts, SMTT(60)
  <2>3. w \in Walk
    BY <1>0, <1>4, <2>2 DEF Walk, WalkFrom, f
  <2>4. rank[w.cur] = 1
    BY <1>1, <1>2, <2>1, <2>2
  <2> HIDE DEF w
  <2>5. ASSUME NEW x \in Node, Linked(m, x), m.node[x].pattern.hash = b
        PROVE  1 <= rank[x]
    <3>1. PICK j \in DOMAIN l : l[j] = x
      BY <2>5, LinkedPlace
    <3>2. rank[x] = j
      BY <1>1, <1>2, <3>1
    <3>3. j >= 1
      <4>1. l \in Seq(Node)
        BY <1>1, ZenonT(60)
      <4> HIDE DEF l
      <4> QED BY <3>1, <4>1
    <3> QED BY <3>2, <3>3
  <2>6. Ahead(m, w, rank)
    BY <1>1, <1>4, <2>2, <2>4, <2>5, SMTT(60) DEF Ahead
  <2>7. Astray(m, w, rank) /\ OnList(m, w)
    BY <1>4, <2>2 DEF Astray, OnList, Stale, Linked
  <2> QED BY <1>3, <2>3, <2>6, <2>7 DEF GoodWalk, Ordered, w
<1> QED BY <1>5, <1>6

\* The pointer of a linked subscriber leads to the one behind it.
LEMMA NextLinked ==
    ASSUME NEW m, Sound(m), NEW k \in Node, Linked(m, k),
           NEW rank \in [Node -> Nat], Increasing(m, rank)
    PROVE  LET q == Next(m, k) IN
           /\ q # NIL =>
               q \in Node /\ Linked(m, q) /\ m.node[q].pattern.hash = m.node[k].pattern.hash
           /\ \A x \in Node \ {k} :
               (/\ Linked(m, x) /\ m.node[x].pattern.hash = m.node[k].pattern.hash
                /\ rank[k] <= rank[x]) => q # NIL /\ rank[q] <= rank[x]
<1> DEFINE b == m.node[k].pattern.hash
           l == m.lists[b]
           i == Index(l, k)
           q == Next(m, k)
<1>1. b \in Bucket /\ l \in Seq(Node) /\ Contains(l, k) /\ NIL \notin Node
  BY LinkedParts, NotifyAssumption, ZenonT(60)
<1>2. i \in 1 .. Len(l) /\ i \in DOMAIN l /\ l[i] = k
  BY <1>1, IndexLeaves
<1>3. q = IF i = Len(l) THEN NIL ELSE l[i + 1]
  BY DEF Next, Linked
<1>4. DOMAIN l = 1 .. Len(l) /\ Len(l) \in Nat
  <2>1. l \in Seq(Node)
    BY <1>1
  <2> HIDE DEF l
  <2> QED BY <2>1
<1> HIDE DEF q, i
<1>5. i # Len(l) => i + 1 \in DOMAIN l
  BY <1>2, <1>4, NextPlace, ZenonT(60)
<1>6. q # NIL => i # Len(l) /\ q = l[i + 1] /\ i + 1 \in DOMAIN l
  BY <1>3, <1>5, ZenonT(60)
<1>7. q # NIL => q \in Node /\ Linked(m, q) /\ m.node[q].pattern.hash = b
  BY <1>1, <1>6, ListedParts, SMTT(60)
<1>8. ASSUME NEW x \in Node \ {k}, Linked(m, x), m.node[x].pattern.hash = b, rank[k] <= rank[x]
      PROVE  q # NIL /\ rank[q] <= rank[x]
  <2>1. PICK j \in DOMAIN l : l[j] = x
    BY <1>8, LinkedPlace
  <2>2. \A g, h \in DOMAIN l : g < h => rank[l[g]] < rank[l[h]]
    BY <1>1 DEF Increasing
  <2>3. rank[k] \in Nat /\ rank[x] \in Nat /\ j # i
    BY <1>2, <1>8, <2>1
  <2> HIDE DEF l, b
  <2>4. ~ (j < i)
    <3> SUFFICES ASSUME j < i PROVE FALSE
      OBVIOUS
    <3>1. rank[x] < rank[k]
      BY <1>2, <2>1, <2>2
    <3> QED BY <1>8, <2>3, <3>1
  <2>5. i # Len(l) /\ (j = i + 1 \/ i + 1 < j)
    BY <1>2, <1>4, <2>1, <2>3, <2>4
  <2>6. q = l[i + 1] /\ i + 1 \in DOMAIN l
    BY <1>3, <1>5, <2>5
  <2>7. q \in Node
    BY <1>1, <1>4, <2>6
  <2>8. CASE j = i + 1
    BY <1>1, <2>1, <2>3, <2>6, <2>7, <2>8
  <2>9. CASE i + 1 < j
    <3>1. rank[q] < rank[x] /\ rank[q] \in Nat
      BY <2>1, <2>2, <2>6, <2>7, <2>9
    <3> QED BY <1>1, <2>3, <2>7, <3>1
  <2> QED BY <2>5, <2>8, <2>9
<1> QED BY <1>7, <1>8 DEF q

\* The walk w moved to the subscriber q.
MovedTo(w, q) == [w EXCEPT !.cur = q]

\* The walk goes on from a subscriber that is not called.
LEMMA WalkSkips ==
    ASSUME NEW m, Sound(m), NEW ws, Forgotten(m, ws), NEW w, GoodWalk(m, w), w.cur # NIL,
           Linked(m, w.cur) => w.event \notin m.node[w.cur].pattern.events
    PROVE  GoodWalk(m, MovedTo(w, Next(m, w.cur)))
<1> DEFINE k == w.cur
           q == Next(m, k)
           v == MovedTo(w, q)
           b == hash[w.event]
<1>1. /\ w \in Walk /\ k \in Node /\ b \in Bucket /\ w.event \in Event
      /\ m.node[k].state # "unused" /\ m.node[k].pattern.hash = b
  BY NotifyAssumption DEF GoodWalk, Walk, OnList
<1>2. PICK rank \in [Node -> Nat] :
        Increasing(m, rank) /\ Ahead(m, w, rank) /\ Astray(m, w, rank)
  BY DEF GoodWalk, Ordered
<1>3. \A x \in Node :
        (/\ Linked(m, x) /\ m.node[x].pattern.hash = b
         /\ w.event \in m.node[x].pattern.events) => rank[k] <= rank[x] /\ x # k
  BY <1>1, <1>2 DEF Ahead
<1>4. m.node \in [Node -> Subscriber]
  BY DEF Sound, Cells
<1>5. m.node[k] \in Subscriber
  BY <1>1, <1>4
<1> HIDE DEF q
<1>6. q \in Node \cup {NIL} => v \in Walk /\ v.event = w.event /\ v.cur = q
  BY <1>1 DEF Walk, MovedTo
<1>7. CASE Linked(m, k)
  <2>1. /\ q # NIL => q \in Node /\ Linked(m, q) /\ m.node[q].pattern.hash = b
        /\ \A x \in Node \ {k} :
             (/\ Linked(m, x) /\ m.node[x].pattern.hash = b
              /\ rank[k] <= rank[x]) => q # NIL /\ rank[q] <= rank[x]
    BY <1>1, <1>2, <1>7, NextLinked DEF q
  <2>2. v \in Walk /\ v.event = w.event /\ v.cur = q
    BY <1>6, <2>1
  <2> HIDE DEF v
  <2>3. Ahead(m, v, rank)
    BY <1>3, <2>1, <2>2 DEF Ahead
  <2>4. Astray(m, v, rank) /\ OnList(m, v)
    BY <2>1, <2>2 DEF Astray, OnList, Stale, Linked
  <2> QED BY <1>2, <2>2, <2>3, <2>4 DEF GoodWalk, Ordered, v, q
<1>8. CASE ~ Linked(m, k)
  <2>1. Stale(m, k)
    BY <1>1, <1>5, <1>8, SMTT(60) DEF Stale, Linked, Subscriber
  <2>2. q = m.node[k].next
    BY <1>8 DEF q, Next, Linked
  <2>3. q \in Node \cup {NIL}
    BY <1>5, <2>2 DEF Subscriber
  <2>4. v \in Walk /\ v.event = w.event /\ v.cur = q
    BY <1>6, <2>3
  <2>5. q # NIL => m.node[q].state # "unused" /\ m.node[q].pattern.hash = b
    BY <1>1, <2>1, <2>2 DEF Forgotten
  <2>6. \A n \in Node :
          (Stale(m, n) /\ m.node[n].client = m.node[k].client) => LeadsOn(m, rank, n)
    BY <1>2, <2>1 DEF Astray
  <2>7. LeadsOn(m, rank, k)
    BY <1>1, <2>1, <2>6
  <2> HIDE DEF v
  <2>8. Ahead(m, v, rank)
    <3> SUFFICES ASSUME NEW x \in Node, Linked(m, x), m.node[x].pattern.hash = b,
                        w.event \in m.node[x].pattern.events
                 PROVE  q # NIL /\ rank[q] <= rank[x]
      BY <2>4 DEF Ahead
    <3>1. rank[k] <= rank[x] /\ rank[k] \in Nat /\ rank[x] \in Nat
      BY <1>1, <1>3
    <3>2. rank[x] < rank[k] \/ (q # NIL /\ rank[q] <= rank[x])
      BY <1>1, <2>2, <2>7 DEF LeadsOn, Follows
    <3> QED BY <3>1, <3>2
  <2>9. Astray(m, v, rank)
    <3> SUFFICES ASSUME q # NIL, Stale(m, q)
                 PROVE  /\ Overlap(m, q)
                        /\ \A n \in Node :
                            (Stale(m, n) /\ m.node[n].client = m.node[q].client)
                              => LeadsOn(m, rank, n)
      BY <2>4 DEF Astray
    <3>1. q # k /\ m.node[q].client = m.node[k].client
      BY <2>2, <2>7 DEF LeadsOn
    <3>2. m.node[k].pattern \in Pattern
      BY <1>1 DEF Sound, Used
    <3>3. m.node[k].pattern # NIL
      BY <3>2, NotifyAssumption
    <3>4. Overlap(m, q)
      BY <1>1, <2>5, <3>1, <3>3 DEF Overlap
    <3> QED BY <2>6, <3>1, <3>4
  <2>10. OnList(m, v)
    BY <2>4, <2>5 DEF OnList
  <2> QED BY <1>2, <2>4, <2>8, <2>9, <2>10 DEF GoodWalk, Ordered, v, q
<1> QED BY <1>7, <1>8

-----------------------------------------------------------------------------
(* Cancelling all subscriptions of a client                                 *)

Subs(m, c) == {n \in Node : Linked(m, n) /\ m.node[n].client = c}

\* A client that does not wait has none.
LEMMA NoSubs ==
    ASSUME NEW m, Sound(m), NEW cl, NEW ws, Owned(m, cl, ws), NEW c \in Client, ws[c] = NIL
    PROVE  Subs(m, c) = {}
BY DEF Subs, Owned

\* Those of a client that waits are in cs->waits.
LEMMA SubsAreMembers ==
    ASSUME NEW m, Sound(m), NEW cl, NEW ws, Owned(m, cl, ws), NEW c \in Client, ws[c] # NIL
    PROVE  ws[c] \in Seq(Node) /\ Distinct(ws[c]) /\ Members(ws[c]) = Subs(m, c)
<1> DEFINE s == ws[c]
<1>1. s \in Seq(Node) /\ Distinct(s)
  BY DEF Owned
<1>2. \A i \in DOMAIN s : s[i] \in Node /\ Linked(m, s[i]) /\ m.node[s[i]].client = c
  <2>1. \A i \in DOMAIN s : s[i] \in Node
    BY <1>1
  <2> QED BY <2>1 DEF Owned
<1>3. ASSUME NEW n \in Subs(m, c)
      PROVE  n \in Members(s)
  <2>1. Contains(s, n)
    BY DEF Subs, Owned
  <2> HIDE DEF s
  <2> QED BY <1>1, <2>1 DEF Contains, Members
<1>4. Members(s) \subseteq Subs(m, c)
  BY <1>2 DEF Members, Subs
<1> QED BY <1>1, <1>3, <1>4

\* The loops over cs->waits unlink what the client subscribed to, and no more.
LEMMA CancelLeaves ==
    ASSUME NEW m, Sound(m), NEW cl, NEW ws, Owned(m, cl, ws), NEW c \in Client, ws[c] # NIL
    PROVE  /\ Unlinked(m, UnsubscribeAll(m, ws[c]), Subs(m, c))
           /\ KeepsOrder(m, UnsubscribeAll(m, ws[c]), Subs(m, c))
<1> DEFINE s == ws[c]
<1>1. s \in Seq(Node) /\ Distinct(s) /\ Members(s) = Subs(m, c)
  BY SubsAreMembers
<1>2. \A i \in DOMAIN s : Linked(m, s[i])
  BY <1>1 DEF Subs, Members
<1> HIDE DEF s
<1>3. Unlinked(m, UnsubscribeAll(m, s), Members(s)) /\ KeepsOrder(m, UnsubscribeAll(m, s), Members(s))
  BY <1>1, <1>2, UnsubscribeAllLeaves
<1> QED BY <1>1, <1>3 DEF s

\* The others wait as before.
LEMMA OwnedAfterCancel ==
    ASSUME NEW m, NEW u, NEW cl, NEW ws, Sound(m), Owned(m, cl, ws), NEW c \in Client,
           Unlinked(m, u, Subs(m, c)), NEW cl2, cl \ {c} \subseteq cl2, cl2 \subseteq cl
    PROVE  Owned(u, cl2, [ws EXCEPT ![c] = NIL])
<1> DEFINE vs == [ws EXCEPT ![c] = NIL]
<1>1. /\ cl \subseteq Client /\ ws \in [Client -> Seq(Node) \cup {NIL}]
      /\ \A d \in Client \ cl : ws[d] = NIL
  BY DEF Owned
<1>2. vs \in [Client -> Seq(Node) \cup {NIL}] /\ vs[c] = NIL
      /\ \A d \in Client : d # c => vs[d] = ws[d]
  BY <1>1
<1> HIDE DEF vs
<1>3. \A d \in Client \ cl2 : vs[d] = NIL
  BY <1>1, <1>2
<1>4. ASSUME NEW n \in Node, Linked(u, n)
      PROVE  /\ Linked(m, n) /\ u.node[n] = m.node[n]
             /\ m.node[n].client \in Client /\ m.node[n].client # c
  <2>1. n \notin Subs(m, c)
    BY <1>4 DEF Unlinked, Stale, Linked
  <2>2. u.node[n] = m.node[n] /\ Linked(m, n)
    BY <1>4, <2>1 DEF Unlinked, Linked
  <2> QED BY <2>1, <2>2, LinkedParts DEF Subs
<1>5. ASSUME NEW d \in Client, vs[d] # NIL
      PROVE  /\ Distinct(vs[d])
             /\ \A i \in DOMAIN vs[d] : Linked(u, vs[d][i]) /\ u.node[vs[d][i]].client = d
  <2>1. d # c /\ vs[d] = ws[d]
    BY <1>2, <1>5
  <2>2. ws[d] \in Seq(Node) /\ Distinct(ws[d])
    BY <1>1, <1>2, <1>5, <2>1 DEF Owned
  <2>3. ASSUME NEW i \in DOMAIN ws[d]
        PROVE  Linked(u, ws[d][i]) /\ u.node[ws[d][i]].client = d
    <3>1. ws[d][i] \in Node
      BY <2>2
    <3>2. Linked(m, ws[d][i]) /\ m.node[ws[d][i]].client = d
      BY <1>5, <2>1 DEF Owned
    <3>3. u.node[ws[d][i]] = m.node[ws[d][i]]
      BY <2>1, <3>1, <3>2 DEF Unlinked, Subs
    <3> QED BY <3>2, <3>3 DEF Linked
  <2> QED BY <2>1, <2>2, <2>3
<1>6. ASSUME NEW n \in Node, Linked(u, n)
      PROVE  vs[u.node[n].client] # NIL /\ Contains(vs[u.node[n].client], n)
  BY <1>2, <1>4, <1>6 DEF Owned
<1>7. cl2 \subseteq Client
  BY <1>1
<1> QED BY <1>2, <1>3, <1>5, <1>6, <1>7 DEF Owned, vs

\* Nobody waits with the subscribers that were cancelled.
LEMMA ForgottenAfterCancel ==
    ASSUME NEW m, NEW u, NEW cl, NEW ws, Sound(m), Owned(m, cl, ws), Forgotten(m, ws),
           NEW c \in Client, Unlinked(m, u, Subs(m, c))
    PROVE  Forgotten(u, [ws EXCEPT ![c] = NIL])
<1> DEFINE vs == [ws EXCEPT ![c] = NIL]
<1>1. vs[c] = NIL /\ \A d \in Client : d # c => vs[d] = ws[d]
  BY DEF Owned
<1> HIDE DEF vs
<1>2. \A n \in Node : u.node[n].pattern = m.node[n].pattern /\ u.node[n].client = m.node[n].client
  BY DEF Unlinked
<1>3. \A n \in Node : m.node[n].state # "unused" => u.node[n].state # "unused"
  BY DEF Unlinked, Stale
<1>4. m.node \in [Node -> Subscriber]
  BY DEF Sound, Cells
<1>5. ASSUME NEW n \in Node, Stale(u, n)
      PROVE  /\ vs[u.node[n].client] = NIL
             /\ u.node[n].next # NIL =>
                 /\ u.node[u.node[n].next].state # "unused"
                 /\ u.node[u.node[n].next].pattern.hash = u.node[n].pattern.hash
  <2>1. CASE n \in Subs(m, c)
    <3>1. u.node[n].client = c
      BY <1>2, <2>1 DEF Subs
    <3>2. u.node[n].next # NIL =>
            /\ u.node[n].next \in Node
            /\ Linked(m, u.node[n].next)
            /\ m.node[u.node[n].next].pattern.hash = m.node[n].pattern.hash
      BY <2>1 DEF Unlinked
    <3> QED BY <1>1, <1>2, <1>3, <3>1, <3>2 DEF Linked
  <2>2. CASE n \notin Subs(m, c)
    <3>1. u.node[n] = m.node[n] /\ Stale(m, n)
      BY <1>5, <2>2 DEF Unlinked, Stale
    <3>2. m.node[n].client \in Client
      BY <3>1 DEF Sound, Used, Stale
    <3>3. ws[m.node[n].client] = NIL
      BY <3>1 DEF Forgotten
    <3>4. vs[m.node[n].client] = NIL
      BY <1>1, <3>2, <3>3
    <3>5. m.node[n].next \in Node \cup {NIL}
      BY <1>4 DEF Subscriber
    <3>6. m.node[n].next # NIL =>
            /\ m.node[m.node[n].next].state # "unused"
            /\ m.node[m.node[n].next].pattern.hash = m.node[n].pattern.hash
      BY <3>1 DEF Forgotten
    <3> QED BY <1>2, <1>3, <3>1, <3>4, <3>5, <3>6
  <2> QED BY <2>1, <2>2
<1> QED BY <1>5 DEF Forgotten, vs

\* The walk goes on from a subscriber whose callback cancelled all of its
\* client.
LEMMA WalkCancels ==
    ASSUME NEW m, NEW u, NEW cl, NEW ws, NEW w, Sound(m), Forgotten(m, ws), GoodWalk(m, w),
           w.cur # NIL, Linked(m, w.cur), NEW c, m.node[w.cur].client = c, ws[c] # NIL,
           Unlinked(m, u, Subs(m, c)), KeepsOrder(m, u, Subs(m, c))
    PROVE  GoodWalk(u, MovedTo(w, Next(u, w.cur)))
<1> DEFINE k == w.cur
           S == Subs(m, c)
           q == Next(u, k)
           v == MovedTo(w, q)
           b == hash[w.event]
<1>1. /\ w \in Walk /\ k \in Node /\ w.event \in Event
      /\ m.node[k].pattern.hash = b
  BY DEF GoodWalk, Walk, OnList
<1>2. PICK rank \in [Node -> Nat] : Increasing(m, rank) /\ Ahead(m, w, rank)
  BY DEF GoodWalk, Ordered
<1>3. k \in S
  BY <1>1 DEF Subs
<1>4. Increasing(u, rank) /\ \A n \in S : Follows(u, rank, n)
  BY <1>2 DEF KeepsOrder
<1> HIDE DEF S
<1>5. \A n \in Node : u.node[n].pattern = m.node[n].pattern /\ u.node[n].client = m.node[n].client
  BY DEF Unlinked, S
<1>6. \A n \in S :
        /\ Stale(u, n)
        /\ u.node[n].next # NIL =>
            /\ u.node[n].next \in Node \ {n}
            /\ Linked(m, u.node[n].next)
            /\ m.node[u.node[n].next].pattern.hash = m.node[n].pattern.hash
  BY DEF Unlinked, S
<1>7. \A n \in Node : n \notin S => u.node[n] = m.node[n]
  BY DEF Unlinked, S
<1>8. \A n \in S : u.node[n].client = c /\ n \in Node
  BY <1>5, ZenonT(60) DEF S, Subs
<1>9. q = u.node[k].next
  BY <1>3, <1>6, ZenonT(60) DEF Next, Stale
<1>10. q # NIL => q \in Node \ {k} /\ Linked(m, q) /\ m.node[q].pattern.hash = b
  BY <1>1, <1>3, <1>6, <1>9
<1>11. v \in Walk /\ v.event = w.event /\ v.cur = q
  BY <1>1, <1>10 DEF Walk, MovedTo
<1> HIDE DEF q, v
<1>12. OnList(u, v)
  <2>1. q # NIL => u.node[q].state # "unused" /\ u.node[q].pattern.hash = b
    BY <1>5, <1>6, <1>7, <1>10 DEF Linked, Stale
  <2> QED BY <1>11, <2>1 DEF OnList
<1>13. Ahead(u, v, rank)
  <2> SUFFICES ASSUME NEW x \in Node, Linked(u, x), u.node[x].pattern.hash = b,
                      w.event \in u.node[x].pattern.events
               PROVE  q # NIL /\ rank[q] <= rank[x]
    BY <1>11 DEF Ahead
  <2>1. x \notin S /\ Linked(m, x) /\ u.node[x] = m.node[x]
    BY <1>6, <1>7 DEF Stale, Linked
  <2>2. rank[k] <= rank[x] /\ rank[k] \in Nat /\ rank[x] \in Nat
    BY <1>1, <1>2, <2>1 DEF Ahead
  <2>3. rank[x] < rank[k] \/ (q # NIL /\ rank[q] <= rank[x])
    BY <1>1, <1>3, <1>4, <1>5, <1>9 DEF Follows
  <2> QED BY <2>2, <2>3
<1>14. ASSUME q # NIL, Stale(u, q)
       PROVE  /\ Overlap(u, q)
              /\ \A n \in Node :
                   (Stale(u, n) /\ u.node[n].client = u.node[q].client) => LeadsOn(u, rank, n)
  <2>1. ASSUME NEW n \in Node, Linked(m, n), Stale(u, n)
        PROVE  n \in S /\ u.node[n].client = c
    BY <1>7, <1>8, <2>1 DEF Linked, Stale
  <2>2. q \in S /\ u.node[q].client = c
    BY <1>10, <1>14, <2>1
  <2>3. u.node[k].pattern # NIL
    <3>1. m.node[k].pattern \in Pattern
      BY <1>1, LinkedParts
    <3> QED BY <1>1, <1>5, <3>1, NotifyAssumption
  <2>4. Overlap(u, q)
    BY <1>1, <1>3, <1>5, <1>8, <1>10, <1>14, <2>2, <2>3 DEF Overlap
  <2>5. ASSUME NEW n \in Node, Stale(u, n), u.node[n].client = c
        PROVE  LeadsOn(u, rank, n)
    <3>1. n \in S
      <4> SUFFICES ASSUME n \notin S PROVE FALSE
        OBVIOUS
      <4>1. Stale(m, n) /\ m.node[n].client = c
        BY <1>7, <2>5 DEF Stale
      <4> QED BY <4>1 DEF Forgotten
    <3>2. u.node[n].next # NIL =>
            u.node[n].next \in Node \ {n} /\ Linked(m, u.node[n].next)
      BY <1>6, <3>1
    <3> QED BY <1>4, <2>1, <2>5, <3>1, <3>2 DEF LeadsOn
  <2> QED BY <2>2, <2>4, <2>5
<1>15. Astray(u, v, rank)
  BY <1>11, <1>14 DEF Astray
<1>16. Ordered(u, v)
  BY <1>4, <1>13, <1>15 DEF Ordered
<1> QED BY <1>11, <1>12, <1>16 DEF GoodWalk, v, q

-----------------------------------------------------------------------------
(* The invariant                                                            *)

\* The memory after an action that stores u.
LEMMA MemoryPrimed ==
    ASSUME NEW u \in Cells, Store(u)
    PROVE  Memory' = u
<1>1. u = [lists |-> u.lists, node |-> u.node]
  BY DEF Cells
<1> QED BY <1>1 DEF Store, Memory

\* The parts of the invariant in terms of the memory and the walk.
LEMMA WalkingParts ==
    ASSUME NInv, walk # NIL
    PROVE  GoodWalk(Memory, walk) /\ ~ crashed
BY DEF NInv, Walking, GoodWalk

\* An action that begins to emit event e.
LEMMA StartsInv ==
    ASSUME NInv, Idle, NEW e \in Event \ Group, Emitting(e, lists'), crashed' = crashed,
           Sound(Memory)', Owned(Memory, clients, waits)', Forgotten(Memory, waits)', Blocked'
    PROVE  NInv'
<1>1. Memory'.lists = lists'
  BY DEF Memory
<1>2. walk' = WalkFrom(Memory'.lists, e, 1) /\ 1 \in DOMAIN Emits(e)
  BY <1>1, EmitsParts DEF Emitting
<1>3. GoodWalk(Memory', walk')
  BY <1>2, WalkStarts
<1>4. walk' \in Walk /\ OnList(Memory', walk') /\ Ordered(Memory', walk')
  BY <1>3 DEF GoodWalk
<1>5. walk' # NIL
  BY <1>4, NotifyAssumption
<1>6. crashed' = FALSE
  BY DEF Idle, NInv, Walking
<1>7. walk'.of = e /\ walk'.at = 1 /\ walk'.event = Emits(e)[1]
  BY <1>2 DEF WalkFrom
<1>8. InPlace(walk') /\ Heard(Memory', walk')
  BY <1>2, <1>7 DEF InPlace, Heard
<1>9. Walking'
  BY <1>4, <1>6, <1>8 DEF Walking
<1>10. Settled'
  BY <1>5 DEF Settled
<1> QED BY <1>9, <1>10 DEF NInv

\* A walk that moves on stays the emit() it is.
LEMMA MovedParts ==
    ASSUME NEW w \in Walk, NEW q
    PROVE  /\ MovedTo(w, q).of = w.of /\ MovedTo(w, q).at = w.at
           /\ MovedTo(w, q).event = w.event
           /\ InPlace(w) => InPlace(MovedTo(w, q))
           /\ \A m : Heard(m, w) => Heard(m, MovedTo(w, q))
<1>1. MovedTo(w, q).of = w.of /\ MovedTo(w, q).at = w.at /\ MovedTo(w, q).event = w.event
  BY DEF Walk, MovedTo
<1> QED BY <1>1 DEF InPlace, Heard

\* Cancelled subscribers wait for nothing that was emitted before.
LEMMA HeardAfterCancel ==
    ASSUME NEW m, NEW u, NEW S, Unlinked(m, u, S), NEW w, Heard(m, w)
    PROVE  Heard(u, w)
<1>1. \A x \in Node : Linked(u, x) => Linked(m, x) /\ u.node[x] = m.node[x]
  BY DEF Unlinked, Linked, Stale
<1> QED BY <1>1 DEF Heard

\* The server starts without clients and subscribers.
LEMMA NInitInv ==
    Init => NInv
<1> SUFFICES ASSUME Init PROVE NInv
  OBVIOUS
<1> USE DEF Init
<1>1. Unused \in Subscriber /\ Unused.state = "unused"
  BY DEF Unused, Subscriber
<1>2. Memory.lists = [b \in Bucket |-> <<>>] /\ Memory.node = [n \in Node |-> Unused]
  BY DEF Memory
<1>3. Memory \in Cells
  <2>1. lists \in [Bucket -> Seq(Node)]
    OBVIOUS
  <2>2. node \in [Node -> Subscriber]
    BY <1>1
  <2> QED BY <2>1, <2>2 DEF Cells, Memory
<1>4. \A n \in Node : Memory.node[n].state = "unused"
  BY <1>1, <1>2
<1>5. Sound(Memory)
  <2>1. \A b \in Bucket : DOMAIN Memory.lists[b] = {}
    BY <1>2
  <2> QED BY <1>3, <1>4, <2>1 DEF Sound, Used, ListsLinked, ListedOnce, Distinct, LinkedListed, Linked
<1>6. Owned(Memory, clients, waits)
  BY <1>4 DEF Owned, Linked
<1>7. Forgotten(Memory, waits) /\ Settled
  BY <1>4 DEF Forgotten, Settled, Stale
<1>8. Blocked
  BY DEF Blocked, BlockedWhileWaiting
<1>9. Walking
  BY DEF Walking
<1> QED BY <1>5, <1>6, <1>7, <1>8, <1>9 DEF NInv

\* clients_new() keeps the invariant: the entry waits for nothing.
LEMMA ConnectInv ==
    ASSUME NInv, NEW c \in Client, Connect(c)
    PROVE  NInv'
<1> USE DEF Connect
<1>1. Memory' = Memory
  BY DEF Memory
<1>2. NewEvent \in Event \ Group /\ Emitting(NewEvent, lists') /\ Idle /\ crashed' = crashed
  BY NotifyAssumption
<1>3. /\ Owned(Memory, clients, waits) /\ Forgotten(Memory, waits) /\ Sound(Memory)
      /\ Blocked /\ waits \in [Client -> Seq(Node) \cup {NIL}] /\ clients \subseteq Client
      /\ waits[c] = NIL
  BY DEF NInv, Owned
<1>4. waits' = waits
  BY <1>3
<1>5. Owned(Memory', clients', waits')
  BY <1>1, <1>3, <1>4 DEF Owned
<1>6. Forgotten(Memory', waits') /\ Sound(Memory')
  BY <1>1, <1>3, <1>4
<1>7. Blocked'
  BY <1>3, <1>4 DEF Blocked, BlockedWhileWaiting
<1> QED BY <1>2, <1>5, <1>6, <1>7, StartsInv

\* So does every event that comes from elsewhere.
LEMMA EmitInv ==
    ASSUME NInv, NEW e \in Event \ Group, Emit(e)
    PROVE  NInv'
<1> USE DEF Emit
<1>1. Memory' = Memory /\ clients' = clients /\ waits' = waits /\ blockc' = blockc
  BY DEF Memory
<1>2. Emitting(e, lists') /\ Idle /\ crashed' = crashed
  OBVIOUS
<1>3. Sound(Memory') /\ Owned(Memory', clients', waits') /\ Forgotten(Memory', waits')
  BY <1>1 DEF NInv
<1>4. Blocked'
  BY <1>1 DEF NInv, Blocked, BlockedWhileWaiting
<1> QED BY <1>2, <1>3, <1>4, StartsInv

\* clients_delete() keeps it: the subscriptions go with the client.
LEMMA DeleteInv ==
    ASSUME NInv, NEW c \in Client, Delete(c)
    PROVE  NInv'
<1> DEFINE u == IF waits[c] = NIL THEN Memory ELSE UnsubscribeAll(Memory, waits[c])
           vs == [waits EXCEPT ![c] = NIL]
<1>1. /\ Idle /\ c \in clients /\ Store(u) /\ clients' = clients \ {c} /\ waits' = vs
      /\ Emitting(DeleteEvent, lists') /\ blockc' = blockc /\ crashed' = crashed
  BY DEF Delete
<1>2. /\ Owned(Memory, clients, waits) /\ Forgotten(Memory, waits) /\ Sound(Memory)
      /\ Blocked /\ waits \in [Client -> Seq(Node) \cup {NIL}] /\ clients \subseteq Client
  BY DEF NInv, Owned
<1>3. Unlinked(Memory, u, Subs(Memory, c))
  <2>1. CASE waits[c] = NIL
    <3>1. Subs(Memory, c) = {} /\ u = Memory
      BY <1>2, <2>1, NoSubs
    <3> QED BY <1>2, <3>1 DEF Unlinked
  <2>2. CASE waits[c] # NIL
    BY <1>2, <2>2, CancelLeaves
  <2> QED BY <2>1, <2>2
<1> HIDE DEF u, vs
<1>4. u \in Cells /\ Sound(u)
  BY <1>3 DEF Unlinked, Sound
<1>5. Memory' = u
  BY <1>1, <1>4, MemoryPrimed
<1>6. Owned(Memory', clients', waits')
  <2>1. Owned(u, clients \ {c}, vs)
    BY <1>2, <1>3, OwnedAfterCancel DEF vs
  <2> QED BY <1>1, <1>5, <2>1
<1>7. Forgotten(Memory', waits')
  <2>1. Forgotten(u, vs)
    BY <1>2, <1>3, ForgottenAfterCancel DEF vs
  <2> QED BY <1>1, <1>5, <2>1
<1>8. Blocked'
  BY <1>1, <1>2 DEF Blocked, BlockedWhileWaiting, vs
<1>9. DeleteEvent \in Event \ Group
  BY NotifyAssumption
<1> QED BY <1>1, <1>4, <1>5, <1>6, <1>7, <1>8, <1>9, StartsInv

\* The walk passes a subscriber whose pattern does not match.
LEMMA SkipInv ==
    ASSUME NInv, Skip
    PROVE  NInv' /\ walk' # NIL
<1> USE DEF Skip
<1>1. /\ Memory' = Memory /\ clients' = clients /\ waits' = waits /\ blockc' = blockc
      /\ crashed' = crashed
  BY DEF Memory
<1>2. GoodWalk(Memory, walk) /\ ~ crashed /\ Sound(Memory) /\ Forgotten(Memory, waits)
  BY WalkingParts DEF NInv
<1>3. walk.cur # NIL /\ walk' = MovedTo(walk, Next(Memory, walk.cur))
  BY DEF MovedTo
<1>4. Linked(Memory, walk.cur) => walk.event \notin Memory.node[walk.cur].pattern.events
  BY DEF Outcomes, Linked, Memory
<1>5. GoodWalk(Memory, walk')
  BY <1>2, <1>3, <1>4, WalkSkips
<1>6. walk' # NIL
  BY <1>5, NotifyAssumption DEF GoodWalk
<1>7. Walking'
  <2>1. walk' \in Walk /\ OnList(Memory', walk') /\ Ordered(Memory', walk')
    BY <1>1, <1>5 DEF GoodWalk
  <2>2. crashed' = FALSE
    BY <1>1, <1>2 DEF NInv, Walking
  <2>3. InPlace(walk) /\ Heard(Memory, walk) /\ walk \in Walk
    BY <1>2 DEF NInv, Walking, GoodWalk
  <2>4. InPlace(walk') /\ Heard(Memory', walk')
    BY <1>1, <1>3, <2>3, MovedParts
  <2> QED BY <2>1, <2>2, <2>4 DEF Walking
<1>8. Settled'
  BY <1>6 DEF Settled
<1>9. Blocked'
  BY <1>1 DEF NInv, Blocked, BlockedWhileWaiting
<1> QED BY <1>1, <1>6, <1>7, <1>8, <1>9 DEF NInv

\* clients_ncb_wait() keeps it: only a linked subscriber has a client that
\* waits, and all of that client are cancelled.
LEMMA CallbackInv ==
    ASSUME NInv, clients_ncb_wait
    PROVE  NInv' /\ walk' # NIL
<1> DEFINE k == walk.cur
           c == node[k].client
           u == UnsubscribeAll(Memory, waits[c])
           vs == [waits EXCEPT ![c] = NIL]
<1>1. /\ walk # NIL /\ k # NIL /\ TRUE \in Outcomes(k) /\ c \in clients /\ waits[c] # NIL
      /\ Store(u) /\ waits' = vs /\ blockc' = [blockc EXCEPT ![c] = @ - 1]
      /\ walk' = MovedTo(walk, Next(u, k)) /\ clients' = clients /\ crashed' = crashed
  BY DEF clients_ncb_wait, MovedTo
<1>2. /\ Owned(Memory, clients, waits) /\ Forgotten(Memory, waits) /\ Sound(Memory)
      /\ Blocked /\ waits \in [Client -> Seq(Node) \cup {NIL}] /\ clients \subseteq Client
  BY DEF NInv, Owned
<1>3. GoodWalk(Memory, walk) /\ crashed = FALSE
  BY <1>1, WalkingParts DEF NInv, Walking
<1>4. k \in Node /\ Memory.node[k].state # "unused" /\ Memory.node[k].client = c
  BY <1>1, <1>3 DEF GoodWalk, OnList, Walk, Memory
<1>5. Linked(Memory, k)
  <2>1. ~ Stale(Memory, k)
    BY <1>1, <1>2, <1>4 DEF Forgotten
  <2>2. Memory.node[k] \in Subscriber
    BY <1>2, <1>4 DEF Sound, Cells
  <2> QED BY <1>4, <2>1, <2>2, ZenonT(60) DEF Stale, Linked, Subscriber
<1>6. c \in Client
  BY <1>1, <1>2
<1>7. Unlinked(Memory, u, Subs(Memory, c)) /\ KeepsOrder(Memory, u, Subs(Memory, c))
  BY <1>1, <1>2, <1>6, CancelLeaves
<1> HIDE DEF u, vs, c
<1>8. u \in Cells /\ Sound(u)
  BY <1>7 DEF Unlinked, Sound
<1>9. Memory' = u
  BY <1>1, <1>8, MemoryPrimed
<1>10. Owned(Memory', clients', waits')
  <2>1. Owned(u, clients, vs)
    BY <1>2, <1>6, <1>7, OwnedAfterCancel DEF vs
  <2> QED BY <1>1, <1>9, <2>1
<1>11. Forgotten(Memory', waits')
  <2>1. Forgotten(u, vs)
    BY <1>2, <1>6, <1>7, ForgottenAfterCancel DEF vs
  <2> QED BY <1>1, <1>9, <2>1
<1>12. Blocked'
  BY <1>1, <1>2, <1>6 DEF Blocked, BlockedWhileWaiting, vs
<1>13. GoodWalk(u, walk')
  BY <1>1, <1>2, <1>3, <1>4, <1>5, <1>7, WalkCancels
<1>14. Walking'
  <2>1. walk' \in Walk /\ OnList(Memory', walk') /\ Ordered(Memory', walk')
    BY <1>9, <1>13 DEF GoodWalk
  <2>2. crashed' = FALSE
    BY <1>1, <1>3
  <2>3. InPlace(walk) /\ Heard(Memory, walk) /\ walk \in Walk
    BY <1>1, <1>3 DEF NInv, Walking, GoodWalk
  <2>4. Heard(u, walk)
    BY <1>7, <2>3, HeardAfterCancel
  <2>5. InPlace(walk') /\ Heard(Memory', walk')
    BY <1>1, <1>9, <2>3, <2>4, MovedParts
  <2> QED BY <2>1, <2>2, <2>5 DEF Walking
<1>15. Settled' /\ walk' # NIL
  BY <1>13, NotifyAssumption DEF Settled, GoodWalk
<1> QED BY <1>8, <1>9, <1>10, <1>11, <1>12, <1>14, <1>15 DEF NInv

\* A crash changes no memory.
LEMMA CrashInv ==
    ASSUME NInv, Crash
    PROVE  NInv'
<1> USE DEF Crash
<1>1. /\ Memory' = Memory /\ clients' = clients /\ waits' = waits /\ blockc' = blockc
      /\ walk' = NIL /\ crashed' = TRUE
  BY DEF Memory
<1>2. Walking' /\ Settled'
  BY <1>1 DEF Walking, Settled
<1>3. Blocked'
  BY <1>1 DEF NInv, Blocked, BlockedWhileWaiting
<1> QED BY <1>1, <1>2, <1>3 DEF NInv

\* The end of a walk: what was unlinked may be used again.
LEMMA RecycleLeaves ==
    ASSUME NInv, Recycle, lists' = lists, clients' = clients, waits' = waits,
           blockc' = blockc, crashed' = crashed
    PROVE  /\ Sound(Memory') /\ Owned(Memory', clients', waits') /\ Forgotten(Memory', waits')
           /\ Blocked' /\ \A n \in Node : ~ Stale(Memory', n)
           /\ \A n \in Node : Linked(Memory', n) =>
                 Linked(Memory, n) /\ Memory'.node[n] = Memory.node[n]
<1> USE DEF Recycle
<1> DEFINE u == [n \in Node |-> IF node[n].state = "linked" THEN node[n] ELSE Unused]
           m == Memory
<1>1. /\ lists' = lists /\ node' = u /\ clients' = clients /\ waits' = waits /\ blockc' = blockc
  OBVIOUS
<1>2. /\ Owned(Memory, clients, waits) /\ Sound(Memory) /\ crashed \in BOOLEAN
  BY DEF NInv, Walking
<1>3. /\ m.lists = lists /\ m.node = node /\ Memory'.lists = lists /\ Memory'.node = u
  BY <1>1 DEF Memory
<1>4. Unused \in Subscriber /\ Unused.state = "unused"
  BY DEF Unused, Subscriber
<1>5. lists \in [Bucket -> Seq(Node)] /\ node \in [Node -> Subscriber]
  BY <1>2, <1>3 DEF Sound, Cells
<1>6. u \in [Node -> Subscriber]
  BY <1>4, <1>5
<1>7. /\ \A n \in Node : node[n].state = "linked" => u[n] = node[n]
      /\ \A n \in Node : u[n].state # "unused" => node[n].state = "linked"
  BY <1>4
<1> HIDE DEF u, m
<1>8. Memory' \in Cells
  BY <1>1, <1>5, <1>6 DEF Cells, Memory
<1>9. \A n \in Node : Linked(Memory', n) => Linked(m, n)
  BY <1>3, <1>7 DEF Linked
<1>10. \A n \in Node : Linked(m, n) => Linked(Memory', n) /\ u[n] = node[n]
  BY <1>3, <1>7 DEF Linked
<1>11. Sound(Memory')
  <2>1. Used(Memory')
    BY <1>2, <1>3, <1>7 DEF Sound, Used, m
  <2>2. ListsLinked(Memory')
    <3> SUFFICES ASSUME NEW b \in Bucket, NEW i \in DOMAIN lists[b]
                 PROVE  Linked(Memory', lists[b][i]) /\ u[lists[b][i]].pattern.hash = b
      BY <1>3 DEF ListsLinked
    <3>1. lists[b][i] \in Node /\ Linked(m, lists[b][i]) /\ node[lists[b][i]].pattern.hash = b
      BY <1>2, <1>3, ListedParts DEF m
    <3> QED BY <1>10, <3>1
  <2>3. ListedOnce(Memory')
    BY <1>2, <1>3 DEF Sound, ListedOnce, m
  <2>4. LinkedListed(Memory')
    BY <1>2, <1>3, <1>9, <1>10 DEF Sound, LinkedListed, m
  <2> QED BY <1>8, <2>1, <2>2, <2>3, <2>4 DEF Sound
<1>12. Owned(Memory', clients', waits')
  <2>1. ASSUME NEW c \in Client, waits[c] # NIL, NEW i \in DOMAIN waits[c]
        PROVE  Linked(Memory', waits[c][i]) /\ u[waits[c][i]].client = c
    <3>1. waits[c] \in Seq(Node)
      BY <1>2, <2>1 DEF Owned
    <3>2. waits[c][i] \in Node
      BY <2>1, <3>1
    <3>3. Linked(m, waits[c][i]) /\ node[waits[c][i]].client = c
      BY <1>2, <1>3, <2>1 DEF Owned, m
    <3> QED BY <1>10, <3>2, <3>3
  <2>2. ASSUME NEW n \in Node, Linked(Memory', n)
        PROVE  waits[u[n].client] # NIL /\ Contains(waits[u[n].client], n)
    BY <1>2, <1>3, <1>9, <1>10, <2>2 DEF Owned, m
  <2> QED BY <1>1, <1>2, <1>3, <2>1, <2>2 DEF Owned
<1>13. \A n \in Node : ~ Stale(Memory', n)
  BY <1>3, <1>7 DEF Stale
<1>14. Forgotten(Memory', waits')
  BY <1>13 DEF Forgotten
<1>15. Blocked'
  BY <1>1 DEF NInv, Blocked, BlockedWhileWaiting
<1>16. \A n \in Node : Linked(Memory', n) => Linked(m, n) /\ Memory'.node[n] = m.node[n]
  BY <1>3, <1>9, <1>10
<1> QED BY <1>11, <1>12, <1>13, <1>14, <1>15, <1>16 DEF m

\* emit() is over.
LEMMA EmittedInv ==
    ASSUME NInv, Emitted
    PROVE  NInv'
<1>1. /\ Recycle /\ lists' = lists /\ clients' = clients /\ waits' = waits
      /\ blockc' = blockc /\ crashed' = crashed /\ walk' = NIL
  BY DEF Emitted
<1>2. /\ Sound(Memory') /\ Owned(Memory', clients', waits') /\ Forgotten(Memory', waits')
      /\ Blocked' /\ \A n \in Node : ~ Stale(Memory', n)
  BY <1>1, RecycleLeaves
<1>3. Settled'
  BY <1>2 DEF Settled
<1>4. Walking'
  BY <1>1 DEF NInv, Walking
<1> QED BY <1>2, <1>3, <1>4 DEF NInv

\* Nobody waits for the event of a walk that is over.
LEMMA WalkHeard ==
    ASSUME NInv, walk # NIL, walk.cur = NIL, NEW x \in Node, Linked(Memory, x),
           Memory.node[x].pattern.hash = hash[walk.event]
    PROVE  walk.event \notin Memory.node[x].pattern.events
<1>1. PICK rank : Ahead(Memory, walk, rank)
  BY WalkingParts DEF GoodWalk, Ordered
<1> QED BY <1>1 DEF Ahead

\* An emit() of the proxy is over and the next begins: nobody waits any more
\* for what it emitted.
LEMMA ProxyEmittedInv ==
    ASSUME NInv, ProxyEmitted
    PROVE  NInv' /\ walk' # NIL
<1> DEFINE e == walk.of
           k == walk.at
<1>1. /\ Recycle /\ lists' = lists /\ clients' = clients /\ waits' = waits
      /\ blockc' = blockc /\ crashed' = crashed /\ walk # NIL /\ walk.cur = NIL
      /\ k < Len(Emits(e)) /\ walk' = WalkFrom(lists, e, k + 1)
  BY DEF ProxyEmitted
<1>2. /\ Sound(Memory') /\ Owned(Memory', clients', waits') /\ Forgotten(Memory', waits')
      /\ Blocked'
      /\ \A n \in Node : Linked(Memory', n) =>
            Linked(Memory, n) /\ Memory'.node[n] = Memory.node[n]
  BY <1>1, RecycleLeaves
<1>3. /\ walk \in Walk /\ InPlace(walk) /\ Heard(Memory, walk) /\ crashed = FALSE
  BY <1>1 DEF NInv, Walking
<1>4. e \in Event \ Group /\ k \in DOMAIN Emits(e) /\ walk.event = Emits(e)[k]
  BY <1>3 DEF Walk, InPlace
<1>5. k \in Nat /\ k + 1 \in DOMAIN Emits(e)
  BY <1>1, <1>4, EmitsParts
<1>6. walk'.of = e /\ walk'.at = k + 1 /\ walk'.event = Emits(e)[k + 1]
  BY <1>1 DEF WalkFrom
<1>7. Memory'.lists = lists
  BY <1>1 DEF Memory
<1>8. GoodWalk(Memory', walk')
  BY <1>1, <1>2, <1>4, <1>5, <1>7, WalkStarts
<1> HIDE DEF e, k
<1>9. Heard(Memory', walk')
  <2> SUFFICES ASSUME NEW i \in 1 .. k, NEW x \in Node, Linked(Memory', x),
                      Memory'.node[x].pattern.hash = hash[Emits(e)[i]]
               PROVE  Emits(e)[i] \notin Memory'.node[x].pattern.events
    BY <1>5, <1>6 DEF Heard
  <2>1. Linked(Memory, x) /\ Memory'.node[x] = Memory.node[x]
    BY <1>2
  <2>2. CASE i = k
    BY <1>1, <1>4, <2>1, <2>2, WalkHeard
  <2>3. CASE i # k
    <3>1. i \in 1 .. walk.at - 1
      BY <1>5, <2>3 DEF k
    <3> QED BY <1>3, <2>1, <3>1 DEF Heard, e
  <2> QED BY <2>2, <2>3
<1>10. InPlace(walk')
  BY <1>5, <1>6 DEF InPlace
<1>11. walk' # NIL
  BY <1>8, NotifyAssumption DEF GoodWalk
<1>12. Walking'
  BY <1>1, <1>3, <1>8, <1>9, <1>10 DEF Walking, GoodWalk
<1>13. Settled'
  BY <1>11 DEF Settled
<1> QED BY <1>2, <1>11, <1>12, <1>13 DEF NInv

\* Unused subscribers s for the first k events of a request.
Fresh(m, s, k, r) ==
    /\ s \in Seq(Node) /\ DOMAIN s = 1 .. k /\ Distinct(s)
    /\ \A i \in DOMAIN s : m.node[s[i]].state = "unused" /\ r[i] \in Pattern
    /\ \A n \in Members(s) : n \in Node /\ m.node[n].state = "unused"

\* The subscribers that clients_wait() gets.
LEMMA WaitMemory ==
    ASSUME NEW r \in WaitRequests, NEW k \in Nat, k <= Len(r), NEW m,
           NEW s \in [1 .. k -> {n \in Node : m.node[n].state = "unused"}],
           \A i, j \in DOMAIN s : i # j => s[i] # s[j]
    PROVE  Fresh(m, s, k, r)
<1>1. DOMAIN s = 1 .. k /\ \A i \in 1 .. k : s[i] \in Node /\ m.node[s[i]].state = "unused"
  OBVIOUS
<1>2. s \in Seq(Node)
  BY <1>1
<1>3. r \in Seq(Pattern)
  BY NotifyAssumption
<1>4. \A i \in 1 .. k : r[i] \in Pattern
  <2>1. Len(r) \in Nat /\ \A i \in 1 .. Len(r) : r[i] \in Pattern
    BY <1>3
  <2> QED BY <2>1
<1> QED BY <1>1, <1>2, <1>4 DEF Fresh, Distinct, Members

\* clients_wait() keeps it: the subscribers of the request are the client's.
LEMMA WaitInv ==
    ASSUME NInv, NEW c \in Client, Wait(c)
    PROVE  NInv'
<1>0. PICK r \in WaitRequests : \E s \in [DOMAIN r -> {n \in Node : node[n].state = "unused"}] :
        /\ \A i, j \in DOMAIN s : i # j => s[i] # s[j]
        /\ Store(SubscribeAll(Memory, s, c, r))
        /\ waits' = [waits EXCEPT ![c] = s]
  BY DEF Wait
<1>1. PICK s \in [DOMAIN r -> {n \in Node : node[n].state = "unused"}] :
        /\ \A i, j \in DOMAIN s : i # j => s[i] # s[j]
        /\ Store(SubscribeAll(Memory, s, c, r))
        /\ waits' = [waits EXCEPT ![c] = s]
  BY <1>0
<1> DEFINE u == SubscribeAll(Memory, s, c, r)
           m == Memory
<1>2. /\ Idle /\ c \in clients /\ waits[c] = NIL /\ blockc' = [blockc EXCEPT ![c] = @ + 1]
      /\ Emitting(WaitEvent, lists') /\ clients' = clients /\ crashed' = crashed
  BY DEF Wait
<1>3. /\ Owned(m, clients, waits) /\ Sound(m) /\ Settled
      /\ Blocked /\ waits \in [Client -> Seq(Node) \cup {NIL}] /\ clients \subseteq Client
  BY DEF NInv, Owned
<1>4. m.node = node
  BY DEF Memory
<1>5. /\ s \in Seq(Node) /\ Distinct(s)
      /\ \A i \in DOMAIN s : m.node[s[i]].state = "unused" /\ r[i] \in Pattern
      /\ \A n \in Members(s) : n \in Node /\ m.node[n].state = "unused"
  <2>1. r \in Seq(Pattern)
    BY NotifyAssumption
  <2>2. Len(r) \in Nat /\ DOMAIN r = 1 .. Len(r)
    BY <2>1
  <2>3. s \in [1 .. Len(r) -> {n \in Node : m.node[n].state = "unused"}] /\ Len(r) <= Len(r)
    BY <1>4, <2>2
  <2>4. \A i, j \in DOMAIN s : i # j => s[i] # s[j]
    BY <1>1
  <2> HIDE DEF m
  <2>5. Fresh(m, s, Len(r), r)
    BY <2>2, <2>3, <2>4, WaitMemory
  <2> QED BY <2>5 DEF Fresh
<1>6. Subscribed(m, u, s, c, r)
  BY <1>3, <1>5, SubscribeAllLeaves
<1> HIDE DEF u, m
<1>7. u \in Cells /\ Sound(u)
  BY <1>6 DEF Subscribed, Sound
<1>8. Memory' = u
  BY <1>1, <1>7, MemoryPrimed DEF u, m
<1>9. \A n \in Node \ Members(s) : u.node[n] = m.node[n]
  BY <1>6 DEF Subscribed
<1>10. \A i \in DOMAIN s : Linked(u, s[i]) /\ u.node[s[i]].client = c
  <2> SUFFICES ASSUME NEW i \in DOMAIN s PROVE Linked(u, s[i]) /\ u.node[s[i]].client = c
    OBVIOUS
  <2>1. u.node[s[i]] = NewSub(r[i], c)
    BY <1>6 DEF Subscribed
  <2>2. NewSub(r[i], c).state = "linked" /\ NewSub(r[i], c).client = c
    BY NewSubParts
  <2> QED BY <2>1, <2>2 DEF Linked
<1>11. waits'[c] = s /\ s # NIL /\ \A d \in Client : d # c => waits'[d] = waits[d]
  BY <1>1, <1>3, <1>5, NotifyAssumption
<1>12. waits' \in [Client -> Seq(Node) \cup {NIL}]
  BY <1>1, <1>3, <1>5
<1>13. Owned(u, clients, waits')
  <2>1. \A d \in Client \ clients : waits'[d] = NIL
    BY <1>2, <1>3, <1>11 DEF Owned
  <2>2. ASSUME NEW d \in Client, waits'[d] # NIL
        PROVE  /\ Distinct(waits'[d])
               /\ \A i \in DOMAIN waits'[d] :
                    Linked(u, waits'[d][i]) /\ u.node[waits'[d][i]].client = d
    <3>1. CASE d = c
      BY <1>5, <1>10, <1>11, <3>1
    <3>2. CASE d # c
      <4>1. waits'[d] = waits[d] /\ waits[d] \in Seq(Node) /\ Distinct(waits[d])
        BY <1>3, <1>11, <2>2, <3>2 DEF Owned
      <4>2. ASSUME NEW i \in DOMAIN waits[d]
            PROVE  Linked(u, waits[d][i]) /\ u.node[waits[d][i]].client = d
        <5>1. waits[d][i] \in Node
          BY <4>1
        <5>2. Linked(m, waits[d][i]) /\ m.node[waits[d][i]].client = d
          BY <1>3, <2>2, <4>1 DEF Owned
        <5>3. waits[d][i] \notin Members(s)
          BY <1>5, <5>2 DEF Linked
        <5>4. u.node[waits[d][i]] = m.node[waits[d][i]]
          BY <1>9, <5>1, <5>3
        <5> QED BY <5>2, <5>4 DEF Linked
      <4> QED BY <4>1, <4>2
    <3> QED BY <3>1, <3>2
  <2>3. ASSUME NEW n \in Node, Linked(u, n)
        PROVE  waits'[u.node[n].client] # NIL /\ Contains(waits'[u.node[n].client], n)
    <3>1. CASE n \in Members(s)
      <4>1. PICK i \in DOMAIN s : s[i] = n
        BY <3>1 DEF Members
      <4>2. Contains(s, n)
        BY <1>5, <4>1 DEF Contains
      <4> QED BY <1>10, <1>11, <4>1, <4>2
    <3>2. CASE n \notin Members(s)
      <4>1. u.node[n] = m.node[n] /\ Linked(m, n)
        BY <1>9, <2>3, <3>2 DEF Linked
      <4>2. m.node[n].client \in Client
        BY <1>3, <4>1, LinkedParts
      <4>3. waits[m.node[n].client] # NIL /\ Contains(waits[m.node[n].client], n)
        BY <1>3, <4>1 DEF Owned
      <4> QED BY <1>2, <1>11, <4>1, <4>2, <4>3
    <3> QED BY <3>1, <3>2
  <2> QED BY <1>3, <1>12, <2>1, <2>2, <2>3 DEF Owned
<1>14. Forgotten(u, waits')
  <2>1. ASSUME NEW n \in Node
        PROVE  ~ Stale(u, n)
    <3>1. CASE n \in Members(s)
      BY <1>10, <3>1 DEF Members, Linked, Stale
    <3>2. CASE n \notin Members(s)
      <4>1. ~ Stale(m, n)
        BY <1>2, <1>3 DEF Settled, Idle, m
      <4> QED BY <1>9, <3>2, <4>1 DEF Stale
    <3> QED BY <3>1, <3>2
  <2> QED BY <2>1 DEF Forgotten
<1>15. Blocked'
  BY <1>2, <1>3, <1>11 DEF Blocked, BlockedWhileWaiting
<1>16. WaitEvent \in Event \ Group
  BY NotifyAssumption
<1>17. Sound(Memory') /\ Owned(Memory', clients', waits') /\ Forgotten(Memory', waits')
  BY <1>2, <1>7, <1>8, <1>13, <1>14
<1> QED BY <1>2, <1>15, <1>16, <1>17, StartsInv

\* Its error path keeps it: all that was subscribed is cancelled.
LEMMA WaitFailsInv ==
    ASSUME NInv, NEW c \in Client, WaitFails(c)
    PROVE  NInv'
<1>a. PICK r \in WaitRequests : \E j0 \in DOMAIN r :
        \E s \in [1 .. j0 - 1 -> {n \in Node : node[n].state = "unused"}] :
            /\ \A i, j \in DOMAIN s : i # j => s[i] # s[j]
            /\ Store(UnsubscribeAll(SubscribeAll(Memory, s, c, r), s))
  BY DEF WaitFails
<1>0. PICK j0 \in DOMAIN r :
        \E s \in [1 .. j0 - 1 -> {n \in Node : node[n].state = "unused"}] :
            /\ \A i, j \in DOMAIN s : i # j => s[i] # s[j]
            /\ Store(UnsubscribeAll(SubscribeAll(Memory, s, c, r), s))
  BY <1>a
<1>1. PICK s \in [1 .. j0 - 1 -> {n \in Node : node[n].state = "unused"}] :
        /\ \A i, j \in DOMAIN s : i # j => s[i] # s[j]
        /\ Store(UnsubscribeAll(SubscribeAll(Memory, s, c, r), s))
  BY <1>0
<1> DEFINE v == SubscribeAll(Memory, s, c, r)
           u == UnsubscribeAll(v, s)
           m == Memory
<1>2. /\ Idle /\ c \in clients /\ waits[c] = NIL /\ blockc' = [blockc EXCEPT ![c] = (@ + 1) - 1]
      /\ Emitting(WaitEvent, lists') /\ clients' = clients /\ waits' = waits /\ crashed' = crashed
  BY DEF WaitFails
<1>3. /\ Owned(m, clients, waits) /\ Sound(m) /\ Settled
      /\ Blocked /\ waits \in [Client -> Seq(Node) \cup {NIL}] /\ clients \subseteq Client
  BY DEF NInv, Owned
<1>4. m.node = node
  BY DEF Memory
<1>5. /\ s \in Seq(Node) /\ Distinct(s)
      /\ \A i \in DOMAIN s : m.node[s[i]].state = "unused" /\ r[i] \in Pattern
      /\ \A n \in Members(s) : n \in Node /\ m.node[n].state = "unused"
  <2>1. r \in Seq(Pattern)
    BY NotifyAssumption
  <2>2. Len(r) \in Nat /\ DOMAIN r = 1 .. Len(r)
    BY <2>1
  <2> DEFINE k == j0 - 1
  <2>3. k \in Nat /\ k <= Len(r)
    BY <2>2
  <2>4. s \in [1 .. k -> {n \in Node : m.node[n].state = "unused"}]
    BY <1>4
  <2>5. \A i, j \in DOMAIN s : i # j => s[i] # s[j]
    BY <1>1
  <2> HIDE DEF m, k
  <2>6. Fresh(m, s, k, r)
    BY <2>3, <2>4, <2>5, WaitMemory
  <2> QED BY <2>6 DEF Fresh
<1>6. Subscribed(m, v, s, c, r)
  BY <1>3, <1>5, SubscribeAllLeaves
<1> HIDE DEF v, m
<1>7. Sound(v) /\ \A n \in Node \ Members(s) : v.node[n] = m.node[n]
  BY <1>6 DEF Subscribed
<1>8. \A i \in DOMAIN s : Linked(v, s[i]) /\ v.node[s[i]].client = c
  <2> SUFFICES ASSUME NEW i \in DOMAIN s PROVE Linked(v, s[i]) /\ v.node[s[i]].client = c
    OBVIOUS
  <2>1. v.node[s[i]] = NewSub(r[i], c)
    BY <1>6 DEF Subscribed
  <2>2. NewSub(r[i], c).state = "linked" /\ NewSub(r[i], c).client = c
    BY NewSubParts
  <2> QED BY <2>1, <2>2 DEF Linked
<1>9. Unlinked(v, u, Members(s))
  BY <1>5, <1>7, <1>8, UnsubscribeAllLeaves
<1> HIDE DEF u
<1>10. u \in Cells /\ Sound(u)
  BY <1>9 DEF Unlinked, Sound
<1>11. Memory' = u
  BY <1>1, <1>10, MemoryPrimed DEF u, v
<1>12. \A n \in Node \ Members(s) : u.node[n] = m.node[n]
  BY <1>7, <1>9 DEF Unlinked
<1>13. \A n \in Members(s) :
         /\ Stale(u, n) /\ u.node[n].client = c
         /\ u.node[n].next # NIL =>
             /\ u.node[n].next \in Node
             /\ Linked(v, u.node[n].next)
             /\ v.node[u.node[n].next].pattern.hash = v.node[n].pattern.hash
  BY <1>8, <1>9 DEF Unlinked, Members
<1>14. \A n \in Node : u.node[n].pattern = v.node[n].pattern
  BY <1>9 DEF Unlinked
<1>15. Owned(u, clients, waits)
  <2>1. ASSUME NEW d \in Client, waits[d] # NIL, NEW i \in DOMAIN waits[d]
        PROVE  Linked(u, waits[d][i]) /\ u.node[waits[d][i]].client = d
    <3>1. waits[d] \in Seq(Node)
      BY <1>3, <2>1
    <3>2. waits[d][i] \in Node
      BY <2>1, <3>1
    <3>3. Linked(m, waits[d][i]) /\ m.node[waits[d][i]].client = d
      BY <1>3, <2>1 DEF Owned
    <3>4. waits[d][i] \notin Members(s)
      BY <1>5, <3>3 DEF Linked
    <3>5. u.node[waits[d][i]] = m.node[waits[d][i]]
      BY <1>12, <3>2, <3>4
    <3> QED BY <3>3, <3>5 DEF Linked
  <2>2. ASSUME NEW n \in Node, Linked(u, n)
        PROVE  waits[u.node[n].client] # NIL /\ Contains(waits[u.node[n].client], n)
    <3>1. n \notin Members(s)
      BY <1>13, <2>2 DEF Stale, Linked
    <3>2. u.node[n] = m.node[n] /\ Linked(m, n)
      BY <1>12, <2>2, <3>1 DEF Linked
    <3> QED BY <1>3, <3>2 DEF Owned
  <2> QED BY <1>3, <2>1, <2>2 DEF Owned
<1>16. Forgotten(u, waits)
  <2> SUFFICES ASSUME NEW n \in Node, Stale(u, n)
               PROVE  /\ waits[u.node[n].client] = NIL
                      /\ u.node[n].next # NIL =>
                          /\ u.node[u.node[n].next].state # "unused"
                          /\ u.node[u.node[n].next].pattern.hash = u.node[n].pattern.hash
    BY DEF Forgotten
  <2>1. n \in Members(s)
    <3> SUFFICES ASSUME n \notin Members(s) PROVE FALSE
      OBVIOUS
    <3>1. Stale(m, n)
      BY <1>12 DEF Stale
    <3> QED BY <1>2, <1>3, <3>1 DEF Settled, Idle, m
  <2>2. ASSUME NEW x \in Node, Linked(v, x)
        PROVE  u.node[x].state # "unused"
    <3>1. CASE x \in Members(s)
      BY <1>13, <3>1 DEF Stale
    <3>2. CASE x \notin Members(s)
      BY <1>7, <1>12, <2>2, <3>2 DEF Linked
    <3> QED BY <3>1, <3>2
  <2> QED BY <1>2, <1>13, <1>14, <2>1, <2>2
<1>17. Blocked'
  BY <1>2, <1>3 DEF Blocked, BlockedWhileWaiting
<1>18. WaitEvent \in Event \ Group
  BY NotifyAssumption
<1>19. Sound(Memory') /\ Owned(Memory', clients', waits') /\ Forgotten(Memory', waits')
  BY <1>2, <1>10, <1>11, <1>15, <1>16
<1> QED BY <1>2, <1>17, <1>18, <1>19, StartsInv

\* Every step keeps the invariant.
LEMMA NStepInv ==
    NInv /\ [NNext]_vars => NInv'
<1> SUFFICES ASSUME NInv, [NNext]_vars PROVE NInv'
  OBVIOUS
<1>1. CASE UNCHANGED vars
  <2>1. /\ Memory' = Memory /\ clients' = clients /\ waits' = waits /\ blockc' = blockc
        /\ walk' = walk /\ crashed' = crashed
    BY <1>1 DEF vars, Memory
  <2>2. Settled' /\ Blocked' /\ Walking'
    BY <2>1 DEF NInv, Settled, Blocked, BlockedWhileWaiting, Walking
  <2> QED BY <2>1, <2>2 DEF NInv
<1>2. CASE \E c \in Client : Connect(c) \/ Delete(c) \/ Wait(c) \/ WaitFails(c)
  BY <1>2, ConnectInv, DeleteInv, WaitInv, WaitFailsInv
<1>3. CASE \E e \in Event \ Group : Emit(e)
  BY <1>3, EmitInv
<1>4. CASE Skip \/ clients_ncb_wait \/ Crash \/ ProxyEmitted \/ Emitted
  BY <1>4, SkipInv, CallbackInv, CrashInv, ProxyEmittedInv, EmittedInv
<1>5. CASE Dead
  BY <1>1, <1>5 DEF Dead
<1> QED BY <1>1, <1>2, <1>3, <1>4, <1>5 DEF NNext

-----------------------------------------------------------------------------
(* What the invariant says                                                  *)

\* The memory of the core and the cs->waits of the clients agree, whoever
\* WAITs, goes or is answered, also in the middle of roar_notify_core_emit().
THEOREM NotifyInvariance == Spec => []NInv
<1>1. Init => NInv
  BY NInitInv
<1>2. NInv /\ [NNext]_vars => NInv'
  BY NStepInv
<1> QED BY <1>1, <1>2, PTL DEF Spec

\* The variables keep their types.
THEOREM NotifyTypesCorrect == Spec => []NTypeOK
<1>1. NInv => NTypeOK
  <2> SUFFICES ASSUME NInv PROVE NTypeOK
    OBVIOUS
  <2>1. lists \in [Bucket -> Seq(Node)] /\ node \in [Node -> Subscriber]
    BY DEF NInv, Sound, Cells, Memory
  <2>2. clients \subseteq Client /\ waits \in [Client -> Seq(Node) \cup {NIL}]
    BY DEF NInv, Owned
  <2>3. blockc \in [Client -> Nat] /\ crashed \in BOOLEAN /\ (walk = NIL \/ walk \in Walk)
    BY DEF NInv, Blocked, Walking
  <2> QED BY <2>1, <2>2, <2>3 DEF NTypeOK
<1> QED BY <1>1, NotifyInvariance, PTL

\* No subscriber outlives its client or the WAIT it was made for, and none of a
\* client that waits is missing: cancelled by the callback, by
\* clients_delete() and by the error path of clients_wait().
THEOREM SubscribersCorrect == Spec => []SubscribersWait
<1>1. NInv => SubscribersWait
  <2> SUFFICES ASSUME NInv PROVE SubscribersWait
    OBVIOUS
  <2>1. Sound(Memory) /\ Owned(Memory, clients, waits) /\ Memory.lists = lists /\ Memory.node = node
    BY DEF NInv, Memory
  <2>2. ASSUME NEW b \in Bucket, NEW i \in DOMAIN lists[b]
        PROVE  LET c == node[lists[b][i]].client IN
               c \in clients /\ waits[c] # NIL /\ Contains(waits[c], lists[b][i])
    <3> DEFINE n == lists[b][i]
               c == node[n].client
    <3>1. n \in Node /\ Linked(Memory, n)
      BY <2>1, ListedParts
    <3>2. c \in Client
      BY <2>1, <3>1, LinkedParts
    <3>3. waits[c] # NIL /\ Contains(waits[c], n)
      BY <2>1, <3>1 DEF Owned
    <3>4. c \in clients
      BY <2>1, <3>2, <3>3 DEF Owned
    <3> QED BY <3>3, <3>4
  <2>3. ASSUME NEW c \in clients, waits[c] # NIL, NEW i \in DOMAIN waits[c]
        PROVE  /\ node[waits[c][i]].state = "linked"
               /\ Contains(lists[node[waits[c][i]].pattern.hash], waits[c][i])
    <3>1. c \in Client /\ waits[c] \in Seq(Node)
      BY <2>1, <2>3 DEF Owned
    <3>2. waits[c][i] \in Node
      BY <2>3, <3>1
    <3>3. Linked(Memory, waits[c][i])
      BY <2>1, <2>3, <3>1 DEF Owned
    <3> QED BY <2>1, <3>2, <3>3, LinkedParts DEF Linked
  <2> QED BY <2>2, <2>3 DEF SubscribersWait
<1> QED BY <1>1, NotifyInvariance, PTL

\* A client is blocked exactly as long as it waits: the block of clients_wait()
\* is undone once, by the callback or by its error path.
THEOREM BlockedCorrect == Spec => []BlockedWhileWaiting
<1>1. NInv => BlockedWhileWaiting
  BY DEF NInv, Blocked
<1> QED BY <1>1, NotifyInvariance, PTL

\* Actions that begin to emit an event do not crash and find no walk.
LEMMA StartEffects ==
    ASSUME NInv, NEW c \in Client,
           Connect(c) \/ Delete(c) \/ Wait(c) \/ WaitFails(c) \/ \E e \in Event \ Group : Emit(e)
    PROVE  /\ walk = NIL /\ crashed' = crashed
           /\ \A d \in clients \cap clients' : waits[d] # NIL => waits'[d] # NIL
<1>1. walk = NIL /\ crashed' = crashed
  BY DEF Connect, Delete, Wait, WaitFails, Emit, Idle
<1>2. waits \in [Client -> Seq(Node) \cup {NIL}] /\ clients \subseteq Client
  BY DEF NInv, Owned
<1> SUFFICES ASSUME NEW d \in clients \cap clients', waits[d] # NIL
             PROVE  waits'[d] # NIL
  BY <1>1
<1>3. CASE Connect(c)
  BY <1>2, <1>3 DEF Connect
<1>4. CASE Delete(c)
  BY <1>2, <1>4 DEF Delete
<1>5. CASE Wait(c)
  <2>1. waits[c] = NIL /\ \E s : waits' = [waits EXCEPT ![c] = s]
    BY <1>5 DEF Wait
  <2> QED BY <1>2, <2>1
<1>6. CASE WaitFails(c) \/ \E e \in Event \ Group : Emit(e)
  <2>1. waits' = waits
    BY <1>6 DEF WaitFails, Emit
  <2> QED BY <2>1
<1> QED BY <1>3, <1>4, <1>5, <1>6

\* Steps of a walk.
LEMMA NextEffects ==
    ASSUME NInv, [NNext]_vars
    PROVE  \/ /\ walk = NIL /\ crashed' = crashed
              /\ \A d \in clients \cap clients' : waits[d] # NIL => waits'[d] # NIL
           \/ /\ walk' = walk /\ crashed' = crashed /\ waits' = waits
           \/ Skip \/ clients_ncb_wait \/ Crash \/ ProxyEmitted \/ Emitted
<1>1. CASE \E c \in Client : Connect(c) \/ Delete(c) \/ Wait(c) \/ WaitFails(c)
  BY <1>1, StartEffects
<1>2. CASE \E e \in Event \ Group : Emit(e)
  BY <1>2 DEF Emit, Idle
<1>3. CASE Dead \/ UNCHANGED vars
  BY <1>3 DEF Dead, vars
<1> QED BY <1>1, <1>2, <1>3 DEF NNext

\* A subscriber of the list that is called has a client that waits, or was
\* cancelled earlier in this walk.
LEMMA CursorParts ==
    ASSUME NInv, walk # NIL, walk.cur # NIL
    PROVE  /\ walk.cur \in Node
           /\ Linked(Memory, walk.cur) \/ Stale(Memory, walk.cur)
           /\ Linked(Memory, walk.cur) =>
               /\ node[walk.cur].client \in clients
               /\ waits[node[walk.cur].client] \in Seq(Node)
               /\ Contains(waits[node[walk.cur].client], walk.cur)
           /\ Stale(Memory, walk.cur) =>
               waits[node[walk.cur].client] = NIL /\ Overlap(Memory, walk.cur)
<1> DEFINE k == walk.cur
<1>1. GoodWalk(Memory, walk) /\ Sound(Memory) /\ Owned(Memory, clients, waits)
      /\ Forgotten(Memory, waits) /\ Memory.node = node
  BY WalkingParts DEF NInv, Memory
<1>2. k \in Node /\ Memory.node[k].state # "unused"
  BY <1>1 DEF GoodWalk, OnList, Walk
<1>3. Linked(Memory, k) \/ Stale(Memory, k)
  <2>1. Memory.node[k] \in Subscriber
    BY <1>1, <1>2 DEF Sound, Cells
  <2> QED BY <1>2, <2>1 DEF Linked, Stale, Subscriber
<1>4. ASSUME Linked(Memory, k)
      PROVE  /\ node[k].client \in clients /\ waits[node[k].client] \in Seq(Node)
             /\ Contains(waits[node[k].client], k)
  <2>1. node[k].client \in Client
    BY <1>1, <1>2, <1>4, LinkedParts
  <2>2. waits[node[k].client] # NIL /\ Contains(waits[node[k].client], k)
    BY <1>1, <1>2, <1>4 DEF Owned
  <2> QED BY <1>1, <2>1, <2>2 DEF Owned
<1>5. ASSUME Stale(Memory, k)
      PROVE  waits[node[k].client] = NIL /\ Overlap(Memory, k)
  BY <1>1, <1>2, <1>5 DEF Forgotten, GoodWalk, Ordered, Astray
<1> QED BY <1>2, <1>3, <1>4, <1>5

\* The callback follows a stale pointer only after a WAIT for two events of the
\* same list.
THEOREM CrashCorrect == Spec => CrashNeedsOverlap
<1>1. NInv /\ [NNext]_vars =>
        [~ crashed /\ crashed' =>
            \E n \in Node \ {walk.cur} :
                /\ node[n].pattern # NIL
                /\ node[n].client = node[walk.cur].client
                /\ node[n].pattern.hash = node[walk.cur].pattern.hash]_vars
  <2> SUFFICES ASSUME NInv, [NNext]_vars, ~ crashed, crashed'
               PROVE  \E n \in Node \ {walk.cur} :
                        /\ node[n].pattern # NIL
                        /\ node[n].client = node[walk.cur].client
                        /\ node[n].pattern.hash = node[walk.cur].pattern.hash
    OBVIOUS
  <2>1. Crash
    BY NextEffects DEF Skip, clients_ncb_wait, ProxyEmitted, Emitted
  <2>2. /\ walk # NIL /\ walk.cur # NIL
        /\ node[walk.cur].client \notin clients \/ waits[node[walk.cur].client] = NIL
    BY <2>1 DEF Crash
  <2>3. Stale(Memory, walk.cur)
    <3>1. NIL \notin Seq(Node)
      BY NotifyAssumption
    <3> QED BY <2>2, <3>1, CursorParts
  <2>4. Overlap(Memory, walk.cur) /\ Memory.node = node
    BY <2>2, <2>3, CursorParts DEF Memory
  <2> QED BY <2>4 DEF Overlap
<1> QED BY <1>1, NotifyInvariance, PTL DEF Spec, CrashNeedsOverlap

\* A subscriber of a client that waits is linked.
LEMMA WaitsLinked ==
    ASSUME NInv, NEW c \in clients, waits[c] # NIL, NEW i \in DOMAIN waits[c]
    PROVE  waits[c][i] \in Node /\ Linked(Memory, waits[c][i])
<1>1. c \in Client /\ waits[c] \in Seq(Node) /\ Owned(Memory, clients, waits)
  BY DEF NInv, Owned
<1>2. waits[c][i] \in Node
  BY <1>1
<1> QED BY <1>1, <1>2 DEF Owned

\* Where a walk is, and what has been emitted before it.
LEMMA PlaceParts ==
    ASSUME NInv, walk # NIL
    PROVE  /\ walk.of \in Event \ Group /\ walk.at \in DOMAIN Emits(walk.of)
           /\ walk.event = Emits(walk.of)[walk.at]
           /\ Heard(Memory, walk) /\ Memory.node = node
BY DEF NInv, Walking, Walk, InPlace, Memory

\* When an event has been emitted, nobody who waits for it or for one of its
\* groups has been passed over.
THEOREM OversleepCorrect == Spec => NobodyOversleeps
<1> DEFINE Passed == \A e \in {walk.of} \cup Range(proxy[walk.of]) :
              \A c \in clients : waits[c] # NIL =>
                \A i \in DOMAIN waits[c] :
                  LET p == node[waits[c][i]].pattern IN
                  p.hash = hash[e] => e \notin p.events
<1>1. NInv /\ [NNext]_vars => [(walk # NIL /\ walk' = NIL /\ ~ crashed') => Passed]_vars
  <2> SUFFICES ASSUME NInv, [NNext]_vars, walk # NIL, walk' = NIL, ~ crashed'
               PROVE  Passed
    OBVIOUS
  <2>1. Emitted
    <3>1. ~ Skip /\ ~ clients_ncb_wait /\ ~ ProxyEmitted
      BY SkipInv, CallbackInv, ProxyEmittedInv
    <3> QED BY <3>1, NextEffects DEF Crash
  <2>2. walk.cur = NIL /\ walk.at = Len(Emits(walk.of))
    BY <2>1 DEF Emitted
  <2>3. /\ walk.of \in Event \ Group /\ walk.event = Emits(walk.of)[walk.at]
        /\ Heard(Memory, walk) /\ Memory.node = node
    BY PlaceParts
  <2>4. ASSUME NEW e \in {walk.of} \cup Range(proxy[walk.of]),
               NEW x \in Node, Linked(Memory, x), node[x].pattern.hash = hash[e]
        PROVE  e \notin node[x].pattern.events
    <3>1. CASE e = walk.of
      <4>1. walk.event = e
        BY <2>2, <2>3, <3>1, EmitsParts
      <4> QED BY <2>2, <2>3, <2>4, <4>1, WalkHeard
    <3>2. CASE e \in Range(proxy[walk.of])
      <4>1. PICK k \in DOMAIN proxy[walk.of] : e = proxy[walk.of][k]
        BY <3>2 DEF Range
      <4>2. Emits(walk.of)[k] = e /\ k \in 1 .. walk.at - 1
        BY <2>2, <2>3, <4>1, EmitsParts, SMTT(60)
      <4> QED BY <2>3, <2>4, <4>2 DEF Heard
    <3> QED BY <3>1, <3>2
  <2> QED BY <2>4, WaitsLinked
<1> QED BY <1>1, NotifyInvariance, PTL DEF Spec, NobodyOversleeps

\* A WAIT is answered by an event it asked for, the one that happened or one of
\* its groups and by the groups first, never by what free() left of a cancelled
\* subscriber.
THEOREM AnswersCorrect == Spec => AnswersMatch
<1> DEFINE Match == \A c \in clients \cap clients' : (waits[c] # NIL /\ waits'[c] = NIL) =>
              /\ walk # NIL
              /\ walk.event \in {walk.of} \cup Range(proxy[walk.of])
              /\ \E i \in DOMAIN waits[c] : walk.event \in node[waits[c][i]].pattern.events
              /\ walk.event = walk.of =>
                  \A g \in Range(proxy[walk.of]) : \A i \in DOMAIN waits[c] :
                      LET p == node[waits[c][i]].pattern IN
                      p.hash = hash[g] => g \notin p.events
<1>1. NInv /\ [NNext]_vars => [Match]_vars
  <2> SUFFICES ASSUME NInv, [NNext]_vars, NEW c \in clients \cap clients',
                      waits[c] # NIL, waits'[c] = NIL
               PROVE  /\ walk # NIL
                      /\ walk.event \in {walk.of} \cup Range(proxy[walk.of])
                      /\ \E i \in DOMAIN waits[c] :
                           walk.event \in node[waits[c][i]].pattern.events
                      /\ walk.event = walk.of =>
                          \A g \in Range(proxy[walk.of]) : \A i \in DOMAIN waits[c] :
                              LET p == node[waits[c][i]].pattern IN
                              p.hash = hash[g] => g \notin p.events
    OBVIOUS
  <2>1. clients_ncb_wait
    BY NextEffects DEF Skip, Crash, ProxyEmitted, Emitted
  <2> DEFINE k == walk.cur
             d == node[k].client
  <2>2. /\ walk # NIL /\ k # NIL /\ TRUE \in Outcomes(k) /\ d \in clients /\ waits[d] # NIL
        /\ waits' = [waits EXCEPT ![d] = NIL]
    BY <2>1 DEF clients_ncb_wait
  <2>3. waits \in [Client -> Seq(Node) \cup {NIL}] /\ clients \subseteq Client
    BY DEF NInv, Owned
  <2>4. c = d
    BY <2>2, <2>3
  <2>5. Linked(Memory, k) /\ waits[d] \in Seq(Node) /\ Contains(waits[d], k)
    BY <2>2, CursorParts
  <2>6. walk.event \in node[k].pattern.events
    BY <2>2, <2>5 DEF Outcomes, Linked, Memory
  <2>7. PICK i \in DOMAIN waits[d] : waits[d][i] = k
    BY <2>5 DEF Contains
  <2>8. /\ walk.of \in Event \ Group /\ walk.at \in DOMAIN Emits(walk.of)
        /\ walk.event = Emits(walk.of)[walk.at] /\ Heard(Memory, walk) /\ Memory.node = node
    BY <2>2, PlaceParts
  <2>9. walk.event \in {walk.of} \cup Range(proxy[walk.of])
    <3>1. CASE walk.at \in DOMAIN proxy[walk.of]
      BY <2>8, <3>1, EmitsParts DEF Range
    <3>2. CASE walk.at \notin DOMAIN proxy[walk.of]
      <4>1. walk.at = Len(Emits(walk.of))
        BY <2>8, <3>2, EmitsParts, SMTT(60)
      <4> QED BY <2>8, <4>1, EmitsParts
    <3> QED BY <3>1, <3>2
  <2>10. ASSUME walk.event = walk.of, NEW g \in Range(proxy[walk.of]), NEW j \in DOMAIN waits[c],
                node[waits[c][j]].pattern.hash = hash[g]
         PROVE  g \notin node[waits[c][j]].pattern.events
    <3>1. PICK h \in DOMAIN proxy[walk.of] : g = proxy[walk.of][h]
      BY DEF Range
    <3>2. walk.at = Len(Emits(walk.of))
      BY <2>8, <2>10, EmitsParts, ZenonT(60)
    <3>3. Emits(walk.of)[h] = g /\ h \in 1 .. walk.at - 1
      BY <2>8, <3>1, <3>2, EmitsParts
    <3>4. waits[c][j] \in Node /\ Linked(Memory, waits[c][j])
      BY <2>10, WaitsLinked
    <3> QED BY <2>8, <2>10, <3>3, <3>4 DEF Heard
  <2> QED BY <2>2, <2>4, <2>6, <2>7, <2>9, <2>10
<1> QED BY <1>1, NotifyInvariance, PTL DEF Spec, AnswersMatch
=============================================================================
