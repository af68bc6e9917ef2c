--------------------------- MODULE DataPath_proofs ---------------------------
(***************************************************************************)
(* Proofs about module DataPath, for every set of servers, every number of *)
(* streams and every period.                                               *)
(***************************************************************************)
EXTENDS DataPath, Tables_proofs, SequenceTheorems

-----------------------------------------------------------------------------
(* Induction along a chain of buffers.                                      *)

\* A set that holds 0 and the successor of what it holds holds all up to n.
LEMMA UpTo ==
    ASSUME NEW n \in Nat, NEW T, 0 \in T, \A k \in 0 .. n - 1 : k \in T => k + 1 \in T
    PROVE  0 .. n \subseteq T
<1> DEFINE R == OpToRel(<, Nat)
           U == (0 .. n) \ T
<1>1. IsWellFoundedOn(R, Nat)
  BY NatLessThanWellFounded
<1> SUFFICES ASSUME U # {} PROVE FALSE
  OBVIOUS
<1>2. U \subseteq Nat
  OBVIOUS
<1> HIDE DEF U, R
<1>3. PICK m \in U : \A y \in U : ~ (<<y, m>> \in R)
  BY <1>1, <1>2, WFMin
<1>4. m \in 0 .. n /\ m # 0 /\ m \notin T
  BY <1>3 DEF U
<1>5. m - 1 \in 0 .. n - 1 /\ m - 1 \in 0 .. n /\ m - 1 < m /\ (m - 1) + 1 = m
  BY <1>4
<1>6. <<m - 1, m>> \in R
  BY <1>4, <1>5 DEF R, OpToRel
<1>7. m - 1 \in T
  BY <1>3, <1>5, <1>6 DEF U
<1> QED BY <1>4, <1>5, <1>7

\* f are the states, all in S, of a loop that starts with base, round by round.
Rounds(f, n, S, base, step) ==
    /\ f \in [0 .. n -> S]
    /\ f[0] = base
    /\ \A k \in 1 .. n : f[k] = step[k][f[k - 1]]

Steps(n, S) == [1 .. n -> [S -> S]]

\* A loop of n rounds can be run.
LEMMA RunExists ==
    ASSUME NEW n \in Nat, NEW S, NEW base \in S, NEW step \in Steps(n, S)
    PROVE  \E f : Rounds(f, n, S, base, step)
<1> USE DEF Steps
<1> DEFINE Run(f, m) == /\ f \in [0 .. m -> S] /\ f[0] = base
                        /\ \A k \in 1 .. m : f[k] = step[k][f[k - 1]]
           T == {m \in 0 .. n : \E f : Run(f, m)}
<1>1. 0 \in T
  <2> DEFINE f0 == [j \in 0 .. 0 |-> base]
  <2>1. Run(f0, 0)
    OBVIOUS
  <2> HIDE DEF f0
  <2>2. 0 \in 0 .. n /\ \E f : Run(f, 0)
    BY <2>1
  <2> QED BY <2>2
<1>2. ASSUME NEW m \in 0 .. n - 1, m \in T
      PROVE  m + 1 \in T
  <2>1. PICK f : Run(f, m)
    BY <1>2
  <2> DEFINE g == [j \in 0 .. m + 1 |-> IF j = m + 1 THEN step[m + 1][f[m]] ELSE f[j]]
  <2>2. m + 1 \in 1 .. n /\ m \in 0 .. m /\ m + 1 \in 0 .. n /\ m \in Nat
    OBVIOUS
  <2>3. f[m] \in S /\ step[m + 1][f[m]] \in S
    BY <2>1, <2>2
  <2>4. \A j \in 0 .. m : g[j] = f[j] /\ g[j] \in S
    BY <2>1, <2>2
  <2>5. g[m + 1] = step[m + 1][f[m]]
    BY <2>2
  <2>6. g \in [0 .. m + 1 -> S]
    BY <2>1, <2>2, <2>3
  <2>7. ASSUME NEW k \in 1 .. m + 1
        PROVE  g[k] = step[k][g[k - 1]]
    <3>1. CASE k = m + 1
      BY <2>2, <2>4, <2>5, <3>1
    <3>2. CASE k # m + 1
      <4>1. k \in 1 .. m /\ k \in 0 .. m /\ k - 1 \in 0 .. m
        BY <2>2, <3>2
      <4> HIDE DEF g
      <4> QED BY <2>1, <2>4, <4>1
    <3> QED BY <3>1, <3>2
  <2>8. g[0] = base
    BY <2>1, <2>2, <2>4
  <2> HIDE DEF g
  <2>9. Run(g, m + 1)
    BY <2>6, <2>7, <2>8
  <2> QED BY <2>2, <2>9
<1> HIDE DEF T
<1>3. 0 .. n \subseteq T
  BY <1>1, <1>2, UpTo
<1>4. n \in T
  BY <1>3
<1> QED BY <1>4 DEF T, Rounds

-----------------------------------------------------------------------------
(* Chains of buffers.                                                       *)

\* A buffer that is not empty and whose user data are in V.
Chunk(V) ==
    {b \in [data : Seq(Datum), offset : Nat, user_len : Nat \ {0}] :
        b.offset + b.user_len <= Len(b.data) /\ UserData(b) \in Seq(V)}

\* A part of a sequence.
LEMMA Slice ==
    ASSUME NEW W, NEW d \in Seq(W), NEW off \in Nat, NEW len \in Nat, off + len <= Len(d)
    PROVE  /\ SubSeq(d, off + 1, off + len) \in Seq(W)
           /\ Len(SubSeq(d, off + 1, off + len)) = len
           /\ \A i \in 1 .. len : SubSeq(d, off + 1, off + len)[i] = d[off + i]
OBVIOUS

\* What user_data points to is user_len units of the memory.
LEMMA UserDataLeaves ==
    ASSUME NEW W, NEW b \in [data : Seq(W), offset : Nat, user_len : Nat],
           b.offset + b.user_len <= Len(b.data)
    PROVE  /\ UserData(b) \in Seq(W)
           /\ Len(UserData(b)) = b.user_len
           /\ \A i \in 1 .. b.user_len : UserData(b)[i] = b.data[b.offset + i]
<1> DEFINE d == b.data
           off == b.offset
           len == b.user_len
<1>1. d \in Seq(W) /\ off \in Nat /\ len \in Nat /\ off + len <= Len(d)
  OBVIOUS
<1>2. UserData(b) = SubSeq(d, off + 1, off + len)
  BY DEF UserData
<1> HIDE DEF d, off, len
<1>3. /\ UserData(b) \in Seq(W)
      /\ Len(UserData(b)) = len
      /\ \A i \in 1 .. len : UserData(b)[i] = d[off + i]
  BY <1>1, <1>2, Slice
<1> QED BY <1>3 DEF d, off, len

\* The rounds by which Content reads a chain.
LEMMA ContentRun ==
    ASSUME NEW V, NEW chain \in Seq(Chunk(V))
    PROVE  \E f \in [0 .. Len(chain) -> Seq(V)] :
             /\ f[0] = <<>>
             /\ \A k \in 1 .. Len(chain) : f[k] = f[k - 1] \o UserData(chain[k])
             /\ Content(chain) = f[Len(chain)]
<1> DEFINE n == Len(chain)
           step == [k \in 1 .. n |-> [x \in Seq(V) |-> x \o UserData(chain[k])]]
           F(g) == [k \in 0 .. n |-> IF k = 0 THEN <<>> ELSE g[k - 1] \o UserData(chain[k])]
           h == CHOOSE g : g = F(g)
<1>1. n \in Nat
  BY LenProperties
<1>2. \A k \in 1 .. n : UserData(chain[k]) \in Seq(V)
  BY ElementOfSeq DEF Chunk
<1>3. step \in Steps(n, Seq(V)) /\ <<>> \in Seq(V)
  BY <1>2, ConcatProperties, EmptySeq DEF Steps
<1>4. \A k \in 1 .. n, x \in Seq(V) : step[k][x] = x \o UserData(chain[k])
  OBVIOUS
<1>5. Content(chain) = h[n]
  BY DEF Content
<1> HIDE DEF step, h
<1>6. PICK f : Rounds(f, n, Seq(V), <<>>, step)
  BY <1>1, <1>3, RunExists, Zenon
<1>7. \A k \in 1 .. n : f[k] = f[k - 1] \o UserData(chain[k])
  <2>1. \A k \in 1 .. n : f[k - 1] \in Seq(V)
    BY <1>1, <1>6 DEF Rounds
  <2> QED BY <1>4, <1>6, <2>1 DEF Rounds
<1>8. f = F(f)
  <2>1. ASSUME NEW k \in 0 .. n
        PROVE  f[k] = F(f)[k]
    <3>1. CASE k = 0
      BY <1>6, <3>1 DEF Rounds
    <3>2. CASE k # 0
      <4>1. k \in 1 .. n
        BY <1>1, <3>2
      <4> QED BY <1>7, <3>2, <4>1, Zenon
    <3> QED BY <3>1, <3>2
  <2> QED BY <1>6, <2>1 DEF Rounds
<1>9. h = F(h)
  <2>1. \E g : g = F(g)
    BY <1>8, Zenon
  <2> QED BY <2>1, Zenon DEF h
<1>10. h[0] = <<>> /\ \A k \in 1 .. n : h[k] = h[k - 1] \o UserData(chain[k])
  <2>1. 0 \in 0 .. n /\ \A k \in 1 .. n : k \in 0 .. n /\ k # 0
    BY <1>1
  <2> QED BY <1>9, <2>1
<1>11. h \in [0 .. n -> Seq(V)]
  <2> DEFINE T == {k \in 0 .. n : h[k] \in Seq(V)}
  <2>1. 0 \in T
    <3>1. h[0] \in Seq(V)
      BY <1>3, <1>10, Zenon
    <3> QED BY <1>1, <3>1
  <2>2. ASSUME NEW k \in 0 .. n - 1, k \in T
        PROVE  k + 1 \in T
    <3>1. k + 1 \in 1 .. n /\ k + 1 \in 0 .. n /\ (k + 1) - 1 = k
      BY <1>1
    <3>2. h[k + 1] = h[k] \o UserData(chain[k + 1])
      BY <1>10, <3>1
    <3> QED BY <1>2, <2>2, <3>1, <3>2, ConcatProperties, ZenonT(60)
  <2> HIDE DEF T
  <2>3. 0 .. n \subseteq T
    BY <1>1, <2>1, <2>2, UpTo
  <2>4. \A k \in 0 .. n : h[k] \in Seq(V)
    BY <2>3 DEF T
  <2> QED BY <1>9, <2>4
<1> QED BY <1>5, <1>10, <1>11

\* A buffer has as many user data as user_len says.
LEMMA ChunkLen ==
    ASSUME NEW V, NEW b \in Chunk(V)
    PROVE  UserData(b) \in Seq(V) /\ Len(UserData(b)) = b.user_len /\ b.user_len \in Nat \ {0}
<1>1. b \in [data : Seq(Datum), offset : Nat, user_len : Nat]
  BY DEF Chunk
<1>2. b.offset + b.user_len <= Len(b.data) /\ UserData(b) \in Seq(V) /\ b.user_len \in Nat \ {0}
  BY DEF Chunk
<1>3. Len(UserData(b)) = b.user_len
  BY <1>1, <1>2, UserDataLeaves
<1> QED BY <1>2, <1>3

\* The content of a chain is made of the user data of its buffers.
LEMMA ContentType ==
    ASSUME NEW V, NEW chain \in Seq(Chunk(V))
    PROVE  Content(chain) \in Seq(V)
<1>1. Len(chain) \in 0 .. Len(chain)
  BY LenProperties
<1>2. PICK f \in [0 .. Len(chain) -> Seq(V)] : Content(chain) = f[Len(chain)]
  BY ContentRun, Zenon
<1> QED BY <1>1, <1>2, Zenon

\* NULL has no content.
LEMMA ContentEmpty == Content(<<>>) = <<>>
<1>1. <<>> \in Seq(Chunk({})) /\ Len(<<>>) = 0
  BY EmptySeq, Zenon
<1> DEFINE e == <<>>
           V == {}
<1>2. e \in Seq(Chunk(V))
  BY <1>1
<1> HIDE DEF e, V
<1>3. PICK f \in [0 .. Len(e) -> Seq(V)] :
        /\ f[0] = <<>>
        /\ \A k \in 1 .. Len(e) : f[k] = f[k - 1] \o UserData(e[k])
        /\ Content(e) = f[Len(e)]
  BY <1>2, ContentRun, Zenon
<1>4. Len(e) = 0 /\ e = <<>>
  BY <1>1 DEF e
<1> QED BY <1>3, <1>4, Zenon

\* roar_buffer_add() adds at the end.
LEMMA ContentAppend ==
    ASSUME NEW V, NEW chain \in Seq(Chunk(V)), NEW b \in Chunk(V)
    PROVE  Content(Append(chain, b)) = Content(chain) \o UserData(b)
<1> DEFINE n == Len(chain)
           c == Append(chain, b)
<1>1. /\ n \in Nat /\ c \in Seq(Chunk(V)) /\ Len(c) = n + 1
      /\ c[n + 1] = b /\ \A k \in 1 .. n : c[k] = chain[k]
  BY LenProperties, AppendProperties
<1> HIDE DEF c
<1>2. PICK f \in [0 .. n -> Seq(V)] :
        /\ f[0] = <<>>
        /\ \A k \in 1 .. n : f[k] = f[k - 1] \o UserData(chain[k])
        /\ Content(chain) = f[n]
  BY ContentRun, Zenon
<1>3. PICK g \in [0 .. Len(c) -> Seq(V)] :
        /\ g[0] = <<>>
        /\ \A k \in 1 .. Len(c) : g[k] = g[k - 1] \o UserData(c[k])
        /\ Content(c) = g[Len(c)]
  BY <1>1, ContentRun, Zenon
<1> HIDE DEF n
<1>4. f[n] = g[n]
  <2> DEFINE T == {k \in 0 .. n : f[k] = g[k]}
  <2>1. 0 \in T
    <3>1. f[0] = g[0]
      BY <1>2, <1>3, Zenon
    <3> QED BY <1>1, <3>1
  <2>2. ASSUME NEW k \in 0 .. n - 1, k \in T
        PROVE  k + 1 \in T
    <3>1. /\ k + 1 \in 1 .. n /\ k + 1 \in 0 .. n /\ k + 1 \in 1 .. Len(c) /\ (k + 1) - 1 = k
      BY <1>1
    <3>2. f[k + 1] = f[k] \o UserData(chain[k + 1])
      BY <1>2, <3>1
    <3>3. g[k + 1] = g[k] \o UserData(c[k + 1])
      BY <1>3, <3>1
    <3>4. c[k + 1] = chain[k + 1] /\ f[k] = g[k]
      BY <1>1, <2>2, <3>1
    <3>5. f[k + 1] = g[k + 1]
      BY <3>2, <3>3, <3>4, Zenon
    <3> QED BY <3>1, <3>5
  <2> HIDE DEF T
  <2>3. 0 .. n \subseteq T
    BY <1>1, <2>1, <2>2, UpTo
  <2>4. n \in T
    BY <1>1, <2>3
  <2> QED BY <2>4 DEF T
<1>5. g[n + 1] = g[n] \o UserData(b)
  <2>1. n + 1 \in 1 .. Len(c) /\ (n + 1) - 1 = n
    BY <1>1
  <2> QED BY <1>1, <1>3, <2>1
<1> QED BY <1>1, <1>2, <1>3, <1>4, <1>5, Zenon DEF c

\* A chain without content has no buffers, since none of them is empty.
LEMMA ContentNull ==
    ASSUME NEW V, NEW chain \in Seq(Chunk(V)), Content(chain) = <<>>
    PROVE  chain = <<>>
<1> SUFFICES ASSUME chain # <<>> PROVE FALSE
  OBVIOUS
<1>1. PICK c \in Seq(Chunk(V)), b \in Chunk(V) : chain = Append(c, b)
  BY SequenceEmptyOrAppend, Zenon
<1>2. Content(chain) = Content(c) \o UserData(b) /\ Content(c) \in Seq(V)
  BY <1>1, ContentAppend, ContentType, Zenon
<1> DEFINE x == Content(c)
           y == UserData(b)
<1>3. y \in Seq(V) /\ Len(y) = b.user_len /\ b.user_len \in Nat \ {0}
  BY ChunkLen, Zenon
<1>4. x \in Seq(V) /\ x \o y = <<>>
  BY <1>2, Zenon
<1> HIDE DEF x, y
<1>5. Len(x \o y) = Len(x) + Len(y) /\ Len(x) \in Nat
  BY <1>3, <1>4, ConcatProperties, LenProperties
<1> QED BY <1>3, <1>4, <1>5

\* Concatenation is associative.
LEMMA Regroup ==
    ASSUME NEW V, NEW x \in Seq(V), NEW y \in Seq(V), NEW z \in Seq(V)
    PROVE  (x \o y) \o z = x \o (y \o z)
BY ConcatAssociative, SMT

\* A part of a sequence from its head, and what is left of it.
LEMMA Cut ==
    ASSUME NEW V, NEW d \in Seq(V), NEW k \in Nat, k <= Len(d)
    PROVE  /\ SubSeq(d, 1, k) \in Seq(V)
           /\ Len(SubSeq(d, 1, k)) = k
           /\ SubSeq(d, k + 1, Len(d)) \in Seq(V)
           /\ SubSeq(d, 1, k) \o SubSeq(d, k + 1, Len(d)) = d
<1>1. Len(d) \in Nat
  BY LenProperties
<1>2. SubSeq(d, 1, k) \in Seq(V) /\ Len(SubSeq(d, 1, k)) = k /\ SubSeq(d, k + 1, Len(d)) \in Seq(V)
  OBVIOUS
<1>3. SubSeq(d, 1, k) \o SubSeq(d, k + 1, Len(d)) = SubSeq(d, 1, Len(d))
  <2>1. 1 \in 1 .. Len(d) + 1 /\ k \in 1 - 1 .. Len(d) /\ Len(d) \in k .. Len(d)
    BY <1>1
  <2> QED BY <2>1, ConcatAdjacentSubSeq
<1>4. SubSeq(d, 1, Len(d)) = d
  BY SubSeqFull
<1> QED BY <1>2, <1>3, <1>4, Zenon

\* roar_buffer_set_offset() takes units from the head of the user data.
LEMMA SetOffsetLeaves ==
    ASSUME NEW V, NEW b \in Chunk(V), NEW k \in Nat, k < b.user_len
    PROVE  /\ roar_buffer_set_offset(b, k) \in Chunk(V)
           /\ UserData(roar_buffer_set_offset(b, k)) = SubSeq(UserData(b), k + 1, Len(UserData(b)))
<1> DEFINE c == roar_buffer_set_offset(b, k)
           d == b.data
           off == b.offset
           len == b.user_len
<1>1. d \in Seq(Datum) /\ off \in Nat /\ len \in Nat \ {0} /\ off + len <= Len(d)
  BY DEF Chunk
<1>2. /\ c.data = d /\ c.offset = off + k /\ c.user_len = len - k
      /\ c \in [data : Seq(Datum), offset : Nat, user_len : Nat \ {0}]
  <2> DEFINE p == len - k
             q == off + k
  <2>1. b \in [data : Seq(Datum), offset : Nat, user_len : Nat \ {0}]
    BY DEF Chunk
  <2>2. c = [b EXCEPT !.user_len = p, !.offset = q]
    BY DEF roar_buffer_set_offset
  <2>3. p \in Nat \ {0} /\ q \in Nat
    <3>1. k < len
      OBVIOUS
    <3> HIDE DEF off, len
    <3> QED BY <1>1, <3>1
  <2> HIDE DEF p, q, c
  <2>4. c.data = d /\ c.offset = q /\ c.user_len = p
    BY <2>1, <2>2
  <2>5. c \in [data : Seq(Datum), offset : Nat, user_len : Nat \ {0}]
    BY <2>1, <2>2, <2>3
  <2> QED BY <2>4, <2>5 DEF p, q
<1>3. UserData(b) = SubSeq(d, off + 1, off + len)
  BY DEF UserData
<1>4. UserData(b) \in Seq(V) /\ Len(UserData(b)) = len
  BY ChunkLen
<1>5. k < len /\ k \in Nat
  OBVIOUS
<1> HIDE DEF d, off, len, c
<1>6. UserData(c) = SubSeq(d, (off + k) + 1, (off + k) + (len - k))
  BY <1>2 DEF UserData
<1>7. (off + k) + (len - k) = off + len
  BY <1>1
<1>8. SubSeq(d, (off + k) + 1, off + len) = SubSeq(SubSeq(d, off + 1, off + len), k + 1, len)
  <2> DEFINE x == SubSeq(d, off + 1, off + len)
             y == SubSeq(d, (off + k) + 1, (off + k) + (len - k))
             z == SubSeq(x, k + 1, k + (len - k))
  <2>1. x \in Seq(Datum) /\ Len(x) = len /\ \A i \in 1 .. len : x[i] = d[off + i]
    BY <1>1, Slice
  <2>2. /\ y \in Seq(Datum) /\ Len(y) = len - k
        /\ \A i \in 1 .. len - k : y[i] = d[(off + k) + i]
    <3> DEFINE oo == off + k
               ll == len - k
    <3>1. oo \in Nat /\ ll \in Nat /\ oo + ll <= Len(d)
      BY <1>1, <1>5
    <3> HIDE DEF oo, ll
    <3>2. /\ SubSeq(d, oo + 1, oo + ll) \in Seq(Datum)
          /\ Len(SubSeq(d, oo + 1, oo + ll)) = ll
          /\ \A i \in 1 .. ll : SubSeq(d, oo + 1, oo + ll)[i] = d[oo + i]
      BY <1>1, <3>1, Slice
    <3> QED BY <3>2, Zenon DEF oo, ll
  <2> HIDE DEF x
  <2>3. z \in Seq(Datum) /\ Len(z) = len - k /\ \A i \in 1 .. len - k : z[i] = x[k + i]
    <3> DEFINE ll == len - k
    <3>1. ll \in Nat /\ k + ll <= Len(x)
      BY <1>1, <1>5, <2>1
    <3> HIDE DEF ll
    <3>2. /\ SubSeq(x, k + 1, k + ll) \in Seq(Datum)
          /\ Len(SubSeq(x, k + 1, k + ll)) = ll
          /\ \A i \in 1 .. ll : SubSeq(x, k + 1, k + ll)[i] = x[k + i]
      BY <1>5, <2>1, <3>1, Slice
    <3> QED BY <3>2, Zenon DEF ll
  <2> HIDE DEF y, z
  <2>4. \A i \in 1 .. len - k : z[i] = y[i]
    <3>1. \A i \in 1 .. len - k : k + i \in 1 .. len /\ off + (k + i) = (off + k) + i
      BY <1>1, <1>5
    <3> QED BY <2>1, <2>2, <2>3, <3>1, SMTT(60)
  <2>5. y = z
    BY <2>2, <2>3, <2>4, SeqEqual
  <2>6. k + (len - k) = len
    BY <1>1
  <2> QED BY <1>7, <2>5, <2>6 DEF x, y, z
<1>9. UserData(c) = SubSeq(UserData(b), k + 1, Len(UserData(b)))
  BY <1>3, <1>4, <1>6, <1>7, <1>8
<1>10. UserData(c) \in Seq(V)
  BY <1>1, <1>4, <1>5, <1>9, Cut
<1>11. c \in Chunk(V)
  <2>1. off + k \in Nat /\ len - k \in Nat \ {0} /\ (off + k) + (len - k) <= Len(d)
    BY <1>1, <1>5
  <2>2. c \in [data : Seq(Datum), offset : Nat, user_len : Nat \ {0}]
    BY <1>2
  <2>3. c.offset + c.user_len <= Len(c.data)
    BY <1>2, <2>1
  <2> QED BY <1>10, <2>2, <2>3 DEF Chunk
<1> QED BY <1>9, <1>11 DEF c

\* States of the loop of roar_buffer_shift_out(): as long as something is
\* still to be had, all buffers before the cursor are used up.
Shift(V) ==
    {r \in [data : Seq(V), todo : Nat, rest : Seq(Chunk(V))] : r.todo # 0 => r.rest = <<>>}

\* What the loop has copied and what it leaves behind the cursor.
Seen(r) == r.data \o Content(r.rest)

\* One round adds the user data of one buffer to what was seen, and what is
\* copied is what was to be had.
LEMMA ShiftOneLeaves ==
    ASSUME NEW V, NEW r \in Shift(V), NEW b \in Chunk(V)
    PROVE  /\ ShiftOne(r, b) \in Shift(V)
           /\ Seen(ShiftOne(r, b)) = Seen(r) \o UserData(b)
           /\ Len(ShiftOne(r, b).data) + ShiftOne(r, b).todo = Len(r.data) + r.todo
<1> DEFINE q == ShiftOne(r, b)
           d == r.data
           n == r.todo
           c == r.rest
           x == UserData(b)
           len == b.user_len
<1>1. /\ d \in Seq(V) /\ n \in Nat /\ c \in Seq(Chunk(V)) /\ (n # 0 => c = <<>>)
      /\ r \in [data : Seq(V), todo : Nat, rest : Seq(Chunk(V))]
  BY DEF Shift
<1>2. x \in Seq(V) /\ Len(x) = len /\ len \in Nat \ {0}
  BY ChunkLen, Zenon
<1>3. Content(c) \in Seq(V) /\ Content(<<>>) = <<>>
  BY <1>1, ContentType, ContentEmpty, Zenon
<1>4. CASE n = 0
  <2> DEFINE e == Append(c, b)
  <2>1. q = [r EXCEPT !.rest = e]
    BY <1>4 DEF ShiftOne
  <2>2. e \in Seq(Chunk(V)) /\ Content(e) = Content(c) \o x
    BY <1>1, AppendProperties, ContentAppend, Zenon
  <2> HIDE DEF e, q
  <2>3. q.data = d /\ q.todo = n /\ q.rest = e
    BY <1>1, <2>1
  <2>4. q \in [data : Seq(V), todo : Nat, rest : Seq(Chunk(V))]
    BY <1>1, <2>1, <2>2
  <2>5. q \in Shift(V)
    BY <1>4, <2>3, <2>4 DEF Shift
  <2> HIDE DEF d, x, c
  <2>6. d \o (Content(c) \o x) = (d \o Content(c)) \o x
    <3> DEFINE y == Content(c)
    <3>1. y \in Seq(V) /\ d \in Seq(V) /\ x \in Seq(V)
      BY <1>1, <1>2, <1>3
    <3> SUFFICES d \o (y \o x) = (d \o y) \o x
      OBVIOUS
    <3> HIDE DEF y
    <3> QED BY ONLY <3>1, Regroup, SMTT(60)
  <2>7. Seen(q) = Seen(r) \o x
    BY <2>2, <2>3, <2>6, Zenon DEF Seen, d, c
  <2> QED BY <2>3, <2>5, <2>7 DEF q, d, x
<1>5. CASE n # 0 /\ len > n
  <2> DEFINE h == SubSeq(x, 1, n)
             o == roar_buffer_set_offset(b, n)
             e == Append(c, o)
  <2>1. q = [data |-> d \o h, todo |-> 0, rest |-> e]
    BY <1>5 DEF ShiftOne
  <2>2. o \in Chunk(V) /\ UserData(o) = SubSeq(x, n + 1, Len(x))
    BY <1>1, <1>5, SetOffsetLeaves
  <2>3. /\ h \in Seq(V) /\ Len(h) = n
        /\ SubSeq(x, n + 1, Len(x)) \in Seq(V) /\ h \o SubSeq(x, n + 1, Len(x)) = x
    <3> HIDE DEF x, n, len
    <3> QED BY <1>1, <1>2, <1>5, Cut, SMTT(60)
  <2> HIDE DEF q, h, o, c
  <2>4. e \in Seq(Chunk(V)) /\ Content(e) = <<>> \o UserData(o) /\ c = <<>>
    <3>1. e \in Seq(Chunk(V)) /\ Content(e) = Content(c) \o UserData(o)
      BY <1>1, <2>2, AppendProperties, ContentAppend, Zenon
    <3> QED BY <1>1, <1>3, <1>5, <3>1, Zenon
  <2>5. Content(e) = UserData(o)
    BY <2>2, <2>3, <2>4, ConcatEmptySeq, Zenon
  <2> HIDE DEF e, d, n, x
  <2>6. d \o h \in Seq(V) /\ Len(d \o h) = Len(d) + n
    BY <1>1, <2>3, ConcatProperties
  <2>7. q.data = d \o h /\ q.todo = 0 /\ q.rest = e
    BY <2>1
  <2>8. q \in [data : Seq(V), todo : Nat, rest : Seq(Chunk(V))]
    BY <2>1, <2>4, <2>6
  <2>9. q \in Shift(V)
    BY <2>7, <2>8 DEF Shift
  <2>10. (d \o h) \o UserData(o) = d \o x
    <3> DEFINE y == UserData(o)
    <3>1. y \in Seq(V) /\ h \o y = x
      BY <2>2, <2>3, Zenon
    <3> HIDE DEF y
    <3>2. (d \o h) \o y = d \o (h \o y)
      <4>1. y \in Seq(V) /\ h \in Seq(V) /\ d \in Seq(V)
        BY <1>1, <2>3, <3>1
      <4> QED BY ONLY <4>1, Regroup, SMTT(60)
    <3> QED BY <3>1, <3>2, Zenon DEF y
  <2>11. Seen(r) = d
    <3>1. Seen(r) = d \o <<>>
      BY <1>3, <2>4, Zenon DEF Seen, d, c
    <3> QED BY <1>1, <3>1, ConcatEmptySeq, Zenon
  <2>12. Seen(q) = Seen(r) \o x
    BY <2>5, <2>7, <2>10, <2>11, Zenon DEF Seen
  <2>13. Len(q.data) + q.todo = Len(d) + n
    <3>1. Len(q.data) = Len(d) + n /\ Len(d) \in Nat
      BY <1>1, <2>6, <2>7, LenProperties
    <3> QED BY <1>1, <2>7, <3>1
  <2> QED BY <2>9, <2>12, <2>13 DEF q, d, n, x
<1>6. CASE n # 0 /\ ~ (len > n)
  <2> DEFINE m == n - len
             e == d \o x
  <2>1. q = [r EXCEPT !.data = e, !.todo = m]
    BY <1>6 DEF ShiftOne
  <2>2. e \in Seq(V) /\ Len(e) = Len(d) + len
    <3> HIDE DEF d, x, len
    <3> QED BY <1>1, <1>2, ConcatProperties
  <2>3. m \in Nat /\ m + len = n
    <3> HIDE DEF n, len
    <3> QED BY <1>1, <1>2, <1>6
  <2> HIDE DEF e, m, q
  <2>4. q.data = e /\ q.todo = m /\ q.rest = c /\ c = <<>>
    BY <1>1, <1>6, <2>1
  <2>5. q \in [data : Seq(V), todo : Nat, rest : Seq(Chunk(V))]
    BY <1>1, <2>1, <2>2, <2>3
  <2>6. q \in Shift(V)
    BY <2>4, <2>5 DEF Shift
  <2> HIDE DEF d, n, c, x, len
  <2>7. Seen(r) = d
    <3>1. Seen(r) = d \o <<>>
      BY <1>3, <2>4, Zenon DEF Seen, d, c
    <3> QED BY <1>1, <3>1, ConcatEmptySeq, Zenon
  <2>8. Seen(q) = e
    <3>1. Seen(q) = e \o <<>>
      BY <1>3, <2>4, Zenon DEF Seen
    <3> QED BY <2>2, <3>1, ConcatEmptySeq, Zenon
  <2>9. Seen(q) = Seen(r) \o x
    BY <2>7, <2>8, Zenon DEF e
  <2>10. Len(q.data) + q.todo = Len(d) + n
    <3>1. Len(q.data) = Len(d) + len /\ Len(d) \in Nat
      BY <1>1, <2>2, <2>4, LenProperties
    <3> DEFINE w == Len(d)
    <3>2. w \in Nat /\ len \in Nat
      BY <1>2, <3>1
    <3>3. Len(q.data) + q.todo = (w + len) + m
      BY <2>4, <3>1, Zenon
    <3> HIDE DEF w
    <3>4. (w + len) + m = w + n
      BY <2>3, <3>2
    <3> QED BY <3>3, <3>4 DEF w
  <2> QED BY <2>6, <2>9, <2>10 DEF q, d, n, x
<1> QED BY <1>4, <1>5, <1>6

\* The rounds of roar_buffer_shift_out().
LEMMA ShiftRun ==
    ASSUME NEW V, NEW chain \in Seq(Chunk(V)), NEW len \in Nat
    PROVE  \E f \in [0 .. Len(chain) -> Shift(V)] :
             /\ f[0] = [data |-> <<>>, todo |-> len, rest |-> <<>>]
             /\ \A k \in 1 .. Len(chain) : f[k] = ShiftOne(f[k - 1], chain[k])
             /\ roar_buffer_shift_out(chain, len) = f[Len(chain)]
<1> DEFINE n == Len(chain)
           S == Shift(V)
           base == [data |-> <<>>, todo |-> len, rest |-> <<>>]
           step == [k \in 1 .. n |-> [x \in S |-> ShiftOne(x, chain[k])]]
           F(g) == [k \in 0 .. n |-> IF k = 0 THEN base ELSE ShiftOne(g[k - 1], chain[k])]
           h == CHOOSE g : g = F(g)
<1>1. n \in Nat
  BY LenProperties
<1>2. \A k \in 1 .. n : chain[k] \in Chunk(V)
  BY ElementOfSeq
<1>3. base \in S
  <2>1. <<>> \in Seq(V) /\ <<>> \in Seq(Chunk(V))
    BY EmptySeq, Zenon
  <2>2. base.rest = <<>> /\ base \in [data : Seq(V), todo : Nat, rest : Seq(Chunk(V))]
    BY <2>1
  <2> QED BY <2>2, Zenon DEF Shift
<1>4. \A k \in 1 .. n, x \in S : ShiftOne(x, chain[k]) \in S
  BY <1>2, ShiftOneLeaves, Zenon
<1>5. roar_buffer_shift_out(chain, len) = h[n]
  BY DEF roar_buffer_shift_out
<1> HIDE DEF S, base
<1>6. step \in Steps(n, S)
  BY <1>4 DEF Steps
<1>7. \A k \in 1 .. n, x \in S : step[k][x] = ShiftOne(x, chain[k])
  OBVIOUS
<1> HIDE DEF step, h
<1>8. PICK f : Rounds(f, n, S, base, step)
  BY <1>1, <1>3, <1>6, RunExists, Zenon
<1>9. \A k \in 1 .. n : f[k] = ShiftOne(f[k - 1], chain[k])
  <2>1. \A k \in 1 .. n : f[k - 1] \in S
    BY <1>1, <1>8 DEF Rounds
  <2> QED BY <1>7, <1>8, <2>1 DEF Rounds
<1>10. f = F(f)
  <2>1. ASSUME NEW k \in 0 .. n
        PROVE  f[k] = F(f)[k]
    <3>1. CASE k = 0
      BY <1>8, <3>1 DEF Rounds
    <3>2. CASE k # 0
      <4>1. k \in 1 .. n
        BY <1>1, <3>2
      <4> QED BY <1>9, <3>2, <4>1, Zenon
    <3> QED BY <3>1, <3>2
  <2> QED BY <1>8, <2>1 DEF Rounds
<1>11. h = F(h)
  <2>1. \E g : g = F(g)
    BY <1>10, Zenon
  <2> QED BY <2>1, Zenon DEF h
<1>12. h[0] = base /\ \A k \in 1 .. n : h[k] = ShiftOne(h[k - 1], chain[k])
  <2>1. 0 \in 0 .. n /\ \A k \in 1 .. n : k \in 0 .. n /\ k # 0
    BY <1>1
  <2> QED BY <1>11, <2>1
<1>13. h \in [0 .. n -> S]
  <2> DEFINE T == {k \in 0 .. n : h[k] \in S}
  <2>1. 0 \in T
    BY <1>1, <1>3, <1>12
  <2>2. ASSUME NEW k \in 0 .. n - 1, k \in T
        PROVE  k + 1 \in T
    <3>1. k + 1 \in 1 .. n /\ k + 1 \in 0 .. n /\ (k + 1) - 1 = k
      BY <1>1
    <3>2. h[k + 1] = ShiftOne(h[k], chain[k + 1])
      BY <1>12, <3>1
    <3>3. h[k + 1] \in S
      BY <1>4, <2>2, <3>1, <3>2
    <3> QED BY <3>1, <3>3
  <2> HIDE DEF T
  <2>3. 0 .. n \subseteq T
    BY <1>1, <2>1, <2>2, UpTo
  <2>4. \A k \in 0 .. n : h[k] \in S
    BY <2>3 DEF T
  <2> QED BY <1>11, <2>4
<1> QED BY <1>5, <1>12, <1>13, Zenon DEF S, base

\* A part of a sequence and the next element.
LEMMA OneMore ==
    ASSUME NEW W, NEW d \in Seq(W), NEW k \in 0 .. Len(d) - 1
    PROVE  /\ SubSeq(d, 1, k) \in Seq(W)
           /\ d[k + 1] \in W
           /\ SubSeq(d, 1, k + 1) = Append(SubSeq(d, 1, k), d[k + 1])
<1>1. Len(d) \in Nat /\ k + 1 \in 1 .. Len(d)
  BY LenProperties
<1>2. SubSeq(d, 1, k) \in Seq(W) /\ Len(SubSeq(d, 1, k)) = k /\ d[k + 1] \in W
  BY <1>1, ElementOfSeq
<1>3. SubSeq(d, 1, k + 1) \in Seq(W) /\ Len(SubSeq(d, 1, k + 1)) = k + 1
  BY <1>1
<1>4. \A i \in 1 .. k + 1 : SubSeq(d, 1, k + 1)[i] = Append(SubSeq(d, 1, k), d[k + 1])[i]
  BY <1>1, <1>2
<1> DEFINE x == SubSeq(d, 1, k)
           y == SubSeq(d, 1, k + 1)
           z == Append(x, d[k + 1])
<1>5. z \in Seq(W) /\ Len(z) = k + 1
  <2> HIDE DEF x
  <2>1. x \in Seq(W) /\ Len(x) = k /\ d[k + 1] \in W
    BY <1>2 DEF x
  <2> QED BY <2>1, AppendProperties
<1> HIDE DEF x, y, z
<1>6. y = z
  BY <1>3, <1>4, <1>5, SeqEqual DEF x, y, z
<1> QED BY <1>2, <1>6 DEF x, y, z

\* roar_buffer_shift_out() splits the chain: what it copies is the head of the
\* content, what it leaves is the rest, and it copies all that was asked for
\* unless the chain is used up.
LEMMA ShiftOutSplits ==
    ASSUME NEW V, NEW chain \in Seq(Chunk(V)), NEW len \in Nat
    PROVE  LET r == roar_buffer_shift_out(chain, len) IN
           /\ r \in Shift(V)
           /\ Seen(r) = Content(chain)
           /\ Len(r.data) + r.todo = len
<1> DEFINE n == Len(chain)
           Part(k) == SubSeq(chain, 1, k)
<1>1. n \in Nat
  BY LenProperties
<1>2. PICK f \in [0 .. n -> Shift(V)] :
        /\ f[0] = [data |-> <<>>, todo |-> len, rest |-> <<>>]
        /\ \A k \in 1 .. n : f[k] = ShiftOne(f[k - 1], chain[k])
        /\ roar_buffer_shift_out(chain, len) = f[n]
  BY ShiftRun, Zenon
<1> DEFINE Good(k) == Seen(f[k]) = Content(Part(k)) /\ Len(f[k].data) + f[k].todo = len
           T == {k \in 0 .. n : Good(k)}
<1>3. 0 \in T
  <2>1. f[0].data = <<>> /\ f[0].todo = len /\ f[0].rest = <<>>
    BY <1>2
  <2>2. Part(0) = <<>>
    BY <1>1
  <2>3. <<>> \o <<>> = <<>> /\ Len(<<>>) = 0
    OBVIOUS
  <2> HIDE DEF Part
  <2>4. Seen(f[0]) = Content(Part(0))
    BY <2>1, <2>2, <2>3, ContentEmpty, Zenon DEF Seen
  <2>5. Len(f[0].data) = 0 /\ f[0].todo = len
    BY <2>1, <2>3, Zenon
  <2>6. Len(f[0].data) + f[0].todo = len
    BY <2>5
  <2> QED BY <1>1, <2>4, <2>6
<1>4. ASSUME NEW k \in 0 .. n - 1, k \in T
      PROVE  k + 1 \in T
  <2>1. /\ k \in 0 .. n /\ k + 1 \in 1 .. n /\ k + 1 \in 0 .. n /\ (k + 1) - 1 = k
    BY <1>1
  <2> DEFINE b == chain[k + 1]
             q == f[k]
             p == Part(k)
  <2>2. p \in Seq(Chunk(V)) /\ b \in Chunk(V) /\ Part(k + 1) = Append(p, b)
    BY OneMore
  <2>3. q \in Shift(V) /\ f[k + 1] = ShiftOne(q, b)
    BY <1>2, <2>1
  <2>4. Seen(q) = Content(p) /\ Len(q.data) + q.todo = len
    BY <1>4
  <2> HIDE DEF Part, p, q, b
  <2>5. Content(Part(k + 1)) = Content(p) \o UserData(b)
    BY <2>2, ContentAppend, Zenon
  <2>6. /\ Seen(f[k + 1]) = Seen(q) \o UserData(b)
        /\ Len(f[k + 1].data) + f[k + 1].todo = Len(q.data) + q.todo
    BY <2>2, <2>3, ShiftOneLeaves, Zenon
  <2>7. Good(k + 1)
    BY <2>4, <2>5, <2>6, Zenon
  <2> QED BY <2>1, <2>7
<1> HIDE DEF T
<1>5. 0 .. n \subseteq T
  BY <1>1, <1>3, <1>4, UpTo
<1>6. n \in T /\ n \in 0 .. n
  BY <1>1, <1>5
<1>7. Good(n) /\ f[n] \in Shift(V)
  BY <1>2, <1>6 DEF T
<1>8. Part(n) = chain
  BY SubSeqFull
<1> QED BY <1>2, <1>7, <1>8, Zenon

\* What the mixer takes and what stays in the buffers.
LEMMA ShiftOutLeaves ==
    ASSUME NEW V, NEW chain \in Seq(Chunk(V)), NEW len \in Nat
    PROVE  LET r == roar_buffer_shift_out(chain, len) IN
           /\ r.data \in Seq(V) /\ Len(r.data) \in 0 .. len
           /\ r.rest \in Seq(Chunk(V))
           /\ Content(r.rest) = SubSeq(Content(chain), len + 1, Len(Content(chain)))
           /\ Len(r.data) < len => r.rest = <<>>
<1> DEFINE r == roar_buffer_shift_out(chain, len)
           d == r.data
           m == r.todo
           c == r.rest
           y == Content(c)
           z == Content(chain)
<1>1. r \in Shift(V) /\ Seen(r) = z /\ Len(d) + m = len
  BY ShiftOutSplits, Zenon
<1> HIDE DEF r
<1>2. d \in Seq(V) /\ m \in Nat /\ c \in Seq(Chunk(V)) /\ (m # 0 => c = <<>>)
  BY <1>1 DEF Shift
<1> HIDE DEF d, m, c
<1>3. y \in Seq(V) /\ (c = <<>> => y = <<>>)
  BY <1>2, ContentType, ContentEmpty, Zenon
<1>4. d \o y = z
  BY <1>1, Zenon DEF Seen, d, c
<1> HIDE DEF y, z
<1>5. z \in Seq(V) /\ Len(z) = Len(d) + Len(y) /\ Len(d) \in Nat /\ Len(y) \in Nat
  BY <1>2, <1>3, <1>4, ConcatProperties, LenProperties
<1>6. Len(d) \in 0 .. len /\ (Len(d) < len => m # 0)
  BY <1>1, <1>2, <1>5
<1>7. y = SubSeq(z, len + 1, Len(z))
  <2>1. CASE m = 0
    <3>1. Len(d) = len
      BY <1>1, <1>5, <2>1
    <3>2. SubSeq(d \o y, Len(d) + 1, Len(d \o y)) = y
      BY <1>2, <1>3
    <3> QED BY <1>4, <3>1, <3>2, Zenon
  <2>2. CASE m # 0
    <3>1. y = <<>> /\ Len(y) = 0
      BY <1>2, <1>3, <2>2
    <3>2. Len(z) < len + 1
      BY <1>1, <1>2, <1>5, <2>2, <3>1
    <3>3. SubSeq(z, len + 1, Len(z)) = <<>>
      BY <1>5, <3>2
    <3> QED BY <3>1, <3>3
  <2> QED BY <2>1, <2>2
<1> QED BY <1>2, <1>6, <1>7 DEF d, c, y, z, r

-----------------------------------------------------------------------------
(* The invariant.                                                           *)

\* The loop of main_loop() is about a stream.
Job == [kind : {"none", "check", "raw", "mon"}, id : SID \cup {None}, got : Seq(Tag),
        at : {"done", "read", "end", "write", "header", "headed", "first", "retry"},
        new : SUBSET SID]

Place == {"unset", "new", "old", "zero"}

\* What is kept for the streams, and that nothing is kept for those that are gone.
Stored ==
    /\ tab \in TablesType /\ RawLinked(tab)
    /\ paused \subseteq SID /\ closed \subseteq SID
    /\ buffer \in [SID -> Seq(Chunk(Tag))]
    /\ prethru \in [SID -> Seq(Chunk(Datum))]
    /\ output \in [SID -> [1 .. PERIOD -> Place]]
    /\ number \in [SID -> Tag]
    /\ sent \in [SID -> Seq(Tag)]
    /\ \A s \in SID : Len(sent[s]) <= MaxSent
    /\ \A s \in SID \ Live : buffer[s] = <<>> /\ prethru[s] = <<>>

\* A call that waits for another one waits at a stream of the table.
Calling ==
    /\ stack \in Seq(Frame)
    /\ \A k \in 1 .. Len(stack) - 1 : stack[k].i \in SID
    /\ errno \in {"none", "again", "other"}
    /\ crash \in BOOLEAN

\* Streams are read in the first stage only, and what is read is an input.
Turn ==
    /\ old \subseteq SID /\ todo \subseteq SID
    /\ stage \in {"check", "mix", "mon"}
    /\ job \in Job /\ Len(job.got) <= PERIOD
    /\ job.kind # "none" => job.id \in SID
    /\ job.kind \in {"check", "raw"} => stage = "check"
    /\ job.kind = "check" => job.id \notin todo
    /\ job.kind = "check" /\ job.id \in Live => job.id \in Inputs
    /\ job.kind = "raw" /\ job.id \in Live => tab.streams[job.id].dir = "RAW_IN"

\* A stream that neither was paused with data nor got data by request has
\* data in its buffers only between the read and the mixer, and no more than
\* the mixer takes.
Queued ==
    \A s \in SID \ lagged :
        buffer[s] # <<>> =>
            /\ s \in Inputs /\ Backlog(s) <= PERIOD
            /\ stage = "check" /\ s \notin todo
            /\ job.kind = "check" => job.id # s

DPInv == Stored /\ Calling /\ Turn /\ Queued /\ OldDataOnlyWhenDry

\* What is left by a deletion is as it was, and RAW_IN streams keep the stream
\* they are for.
LEMMA DeleteLinked ==
    ASSUME NEW t \in TablesType, RawLinked(t), NEW x
    PROVE  LET u == streams_delete(t, x) IN
           /\ u \in TablesType /\ RawLinked(u)
           /\ LiveStreams(u) \subseteq LiveStreams(t)
           /\ \A s \in LiveStreams(u) : u.streams[s].dir = t.streams[s].dir
<1> DEFINE u == streams_delete(t, x)
<1>1. u \in TablesType
  BY DeletersType
<1>2. CASE u = t
  BY <1>1, <1>2
<1>3. CASE u = Quit
  <2>1. LiveStreams(Quit) = {}
    BY DEF LiveStreams, Quit
  <2> QED BY <1>1, <1>3, <2>1 DEF RawLinked
<1>4. ASSUME x \in LiveStreams(t), u # Quit
      PROVE  /\ RawLinked(u) /\ LiveStreams(u) \subseteq LiveStreams(t)
             /\ \A s \in LiveStreams(u) : u.streams[s].dir = t.streams[s].dir
  <2>1. u = Delete(t, {x}, {}) /\ {} \in SUBSET LiveClients(t)
    BY <1>4 DEF streams_delete
  <2>2. PICK D, L : /\ D = Doomed(t, {x}) /\ L \in SUBSET LiveClients(t)
                    /\ u = Remove(t, D, L)
    <3> DEFINE v == Delete(t, {x}, {})
    <3>1. \/ v = Quit
          \/ \E D, L : D = Doomed(t, {x}) /\ L \in SUBSET LiveClients(t) /\ v = Remove(t, D, L)
      BY <2>1, DeleteCases
    <3> QED BY <1>4, <2>1, <3>1, Zenon
  <2>3. D \in SUBSET LiveStreams(t) /\ Closed(t, D)
    BY <2>2, DoomedLive, DoomedClosed
  <2> HIDE DEF u
  <2>4. Without(t, D, L, u)
    BY <2>2, <2>3, RemoveLeaves
  <2>5. LiveStreams(u) = LiveStreams(t) \ D
    BY <2>4 DEF Without
  <2>6. \A s \in LiveStreams(u) : u.streams[s].dir = t.streams[s].dir
    BY <2>4 DEF Without
  <2>7. ASSUME NEW s \in LiveStreams(u), u.streams[s].dir = "RAW_IN"
        PROVE  /\ u.streams[s].pos_rel_id \in LiveStreams(u) \ {s}
               /\ u.streams[u.streams[s].pos_rel_id].dir = "RAW_OUT"
    <3> DEFINE p == t.streams[s].pos_rel_id
    <3>1. t.streams[s].dir = "RAW_IN" /\ s \in LiveStreams(t) \ D
      BY <2>5, <2>6, <2>7
    <3>2. p \in LiveStreams(t) \ {s} /\ t.streams[p].dir = "RAW_OUT"
      BY <3>1 DEF RawLinked
    <3>3. p \in D => Dependent(t, s, p)
      BY <3>1, <3>2 DEF Dependent
    <3>4. p \notin D
      BY <2>3, <3>1, <3>3 DEF Closed, Triggers
    <3>5. u.streams[s].pos_rel_id = p
      BY <2>4, <3>4 DEF Without
    <3>6. u.streams[p].dir = "RAW_OUT"
      BY <2>5, <2>6, <3>2, <3>4
    <3> QED BY <2>5, <3>2, <3>4, <3>5, <3>6
  <2> QED BY <2>5, <2>6, <2>7 DEF RawLinked
<1>5. x \notin LiveStreams(t) => u = t
  BY DEF streams_delete
<1> QED BY <1>1, <1>2, <1>3, <1>4, <1>5

\* The functions that Gone keeps have the type they had.
LEMMA KeptType ==
    ASSUME NEW T, NEW f \in [SID -> T], NEW none \in T, NEW K
    PROVE  [s \in SID |-> IF s \in K THEN f[s] ELSE none] \in [SID -> T]
OBVIOUS

\* streams_delete() during a job: what is kept for the streams that stay.
LEMMA GoneStored ==
    ASSUME Stored, NEW x, Gone(streams_delete(tab, x))
    PROVE  /\ Stored'
           /\ Live' \subseteq Live
           /\ \A s \in Live' : tab'.streams[s].dir = tab.streams[s].dir
           /\ \A s \in SID : buffer'[s] = IF s \in Live' THEN buffer[s] ELSE <<>>
           /\ \A s \in SID : output'[s] = IF s \in Live' THEN output[s]
                                          ELSE [k \in 1 .. PERIOD |-> "unset"]
           /\ paused' = paused \cap Live' /\ lagged' = lagged \cap Live'
<1> DEFINE t == streams_delete(tab, x)
           kept == LiveStreams(t)
<1>1. /\ t \in TablesType /\ RawLinked(t) /\ kept \subseteq Live
      /\ \A s \in kept : t.streams[s].dir = tab.streams[s].dir
  BY DeleteLinked DEF Stored, Live
<1>2. tab' = t
  BY DEF Gone
<1> HIDE DEF t
<1>3. /\ buffer' = [s \in SID |-> IF s \in kept THEN buffer[s] ELSE <<>>]
      /\ prethru' = [s \in SID |-> IF s \in kept THEN prethru[s] ELSE <<>>]
      /\ output' = [s \in SID |-> IF s \in kept THEN output[s] ELSE [k \in 1 .. PERIOD |-> "unset"]]
      /\ number' = [s \in SID |-> IF s \in kept THEN number[s] ELSE 0]
      /\ sent' = [s \in SID |-> IF s \in kept THEN sent[s] ELSE <<>>]
      /\ closed' = closed \cap kept
      /\ paused' = paused \cap kept
      /\ lagged' = lagged \cap kept
  BY Zenon DEF Gone, t
<1>4. Live' = kept
  BY <1>2 DEF Live
<1> HIDE DEF kept
<1>5. <<>> \in Seq(Chunk(Tag)) /\ <<>> \in Seq(Chunk(Datum)) /\ <<>> \in Seq(Tag) /\ Len(<<>>) = 0
  BY EmptySeq, Zenon
<1>6. 0 \in Tag /\ MaxSent \in Nat
  BY DataPathAssumption DEF Tag
<1>7. [k \in 1 .. PERIOD |-> "unset"] \in [1 .. PERIOD -> Place]
  BY DEF Place
<1>8. buffer' \in [SID -> Seq(Chunk(Tag))]
  BY <1>3, <1>5, KeptType, Zenon DEF Stored
<1>9. prethru' \in [SID -> Seq(Chunk(Datum))]
  BY <1>3, <1>5, KeptType, Zenon DEF Stored
<1>10. output' \in [SID -> [1 .. PERIOD -> Place]]
  BY <1>3, <1>7, KeptType, Zenon DEF Stored
<1>11. number' \in [SID -> Tag]
  BY <1>3, <1>6, KeptType, Zenon DEF Stored
<1>12. sent' \in [SID -> Seq(Tag)]
  BY <1>3, <1>5, KeptType, Zenon DEF Stored
<1>13. ASSUME NEW s \in SID
       PROVE  Len(sent'[s]) <= MaxSent
  <2>1. sent'[s] = sent[s] \/ sent'[s] = <<>>
    BY <1>3, Zenon
  <2>2. 0 <= MaxSent /\ Len(sent[s]) <= MaxSent
    BY <1>6 DEF Stored
  <2> QED BY <1>5, <2>1, <2>2, Zenon
<1>14. \A s \in SID : buffer'[s] = IF s \in kept THEN buffer[s] ELSE <<>>
  BY <1>3
<1>15. \A s \in SID : output'[s] = IF s \in kept THEN output[s]
                                   ELSE [k \in 1 .. PERIOD |-> "unset"]
  BY <1>3, Zenon
<1>16. \A s \in SID \ kept : buffer'[s] = <<>> /\ prethru'[s] = <<>>
  BY <1>3
<1>17. paused' \subseteq SID /\ closed' \subseteq SID
  BY <1>3 DEF Stored
<1>18. Stored'
  BY <1>1, <1>2, <1>4, <1>8, <1>9, <1>10, <1>11, <1>12, <1>13, <1>16, <1>17 DEF Stored
<1> QED BY <1>1, <1>2, <1>3, <1>4, <1>14, <1>15, <1>18

-----------------------------------------------------------------------------
(* What the steps do, by the part of the state they touch.                  *)

\* The rest of streams_check() when there is data.
Adds ==
    /\ CheckEnds /\ job.got # <<>> /\ job.id \in Live
    /\ stream_add_buffer(job.id, Got(job.got))
    /\ UNCHANGED <<tab, prethru, output, peers>>

\* What steps do to what is kept for the streams.
LEMMA StoreEffects ==
    ASSUME Next
    PROVE  \/ NothingGone
           \/ \E x : Gone(streams_delete(tab, x))
           \/ Mix \/ ReadData \/ Adds
           \/ \E s \in SID : \/ Send(s) \/ Close(s) \/ Connect(s) \/ Pause(s)
                             \/ AddData(s) \/ SendMon(s)
<1>1. CASE Crashed
  BY <1>1 DEF Crashed, vars, NothingGone, peers
<1>2. CASE BeginTurn
  BY <1>2 DEF BeginTurn, tables, audio, peers, NothingGone
<1>3. CASE \E s \in SID : Check(s)
  BY <1>3 DEF Check, tables, audio, peers, NothingGone
<1>4. CASE ReadReturns
  BY <1>4 DEF ReadReturns, tables, audio, peers, NothingGone
<1>5. CASE CheckEnds
  BY <1>5 DEF CheckEnds, Adds, NothingGone, peers
<1>6. CASE RawEnds
  BY <1>6 DEF RawEnds
<1>7. CASE MonWrites
  BY <1>7 DEF MonWrites, tables, audio, peers, NothingGone
<1>8. CASE Written
  BY <1>8 DEF Written, MonWritten, RawWritten
<1>9. CASE CopyTo
  BY <1>9 DEF CopyTo, tables, audio, peers, NothingGone
<1>10. CASE WriteCopy
  BY <1>10 DEF WriteCopy, WriteEnds
<1>11. CASE UseAfterFree
  BY <1>11 DEF UseAfterFree, tables, audio, peers, NothingGone
<1> QED BY <1>1, <1>2, <1>3, <1>4, <1>5, <1>6, <1>7, <1>8, <1>9, <1>10, <1>11 DEF Next, Server

\* The stage stays, no stream has to be looked at again, and the stream that
\* is read stays the one.
SameTurn ==
    /\ stage' = stage /\ todo' \subseteq todo
    /\ job'.kind = "check" => job.kind = "check" /\ job'.id = job.id

\* What steps do to the turn.
LEMMA TurnEffects ==
    ASSUME Next, job \in Job
    PROVE  /\ setup' = setup
           /\ SameTurn \/ BeginTurn \/ Mix \/ \E s \in SID : Check(s)
<1> USE DEF SameTurn, tables
<1>1. CASE Crashed
  BY <1>1 DEF Crashed, vars
<1>2. CASE BeginTurn \/ Mix \/ \E s \in SID : Check(s)
  BY <1>2 DEF BeginTurn, Mix, Check
<1>3. CASE ReadReturns
  BY <1>3 DEF ReadReturns
<1>4. CASE CheckEnds
  BY <1>4 DEF CheckEnds, Over, Idle
<1>5. CASE RawEnds
  BY <1>5 DEF RawEnds, Over, Idle, Job
<1>6. CASE MonWrites
  BY <1>6 DEF MonWrites
<1>7. CASE Written
  BY <1>7 DEF Written, MonWritten, RawWritten, Over, Idle, Job
<1>8. CASE CopyTo
  BY <1>8 DEF CopyTo
<1>9. CASE WriteCopy
  BY <1>9 DEF WriteCopy
<1>10. CASE UseAfterFree
  BY <1>10 DEF UseAfterFree
<1>11. CASE ReadData
  BY <1>11 DEF ReadData, Job
<1>12. CASE \E s \in SID : SendMon(s)
  BY <1>12 DEF SendMon, Start
<1>13. CASE \E s \in SID : Send(s) \/ Close(s) \/ Connect(s) \/ Pause(s) \/ AddData(s)
  BY <1>13 DEF Send, Close, Connect, Pause, AddData
<1> QED BY <1>1, <1>2, <1>3, <1>4, <1>5, <1>6, <1>7, <1>8, <1>9, <1>10, <1>11, <1>12, <1>13
        DEF Next, Server

-----------------------------------------------------------------------------
(* Every step keeps the store in order.                                     *)

\* A stream that is connected changes neither its direction nor its relation.
LEMMA ConnectLeaves ==
    ASSUME Stored, NEW s \in SID, Connect(s)
    PROVE  /\ tab' \in TablesType /\ RawLinked(tab') /\ Live' = Live
           /\ \A i \in Live : tab'.streams[i].dir = tab.streams[i].dir
<1> DEFINE r == [tab.streams[s] EXCEPT !.fh = TRUE, !.ready = TRUE]
<1>1. tab \in TablesType /\ s \in LiveStreams(tab) /\ tab.streams[s] \in Stream
  BY DEF Stored, Connect, Live, LiveStreams, TablesType
<1>2. r \in Stream /\ r.dir = tab.streams[s].dir /\ r.pos_rel_id = tab.streams[s].pos_rel_id
  BY <1>1 DEF Stream
<1>3. tab' = Put(tab, s, r)
  <2>1. tab' = [tab EXCEPT !.streams[s].fh = TRUE, !.streams[s].ready = TRUE]
    BY DEF Connect
  <2>2. tab' = [tab EXCEPT !.streams[s] = r]
    BY <1>1, <2>1 DEF TablesType
  <2> QED BY <2>2 DEF Put
<1> HIDE DEF r
<1>4. /\ tab' \in TablesType /\ LiveStreams(tab') = LiveStreams(tab)
      /\ tab'.streams[s] = r
      /\ \A i \in SID \ {s} : tab'.streams[i] = tab.streams[i]
  BY <1>1, <1>2, <1>3, PutLeaves
<1>5. \A i \in Live : /\ tab'.streams[i].dir = tab.streams[i].dir
                      /\ tab'.streams[i].pos_rel_id = tab.streams[i].pos_rel_id
  BY <1>2, <1>4 DEF Live, LiveStreams
<1>6. RawLinked(tab')
  <2>1. RawLinked(tab)
    BY DEF Stored
  <2> QED BY <1>4, <1>5, <2>1 DEF RawLinked, Live
<1> QED BY <1>4, <1>5, <1>6 DEF Live

\* The buffer that streams_check() adds: its user data is what was read.
LEMMA GotLeaves ==
    ASSUME NEW got \in Seq(Tag), got # <<>>, Len(got) <= PERIOD
    PROVE  Got(got) \in Chunk(Tag) /\ UserData(Got(got)) = got
<1> DEFINE n == Len(got)
           d == [k \in 1 .. PERIOD |-> IF k <= n THEN got[k] ELSE Unset]
           b == Got(got)
<1>1. PERIOD \in Nat /\ Unit \in Nat \ {0} /\ n \in Nat \ {0} /\ n <= PERIOD
  BY DataPathAssumption, EmptySeq, LenProperties
<1>2. \A k \in 1 .. n : got[k] \in Tag
  BY ElementOfSeq
<1>3. \A k \in 1 .. PERIOD : d[k] \in Datum
  <2>1. Unset \in Datum /\ Tag \subseteq Datum
    BY <1>1 DEF Unset, Datum, Tag
  <2>2. \A k \in 1 .. PERIOD : k <= n => k \in 1 .. n
    BY <1>1
  <2> QED BY <1>2, <2>1, <2>2
<1>4. d \in Seq(Datum) /\ Len(d) = PERIOD
  BY <1>1, <1>3
<1>5. b = [[data |-> d, offset |-> 0, user_len |-> Len(d)] EXCEPT !.user_len = n]
  BY DEF Got, roar_buffer_new, roar_buffer_set_len
<1>6. \A k \in 1 .. n : d[k] = got[k]
  BY <1>1
<1> HIDE DEF d, b, n
<1>7. b.data = d /\ b.offset = 0 /\ b.user_len = n
  BY <1>5
<1>8. b \in [data : Seq(Datum), offset : Nat, user_len : Nat \ {0}]
  BY <1>1, <1>4, <1>5
<1>9. UserData(b) = SubSeq(d, 0 + 1, 0 + n)
  BY <1>7 DEF UserData
<1>10. UserData(b) \in Seq(Datum) /\ Len(UserData(b)) = n /\ \A i \in 1 .. n : UserData(b)[i] = d[0 + i]
  <2>1. 0 \in Nat /\ n \in Nat /\ 0 + n <= Len(d)
    BY <1>1, <1>4
  <2> QED BY <1>4, <1>9, <2>1, Slice
<1> DEFINE y == UserData(b)
<1>11. \A i \in 1 .. n : y[i] = got[i]
  <2>1. \A i \in 1 .. n : 0 + i = i
    OBVIOUS
  <2> QED BY <1>6, <1>10, <2>1
<1>12. Len(got) = n
  BY DEF n
<1>13. got \in Seq(Datum)
  <2>1. Tag \subseteq Datum
    BY <1>1 DEF Datum, Tag
  <2>2. \A k \in 1 .. n : got[k] \in Datum
    BY <1>2, <2>1
  <2> QED BY <1>12, <2>2
<1>14. y = got
  <2>1. y \in Seq(Datum) /\ Len(y) = n
    BY <1>10
  <2> HIDE DEF y
  <2> QED BY <1>11, <1>12, <1>13, <2>1, SeqEqual
<1>15. b.offset + b.user_len <= Len(b.data)
  BY <1>1, <1>4, <1>7
<1>16. b \in Chunk(Tag)
  BY <1>8, <1>14, <1>15 DEF Chunk
<1> QED BY <1>14, <1>16 DEF b

\* A buffer that is new and full.
LEMMA NewLeaves ==
    ASSUME NEW V, V \subseteq Datum, NEW x \in Seq(V), x # <<>>
    PROVE  roar_buffer_new(x) \in Chunk(V) /\ UserData(roar_buffer_new(x)) = x
<1> DEFINE n == Len(x)
           b == roar_buffer_new(x)
<1>1. n \in Nat \ {0}
  BY EmptySeq, LenProperties
<1>2. x \in Seq(Datum)
  <2>1. \A k \in 1 .. n : x[k] \in Datum
    BY ElementOfSeq
  <2> QED BY <2>1
<1>3. b.data = x /\ b.offset = 0 /\ b.user_len = n
  BY DEF roar_buffer_new
<1>4. b \in [data : Seq(Datum), offset : Nat, user_len : Nat \ {0}]
  BY <1>1, <1>2 DEF roar_buffer_new
<1>5. SubSeq(x, 1, n) = x
  BY SubSeqFull
<1> HIDE DEF b, n
<1>6. UserData(b) = SubSeq(x, 0 + 1, 0 + n)
  BY <1>3 DEF UserData
<1>7. 0 + 1 = 1 /\ 0 + n = n
  BY <1>1
<1>8. UserData(b) = x
  BY <1>5, <1>6, <1>7, Zenon
<1>9. b.offset + b.user_len <= Len(b.data)
  BY <1>1, <1>3 DEF n
<1>10. b \in Chunk(V)
  BY <1>4, <1>8, <1>9 DEF Chunk
<1> QED BY <1>8, <1>10 DEF b

\* stream_add_buffer() appends to the queue of one stream.
LEMMA AddLeavesOthers ==
    ASSUME buffer \in [SID -> Seq(Chunk(Tag))], NEW s \in SID, NEW b \in Chunk(Tag),
           stream_add_buffer(s, b)
    PROVE  /\ buffer' \in [SID -> Seq(Chunk(Tag))]
           /\ \A i \in SID \ {s} : buffer'[i] = buffer[i]
           /\ Content(buffer'[s]) = Content(buffer[s]) \o UserData(b)
<1> DEFINE c == buffer[s]
           e == Append(c, b)
<1>1. c \in Seq(Chunk(Tag))
  OBVIOUS
<1>2. e \in Seq(Chunk(Tag)) /\ Content(e) = Content(c) \o UserData(b)
  BY <1>1, AppendProperties, ContentAppend, ZenonT(60)
<1>3. buffer' = [buffer EXCEPT ![s] = e]
  BY DEF stream_add_buffer, roar_buffer_add
<1> HIDE DEF e
<1>4. /\ buffer' \in [SID -> Seq(Chunk(Tag))] /\ buffer'[s] = e
      /\ \A i \in SID \ {s} : buffer'[i] = buffer[i]
  BY <1>2, <1>3
<1> QED BY <1>2, <1>4, Zenon

\* What the mixer leaves in the buffers and in the output buffers.
LEMMA MixLeaves ==
    ASSUME Stored, Mix
    PROVE  /\ buffer' \in [SID -> Seq(Chunk(Tag))]
           /\ output' \in [SID -> [1 .. PERIOD -> Place]]
           /\ \A s \in SID \ Inputs : buffer'[s] = buffer[s]
           /\ \A s \in Inputs :
                /\ buffer[s] = <<>> => buffer'[s] = <<>>
                /\ Content(buffer'[s]) =
                       SubSeq(Content(buffer[s]), PERIOD + 1, Len(Content(buffer[s])))
                /\ \/ buffer'[s] = <<>>
                   \/ \A k \in 1 .. PERIOD : output'[s][k] = "new"
<1> DEFINE Out(s) == roar_buffer_shift_out(buffer[s], PERIOD)
           shifted == [s \in Inputs |-> Out(s)]
           fed == {s \in Inputs : buffer[s] # <<>>}
           zero == [k \in 1 .. PERIOD |-> "zero"]
<1>1. /\ buffer' = [s \in SID |-> IF s \in fed THEN shifted[s].rest ELSE buffer[s]]
      /\ output' = [s \in SID |->
             IF s \in fed THEN Filled(output[s], Len(shifted[s].data))
             ELSE IF s \in Inputs THEN zero ELSE output[s]]
  BY Zenon DEF Mix
<1>2. PERIOD \in Nat
  BY DataPathAssumption
<1>3. Inputs \subseteq SID
  BY DEF Inputs, Live, LiveStreams
<1>4. \A s \in fed : shifted[s] = Out(s)
  OBVIOUS
<1>5. \A s \in SID : buffer[s] \in Seq(Chunk(Tag)) /\ output[s] \in [1 .. PERIOD -> Place]
  BY DEF Stored
<1> HIDE DEF shifted
<1>6. \A s \in SID :
        /\ Out(s).data \in Seq(Tag) /\ Len(Out(s).data) \in 0 .. PERIOD
        /\ Out(s).rest \in Seq(Chunk(Tag))
        /\ Content(Out(s).rest) =
               SubSeq(Content(buffer[s]), PERIOD + 1, Len(Content(buffer[s])))
        /\ Len(Out(s).data) < PERIOD => Out(s).rest = <<>>
  <2> TAKE s \in SID
  <2>1. buffer[s] \in Seq(Chunk(Tag))
    BY <1>5
  <2> QED BY <1>2, <2>1, ShiftOutLeaves, Zenon
<1> HIDE DEF Out
<1>7. \A s \in fed : s \in SID /\ s \in Inputs /\ buffer'[s] = Out(s).rest
                     /\ output'[s] = Filled(output[s], Len(Out(s).data))
  BY <1>1, <1>3, <1>4
<1>8. \A s \in SID \ fed : buffer'[s] = buffer[s]
  BY <1>1
<1>9. \A s \in SID \ fed : output'[s] = IF s \in Inputs THEN zero ELSE output[s]
  BY <1>1
<1>10. \A o \in [1 .. PERIOD -> Place], m \in 0 .. PERIOD :
         Filled(o, m) \in [1 .. PERIOD -> Place]
  BY DEF Filled, Place
<1>11. buffer' \in [SID -> Seq(Chunk(Tag))]
  <2>1. \A s \in SID : buffer'[s] \in Seq(Chunk(Tag))
    BY <1>5, <1>6, <1>7, <1>8
  <2> QED BY <1>1, <2>1
<1>12. output' \in [SID -> [1 .. PERIOD -> Place]]
  <2>1. zero \in [1 .. PERIOD -> Place]
    BY DEF Place
  <2> HIDE DEF zero
  <2>2. ASSUME NEW s \in SID
        PROVE  output'[s] \in [1 .. PERIOD -> Place]
    <3>1. CASE s \in fed
      BY <1>5, <1>6, <1>7, <1>10, <3>1
    <3>2. CASE s \notin fed
      BY <1>5, <1>9, <2>1, <3>2
    <3> QED BY <3>1, <3>2
  <2> QED BY <1>1, <2>2
<1>13. ASSUME NEW s \in fed
       PROVE  \/ buffer'[s] = <<>>
              \/ \A k \in 1 .. PERIOD : output'[s][k] = "new"
  <2> DEFINE m == Len(Out(s).data)
  <2>1. s \in SID /\ m \in 0 .. PERIOD /\ (m < PERIOD => buffer'[s] = <<>>)
    BY <1>6, <1>7
  <2>2. output'[s] = Filled(output[s], m)
    BY <1>7
  <2> HIDE DEF m
  <2>3. CASE m < PERIOD
    BY <2>1, <2>3
  <2>4. CASE m = PERIOD
    BY <1>2, <2>2, <2>4 DEF Filled
  <2> QED BY <1>2, <2>1, <2>3, <2>4
<1>14. \A s \in Inputs \ fed : buffer[s] = <<>> /\ buffer'[s] = <<>>
  BY <1>3, <1>8
<1>15. \A s \in Inputs : Content(buffer'[s]) =
                             SubSeq(Content(buffer[s]), PERIOD + 1, Len(Content(buffer[s])))
  <2>1. \A s \in fed : Content(buffer'[s]) =
                             SubSeq(Content(buffer[s]), PERIOD + 1, Len(Content(buffer[s])))
    BY <1>6, <1>7, Zenon
  <2>2. SubSeq(<<>>, PERIOD + 1, Len(<<>>)) = <<>>
    BY <1>2
  <2>3. \A s \in Inputs \ fed : Content(buffer'[s]) = <<>> /\ Content(buffer[s]) = <<>>
    BY <1>14, ContentEmpty
  <2>4. \A s \in Inputs \ fed : Content(buffer'[s]) =
                             SubSeq(Content(buffer[s]), PERIOD + 1, Len(Content(buffer[s])))
    BY <2>2, <2>3, Zenon
  <2> QED BY <2>1, <2>4
<1>16. \A s \in SID \ Inputs : buffer'[s] = buffer[s]
  BY <1>8
<1> QED BY <1>11, <1>12, <1>13, <1>14, <1>15, <1>16

\* Every step leaves the store in order.
LEMMA StoredStep ==
    ASSUME Stored, Turn, Next
    PROVE  Stored'
<1>1. /\ PERIOD \in Nat \ {0} /\ Unit \in Nat \ {0} /\ MaxSent \in Nat
      /\ Tag \subseteq Datum /\ \A u \in Tag : (u + 1) % Unit \in Tag
  BY DataPathAssumption DEF Tag, Datum
<1>2. CASE NothingGone
  BY <1>2 DEF NothingGone, peers, Stored, Live
<1>3. CASE \E x : Gone(streams_delete(tab, x))
  BY <1>3, GoneStored
<1>4. CASE Mix
  <2>1. buffer' \in [SID -> Seq(Chunk(Tag))] /\ output' \in [SID -> [1 .. PERIOD -> Place]]
    BY <1>4, MixLeaves
  <2>2. UNCHANGED <<tab, paused, closed, prethru, number, sent>>
    BY <1>4 DEF Mix, peers
  <2>3. \A s \in SID \ Live : s \notin Inputs
    BY DEF Inputs
  <2>4. \A s \in SID \ Live : buffer'[s] = buffer[s]
    BY <1>4, <2>3, MixLeaves
  <2> QED BY <2>1, <2>2, <2>4 DEF Stored, Live
<1>5. CASE ReadData
  <2> DEFINE s == job.id
  <2>1. UNCHANGED <<tab, paused, closed, buffer, prethru, output, number>> /\ s \in Live
    BY <1>5 DEF ReadData, tables, audio
  <2>2. s \in SID /\ sent[s] \in Seq(Tag) /\ Len(sent[s]) <= MaxSent
    BY <2>1 DEF Live, LiveStreams, Stored
  <2>3. PICK n \in Nat : n <= Len(sent[s]) /\ (\/ sent' = sent
                               \/ sent' = [sent EXCEPT ![s] = SubSeq(@, n + 1, Len(@))])
    <3> DEFINE left == PERIOD - Len(job.got)
               n == IF Len(sent[s]) < left THEN Len(sent[s]) ELSE left
    <3>1. Len(sent[s]) \in Nat /\ Len(job.got) \in Nat /\ Len(job.got) <= PERIOD
      BY <2>2, LenProperties DEF Turn, Job
    <3>2. n \in Nat /\ n <= Len(sent[s])
      BY <1>1, <3>1
    <3>3. sent' = sent \/ sent' = [sent EXCEPT ![s] = SubSeq(@, n + 1, Len(@))]
      BY <1>5, Zenon DEF ReadData
    <3> QED BY <3>2, <3>3
  <2> DEFINE q == sent[s]
             p == SubSeq(q, n + 1, Len(q))
  <2>4. p \in Seq(Tag) /\ Len(p) <= Len(q) /\ Len(q) \in Nat /\ Len(p) \in Nat
    <3> HIDE DEF q
    <3>1. q \in Seq(Tag) /\ n <= Len(q) /\ n \in Nat
      BY <2>2, <2>3 DEF q
    <3>2. Len(q) \in Nat /\ p \in Seq(Tag)
      BY <3>1, Cut, LenProperties
    <3>3. Len(p) = IF n + 1 <= Len(q) THEN Len(q) - n ELSE 0
      BY <3>1, <3>2
    <3> QED BY <3>1, <3>2, <3>3
  <2>5. sent' = sent \/ sent' = [sent EXCEPT ![s] = p]
    BY <2>3
  <2>6. Len(p) <= MaxSent
    <3>1. Len(q) <= MaxSent
      BY <2>2
    <3> HIDE DEF p, q
    <3> QED BY <1>1, <2>4, <3>1
  <2> HIDE DEF p
  <2>7. sent \in [SID -> Seq(Tag)] /\ \A i \in SID : Len(sent[i]) <= MaxSent
    BY DEF Stored
  <2>8. sent' \in [SID -> Seq(Tag)] /\ \A i \in SID : Len(sent'[i]) <= MaxSent
    BY <2>2, <2>4, <2>5, <2>6, <2>7
  <2> QED BY <2>1, <2>8 DEF Stored, Live
<1>6. CASE Adds
  <2>1. UNCHANGED <<tab, paused, closed, prethru, output, number, sent>> /\ job.id \in Live
    BY <1>6 DEF Adds, peers
  <2>2. job.id \in SID /\ Got(job.got) \in Chunk(Tag)
    <3>1. job.got \in Seq(Tag) /\ Len(job.got) <= PERIOD /\ job.got # <<>>
      BY <1>6 DEF Turn, Job, Adds
    <3> QED BY <2>1, <3>1, GotLeaves DEF Live, LiveStreams
  <2>3. /\ buffer' \in [SID -> Seq(Chunk(Tag))]
        /\ \A i \in SID \ {job.id} : buffer'[i] = buffer[i]
    BY <1>6, <2>2, AddLeavesOthers DEF Adds, Stored
  <2> QED BY <2>1, <2>3 DEF Stored, Live
<1>7. ASSUME NEW s \in SID, Send(s)
      PROVE  Stored'
  <2>1. UNCHANGED <<tab, paused, closed, buffer, prethru, output>>
    BY <1>7 DEF Send, tables, audio
  <2>2. /\ sent' = [sent EXCEPT ![s] = Append(@, number[s])] /\ Len(sent[s]) < MaxSent
        /\ number' = [number EXCEPT ![s] = (@ + 1) % Unit]
    BY <1>7 DEF Send
  <2>3. sent[s] \in Seq(Tag) /\ number[s] \in Tag /\ (number[s] + 1) % Unit \in Tag
    BY <1>1 DEF Stored
  <2> DEFINE p == Append(sent[s], number[s])
  <2>4. p \in Seq(Tag) /\ Len(p) <= MaxSent
    BY <1>1, <2>2, <2>3, AppendProperties, LenProperties
  <2>5. sent' = [sent EXCEPT ![s] = p]
    BY <2>2
  <2> HIDE DEF p
  <2>6. sent \in [SID -> Seq(Tag)] /\ \A i \in SID : Len(sent[i]) <= MaxSent
    BY DEF Stored
  <2>7. sent' \in [SID -> Seq(Tag)] /\ \A i \in SID : Len(sent'[i]) <= MaxSent
    BY <2>4, <2>5, <2>6
  <2>8. number' \in [SID -> Tag]
    BY <1>1, <2>2 DEF Stored
  <2> QED BY <2>1, <2>7, <2>8 DEF Stored, Live
<1>8. ASSUME NEW s \in SID, Close(s)
      PROVE  Stored'
  BY <1>8 DEF Close, tables, audio, Stored, Live
<1>9. ASSUME NEW s \in SID, Connect(s)
      PROVE  Stored'
  <2>1. UNCHANGED <<paused, closed, buffer, prethru, output, number, sent>>
    BY <1>9 DEF Connect, audio, peers
  <2>2. tab' \in TablesType /\ RawLinked(tab') /\ Live' = Live
    BY <1>9, ConnectLeaves
  <2> QED BY <2>1, <2>2 DEF Stored
<1>10. ASSUME NEW s \in SID, Pause(s)
       PROVE  Stored'
  BY <1>10 DEF Pause, tables, audio, Stored, Live
<1>11. ASSUME NEW s \in SID, AddData(s)
       PROVE  Stored'
  <2> DEFINE x == <<number[s]>>
  <2>1. UNCHANGED <<tab, paused, closed, prethru, output, sent>> /\ s \in Live
    BY <1>11 DEF AddData, tables
  <2>2. number' \in [SID -> Tag]
    BY <1>1, <1>11 DEF Stored, AddData
  <2>3. x \in Seq(Tag) /\ x # <<>>
    BY DEF Stored
  <2>4. roar_buffer_new(x) \in Chunk(Tag)
    BY <1>1, <2>3, NewLeaves
  <2>5. /\ buffer' \in [SID -> Seq(Chunk(Tag))]
        /\ \A i \in SID \ {s} : buffer'[i] = buffer[i]
    BY <1>11, <2>4, AddLeavesOthers DEF AddData, Stored
  <2> QED BY <2>1, <2>2, <2>5 DEF Stored, Live
<1>12. ASSUME NEW s \in SID, SendMon(s)
       PROVE  Stored'
  <2> DEFINE b == roar_buffer_new(Header)
  <2>1. UNCHANGED <<tab, paused, closed, buffer, output, number, sent>>
    BY <1>12 DEF SendMon, audio, peers
  <2>2. Header \in Seq(Datum) /\ Header # <<>>
    BY <1>1 DEF Header, Datum
  <2>3. b \in Chunk(Datum)
    BY <2>2, NewLeaves
  <2> HIDE DEF b
  <2>4. <<b>> \in Seq(Chunk(Datum))
    BY <2>3
  <2>5. \/ prethru' = prethru
        \/ prethru' = [prethru EXCEPT ![s] = <<b>>] /\ s \in Live
    BY <1>12 DEF SendMon, b
  <2> DEFINE e == <<b>>
  <2> HIDE DEF e
  <2>6. prethru' \in [SID -> Seq(Chunk(Datum))] /\ \A i \in SID \ Live : prethru'[i] = prethru[i]
    BY <2>4, <2>5 DEF e, Stored
  <2> QED BY <2>1, <2>6 DEF Stored, Live
<1> QED BY <1>2, <1>3, <1>4, <1>5, <1>6, <1>7, <1>8, <1>9, <1>10, <1>11, <1>12, StoreEffects, Zenon

-----------------------------------------------------------------------------
(* Every step keeps the turn and the calls in order.                        *)

\* The streams that stay are still read, unless a request pauses them between
\* two jobs.
LEMMA InputsStay ==
    ASSUME Stored, job \in Job, Next
    PROVE  /\ \A s \in Live' \cap Live : tab'.streams[s].dir = tab.streams[s].dir
           /\ Live' \subseteq Live
           /\ \A s \in Inputs \cap Live' : s \in Inputs' \/ \E i \in SID : Pause(i)
           /\ \A s \in Inputs' : s \in Inputs \/ \E i \in SID : Pause(i)
<1>1. setup' = setup
  BY TurnEffects
<1>2. CASE \E x : Gone(streams_delete(tab, x))
  <2>1. /\ Live' \subseteq Live /\ paused' = paused \cap Live'
        /\ \A s \in Live' : tab'.streams[s].dir = tab.streams[s].dir
    BY <1>2, GoneStored
  <2> QED BY <1>1, <2>1 DEF Inputs, IsInput, Monitor
<1>3. CASE \E s \in SID : Connect(s)
  <2>1. /\ Live' = Live /\ \A i \in Live : tab'.streams[i].dir = tab.streams[i].dir
    BY <1>3, ConnectLeaves
  <2>2. paused' = paused
    BY <1>3 DEF Connect, peers
  <2> QED BY <1>1, <2>1, <2>2 DEF Inputs, IsInput, Monitor
<1>4. CASE \E s \in SID : Pause(s)
  <2>1. tab' = tab
    BY <1>4 DEF Pause, tables
  <2> QED BY <1>4, <2>1 DEF Live
<1>5. CASE NothingGone
  BY <1>1, <1>5 DEF NothingGone, peers, Inputs, IsInput, Monitor, Live
<1>6. CASE UNCHANGED <<tab, paused>>
  BY <1>1, <1>6 DEF Inputs, IsInput, Monitor, Live
<1>7. CASE Mix \/ ReadData \/ Adds
  <2>1. UNCHANGED <<tab, paused>>
    BY <1>7 DEF Mix, peers, ReadData, tables, Adds
  <2> QED BY <1>6, <2>1
<1>8. CASE \E s \in SID : Send(s) \/ Close(s) \/ AddData(s) \/ SendMon(s)
  <2>1. UNCHANGED <<tab, paused>>
    BY <1>8 DEF Send, Close, AddData, SendMon, tables, peers
  <2> QED BY <1>6, <2>1
<1> QED BY <1>2, <1>3, <1>4, <1>5, <1>7, <1>8, StoreEffects, Zenon

\* The job stays the same but for how far it is, or is over.
SameJob ==
    \/ job'.kind = "none"
    \/ job'.kind = job.kind /\ job'.id = job.id

\* What steps do to the job and to what the stages have to look at.
LEMMA JobStep ==
    ASSUME Stored, Turn, Calling, Next
    PROVE  /\ job' \in Job /\ Len(job'.got) <= PERIOD
           /\ todo' \subseteq SID
           /\ stage' \in {"check", "mix", "mon"}
           /\ \/ SameJob
              \/ \E s \in SID : Check(s) \/ SendMon(s)
<1> USE DEF SameJob
<1>1. PERIOD \in Nat \ {0} /\ job \in Job /\ Len(job.got) <= PERIOD
  BY DataPathAssumption DEF Turn
<1>2. Idle \in Job /\ Len(Idle.got) <= PERIOD /\ Idle.kind = "none"
  BY <1>1 DEF Idle, Job
<1>3. todo \subseteq SID /\ stage \in {"check", "mix", "mon"} /\ Live \subseteq SID
  BY DEF Turn, Live, LiveStreams
<1>4. CASE Crashed
  BY <1>1, <1>3, <1>4 DEF Crashed, vars
<1>5. CASE BeginTurn
  BY <1>1, <1>3, <1>5 DEF BeginTurn
<1>6. CASE Mix
  BY <1>1, <1>3, <1>6 DEF Mix
<1>7. ASSUME NEW s \in SID, NEW kind \in {"check", "raw", "mon"},
             NEW at \in {"read", "header", "first"}, Start(kind, s, at)
      PROVE  job' \in Job /\ Len(job'.got) <= PERIOD /\ todo' \subseteq SID
  <2>1. job' = [kind |-> kind, id |-> s, got |-> <<>>, at |-> at, new |-> Live \ old]
    BY <1>7 DEF Start
  <2>2. job' \in Job /\ job'.got = <<>>
    BY <1>3, <2>1 DEF Job
  <2> QED BY <1>1, <1>3, <1>7, <2>2 DEF Start
<1>8. ASSUME NEW s \in SID, Check(s)
      PROVE  /\ job' \in Job /\ Len(job'.got) <= PERIOD
             /\ todo' \subseteq SID /\ stage' = stage
  <2>1. stage' = stage
    BY <1>8 DEF Check
  <2>2. \/ \E kind \in {"check", "raw", "mon"} : Start(kind, s, "read")
        \/ todo' = todo \ {s} /\ job' = job
    BY <1>8 DEF Check
  <2> QED BY <1>1, <1>3, <1>7, <2>1, <2>2
<1>9. ASSUME NEW s \in SID, SendMon(s)
      PROVE  /\ job' \in Job /\ Len(job'.got) <= PERIOD
             /\ todo' \subseteq SID /\ stage' = stage
  <2>1. stage' = stage
    BY <1>9 DEF SendMon
  <2>2. \/ \E at \in {"read", "header", "first"} : Start("mon", s, at)
        \/ todo' = todo \ {s} /\ job' = job
    BY <1>9 DEF SendMon
  <2> QED BY <1>1, <1>3, <1>7, <2>1, <2>2
<1>10. CASE ReadData
  <2> DEFINE s == job.id
             got == job.got
             left == PERIOD - Len(got)
             n == IF Len(sent[s]) < left THEN Len(sent[s]) ELSE left
             data == SubSeq(sent[s], 1, n)
  <2>1. stage' = stage /\ todo' = todo /\ s \in Live
    BY <1>10 DEF ReadData
  <2>2. s \in SID /\ sent[s] \in Seq(Tag) /\ got \in Seq(Tag)
    BY <1>1, <1>3, <2>1 DEF Stored, Job
  <2>3. Len(sent[s]) \in Nat /\ Len(got) \in Nat /\ Len(got) <= PERIOD
    BY <1>1, <2>2, LenProperties
  <2>4. n \in Nat /\ n <= Len(sent[s]) /\ Len(got) + n <= PERIOD
    <3> HIDE DEF got, s
    <3> QED BY <1>1, <2>3
  <2>5. \E at \in {"read", "end"} :
          job' = [job EXCEPT !.at = at] \/ job' = [job EXCEPT !.at = at, !.got = got \o data]
    BY <1>10 DEF ReadData
  <2>6. data \in Seq(Tag) /\ Len(data) = n
    <3> HIDE DEF s, n
    <3> QED BY <2>2, <2>4, Cut
  <2> HIDE DEF data, n
  <2> DEFINE g == got \o data
  <2>7. g \in Seq(Tag) /\ Len(g) = Len(got) + n
    <3> HIDE DEF got
    <3> QED BY <2>2, <2>6, ConcatProperties
  <2>8. Len(g) <= PERIOD
    BY <2>4, <2>7
  <2> HIDE DEF g
  <2>9. \E at \in {"read", "end"} :
          job' = [job EXCEPT !.at = at] \/ job' = [job EXCEPT !.at = at, !.got = g]
    BY <2>5 DEF g
  <2>10. job' \in Job /\ (job'.got = job.got \/ job'.got = g)
    BY <1>1, <2>7, <2>9 DEF Job
  <2>11. job'.kind = job.kind /\ job'.id = job.id
    BY <1>1, <2>9 DEF Job
  <2> QED BY <1>1, <1>3, <2>1, <2>8, <2>10, <2>11
<1>11. CASE ReadReturns \/ MonWrites \/ CopyTo \/ WriteCopy \/ UseAfterFree
  <2>1. job' = job /\ todo' = todo /\ stage' = stage
    BY <1>11, Zenon DEF ReadReturns, MonWrites, CopyTo, WriteCopy, UseAfterFree
  <2> QED BY <1>1, <1>3, <2>1
<1>12. CASE CheckEnds
  BY <1>2, <1>3, <1>12 DEF CheckEnds, Over
<1>13. ASSUME NEW at \in {"write", "headed", "retry"}, job' = [job EXCEPT !.at = at]
       PROVE  /\ job' \in Job /\ Len(job'.got) <= PERIOD
              /\ job'.kind = job.kind /\ job'.id = job.id
  BY <1>1, <1>13 DEF Job
<1>14. CASE RawEnds
  <2>1. job' = Idle \/ job' = [job EXCEPT !.at = "write"]
    BY <1>14 DEF RawEnds, Over
  <2>2. stage' = stage /\ todo' = todo
    BY <1>14 DEF RawEnds
  <2> QED BY <1>2, <1>3, <1>13, <2>1, <2>2
<1>15. CASE Written
  <2>1. job' = Idle \/ \E at \in {"headed", "retry"} : job' = [job EXCEPT !.at = at]
    BY <1>15 DEF Written, MonWritten, RawWritten, Over
  <2>2. stage' = stage /\ todo' = todo
    BY <1>15 DEF Written
  <2> QED BY <1>2, <1>3, <1>13, <2>1, <2>2
<1>16. CASE \E s \in SID : Send(s) \/ Close(s) \/ Connect(s) \/ Pause(s) \/ AddData(s)
  BY <1>1, <1>3, <1>16 DEF Send, Close, Connect, Pause, AddData
<1> QED BY <1>3, <1>4, <1>5, <1>6, <1>8, <1>9, <1>10, <1>11, <1>12, <1>14, <1>15, <1>16
        DEF Next, Server

\* Every step keeps the turn in order.
LEMMA TurnStep ==
    ASSUME Stored, Turn, Calling, Next
    PROVE  Turn'
<1> USE DEF Turn
<1>1. /\ job' \in Job /\ Len(job'.got) <= PERIOD
      /\ todo' \subseteq SID /\ stage' \in {"check", "mix", "mon"}
  BY JobStep
<1>2. old' \subseteq SID
  <2>1. CASE WriteCopy
    <3> DEFINE caller == stack[Len(stack) - 1]
    <3>1. Len(stack) \in Nat /\ Len(stack) > 1
      BY <2>1, LenProperties DEF WriteCopy, Calling
    <3>2. caller.i \in SID
      BY <3>1 DEF Calling
    <3>3. old' = old \/ old' = old \cup {caller.i}
      BY <2>1, Zenon DEF WriteCopy, WriteEnds
    <3> QED BY <3>2, <3>3
  <2>2. CASE Written
    <3>1. old' = old \/ (old' = old \cup {job.id} /\ job.kind = "mon")
      BY <2>2 DEF Written, MonWritten, RawWritten
    <3> QED BY <3>1
  <2>3. CASE Mix
    BY <2>3 DEF Mix, Inputs, Live, LiveStreams
  <2>4. CASE BeginTurn \/ ReadData \/ ReadReturns \/ MonWrites
    BY <2>4 DEF BeginTurn, ReadData, ReadReturns, MonWrites, tables
  <2>5. CASE CheckEnds \/ RawEnds
    BY <2>5 DEF CheckEnds, RawEnds
  <2>6. CASE CopyTo \/ UseAfterFree \/ Crashed
    BY <2>6, Zenon DEF CopyTo, UseAfterFree, Crashed, vars, tables
  <2>7. CASE \E s \in SID : Check(s) \/ SendMon(s)
    BY <2>7 DEF Check, SendMon, tables
  <2>8. CASE \E s \in SID : Send(s) \/ Close(s) \/ Connect(s) \/ Pause(s) \/ AddData(s)
    BY <2>8 DEF Send, Close, Connect, Pause, AddData, tables
  <2> QED BY <2>1, <2>2, <2>3, <2>4, <2>5, <2>6, <2>7, <2>8 DEF Next, Server
<1>3. Live' \subseteq Live /\ \A s \in Live' \cap Live : tab'.streams[s].dir = tab.streams[s].dir
  BY InputsStay
<1>4. CASE \E s \in SID : Check(s)
  <2>1. PICK s \in SID : Check(s)
    BY <1>4
  <2>2. UNCHANGED <<setup, tab, paused, stage>> /\ stage = "check" /\ job = Idle
    BY <2>1 DEF Check, tables, peers
  <2>3. CASE job' = job
    BY <1>1, <1>2, <2>2, <2>3 DEF Idle
  <2>4. CASE Start(IF tab.streams[s].dir = "RAW_IN" THEN "raw" ELSE "check", s, "read")
    <3>1. job'.id = s /\ job'.kind = IF tab.streams[s].dir = "RAW_IN" THEN "raw" ELSE "check"
      BY <2>4 DEF Start
    <3>2. CASE s \in Live \ paused /\ (IsInput(tab, s) \/ tab.streams[s].dir = "RAW_IN")
      <4>1. tab.streams[s].dir # "RAW_IN" => s \in Inputs
        BY <3>2 DEF Inputs
      <4>2. Inputs' = Inputs /\ Live' = Live
        BY <2>2 DEF Inputs, IsInput, Monitor, Live
      <4>3. s \notin todo'
        BY <2>4 DEF Start
      <4> QED BY <1>1, <1>2, <2>2, <3>1, <4>1, <4>2, <4>3
    <3>3. CASE ~ (s \in Live \ paused /\ (IsInput(tab, s) \/ tab.streams[s].dir = "RAW_IN"))
      BY <2>1, <2>3, <3>3 DEF Check
    <3> QED BY <3>2, <3>3
  <2> QED BY <2>1, <2>3, <2>4 DEF Check
<1>5. CASE \E s \in SID : SendMon(s)
  <2>1. PICK s \in SID : SendMon(s)
    BY <1>5
  <2>2. UNCHANGED <<setup, tab, paused, stage>> /\ job = Idle
    BY <2>1 DEF SendMon, peers
  <2>3. job' = job \/ (job'.kind = "mon" /\ job'.id = s)
    BY <2>1 DEF SendMon, Start
  <2> QED BY <1>1, <1>2, <2>2, <2>3 DEF Idle
<1>6. CASE SameJob
  <2>1. CASE job'.kind = "none"
    BY <1>1, <1>2, <2>1
  <2>2. CASE job'.kind # "none"
    <3>1. job'.kind = job.kind /\ job'.id = job.id /\ job.id \in SID
      BY <1>6, <2>2 DEF SameJob
    <3>2. job # Idle
      BY <2>2, <3>1 DEF Idle
    <3>3. stage' = stage /\ todo' \subseteq todo /\ ~ \E i \in SID : Pause(i)
      <4>1. ~ BeginTurn /\ ~ Mix /\ ~ \E i \in SID : Pause(i) \/ Check(i)
        BY <3>2 DEF BeginTurn, Mix, Pause, Check, Serving
      <4> QED BY <4>1, TurnEffects DEF SameTurn
    <3>4. \A s \in Inputs \cap Live' : s \in Inputs'
      BY <3>3, InputsStay
    <3> QED BY <1>1, <1>2, <1>3, <3>1, <3>3, <3>4
  <2> QED BY <2>1, <2>2
<1> QED BY <1>4, <1>5, <1>6, JobStep

\* Calls that all wait for another one.
Waiting(frames) ==
    frames \in Seq(Frame) /\ \A k \in 1 .. Len(frames) : frames[k].i \in SID

Calls(frames) ==
    frames \in Seq(Frame) /\ \A k \in 1 .. Len(frames) - 1 : frames[k].i \in SID

\* A call on top of others.
LEMMA OnTop ==
    ASSUME NEW frames, Waiting(frames), NEW f \in Frame
    PROVE  Calls(Append(frames, f))
<1> DEFINE n == Len(frames)
           e == Append(frames, f)
<1>1. frames \in Seq(Frame) /\ n \in Nat
  BY LenProperties DEF Waiting
<1>2. e \in Seq(Frame) /\ Len(e) = n + 1 /\ \A k \in 1 .. n : e[k] = frames[k]
  BY <1>1, AppendProperties
<1> HIDE DEF e
<1>3. ASSUME NEW k \in 1 .. Len(e) - 1
      PROVE  e[k].i \in SID
  <2>1. k \in 1 .. n
    BY <1>1, <1>2
  <2> QED BY <1>2, <2>1 DEF Waiting
<1> QED BY <1>2, <1>3 DEF Calls, e

\* The calls below the call at the top.
LEMMA Below ==
    ASSUME NEW frames, Calls(frames), NEW m \in Nat, m < Len(frames)
    PROVE  Waiting(SubSeq(frames, 1, m))
<1> DEFINE e == SubSeq(frames, 1, m)
<1>1. frames \in Seq(Frame) /\ Len(frames) \in Nat
  BY LenProperties DEF Calls
<1>2. e \in Seq(Frame) /\ Len(e) = m /\ \A k \in 1 .. m : e[k] = frames[k]
  <2>1. m <= Len(frames)
    BY <1>1
  <2>2. e \in Seq(Frame) /\ Len(e) = m
    BY <1>1, <2>1, Cut
  <2>3. \A k \in 1 .. m : e[k] = frames[k]
    BY <1>1, <2>1
  <2> QED BY <2>2, <2>3
<1> HIDE DEF e
<1>3. ASSUME NEW k \in 1 .. m
      PROVE  frames[k].i \in SID
  <2>1. k \in 1 .. Len(frames) - 1
    BY <1>1
  <2> QED BY <2>1 DEF Calls
<1> QED BY <1>2, <1>3 DEF Waiting, e

\* No call waits when there is none.
LEMMA NoCalls == Calls(<<>>) /\ Waiting(<<>>)
<1> DEFINE e == <<>>
<1>1. e \in Seq(Frame) /\ Len(e) = 0
  OBVIOUS
<1> HIDE DEF e
<1>2. Calls(e) /\ Waiting(e)
  BY <1>1 DEF Calls, Waiting
<1> QED BY <1>2 DEF e

\* What a call is made with.
LEMMA CallType ==
    ASSUME NEW fn \in {"read", "write"}, NEW s \in SID, NEW data \in Seq(Datum)
    PROVE  Call(fn, s, data) \in Frame
<1>1. 0 \in 0 .. STREAMS_MAX
  BY TablesAssumption
<1> QED BY <1>1 DEF Call, Frame

\* Data of the clients is data.
LEMMA TagData ==
    /\ \A x \in Seq(Tag) : x \in Seq(Datum)
    /\ Header \in Seq(Datum) /\ Mixed \in Seq(Datum)
<1>1. Unit \in Nat \ {0}
  BY DataPathAssumption
<1>2. Tag \subseteq Datum /\ Unit \in Datum /\ Unit + 1 \in Datum
  BY <1>1 DEF Tag, Datum
<1>3. ASSUME NEW x \in Seq(Tag)
      PROVE  x \in Seq(Datum)
  <2>1. \A k \in 1 .. Len(x) : x[k] \in Datum
    BY <1>2, ElementOfSeq
  <2> QED BY <2>1
<1>4. Header \in Seq(Datum) /\ Mixed \in Seq(Datum)
  BY <1>2 DEF Header, Mixed
<1> QED BY <1>3, <1>4

\* Every step keeps the calls in order.
LEMMA CallingStep ==
    ASSUME Stored, Turn, Calling, Next
    PROVE  Calling'
<1>1. Calls(stack) /\ errno \in {"none", "again", "other"} /\ crash \in BOOLEAN
  BY DEF Calling, Calls
<1> DEFINE Well == Calls(stack') /\ errno' \in {"none", "again", "other"} /\ crash' \in BOOLEAN
<1> SUFFICES Well
  BY DEF Calling, Calls
<1>2. ASSUME NEW frames, Waiting(frames), NEW fn \in {"read", "write"}, NEW s \in SID,
             NEW data \in Seq(Datum), Push(frames, fn, s, data)
      PROVE  Calls(stack') /\ errno' = "none"
  BY <1>2, OnTop, CallType DEF Push
<1>3. ASSUME Over, crash' = crash
      PROVE  Well
  BY <1>1, <1>3, NoCalls DEF Over
<1>4. CASE UNCHANGED calls
  BY <1>1, <1>4 DEF calls
<1>5. CASE BeginTurn \/ Mix \/ Crashed
  BY <1>4, <1>5 DEF BeginTurn, Mix, Crashed, vars, calls
<1>6. CASE \E s \in SID : Check(s) \/ SendMon(s)
  BY <1>4, <1>6 DEF Check, SendMon
<1>7. CASE \E s \in SID : Send(s) \/ Close(s) \/ Connect(s) \/ Pause(s) \/ AddData(s)
  BY <1>4, <1>7 DEF Send, Close, Connect, Pause, AddData
<1>8. CASE ReadData
  <2> DEFINE s == job.id
             n == IF Len(sent[s]) < PERIOD - Len(job.got) THEN Len(sent[s])
                  ELSE PERIOD - Len(job.got)
             data == SubSeq(sent[s], 1, n)
  <2>1. crash' = crash /\ s \in Live
    BY <1>8 DEF ReadData
  <2>2. \/ errno' = "again" /\ stack' = stack
        \/ Push(<<>>, "read", s, data)
    BY <1>8, Zenon DEF ReadData
  <2>3. s \in SID /\ data \in Seq(Datum)
    <3>1. s \in SID /\ sent[s] \in Seq(Tag) /\ job.got \in Seq(Tag) /\ Len(job.got) <= PERIOD
      BY <2>1 DEF Live, LiveStreams, Stored, Turn, Job
    <3>2. Len(sent[s]) \in Nat /\ Len(job.got) \in Nat /\ PERIOD \in Nat
      BY <3>1, LenProperties, DataPathAssumption
    <3>3. n \in Nat /\ n <= Len(sent[s])
      BY <3>1, <3>2
    <3> HIDE DEF n
    <3>4. data \in Seq(Tag)
      BY <3>1, <3>3, Cut
    <3> QED BY <3>1, <3>4, TagData
  <2> HIDE DEF data
  <2> QED BY <1>1, <1>2, <2>1, <2>2, <2>3, NoCalls
<1>9. CASE ReadReturns
  BY <1>1, <1>9, NoCalls DEF ReadReturns
<1>10. CASE CheckEnds
  BY <1>3, <1>10 DEF CheckEnds
<1>11. CASE RawEnds
  <2>1. crash' = crash
    BY <1>11 DEF RawEnds
  <2>2. CASE Over
    BY <1>3, <2>1, <2>2
  <2>3. CASE job.id \in Live /\ Push(<<>>, "write", tab.streams[job.id].pos_rel_id, job.got)
    <3>1. tab.streams[job.id].dir = "RAW_IN"
      BY <1>11, <2>3 DEF Turn, RawEnds
    <3>2. tab.streams[job.id].pos_rel_id \in SID
      BY <2>3, <3>1 DEF Stored, RawLinked, Live, LiveStreams
    <3>3. job.got \in Seq(Datum)
      BY TagData DEF Turn, Job
    <3> QED BY <1>1, <1>2, <2>1, <2>3, <3>2, <3>3, NoCalls
  <2> QED BY <1>11, <2>2, <2>3 DEF RawEnds
<1>12. CASE MonWrites
  <2>1. crash' = crash /\ job.id \in SID
    BY <1>12 DEF MonWrites, Turn
  <2>2. \E data \in Seq(Datum) : Push(<<>>, "write", job.id, data)
    BY <1>12, TagData DEF MonWrites
  <2> QED BY <1>1, <1>2, <2>1, <2>2, NoCalls
<1>13. CASE Written
  <2>1. crash' = crash
    BY <1>13 DEF Written
  <2>2. Over \/ (stack' = <<>> /\ errno' = errno)
    BY <1>13 DEF Written, MonWritten, RawWritten
  <2> QED BY <1>1, <1>3, <2>1, <2>2, NoCalls
<1>14. CASE CopyTo
  <2>1. crash' = crash /\ stack # <<>> /\ Top.id \in Live
    BY <1>14 DEF CopyTo
  <2> DEFINE Kind(i) == IF WantsHeader(Top, i) THEN "header" ELSE "data"
  <2>2. PICK i \in SID :
          Push([stack EXCEPT ![Len(stack)] = [Top EXCEPT !.i = i, !.at = Kind(i)]], "write", i,
               IF Kind(i) = "header" THEN Content(prethru[Top.id]) ELSE Top.data)
    BY <1>14, Zenon DEF CopyTo
  <2> DEFINE kind == Kind(i)
             n == Len(stack)
             f == [Top EXCEPT !.i = i, !.at = kind]
             frames == [stack EXCEPT ![n] = f]
             data == IF kind = "header" THEN Content(prethru[Top.id]) ELSE Top.data
  <2>3. stack \in Seq(Frame) /\ n \in Nat /\ n \in 1 .. n
    BY <1>1, <2>1, EmptySeq, LenProperties DEF Calls
  <2>4. Top \in Frame
    BY <2>3, ElementOfSeq DEF Top
  <2>5. f \in Frame /\ f.i \in SID
    <3>1. i \in 0 .. STREAMS_MAX
      BY TablesAssumption DEF SID
    <3>2. kind \in {"look", "header", "again", "data"}
      OBVIOUS
    <3> HIDE DEF kind
    <3> QED BY <2>4, <3>1, <3>2 DEF Frame
  <2>6. data \in Seq(Datum)
    <3>1. Top.data \in Seq(Datum) /\ prethru[Top.id] \in Seq(Chunk(Datum))
      BY <2>1, <2>4 DEF Frame, Stored, Live, LiveStreams
    <3>2. Content(prethru[Top.id]) \in Seq(Datum)
      BY <3>1, ContentType
    <3> QED BY <3>1, <3>2
  <2> HIDE DEF f, data, n
  <2>7. frames \in Seq(Frame) /\ Len(frames) = n /\ frames[n] = f
        /\ \A k \in 1 .. n : k # n => frames[k] = stack[k]
    BY <2>3, <2>5, ExceptSeq DEF n
  <2>8. Waiting(frames)
    <3>1. ASSUME NEW k \in 1 .. n
          PROVE  frames[k].i \in SID
      <4>1. CASE k = n
        BY <2>5, <2>7, <4>1
      <4>2. CASE k # n
        <5>1. k \in 1 .. Len(stack) - 1
          BY <2>3, <4>2 DEF n
        <5> HIDE DEF frames
        <5> QED BY <1>1, <2>7, <4>2, <5>1 DEF Calls
      <4> QED BY <4>1, <4>2
    <3> HIDE DEF frames
    <3> QED BY <2>7, <3>1 DEF Waiting
  <2>9. Push(frames, "write", i, data)
    BY <2>2 DEF f, data, n
  <2> HIDE DEF frames
  <2> QED BY <1>1, <1>2, <2>1, <2>6, <2>8, <2>9
<1>15. CASE WriteCopy
  <2> DEFINE n == Len(stack)
             caller == stack[n - 1]
             frames == SubSeq(stack, 1, n - 2)
  <2>1. crash' = crash /\ n > 1
    BY <1>15 DEF WriteCopy
  <2>2. PICK outcome : WriteEnds(Top, outcome)
    BY <1>15 DEF WriteCopy
  <2>3. stack \in Seq(Frame) /\ n \in Nat
    BY <1>1, LenProperties DEF Calls
  <2>4. n - 1 \in 1 .. n - 1 /\ n - 1 \in 1 .. n /\ n - 2 \in Nat /\ n - 2 < n
    BY <2>1, <2>3
  <2>5. caller \in Frame /\ caller.i \in SID
    BY <1>1, <2>3, <2>4, ElementOfSeq DEF Calls
  <2>6. Waiting(frames)
    BY <1>1, <2>4, Below
  <2>7. errno' \in {"none", "again", "other"}
    BY <1>1, <2>2 DEF WriteEnds, Errno
  <2>8. stack' = Append(frames, Copied(caller, outcome = "full"))
    BY <2>2, Zenon DEF WriteEnds
  <2> HIDE DEF frames, caller
  <2>9. Copied(caller, outcome = "full") \in Frame
    <3> DEFINE j == caller.i + 1
    <3>1. j \in 0 .. STREAMS_MAX
      BY <2>5, TablesAssumption DEF SID
    <3>2. \/ Copied(caller, outcome = "full") = [caller EXCEPT !.at = "again"]
          \/ Copied(caller, outcome = "full") = [caller EXCEPT !.at = "look", !.i = j]
      BY Zenon DEF Copied
    <3> HIDE DEF j
    <3>3. /\ [caller EXCEPT !.at = "again"] \in Frame
          /\ [caller EXCEPT !.at = "look", !.i = j] \in Frame
      BY <2>5, <3>1 DEF Frame
    <3> QED BY <3>2, <3>3
  <2> QED BY <1>1, <2>1, <2>6, <2>7, <2>8, <2>9, OnTop
<1>16. CASE UseAfterFree
  BY <1>1, <1>16 DEF UseAfterFree
<1> QED BY <1>5, <1>6, <1>7, <1>8, <1>9, <1>10, <1>11, <1>12, <1>13, <1>14, <1>15, <1>16, Zenon
        DEF Next, Server

-----------------------------------------------------------------------------
(* Every step keeps the queues in order.                                    *)

\* The mixer has not yet taken what was read from s in this turn.
Unmixed(s) == stage = "check" /\ s \notin todo /\ (job.kind = "check" => job.id # s)

\* Only the mixer ends that.
LEMMA UnmixedStays ==
    ASSUME Turn, Next, ~ Mix, NEW s, Unmixed(s)
    PROVE  Unmixed(s)'
<1>1. CASE SameTurn
  BY <1>1 DEF SameTurn, Unmixed
<1>2. CASE BeginTurn
  BY <1>2 DEF BeginTurn, Unmixed
<1>3. ASSUME NEW i \in SID, Check(i)
      PROVE  Unmixed(s)'
  <2>1. i \in todo /\ stage' = stage /\ i # s
    BY <1>3 DEF Check, Unmixed
  <2>2. todo' = todo \ {i} /\ (job' = job \/ job'.id = i)
    BY <1>3 DEF Check, Start
  <2> QED BY <2>1, <2>2 DEF Unmixed
<1> QED BY <1>1, <1>2, <1>3, TurnEffects DEF Turn

\* A chain that is not NULL holds data.
LEMMA BacklogPositive ==
    ASSUME Stored, NEW s \in SID, buffer[s] # <<>>
    PROVE  Backlog(s) > 0
<1> DEFINE c == Content(buffer[s])
<1>1. buffer[s] \in Seq(Chunk(Tag))
  BY DEF Stored
<1>2. c \in Seq(Tag) /\ c # <<>>
  BY <1>1, ContentType, ContentNull, Zenon
<1> HIDE DEF c
<1>3. Len(c) > 0
  BY <1>2, EmptySeq, LenProperties
<1> QED BY <1>3 DEF Backlog, c

\* Every step keeps the queues of streams that do not lag behind short.
LEMMA QueuedStep ==
    ASSUME Stored, Turn, Calling, Queued, Next
    PROVE  Queued'
<1> SUFFICES ASSUME NEW s \in SID \ lagged', buffer'[s] # <<>>
             PROVE  s \in Inputs' /\ Backlog(s)' <= PERIOD /\ Unmixed(s)'
  BY DEF Queued, Unmixed
<1>1. setup' = setup
  BY TurnEffects DEF Turn
<1>2. ASSUME s \notin lagged, buffer'[s] = buffer[s], s \in Inputs => s \in Inputs', ~ Mix
      PROVE  s \in Inputs' /\ Backlog(s)' <= PERIOD /\ Unmixed(s)'
  <2>1. s \in Inputs /\ Backlog(s) <= PERIOD /\ Unmixed(s)
    BY <1>2 DEF Queued, Unmixed
  <2>2. Backlog(s)' = Backlog(s)
    BY <1>2 DEF Backlog
  <2> QED BY <1>2, <2>1, <2>2, UnmixedStays
<1>3. CASE Mix
  <2>1. lagged' = lagged
    BY <1>3 DEF Mix, peers
  <2>2. CASE s \notin Inputs
    BY <1>3, <2>1, <2>2, MixLeaves DEF Queued
  <2>3. CASE s \in Inputs /\ buffer[s] = <<>>
    BY <1>3, <2>3, MixLeaves
  <2>4. CASE s \in Inputs /\ buffer[s] # <<>>
    <3> DEFINE z == Content(buffer[s])
    <3>1. z \in Seq(Tag) /\ Len(z) <= PERIOD /\ PERIOD \in Nat
      BY <2>1, <2>4, ContentType, DataPathAssumption DEF Stored, Queued, Backlog
    <3>2. Content(buffer'[s]) = SubSeq(z, PERIOD + 1, Len(z))
      BY <1>3, <2>4, MixLeaves
    <3> HIDE DEF z
    <3>3. SubSeq(z, PERIOD + 1, Len(z)) = <<>>
      <4>1. Len(z) \in Nat /\ Len(z) < PERIOD + 1
        BY <3>1, LenProperties
      <4> QED BY <3>1, <4>1
    <3>4. buffer'[s] \in Seq(Chunk(Tag))
      BY <1>3, MixLeaves
    <3>5. buffer'[s] = <<>>
      BY <3>2, <3>3, <3>4, ContentNull, Zenon
    <3> QED BY <3>5
  <2> QED BY <2>2, <2>3, <2>4
<1>4. CASE NothingGone /\ ~ Mix
  BY <1>1, <1>2, <1>4 DEF NothingGone, peers, Inputs, IsInput, Monitor, Live
<1>5. CASE (\E x : Gone(streams_delete(tab, x))) /\ ~ Mix
  <2>1. /\ Live' \subseteq Live
        /\ \A i \in Live' : tab'.streams[i].dir = tab.streams[i].dir
        /\ \A i \in SID : buffer'[i] = IF i \in Live' THEN buffer[i] ELSE <<>>
        /\ paused' = paused \cap Live' /\ lagged' = lagged \cap Live'
    BY <1>5, GoneStored
  <2>2. s \in Live' /\ buffer'[s] = buffer[s] /\ s \notin lagged
    BY <2>1
  <2>3. s \in Inputs => s \in Inputs'
    BY <1>1, <2>1, <2>2 DEF Inputs, IsInput, Monitor
  <2> QED BY <1>2, <1>5, <2>2, <2>3
<1>6. CASE ReadData /\ ~ Mix
  <2>1. UNCHANGED <<tab, paused, buffer, lagged>>
    BY <1>6 DEF ReadData, tables, audio
  <2> QED BY <1>1, <1>2, <1>6, <2>1 DEF Inputs, IsInput, Monitor, Live
<1>7. CASE Adds /\ ~ Mix
  <2>1. /\ UNCHANGED <<tab, paused, lagged, stage, todo>> /\ job' = Idle
        /\ job.id \in Live /\ job.kind = "check"
    BY <1>7 DEF Adds, CheckEnds, Over, peers
  <2>2. Inputs' = Inputs
    BY <1>1, <2>1 DEF Inputs, IsInput, Monitor, Live
  <2>3. job.got \in Seq(Tag) /\ Len(job.got) <= PERIOD /\ job.got # <<>>
    BY <1>7 DEF Turn, Job, Adds
  <2>4. job.id \in SID /\ Got(job.got) \in Chunk(Tag) /\ UserData(Got(job.got)) = job.got
    BY <2>1, <2>3, GotLeaves DEF Turn
  <2>5. /\ \A i \in SID \ {job.id} : buffer'[i] = buffer[i]
        /\ Content(buffer'[job.id]) = Content(buffer[job.id]) \o UserData(Got(job.got))
    BY <1>7, <2>4, AddLeavesOthers DEF Adds, Stored
  <2>6. CASE s # job.id
    BY <1>2, <1>7, <2>1, <2>2, <2>5, <2>6
  <2>7. CASE s = job.id
    <3>1. buffer[s] = <<>>
      BY <2>1, <2>7 DEF Queued
    <3>2. Content(buffer'[s]) = <<>> \o job.got
      BY <2>4, <2>5, <2>7, <3>1, ContentEmpty, Zenon
    <3>3. Content(buffer'[s]) = job.got
      BY <2>3, <3>2, ConcatEmptySeq, Zenon
    <3>4. Backlog(s)' <= PERIOD
      BY <2>3, <3>3 DEF Backlog
    <3>5. s \in Inputs'
      BY <2>1, <2>2, <2>7 DEF Turn
    <3>6. Unmixed(s)'
      BY <2>1, <2>7 DEF Turn, Unmixed, Idle
    <3> QED BY <3>4, <3>5, <3>6
  <2> QED BY <2>6, <2>7
<1>8. ASSUME NEW i \in SID, Send(i) \/ Close(i) \/ SendMon(i), ~ Mix
      PROVE  s \in Inputs' /\ Backlog(s)' <= PERIOD /\ Unmixed(s)'
  <2>1. UNCHANGED <<tab, paused, buffer, lagged>>
    BY <1>8 DEF Send, Close, SendMon, tables, audio, peers
  <2> QED BY <1>1, <1>2, <1>8, <2>1 DEF Inputs, IsInput, Monitor, Live
<1>9. ASSUME NEW i \in SID, Connect(i), ~ Mix
      PROVE  s \in Inputs' /\ Backlog(s)' <= PERIOD /\ Unmixed(s)'
  <2>1. UNCHANGED <<paused, buffer, lagged>>
    BY <1>9 DEF Connect, audio, peers
  <2>2. Live' = Live /\ \A k \in Live : tab'.streams[k].dir = tab.streams[k].dir
    BY <1>9, ConnectLeaves
  <2> QED BY <1>1, <1>2, <1>9, <2>1, <2>2 DEF Inputs, IsInput, Monitor
<1>10. ASSUME NEW i \in SID, Pause(i), ~ Mix
       PROVE  s \in Inputs' /\ Backlog(s)' <= PERIOD /\ Unmixed(s)'
  <2>1. UNCHANGED <<tab, buffer>> /\ lagged' = IF Backlog(i) > 0 THEN lagged \cup {i} ELSE lagged
    BY <1>10 DEF Pause, tables, audio
  <2>2. paused' = IF i \in paused THEN paused \ {i} ELSE paused \cup {i}
    BY <1>10 DEF Pause
  <2>3. Backlog(s) > 0
    BY <2>1, BacklogPositive
  <2>4. s # i /\ s \notin lagged
    BY <2>1, <2>3
  <2>5. s \in Inputs => s \in Inputs'
    BY <1>1, <2>1, <2>2, <2>4 DEF Inputs, IsInput, Monitor, Live
  <2> QED BY <1>2, <1>10, <2>1, <2>4, <2>5
<1>11. ASSUME NEW i \in SID, AddData(i), ~ Mix
       PROVE  s \in Inputs' /\ Backlog(s)' <= PERIOD /\ Unmixed(s)'
  <2>1. UNCHANGED <<tab, paused>> /\ lagged' = lagged \cup {i}
    BY <1>11 DEF AddData, tables
  <2>2. s # i /\ s \notin lagged
    BY <2>1
  <2>3. buffer'[s] = buffer[s]
    <3>1. buffer \in [SID -> Seq(Chunk(Tag))]
      BY DEF Stored
    <3> QED BY <1>11, <2>2, <3>1 DEF AddData, stream_add_buffer
  <2>4. Inputs' = Inputs
    BY <1>1, <2>1 DEF Inputs, IsInput, Monitor, Live
  <2> QED BY <1>2, <1>11, <2>2, <2>3, <2>4
<1> QED BY <1>3, <1>4, <1>5, <1>6, <1>7, <1>8, <1>9, <1>10, <1>11, StoreEffects, Zenon

\* Every step keeps what is played again to streams that have run dry.
LEMMA DryStep ==
    ASSUME Stored, Turn, Calling, OldDataOnlyWhenDry, Next
    PROVE  OldDataOnlyWhenDry'
<1> DEFINE Stale(s) == \E k \in 1 .. PERIOD : output[s][k] \in {"old", "unset"}
<1> SUFFICES ASSUME stage' = "mon", NEW s \in Inputs', Stale(s)'
             PROVE  buffer'[s] = <<>>
  BY DEF OldDataOnlyWhenDry
<1>1. setup' = setup /\ s \in SID
  BY TurnEffects DEF Turn, Inputs, Live, LiveStreams
<1>2. CASE Mix
  <2>1. UNCHANGED <<tab, paused>>
    BY <1>2 DEF Mix, peers
  <2>2. s \in Inputs
    BY <1>1, <2>1 DEF Inputs, IsInput, Monitor, Live
  <2> QED BY <1>2, <2>2, MixLeaves
<1>3. CASE ~ Mix
  <2>1. stage = "mon"
    <3>1. SameTurn \/ BeginTurn \/ \E i \in SID : Check(i)
      BY <1>3, TurnEffects DEF Turn
    <3> QED BY <3>1 DEF SameTurn, BeginTurn, Check
  <2>2. ~ Adds /\ ~ \E i \in SID : Connect(i) \/ Pause(i) \/ AddData(i)
    BY <2>1 DEF Adds, CheckEnds, Turn, Connect, Pause, AddData, Serving
  <2>3. ASSUME s \in Inputs, output'[s] = output[s], buffer'[s] = buffer[s]
        PROVE  buffer'[s] = <<>>
    BY <2>1, <2>3 DEF OldDataOnlyWhenDry
  <2>4. CASE NothingGone
    <3>1. UNCHANGED <<tab, paused, buffer, output>>
      BY <2>4 DEF NothingGone, peers
    <3>2. s \in Inputs
      BY <1>1, <3>1 DEF Inputs, IsInput, Monitor, Live
    <3> QED BY <2>3, <3>1, <3>2
  <2>5. CASE \E x : Gone(streams_delete(tab, x))
    <3>1. /\ Live' \subseteq Live
          /\ \A i \in Live' : tab'.streams[i].dir = tab.streams[i].dir
          /\ \A i \in SID : buffer'[i] = IF i \in Live' THEN buffer[i] ELSE <<>>
          /\ \A i \in SID : output'[i] = IF i \in Live' THEN output[i]
                                         ELSE [k \in 1 .. PERIOD |-> "unset"]
          /\ paused' = paused \cap Live'
      BY <2>5, GoneStored
    <3>2. s \in Live' /\ s \in Inputs
      BY <1>1, <3>1 DEF Inputs, IsInput, Monitor
    <3>3. buffer'[s] = buffer[s] /\ output'[s] = output[s]
      BY <1>1, <3>1, <3>2
    <3> QED BY <2>3, <3>2, <3>3
  <2>6. CASE ReadData \/ \E i \in SID : Send(i) \/ Close(i) \/ SendMon(i)
    <3>1. UNCHANGED <<tab, paused, buffer, output>>
      BY <2>6 DEF ReadData, Send, Close, SendMon, tables, audio, peers
    <3>2. s \in Inputs
      BY <1>1, <3>1 DEF Inputs, IsInput, Monitor, Live
    <3> QED BY <2>3, <3>1, <3>2
  <2> QED BY <1>3, <2>2, <2>4, <2>5, <2>6, StoreEffects, Zenon
<1> QED BY <1>2, <1>3

\* Nothing is kept when the main loop is entered.
LEMMA InitOrder == Init => DPInv
<1> SUFFICES ASSUME Init PROVE DPInv
  OBVIOUS
<1> USE DEF Init
<1>1. PERIOD \in Nat \ {0} /\ Unit \in Nat \ {0} /\ MaxSent \in Nat
  BY DataPathAssumption
<1>2. tab \in TablesType /\ RawLinked(tab)
  BY DataPathAssumption
<1>3. <<>> \in Seq(Chunk(Tag)) /\ <<>> \in Seq(Chunk(Datum)) /\ <<>> \in Seq(Tag) /\ Len(<<>>) = 0
  BY EmptySeq, Zenon
<1>4. \A s \in SID : buffer[s] = <<>> /\ prethru[s] = <<>> /\ sent[s] = <<>>
  OBVIOUS
<1>5. Stored
  <2>1. buffer \in [SID -> Seq(Chunk(Tag))]
    BY <1>3
  <2>2. prethru \in [SID -> Seq(Chunk(Datum))]
    BY <1>3
  <2>3. sent \in [SID -> Seq(Tag)]
    BY <1>3
  <2>4. output \in [SID -> [1 .. PERIOD -> Place]] /\ number \in [SID -> Tag]
    BY <1>1 DEF Place, Tag
  <2>5. \A s \in SID : Len(sent[s]) <= MaxSent
    <3>1. 0 <= MaxSent
      BY <1>1
    <3> QED BY <1>3, <1>4, <3>1, Zenon
  <2> QED BY <1>2, <1>4, <2>1, <2>2, <2>3, <2>4, <2>5 DEF Stored
<1>6. Calling
  BY NoCalls DEF Calling, Calls
<1>7. Turn
  <2>1. job \in Job /\ job.kind = "none" /\ job.got = <<>>
    BY DEF Idle, Job
  <2>2. Len(job.got) <= PERIOD
    BY <1>1, <2>1
  <2> QED BY <2>1, <2>2 DEF Turn
<1>8. Queued /\ OldDataOnlyWhenDry
  BY <1>4 DEF Queued, OldDataOnlyWhenDry, Inputs, Live, LiveStreams
<1> QED BY <1>5, <1>6, <1>7, <1>8 DEF DPInv

\* Every step keeps the invariant.
LEMMA StepOrder == DPInv /\ [Next]_vars => DPInv'
<1> SUFFICES ASSUME DPInv, [Next]_vars PROVE DPInv'
  OBVIOUS
<1>1. CASE Next
  BY <1>1, StoredStep, CallingStep, TurnStep, QueuedStep, DryStep DEF DPInv
<1>2. CASE UNCHANGED vars
  <2>1. Stored' /\ Calling'
    BY <1>2 DEF DPInv, vars, Stored, Calling, Live
  <2>2. Turn' /\ Queued' /\ OldDataOnlyWhenDry'
    BY <1>2 DEF DPInv, vars, Turn, Queued, OldDataOnlyWhenDry, Live, Inputs, IsInput, Monitor,
                Backlog
  <2> QED BY <2>1, <2>2 DEF DPInv
<1> QED BY <1>1, <1>2

-----------------------------------------------------------------------------
(* The results.                                                             *)

\* The data path keeps its invariant, for every set of servers and clients.
THEOREM DataInvariance == Spec => []DPInv
BY InitOrder, StepOrder, PTL DEF Spec

\* Buffers, calls and tables stay well formed, whatever is deleted during a
\* call: no buffer points outside its memory and nothing is kept for streams
\* that are gone.
THEOREM DataTypesCorrect == Spec => []DPTypeOK
<1>1. DPInv => DPTypeOK
  <2> SUFFICES ASSUME DPInv PROVE DPTypeOK
    OBVIOUS
  <2>1. ASSUME NEW s \in SID, NEW k \in DOMAIN buffer[s]
        PROVE  /\ buffer[s][k].offset >= 0 /\ buffer[s][k].user_len > 0
               /\ buffer[s][k].offset + buffer[s][k].user_len <= Len(buffer[s][k].data)
    <3>1. buffer[s] \in Seq(Chunk(Tag))
      BY DEF DPInv, Stored
    <3>2. buffer[s][k] \in Chunk(Tag)
      BY <3>1
    <3> QED BY <3>2 DEF Chunk
  <2>2. \A k \in DOMAIN stack : stack[k] \in Frame
    BY DEF DPInv, Calling
  <2> QED BY <2>1, <2>2 DEF DPInv, DPTypeOK, Stored, Calling, Turn, Place
<1> QED BY <1>1, DataInvariance, PTL

\* The mixer hears a place of the output buffer again only when the stream has
\* run dry.
THEOREM DryCorrect == Spec => []OldDataOnlyWhenDry
<1>1. DPInv => OldDataOnlyWhenDry
  BY DEF DPInv
<1> QED BY <1>1, DataInvariance, PTL

\* streams_check() loses no data at the end of a stream.
THEOREM DrainedCorrect == Spec => DrainedAtEof
<1>1. DPInv => (job.kind = "check" /\ job.id \in Live => job.id \in lagged \/ buffer[job.id] = <<>>)
  BY DEF DPInv, Queued, Live, LiveStreams
<1>2. DPInv /\ [Next]_vars =>
        [job.kind = "check" /\ job' = Idle /\ job.id \in Live \ Live' =>
            job.id \in lagged \/ buffer[job.id] = <<>>]_vars
  BY <1>1
<1> QED BY <1>2, DataInvariance, PTL DEF Spec, DrainedAtEof

\* The queues that the chains of buffers implement.
Queues == [s \in SID |-> Content(buffer[s])]

\* A block that is added to a chain is put into the queue.
LEMMA AddIsPut ==
    ASSUME Stored, NEW s \in SID, NEW b \in Chunk(Tag), stream_add_buffer(s, b),
           Len(UserData(b)) <= PERIOD
    PROVE  \E k \in 1 .. PERIOD : \E block \in [1 .. k -> Tag] :
             Queues' = [Queues EXCEPT ![s] = @ \o block]
<1> DEFINE x == UserData(b)
           n == Len(x)
<1>1. x \in Seq(Tag) /\ n \in Nat \ {0} /\ n <= PERIOD /\ PERIOD \in Nat
  BY ChunkLen, DataPathAssumption
<1>2. /\ \A i \in SID \ {s} : buffer'[i] = buffer[i]
      /\ Content(buffer'[s]) = Content(buffer[s]) \o x
  BY AddLeavesOthers DEF Stored
<1> HIDE DEF x
<1>3. x \in [1 .. n -> Tag] /\ n \in 1 .. PERIOD
  BY <1>1
<1>4. \A i \in SID : Queues'[i] = IF i = s THEN Queues[s] \o x ELSE Queues[i]
  BY <1>2, Zenon DEF Queues
<1>5. Queues' = [Queues EXCEPT ![s] = Queues[s] \o x]
  BY <1>4 DEF Queues
<1> QED BY <1>3, <1>5

\* Every step is a step of the queues or leaves them as they are.
LEMMA StepIsQueueStep ==
    ASSUME DPInv, Next
    PROVE  \/ Queues' = Queues
           \/ \E s \in SID : \E k \in 1 .. PERIOD : \E block \in [1 .. k -> Tag] :
                Queues' = [Queues EXCEPT ![s] = @ \o block]
           \/ \E S \in SUBSET SID :
                Queues' = [s \in SID |->
                    IF s \in S THEN SubSeq(Queues[s], PERIOD + 1, Len(Queues[s])) ELSE Queues[s]]
           \/ \E S \in SUBSET SID :
                Queues' = [s \in SID |-> IF s \in S THEN <<>> ELSE Queues[s]]
<1>1. CASE buffer' = buffer
  BY <1>1 DEF Queues
<1>2. CASE NothingGone
  BY <1>1, <1>2 DEF NothingGone
<1>3. CASE \E x : Gone(streams_delete(tab, x))
  <2>1. \A s \in SID : buffer'[s] = IF s \in Live' THEN buffer[s] ELSE <<>>
    BY <1>3, GoneStored DEF DPInv
  <2> DEFINE S == SID \ Live'
             q == [s \in SID |-> IF s \in S THEN <<>> ELSE Queues[s]]
  <2>2. \A s \in SID : Queues'[s] = Content(buffer'[s]) /\ Queues[s] = Content(buffer[s])
    BY DEF Queues
  <2>3. ASSUME NEW s \in SID
        PROVE  Queues'[s] = q[s]
    <3>1. CASE s \in S
      <4>1. buffer'[s] = <<>> /\ q[s] = <<>>
        BY <2>1, <3>1
      <4> QED BY <2>2, <4>1, ContentEmpty, Zenon
    <3>2. CASE s \notin S
      BY <2>1, <2>2, <3>2
    <3> QED BY <3>1, <3>2
  <2>4. Queues' = q
    BY <2>3 DEF Queues
  <2> QED BY <2>4
<1>4. CASE Mix
  <2> DEFINE Rest(c) == SubSeq(c, PERIOD + 1, Len(c))
             q == [s \in SID |-> IF s \in Inputs THEN Rest(Queues[s]) ELSE Queues[s]]
  <2>1. /\ \A s \in SID \ Inputs : buffer'[s] = buffer[s]
        /\ \A s \in Inputs : Content(buffer'[s]) = Rest(Content(buffer[s]))
    BY <1>4, MixLeaves DEF DPInv
  <2>2. \A s \in SID : Queues'[s] = Content(buffer'[s]) /\ Queues[s] = Content(buffer[s])
    BY DEF Queues
  <2> HIDE DEF Rest
  <2>3. \A s \in SID : Queues'[s] = q[s]
    BY <2>1, <2>2
  <2>4. Queues' = q
    BY <2>3 DEF Queues
  <2>5. Inputs \in SUBSET SID
    BY DEF Inputs, Live, LiveStreams
  <2> QED BY <2>4, <2>5 DEF Rest
<1>5. CASE Adds
  <2>1. job.got \in Seq(Tag) /\ Len(job.got) <= PERIOD /\ job.got # <<>> /\ job.id \in SID
    BY <1>5 DEF DPInv, Turn, Job, Adds, Live, LiveStreams
  <2>2. Got(job.got) \in Chunk(Tag) /\ UserData(Got(job.got)) = job.got
    BY <2>1, GotLeaves
  <2> QED BY <1>5, <2>1, <2>2, AddIsPut DEF Adds, DPInv
<1>6. ASSUME NEW s \in SID, AddData(s)
      PROVE  \E k \in 1 .. PERIOD : \E block \in [1 .. k -> Tag] :
               Queues' = [Queues EXCEPT ![s] = @ \o block]
  <2> DEFINE x == <<number[s]>>
  <2>1. x \in Seq(Tag) /\ x # <<>> /\ Len(x) = 1
    BY DEF DPInv, Stored
  <2>2. Tag \subseteq Datum /\ 1 <= PERIOD
    BY DataPathAssumption DEF Tag, Datum
  <2>3. roar_buffer_new(x) \in Chunk(Tag) /\ UserData(roar_buffer_new(x)) = x
    BY <2>1, <2>2, NewLeaves
  <2>4. stream_add_buffer(s, roar_buffer_new(x))
    BY <1>6 DEF AddData
  <2> QED BY <2>1, <2>2, <2>3, <2>4, AddIsPut DEF DPInv
<1>7. CASE ReadData \/ \E s \in SID : Send(s) \/ Close(s) \/ Connect(s) \/ Pause(s) \/ SendMon(s)
  <2>1. buffer' = buffer
    BY <1>7 DEF ReadData, Send, Close, Connect, Pause, SendMon, audio
  <2> QED BY <1>1, <2>1
<1> QED BY <1>2, <1>3, <1>4, <1>5, <1>6, <1>7, StoreEffects

\* The chains of buffers implement the queues of module Queue.
THEOREM QueueRefined == Spec => RefinesQueue
<1>1. Init => Q!QInit
  <2> SUFFICES ASSUME Init PROVE Q!QInit
    OBVIOUS
  <2>1. \A s \in SID : buffer[s] = <<>>
    BY DEF Init
  <2>2. \A s \in SID : Content(buffer[s]) = <<>>
    BY <2>1, ContentEmpty, Zenon
  <2> QED BY <2>2 DEF Q!QInit
<1>2. DPInv /\ [Next]_vars => [Q!QNext]_[s \in SID |-> Content(buffer[s])]
  <2> SUFFICES ASSUME DPInv, [Next]_vars,
                      ~ UNCHANGED [s \in SID |-> Content(buffer[s])]
               PROVE  Q!QNext
    OBVIOUS
  <2>1. Queues' # Queues
    BY DEF Queues
  <2>2. Next
    BY <2>1 DEF vars, Queues
  <2> USE DEF Queues
  <2>3. CASE \E s \in SID : \E k \in 1 .. PERIOD : \E block \in [1 .. k -> Tag] :
                Queues' = [Queues EXCEPT ![s] = @ \o block]
    BY <2>1, <2>3, Zenon DEF Q!QNext, Q!Put
  <2>4. CASE \E S \in SUBSET SID :
                Queues' = [s \in SID |->
                    IF s \in S THEN SubSeq(Queues[s], PERIOD + 1, Len(Queues[s])) ELSE Queues[s]]
    BY <2>1, <2>4, Zenon DEF Q!QNext, Q!Take
  <2>5. CASE \E S \in SUBSET SID :
                Queues' = [s \in SID |-> IF s \in S THEN <<>> ELSE Queues[s]]
    BY <2>1, <2>5, Zenon DEF Q!QNext, Q!Drop
  <2> HIDE DEF Queues
  <2> QED BY <2>1, <2>2, <2>3, <2>4, <2>5, StepIsQueueStep
<1> QED BY <1>1, <1>2, DataInvariance, PTL DEF Spec, RefinesQueue, Q!QSpec

-----------------------------------------------------------------------------
(***************************************************************************)
(* Copies.  The calls on the stack follow the relations of THRU streams    *)
(* upwards: every call but the first writes to a THRU stream of the stream *)
(* of the call below it.  Since no chain of copies runs in a circle, no    *)
(* stream is there twice.                                                  *)
(***************************************************************************)

Rel(s) == tab.streams[s].pos_rel_id

\* The streams are linked as the tables of a server are, and only monitors
\* have a header to write.
Linked ==
    /\ ThruLinked(tab)
    /\ setup.headed \subseteq Monitor
    /\ \A s \in Live \cap Monitor : tab.streams[s].dir = "PLAY"
    /\ \A s \in SID : prethru[s] # <<>> => s \in Monitor

\* What the stream of call f hands on to the THRU stream it waits for.
Handed(f) == IF f.at = "header" THEN Content(prethru[f.id]) ELSE f.data

\* Call f waits for call g, which writes to a THRU stream unless that is gone.
Serves(f, g) ==
    /\ f.i = g.id /\ f.at \in {"header", "data"}
    /\ g.id \in Live => Copies(g.id, f.id) /\ g.data = Handed(f)

\* There is no job, no call and nothing said of earlier ones.
AtRest ==
    /\ job = Idle /\ stack = <<>>
    /\ \A s \in SID : passed[s] = <<>> /\ copied[s] = <<>>

Nested ==
    /\ passed \in [SID -> Seq(Datum)] /\ copied \in [SID -> Seq(Datum)]
    /\ \A k \in 1 .. Len(stack) - 1 : Serves(stack[k], stack[k + 1])
    /\ \A k \in 1 .. Len(stack) :
        stack[k].id \in Monitor => stack[k].fn = "write" /\ stack[k].data # <<>>
    /\ stack # <<>> =>
        /\ Top.at \in {"look", "again"}
        /\ Top.at = "again" => Copies(Top.i, Top.id)
        /\ job.kind \in {"check", "mon"} => stack[1].id = job.id
    /\ job.kind = "none" => AtRest
    /\ job.kind = "mon" => job.at # "read"

\* Deletion leaves the copies in order, and a THRU stream that stays keeps the
\* stream it copies.
LEMMA DeleteCopies ==
    ASSUME NEW t \in TablesType, ThruLinked(t), NEW x
    PROVE  LET u == streams_delete(t, x) IN
           /\ ThruLinked(u)
           /\ \A s \in LiveStreams(u) :
                /\ s \in LiveStreams(t)
                /\ u.streams[s].dir = t.streams[s].dir
                /\ u.streams[s].ready = t.streams[s].ready
                /\ t.streams[s].dir = "THRU" =>
                       u.streams[s].pos_rel_id = t.streams[s].pos_rel_id
<1> DEFINE u == streams_delete(t, x)
<1>1. CASE u = t
  BY <1>1
<1>2. CASE u = Quit
  <2>1. LiveStreams(Quit) = {}
    BY DEF LiveStreams, Quit
  <2> QED BY <1>2, <2>1 DEF ThruLinked, NoCircle
<1>3. ASSUME x \in LiveStreams(t), u # Quit
      PROVE  /\ ThruLinked(u)
             /\ \A s \in LiveStreams(u) :
                  /\ s \in LiveStreams(t)
                  /\ u.streams[s].dir = t.streams[s].dir
                  /\ u.streams[s].ready = t.streams[s].ready
                  /\ t.streams[s].dir = "THRU" =>
                         u.streams[s].pos_rel_id = t.streams[s].pos_rel_id
  <2>1. u = Delete(t, {x}, {}) /\ {} \in SUBSET LiveClients(t)
    BY <1>3 DEF streams_delete
  <2>2. PICK D, L : /\ D = Doomed(t, {x}) /\ L \in SUBSET LiveClients(t)
                    /\ u = Remove(t, D, L)
    <3> DEFINE v == Delete(t, {x}, {})
    <3>1. \/ v = Quit
          \/ \E D, L : D = Doomed(t, {x}) /\ L \in SUBSET LiveClients(t) /\ v = Remove(t, D, L)
      BY <2>1, DeleteCases
    <3> QED BY <1>3, <2>1, <3>1, Zenon
  <2>3. D \in SUBSET LiveStreams(t) /\ Closed(t, D)
    BY <2>2, DoomedLive, DoomedClosed
  <2> HIDE DEF u
  <2>4. Without(t, D, L, u)
    BY <2>2, <2>3, RemoveLeaves
  <2>5. LiveStreams(u) = LiveStreams(t) \ D
    BY <2>4 DEF Without
  <2>6. \A s \in LiveStreams(u) :
          /\ u.streams[s].dir = t.streams[s].dir
          /\ u.streams[s].ready = t.streams[s].ready
          /\ u.streams[s].virtual = t.streams[s].virtual
          /\ u.streams[s].pos_rel_id \in {t.streams[s].pos_rel_id, None}
    BY <2>4 DEF Without
  <2>7. ASSUME NEW s \in LiveStreams(u), t.streams[s].dir = "THRU"
        PROVE  /\ u.streams[s].pos_rel_id = t.streams[s].pos_rel_id
               /\ u.streams[s].pos_rel_id \in LiveStreams(u)
    <3> DEFINE p == t.streams[s].pos_rel_id
    <3>1. s \in LiveStreams(t) \ D /\ p \in LiveStreams(t)
      BY <2>5, <2>7 DEF ThruLinked
    <3>2. p # s
      <4>1. {s} \in (SUBSET LiveStreams(t)) \ {{}}
        BY <3>1
      <4>2. \E j \in {s} : t.streams[j].dir # "THRU" \/ t.streams[j].pos_rel_id \notin {s}
        BY <4>1 DEF ThruLinked, NoCircle
      <4> QED BY <2>7, <4>2
    <3>3. Dependent(t, s, p)
      BY <2>7, <3>2 DEF Dependent
    <3>4. p \notin D
      BY <2>3, <3>1, <3>3 DEF Closed, Triggers
    <3>5. u.streams[s].pos_rel_id = p
      BY <2>4, <3>4 DEF Without
    <3> QED BY <2>5, <3>1, <3>4, <3>5
  <2>8. ASSUME NEW i \in LiveStreams(u), u.streams[i].dir = "THRU",
               NEW j \in LiveStreams(u), Dependent(u, j, i)
        PROVE  u.streams[j].dir = "THRU"
    <3>1. i # None
      BY NoneIsNoStream DEF LiveStreams
    <3>2. Dependent(t, j, i)
      BY <2>6, <2>8, <3>1 DEF Dependent
    <3>3. t.streams[j].dir = "THRU"
      BY <2>5, <2>6, <2>8, <3>2 DEF ThruLinked
    <3> QED BY <2>6, <3>3
  <2>9. NoCircle(u)
    <3> SUFFICES ASSUME NEW S \in (SUBSET LiveStreams(u)) \ {{}}
                 PROVE  \E i \in S : u.streams[i].dir # "THRU" \/ u.streams[i].pos_rel_id \notin S
      BY DEF NoCircle
    <3>1. S \in (SUBSET LiveStreams(t)) \ {{}}
      BY <2>5
    <3>2. PICK i \in S : t.streams[i].dir # "THRU" \/ t.streams[i].pos_rel_id \notin S
      BY <3>1 DEF ThruLinked, NoCircle
    <3> QED BY <2>6, <2>7, <3>2
  <2>10. \A i \in LiveStreams(u) : u.streams[i].dir = "THRU" => ~ u.streams[i].virtual
    BY <2>5, <2>6 DEF ThruLinked
  <2>11. ThruLinked(u)
    BY <2>6, <2>7, <2>8, <2>9, <2>10 DEF ThruLinked
  <2> QED BY <2>5, <2>6, <2>7, <2>11
<1>4. x \notin LiveStreams(t) => u = t
  BY DEF streams_delete
<1> QED BY <1>1, <1>2, <1>3, <1>4

\* p is a way along n streams, each of which but the first is a THRU stream of
\* the one before, unless it is gone.
Way(t, p, n) ==
    /\ p \in [1 .. n -> SID]
    /\ \A k \in 2 .. n : p[k] \in LiveStreams(t) =>
           t.streams[p[k]].dir = "THRU" /\ t.streams[p[k]].pos_rel_id = p[k - 1]

\* When the last stream of a way is there, all of them are.
LEMMA WayLive ==
    ASSUME NEW t, ThruLinked(t), NEW n \in Nat \ {0}, NEW p, Way(t, p, n),
           p[n] \in LiveStreams(t)
    PROVE  \A k \in 1 .. n : p[k] \in LiveStreams(t)
<1> DEFINE T == {m \in 0 .. n - 1 : p[n - m] \in LiveStreams(t)}
<1>1. 0 \in T
  BY DEF T
<1>2. ASSUME NEW m \in 0 .. (n - 1) - 1, m \in T
      PROVE  m + 1 \in T
  <2>1. /\ n - m \in 2 .. n /\ (n - m) - 1 = n - (m + 1) /\ m + 1 \in 0 .. n - 1
    OBVIOUS
  <2>2. p[n - m] \in LiveStreams(t)
    BY <1>2
  <2>3. t.streams[p[n - m]].dir = "THRU" /\ t.streams[p[n - m]].pos_rel_id = p[n - (m + 1)]
    BY <2>1, <2>2 DEF Way
  <2>4. p[n - (m + 1)] \in LiveStreams(t)
    BY <2>2, <2>3 DEF ThruLinked
  <2> QED BY <2>1, <2>4
<1> HIDE DEF T
<1>3. 0 .. n - 1 \subseteq T
  <2>1. n - 1 \in Nat
    OBVIOUS
  <2> QED BY <1>1, <1>2, <2>1, UpTo
<1> SUFFICES ASSUME NEW k \in 1 .. n PROVE p[k] \in LiveStreams(t)
  OBVIOUS
<1>4. n - k \in 0 .. n - 1 /\ n - (n - k) = k
  OBVIOUS
<1> QED BY <1>3, <1>4 DEF T

\* And no stream is there twice.
LEMMA WayOnce ==
    ASSUME NEW t, ThruLinked(t), NEW n \in Nat \ {0}, NEW p, Way(t, p, n),
           p[n] \in LiveStreams(t), NEW j \in 1 .. n, NEW k \in 1 .. n, j < k
    PROVE  p[j] # p[k]
<1> SUFFICES ASSUME p[j] = p[k] PROVE FALSE
  OBVIOUS
<1> DEFINE S == {p[m] : m \in j + 1 .. k}
<1>1. \A m \in 1 .. n : p[m] \in LiveStreams(t)
  BY WayLive
<1>2. ASSUME NEW m \in j + 1 .. k
      PROVE  t.streams[p[m]].dir = "THRU" /\ t.streams[p[m]].pos_rel_id \in S
  <2>1. m \in 2 .. n /\ m \in 1 .. n /\ k \in j + 1 .. k
    OBVIOUS
  <2>2. t.streams[p[m]].dir = "THRU" /\ t.streams[p[m]].pos_rel_id = p[m - 1]
    BY <1>1, <2>1 DEF Way
  <2>3. CASE m = j + 1
    <3>1. m - 1 = j
      BY <2>3
    <3> QED BY <2>1, <2>2, <3>1
  <2>4. CASE m # j + 1
    <3>1. m - 1 \in j + 1 .. k
      BY <2>4
    <3> QED BY <2>2, <3>1
  <2> QED BY <2>3, <2>4
<1>3. S \in (SUBSET LiveStreams(t)) \ {{}}
  <2>1. \A m \in j + 1 .. k : m \in 1 .. n
    OBVIOUS
  <2>2. k \in j + 1 .. k
    OBVIOUS
  <2> QED BY <1>1, <2>1, <2>2
<1>4. \E i \in S : t.streams[i].dir # "THRU" \/ t.streams[i].pos_rel_id \notin S
  <2> HIDE DEF S
  <2> QED BY <1>3 DEF ThruLinked, NoCircle
<1> QED BY <1>2, <1>4

\* None of the streams has a client that was turned into a THRU stream.
NoneExeced(t, D) ==
    \A s \in D : \A c \in CID : ~ (ExecedBy(t, s, c) /\ t.streams[s].dir = "THRU")

\* The streams that go with a THRU stream are copies of it, and copies of
\* those, unless a client was turned into one of them.
LEMMA DoomedAreCopies ==
    ASSUME NEW t \in TablesType, ThruLinked(t), NEW i \in LiveStreams(t),
           t.streams[i].dir = "THRU", NEW D, D = Doomed(t, {i}),
           NoneExeced(t, D)
    PROVE  \A d \in D : /\ t.streams[d].dir = "THRU"
                        /\ d = i \/ t.streams[d].pos_rel_id \in D
<1> DEFINE G == {d \in D : /\ t.streams[d].dir = "THRU"
                           /\ d = i \/ t.streams[d].pos_rel_id \in D}
<1>1. D \in SUBSET LiveStreams(t) /\ Closed(t, D) /\ i \in D
  BY DoomedLive, DoomedClosed
<1>2. i \in G /\ G \in SUBSET LiveStreams(t)
  BY <1>1
<1>3. ASSUME NEW s \in G, NEW j \in LiveStreams(t) \ G, Triggers(t, s, j)
      PROVE  FALSE
  <2>1. s \in D /\ t.streams[s].dir = "THRU" /\ s \in LiveStreams(t)
    BY <1>1
  <2>2. j \in D
    BY <1>1, <1>3, <2>1 DEF Closed
  <2>3. CASE Dependent(t, j, s)
    <3>1. t.streams[j].dir = "THRU" /\ t.streams[j].pos_rel_id = s
      BY <2>1, <2>3 DEF ThruLinked, Dependent
    <3> QED BY <1>3, <2>1, <2>2, <3>1
  <2>4. CASE TakesParent(t, s, j)
    BY <2>1, <2>4 DEF ThruLinked, TakesParent
  <2>5. CASE \E c \in CID : ExecedBy(t, s, c)
    BY <2>1, <2>5 DEF NoneExeced
  <2> QED BY <1>3, <2>3, <2>4, <2>5 DEF Triggers
<1> HIDE DEF G
<1>4. Closed(t, G)
  BY <1>3 DEF Closed
<1>5. D \subseteq G
  BY <1>2, <1>4 DEF Doomed
<1> QED BY <1>5 DEF G

\* They are not on the way to it.
LEMMA WaySpared ==
    ASSUME NEW t \in TablesType, ThruLinked(t), NEW n \in Nat \ {0}, NEW p, Way(t, p, n),
           p[n] \in LiveStreams(t), t.streams[p[n]].dir = "THRU",
           NEW D, D \in SUBSET LiveStreams(t),
           \A d \in D : /\ t.streams[d].dir = "THRU"
                        /\ d = p[n] \/ t.streams[d].pos_rel_id \in D,
           NEW k \in 1 .. n, k < n
    PROVE  p[k] \notin D
<1> SUFFICES ASSUME p[k] \in D PROVE FALSE
  OBVIOUS
<1> DEFINE W == {p[m] : m \in k + 1 .. n}
           S == D \cup W
<1>1. \A m \in 1 .. n : p[m] \in LiveStreams(t)
  BY WayLive
<1>2. ASSUME NEW m \in k + 1 .. n
      PROVE  t.streams[p[m]].dir = "THRU" /\ t.streams[p[m]].pos_rel_id \in S
  <2>1. m \in 2 .. n /\ m \in 1 .. n
    OBVIOUS
  <2>2. t.streams[p[m]].dir = "THRU" /\ t.streams[p[m]].pos_rel_id = p[m - 1]
    BY <1>1, <2>1 DEF Way
  <2>3. CASE m = k + 1
    <3>1. m - 1 = k
      BY <2>3
    <3> QED BY <2>2, <3>1
  <2>4. CASE m # k + 1
    <3>1. m - 1 \in k + 1 .. n
      BY <2>4
    <3> QED BY <2>2, <3>1
  <2> QED BY <2>3, <2>4
<1>3. \A d \in D : t.streams[d].dir = "THRU" /\ t.streams[d].pos_rel_id \in S
  <2>1. n \in k + 1 .. n
    OBVIOUS
  <2>2. t.streams[p[n]].pos_rel_id \in S
    BY <1>2, <2>1
  <2> HIDE DEF W
  <2> QED BY <2>2
<1>4. S \in (SUBSET LiveStreams(t)) \ {{}}
  <2>1. \A m \in k + 1 .. n : m \in 1 .. n
    OBVIOUS
  <2>2. W \subseteq LiveStreams(t)
    BY <1>1, <2>1
  <2> HIDE DEF W
  <2> QED BY <2>2
<1>5. \A i \in S : t.streams[i].dir = "THRU" /\ t.streams[i].pos_rel_id \in S
  BY <1>2, <1>3
<1>6. \E i \in S : t.streams[i].dir # "THRU" \/ t.streams[i].pos_rel_id \notin S
  <2> HIDE DEF S
  <2> QED BY <1>4 DEF ThruLinked, NoCircle
<1> QED BY <1>5, <1>6

\* A stream that is connected stays linked.
LEMMA ConnectLinked ==
    ASSUME Stored, ThruLinked(tab), NEW s \in SID, Connect(s)
    PROVE  ThruLinked(tab')
<1> DEFINE r == [tab.streams[s] EXCEPT !.fh = TRUE, !.ready = TRUE]
<1>1. tab \in TablesType /\ s \in LiveStreams(tab) /\ tab.streams[s] \in Stream
  BY DEF Stored, Connect, Live, LiveStreams, TablesType
<1>2. /\ r \in Stream /\ r.dir = tab.streams[s].dir /\ r.virtual = tab.streams[s].virtual
      /\ r.pos_rel_id = tab.streams[s].pos_rel_id
  BY <1>1 DEF Stream
<1>3. tab' = Put(tab, s, r)
  <2>1. tab' = [tab EXCEPT !.streams[s].fh = TRUE, !.streams[s].ready = TRUE]
    BY DEF Connect
  <2>2. tab' = [tab EXCEPT !.streams[s] = r]
    BY <1>1, <2>1 DEF TablesType
  <2> QED BY <2>2 DEF Put
<1> HIDE DEF r
<1>4. /\ LiveStreams(tab') = LiveStreams(tab)
      /\ tab'.streams[s] = r
      /\ \A i \in SID \ {s} : tab'.streams[i] = tab.streams[i]
  BY <1>1, <1>2, <1>3, PutLeaves
<1>5. \A i \in LiveStreams(tab) :
        /\ tab'.streams[i].dir = tab.streams[i].dir
        /\ tab'.streams[i].virtual = tab.streams[i].virtual
        /\ tab'.streams[i].pos_rel_id = tab.streams[i].pos_rel_id
  BY <1>2, <1>4 DEF LiveStreams
<1>6. \A i, j \in LiveStreams(tab) : Dependent(tab', j, i) <=> Dependent(tab, j, i)
  BY <1>5 DEF Dependent
<1>7. NoCircle(tab')
  <2> SUFFICES ASSUME NEW S \in (SUBSET LiveStreams(tab')) \ {{}}
               PROVE  \E i \in S : tab'.streams[i].dir # "THRU" \/ tab'.streams[i].pos_rel_id \notin S
    BY DEF NoCircle
  <2>1. S \in (SUBSET LiveStreams(tab)) \ {{}}
    BY <1>4
  <2>2. PICK i \in S : tab.streams[i].dir # "THRU" \/ tab.streams[i].pos_rel_id \notin S
    BY <2>1 DEF ThruLinked, NoCircle
  <2> QED BY <1>5, <2>1, <2>2
<1> QED BY <1>4, <1>5, <1>6, <1>7 DEF ThruLinked

\* Every step leaves the streams linked.
LEMMA LinkedStep ==
    ASSUME Stored, Turn, Linked, Next
    PROVE  Linked'
<1>1. setup' = setup
  BY TurnEffects DEF Turn
<1>2. CASE UNCHANGED <<tab, prethru>>
  BY <1>1, <1>2 DEF Linked, Live, Monitor
<1>3. CASE \E x : Gone(streams_delete(tab, x))
  <2>1. PICK x : Gone(streams_delete(tab, x))
    BY <1>3
  <2> DEFINE t == streams_delete(tab, x)
  <2>2. tab' = t /\ prethru' = [s \in SID |-> IF s \in LiveStreams(t) THEN prethru[s] ELSE <<>>]
    BY <2>1, Zenon DEF Gone
  <2>3. ThruLinked(t) /\ \A s \in LiveStreams(t) : /\ s \in LiveStreams(tab)
                                                   /\ t.streams[s].dir = tab.streams[s].dir
    BY DeleteCopies DEF Stored, Linked
  <2> HIDE DEF t
  <2> QED BY <1>1, <2>2, <2>3 DEF Linked, Live, Monitor
<1>4. CASE \E s \in SID : Connect(s)
  <2>1. PICK s \in SID : Connect(s)
    BY <1>4
  <2>2. Live' = Live /\ \A i \in Live : tab'.streams[i].dir = tab.streams[i].dir
    BY <2>1, ConnectLeaves
  <2>3. ThruLinked(tab') /\ prethru' = prethru
    <3>1. prethru' = prethru
      BY <2>1 DEF Connect
    <3> QED BY <2>1, <3>1, ConnectLinked DEF Linked
  <2> QED BY <1>1, <2>2, <2>3 DEF Linked, Monitor
<1>5. CASE \E s \in SID : SendMon(s)
  <2>1. PICK s \in SID : SendMon(s)
    BY <1>5
  <2>2. tab' = tab
    BY <2>1 DEF SendMon
  <2>3. \/ prethru' = prethru
        \/ s \in setup.headed /\ prethru' = [prethru EXCEPT ![s] = <<roar_buffer_new(Header)>>]
    BY <2>1 DEF SendMon
  <2>4. \A i \in SID : i # s => prethru'[i] = prethru[i]
    BY <2>3 DEF Stored
  <2>5. prethru' = prethru \/ s \in Monitor
    BY <2>3 DEF Linked
  <2> QED BY <1>1, <2>2, <2>4, <2>5 DEF Linked, Live, Monitor
<1>6. CASE NothingGone \/ Mix \/ ReadData \/ Adds
  BY <1>2, <1>6 DEF NothingGone, Mix, ReadData, Adds, tables
<1>7. CASE \E s \in SID : Send(s) \/ Close(s) \/ Pause(s) \/ AddData(s)
  BY <1>2, <1>7 DEF Send, Close, Pause, AddData, tables
<1> QED BY <1>3, <1>4, <1>5, <1>6, <1>7, StoreEffects, Zenon

-----------------------------------------------------------------------------
(* What the steps do to the calls.                                          *)

\* The job is the one it was, however far it is.
SameRun ==
    \/ job' = job
    \/ /\ job.kind # "none" /\ job'.kind = job.kind /\ job'.id = job.id /\ job'.new = job.new
       /\ job'.at = "read" => job.at = "read"

\* Nothing happens to the calls.
Quiet == SameRun /\ UNCHANGED <<setup, tab, old, prethru, stack, passed, copied>>

\* Between the jobs, or the begin of one.
Fresh ==
    /\ job = Idle /\ setup' = setup /\ UNCHANGED <<stack, passed, copied>>
    /\ \/ job' = job
       \/ /\ job'.kind # "none" /\ job'.new = Live \ old /\ tab' = tab /\ old' = old
          /\ job'.kind = "mon" => job'.at # "read"

\* streams_check(), raw_check_stream() or streams_send_mon() call.
Begins ==
    \E fn \in {"read", "write"}, s \in SID, data \in Seq(Datum) :
        /\ stack = <<>> /\ job.kind # "none" /\ SameRun
        /\ Push(<<>>, fn, s, data)
        /\ UNCHANGED <<setup, tab, old, prethru, copied>>
        /\ job.kind \in {"check", "mon"} => s = job.id
        /\ s \in Monitor => fn = "write" /\ data # <<>>

\* All copies of what was read or written are made.
Settled == stack = <<>> \/ (Len(stack) = 1 /\ NoMoreCopies(Top))

\* The call returns, and the job goes on.
Returns ==
    /\ Settled /\ stack' = <<>> /\ SameRun
    /\ UNCHANGED <<setup, tab, old, prethru, passed, copied>>

\* The job is over.
Ends ==
    /\ Settled /\ Over /\ setup' = setup
    /\ tab' = tab \/ \E x : tab' = streams_delete(tab, x)

\* A step does one of these, or it makes or ends a copy.
LEMMA CallEffects ==
    ASSUME DPInv, Linked, Nested, Next
    PROVE  Quiet \/ Fresh \/ Begins \/ CopyTo \/ WriteCopy \/ Returns \/ Ends
<1> USE DEF SameRun
<1>1. job \in Job /\ Live \subseteq SID
  BY DEF DPInv, Turn, Live, LiveStreams
<1>2. CASE BeginTurn \/ Crashed \/ UseAfterFree
  BY <1>2 DEF BeginTurn, Crashed, UseAfterFree, vars, Quiet, tables, calls
<1>3. CASE \E s \in SID : Send(s) \/ Close(s) \/ Pause(s) \/ AddData(s)
  BY <1>3 DEF Send, Close, Pause, AddData, Quiet, tables, calls
<1>4. CASE Mix
  BY <1>4 DEF Mix, Fresh, calls
<1>5. CASE \E s \in SID : Connect(s)
  BY <1>5 DEF Connect, Serving, Fresh, calls
<1>6. ASSUME NEW s \in SID, Check(s) \/ SendMon(s)
      PROVE  Fresh
  <2>1. job = Idle /\ UNCHANGED <<setup, tab, old, stack, passed, copied>>
    BY <1>6 DEF Check, SendMon, tables, calls
  <2>2. \/ job' = job
        \/ \E kind \in {"raw", "check"} : Start(kind, s, "read")
        \/ \E at \in {"header", "first"} : Start("mon", s, at)
    BY <1>6 DEF Check, SendMon
  <2>3. \/ job' = job
        \/ /\ job'.kind # "none" /\ job'.new = Live \ old
           /\ job'.kind = "mon" => job'.at # "read"
    BY <2>2 DEF Start
  <2> QED BY <2>1, <2>3 DEF Fresh
<1>7. CASE ReadData
  <2> DEFINE s == job.id
             n == IF Len(sent[s]) < PERIOD - Len(job.got) THEN Len(sent[s])
                  ELSE PERIOD - Len(job.got)
             data == SubSeq(sent[s], 1, n)
  <2>1. /\ s \in Live /\ stack = <<>> /\ job.at = "read"
        /\ UNCHANGED <<setup, tab, old, prethru, copied>>
    BY <1>7 DEF ReadData, tables
  <2>2. job.kind # "none"
    BY <2>1 DEF Nested, AtRest, Idle
  <2>3. SameRun
    <3> DEFINE g == job.got \o data
    <3>1. \E at \in {"read", "end"} :
            job' = [job EXCEPT !.at = at] \/ job' = [job EXCEPT !.at = at, !.got = g]
      BY <1>7 DEF ReadData
    <3> HIDE DEF g
    <3> QED BY <1>1, <2>1, <2>2, <3>1 DEF Job
  <2>4. \/ UNCHANGED <<stack, passed>>
        \/ Push(<<>>, "read", s, data)
    BY <1>7, Zenon DEF ReadData
  <2>5. s \in SID /\ data \in Seq(Datum)
    <3>1. s \in SID /\ sent[s] \in Seq(Tag) /\ job.got \in Seq(Tag) /\ Len(job.got) <= PERIOD
      BY <2>1 DEF Live, LiveStreams, DPInv, Stored, Turn, Job
    <3>2. Len(sent[s]) \in Nat /\ Len(job.got) \in Nat /\ PERIOD \in Nat
      BY <3>1, LenProperties, DataPathAssumption
    <3>3. n \in Nat /\ n <= Len(sent[s])
      BY <3>1, <3>2
    <3> HIDE DEF n
    <3>4. data \in Seq(Tag)
      BY <3>1, <3>3, Cut
    <3> QED BY <3>1, <3>4, TagData
  <2>6. s \notin Monitor
    <3>1. job.kind \in {"check", "raw", "mon"}
      BY <1>1, <2>2 DEF Job
    <3>2. CASE job.kind = "check"
      BY <2>1, <3>2 DEF DPInv, Turn, Inputs, IsInput
    <3>3. CASE job.kind = "raw"
      BY <2>1, <3>3 DEF DPInv, Turn, Linked
    <3>4. CASE job.kind = "mon"
      BY <2>1, <3>4 DEF Nested
    <3> QED BY <3>1, <3>2, <3>3, <3>4
  <2> HIDE DEF data
  <2> QED BY <2>1, <2>2, <2>3, <2>4, <2>5, <2>6 DEF Quiet, Begins
<1>8. CASE ReadReturns
  BY <1>8 DEF ReadReturns, Returns, Settled, tables
<1>9. ASSUME Settled, Over, setup' = setup, NothingGone \/ \E x : Gone(streams_delete(tab, x))
      PROVE  Ends
  BY <1>9 DEF Ends, NothingGone, Gone
<1>10. CASE CheckEnds
  <2>1. Settled /\ Over /\ setup' = setup
    BY <1>10 DEF CheckEnds, Settled
  <2>2. tab' = tab \/ \E x : tab' = streams_delete(tab, x)
    BY <1>10 DEF CheckEnds, NothingGone, Gone
  <2> QED BY <2>1, <2>2 DEF Ends
<1>11. CASE RawEnds
  <2>1. stack = <<>> /\ UNCHANGED <<setup, old>> /\ job.kind = "raw"
    BY <1>11 DEF RawEnds
  <2>2. CASE job.got = <<>>
    <3>1. Over /\ Gone(streams_delete(tab, job.id))
      BY <1>11, <2>2 DEF RawEnds
    <3> QED BY <1>9, <2>1, <3>1 DEF Settled
  <2>3. CASE job.got # <<>>
    <3>1. /\ job.id \in Live /\ Push(<<>>, "write", Rel(job.id), job.got)
          /\ job' = [job EXCEPT !.at = "write"] /\ UNCHANGED <<tab, prethru, copied>>
      BY <1>11, <2>3 DEF RawEnds, NothingGone, Rel
    <3>2. tab.streams[job.id].dir = "RAW_IN"
      BY <2>1, <3>1 DEF DPInv, Turn
    <3>3. Rel(job.id) \in Live /\ tab.streams[Rel(job.id)].dir = "RAW_OUT"
      BY <3>1, <3>2 DEF DPInv, Stored, RawLinked, Live, Rel
    <3>4. Rel(job.id) \in SID /\ Rel(job.id) \notin Monitor
      BY <1>1, <3>3 DEF Linked
    <3>5. job.got \in Seq(Datum)
      BY <1>1, TagData DEF Job
    <3>6. SameRun
      BY <1>1, <2>1, <3>1 DEF Job
    <3> QED BY <2>1, <3>1, <3>4, <3>5, <3>6 DEF Begins
  <2> QED BY <2>2, <2>3
<1>12. CASE MonWrites
  <2>1. /\ job.kind = "mon" /\ stack = <<>> /\ job' = job
        /\ UNCHANGED <<setup, tab, old, prethru, copied>>
    BY <1>12 DEF MonWrites, tables
  <2>2. job.id \in SID
    BY <2>1 DEF DPInv, Turn
  <2>3. Header # <<>> /\ Mixed # <<>>
    BY DEF Header, Mixed
  <2>4. \E data \in Seq(Datum) : data # <<>> /\ Push(<<>>, "write", job.id, data)
    BY <1>12, <2>3, TagData, Zenon DEF MonWrites
  <2> QED BY <2>1, <2>2, <2>4 DEF Begins
<1>13. CASE Written
  <2>1. Settled /\ setup' = setup
    BY <1>13 DEF Written, Settled
  <2>2. PICK outcome : MonWritten(outcome) \/ RawWritten(outcome)
    BY <1>13 DEF Written
  <2>3. NothingGone \/ \E x : Gone(streams_delete(tab, x))
    BY <2>2 DEF MonWritten, RawWritten
  <2>4. CASE Over
    BY <1>9, <2>1, <2>3, <2>4
  <2>5. CASE ~ Over
    <3> DEFINE next == MonReacts(outcome, Errno(outcome))
    <3>1. MonWritten(outcome) /\ job.kind = "mon" /\ next \in {"headed", "retry"}
      BY <2>2, <2>5 DEF MonWritten, RawWritten
    <3>2. /\ job' = [job EXCEPT !.at = next] /\ stack' = <<>> /\ UNCHANGED <<passed, copied>>
          /\ old' = old /\ NothingGone
      BY <3>1 DEF MonWritten
    <3> HIDE DEF next
    <3>3. SameRun
      BY <1>1, <3>1, <3>2 DEF Job
    <3> QED BY <2>1, <3>2, <3>3 DEF Returns, NothingGone
  <2> QED BY <2>4, <2>5
<1> QED BY <1>2, <1>3, <1>4, <1>5, <1>6, <1>7, <1>8, <1>10, <1>11, <1>12, <1>13
        DEF Next, Server

\* The call at the top of n calls, now f, waits for call g, a write to i.
CopyBegins(i, f, g, n) ==
    /\ n = Len(stack) /\ Top \in Frame /\ Top.id \in Live /\ NextCopy(Top, i)
    /\ f.fn = Top.fn /\ f.id = Top.id /\ f.data = Top.data /\ f.i = i
    /\ f.at = IF WantsHeader(Top, i) THEN "header" ELSE "data"
    /\ g.fn = "write" /\ g.id = i /\ g.data = Handed(f) /\ g.i = 0 /\ g.at = "look"
    /\ Len(stack') = n + 1 /\ stack'[n + 1] = g /\ stack'[n] = f
    /\ \A k \in 1 .. n - 1 : stack'[k] = stack[k]
    /\ passed' = [passed EXCEPT ![i] = @ \o g.data]
    /\ UNCHANGED <<setup, tab, old, prethru, job, copied>>

\* CopyTo does this.
LEMMA CopyToLeaves ==
    ASSUME DPInv, CopyTo
    PROVE  \E i \in SID, f \in Frame, g \in Frame, n \in Nat \ {0} : CopyBegins(i, f, g, n)
<1>1. stack # <<>> /\ Top.id \in Live /\ UNCHANGED <<setup, tab, old, prethru, job, copied>>
  BY DEF CopyTo, tables
<1> DEFINE Kind(i) == IF WantsHeader(Top, i) THEN "header" ELSE "data"
           Before(i) == [Top EXCEPT !.i = i, !.at = Kind(i)]
           Data(i) == IF Kind(i) = "header" THEN Content(prethru[Top.id]) ELSE Top.data
<1>2. PICK i \in SID : /\ NextCopy(Top, i)
                       /\ Push([stack EXCEPT ![Len(stack)] = Before(i)], "write", i, Data(i))
  BY Zenon DEF CopyTo
<1> DEFINE n == Len(stack)
           kind == Kind(i)
           f == Before(i)
           data == Data(i)
           g == Call("write", i, data)
           frames == [stack EXCEPT ![n] = f]
<1>3. stack \in Seq(Frame) /\ n \in Nat \ {0} /\ n \in 1 .. n
  BY <1>1, EmptySeq, LenProperties DEF DPInv, Calling
<1>4. Top \in Frame
  BY <1>3, ElementOfSeq DEF Top
<1>5. /\ f \in Frame /\ f.fn = Top.fn /\ f.id = Top.id /\ f.data = Top.data
      /\ f.i = i /\ f.at = kind
  <2>1. i \in 0 .. STREAMS_MAX
    BY TablesAssumption DEF SID
  <2>2. kind \in {"look", "header", "again", "data"}
    OBVIOUS
  <2> HIDE DEF kind
  <2>3. f = [Top EXCEPT !.i = i, !.at = kind]
    BY DEF kind
  <2> HIDE DEF f
  <2> QED BY <1>4, <2>1, <2>2, <2>3 DEF Frame
<1>6. data \in Seq(Datum)
  <2>1. Top.data \in Seq(Datum) /\ prethru[Top.id] \in Seq(Chunk(Datum))
    BY <1>1, <1>4 DEF Frame, DPInv, Stored, Live, LiveStreams
  <2>2. Content(prethru[Top.id]) \in Seq(Datum)
    BY <2>1, ContentType
  <2> QED BY <2>1, <2>2
<1>7. data = Handed(f)
  <2>1. data = IF kind = "header" THEN Content(prethru[Top.id]) ELSE Top.data
    OBVIOUS
  <2> HIDE DEF data, kind, f
  <2> QED BY <1>5, <2>1 DEF Handed
<1>8. stack' = Append(frames, g) /\ passed' = [passed EXCEPT ![i] = @ \o data]
  BY <1>2 DEF Push
<1>9. f.at = IF WantsHeader(Top, i) THEN "header" ELSE "data"
  BY <1>5
<1> HIDE DEF n, f, data
<1>10. frames \in Seq(Frame) /\ Len(frames) = n /\ frames[n] = f
       /\ \A k \in 1 .. n : k # n => frames[k] = stack[k]
  BY <1>3, <1>5, ExceptSeq DEF n
<1>11. /\ g \in Frame /\ g.fn = "write" /\ g.id = i /\ g.data = data /\ g.i = 0 /\ g.at = "look"
  BY <1>6, CallType DEF Call
<1> HIDE DEF frames, g
<1>12. Len(stack') = n + 1 /\ stack'[n + 1] = g /\ \A k \in 1 .. n : stack'[k] = frames[k]
  BY <1>3, <1>8, <1>10, <1>11, AppendProperties
<1>13. stack'[n] = f /\ \A k \in 1 .. n - 1 : stack'[k] = stack[k]
  <2>1. \A k \in 1 .. n - 1 : k \in 1 .. n /\ k # n
    BY <1>3
  <2> QED BY <1>3, <1>10, <1>12, <2>1
<1>14. CopyBegins(i, f, g, n)
  BY <1>1, <1>2, <1>4, <1>5, <1>7, <1>8, <1>9, <1>11, <1>12, <1>13 DEF CopyBegins, n
<1> QED BY <1>3, <1>5, <1>11, <1>14

\* Call g, at the top of n calls, returns to f, which goes on as h.
CopyEnds(full, f, g, h, n) ==
    /\ n = Len(stack) /\ f = stack[n - 1] /\ g = stack[n] /\ g.id \in Live /\ NoMoreCopies(g)
    /\ h.fn = f.fn /\ h.id = f.id /\ h.data = f.data
    /\ IF full /\ f.at = "header" THEN h.at = "again" /\ h.i = f.i
                                  ELSE h.at = "look" /\ h.i = f.i + 1
    /\ Len(stack') = n - 1 /\ stack'[n - 1] = h
    /\ \A k \in 1 .. n - 2 : stack'[k] = stack[k]
    /\ UNCHANGED <<setup, job, passed>>
    /\ IF full
       THEN /\ copied' = [copied EXCEPT ![g.id] = @ \o g.data]
            /\ UNCHANGED <<tab, prethru>>
            /\ old' = IF f.at = "header" THEN old ELSE old \cup {f.i}
       ELSE Gone(streams_delete(tab, f.i)) /\ UNCHANGED <<old, copied>>

\* WriteCopy does this.
LEMMA WriteCopyLeaves ==
    ASSUME DPInv, WriteCopy
    PROVE  \E full \in BOOLEAN, f \in Frame, g \in Frame, h \in Frame, n \in Nat \ {0, 1} :
               CopyEnds(full, f, g, h, n)
<1> DEFINE n == Len(stack)
           f == stack[n - 1]
           g == stack[n]
           frames == SubSeq(stack, 1, n - 2)
<1>1. n > 1 /\ g.id \in Live /\ NoMoreCopies(g) /\ UNCHANGED <<setup, job, passed>>
  BY DEF WriteCopy, Top
<1>2. PICK outcome : WriteEnds(g, outcome)
  BY DEF WriteCopy, Top
<1>3. stack \in Seq(Frame) /\ n \in Nat
  BY LenProperties DEF DPInv, Calling
<1>4. n \in Nat \ {0, 1} /\ n - 1 \in 1 .. n - 1 /\ n - 1 \in 1 .. n /\ n \in 1 .. n /\ n - 2 \in Nat
  BY <1>1, <1>3
<1>5. f \in Frame /\ f.i \in SID /\ g \in Frame
  BY <1>3, <1>4, ElementOfSeq DEF DPInv, Calling
<1> DEFINE full == outcome = "full"
           h == Copied(f, full)
<1>6. stack' = Append(frames, h)
  BY <1>2, Zenon DEF WriteEnds
<1>7. /\ IF full
         THEN /\ copied' = [copied EXCEPT ![g.id] = @ \o g.data]
              /\ UNCHANGED <<tab, prethru>>
              /\ old' = IF f.at = "header" THEN old ELSE old \cup {f.i}
         ELSE Gone(streams_delete(tab, f.i)) /\ UNCHANGED <<old, copied>>
  BY <1>2, Zenon DEF WriteEnds, NothingGone
<1>8. frames \in Seq(Frame) /\ Len(frames) = n - 2 /\ \A k \in 1 .. n - 2 : frames[k] = stack[k]
  <2> DEFINE m == n - 2
  <2>1. m \in Nat /\ m <= Len(stack)
    BY <1>3, <1>4
  <2> HIDE DEF m
  <2>2. SubSeq(stack, 1, m) \in Seq(Frame) /\ Len(SubSeq(stack, 1, m)) = m
    BY <1>3, <2>1, Cut
  <2>3. \A k \in 1 .. m : SubSeq(stack, 1, m)[k] = stack[k]
    BY <1>3, <2>1
  <2> QED BY <2>2, <2>3 DEF m
<1> HIDE DEF f, g
<1>9. full \in BOOLEAN
  OBVIOUS
<1> HIDE DEF full
<1>10. /\ h \in Frame /\ h.fn = f.fn /\ h.id = f.id /\ h.data = f.data
       /\ IF full /\ f.at = "header" THEN h.at = "again" /\ h.i = f.i
                                     ELSE h.at = "look" /\ h.i = f.i + 1
  <2> DEFINE j == f.i + 1
  <2>1. j \in 0 .. STREAMS_MAX
    BY <1>5, TablesAssumption DEF SID
  <2>2. h = IF full /\ f.at = "header" THEN [f EXCEPT !.at = "again"]
            ELSE [f EXCEPT !.at = "look", !.i = j]
    BY Zenon DEF Copied
  <2> HIDE DEF j, h
  <2>3. /\ h \in Frame /\ h.fn = f.fn /\ h.id = f.id /\ h.data = f.data
        /\ IF full /\ f.at = "header" THEN h.at = "again" /\ h.i = f.i
                                      ELSE h.at = "look" /\ h.i = j
    BY <1>5, <2>1, <2>2 DEF Frame
  <2> QED BY <2>3 DEF j
<1> HIDE DEF h, frames
<1> DEFINE m == n - 2
<1>11. m \in Nat /\ m + 1 = n - 1
  BY <1>4
<1>12. Len(stack') = m + 1 /\ stack'[m + 1] = h /\ \A k \in 1 .. m : stack'[k] = frames[k]
  <2>1. Len(frames) = m
    BY <1>8
  <2> HIDE DEF m
  <2> QED BY <1>6, <1>8, <1>10, <1>11, <2>1, AppendProperties
<1>13. Len(stack') = n - 1 /\ stack'[n - 1] = h /\ \A k \in 1 .. n - 2 : stack'[k] = stack[k]
  <2>1. stack'[n - 1] = h /\ Len(stack') = n - 1
    BY <1>11, <1>12
  <2> QED BY <1>8, <1>12, <2>1
<1> HIDE DEF n
<1>14. CopyEnds(full, f, g, h, n)
  BY <1>1, <1>7, <1>10, <1>13 DEF CopyEnds, n, f, g
<1> QED BY <1>4, <1>5, <1>9, <1>10, <1>14

\* The streams of the calls are a way along THRU streams.
LEMMA StackWay ==
    ASSUME DPInv, Nested
    PROVE  Way(tab, [k \in 1 .. Len(stack) |-> stack[k].id], Len(stack))
<1> DEFINE n == Len(stack)
           p == [k \in 1 .. n |-> stack[k].id]
<1>1. stack \in Seq(Frame) /\ n \in Nat
  BY LenProperties DEF DPInv, Calling
<1>2. \A k \in 1 .. n : p[k] = stack[k].id /\ stack[k].id \in SID
  <2>1. \A k \in 1 .. n : stack[k] \in Frame
    BY <1>1, ElementOfSeq
  <2>2. \A k \in 1 .. n : stack[k].id \in SID
    BY <2>1 DEF Frame
  <2> QED BY <2>2
<1>3. p \in [1 .. n -> SID]
  BY <1>2
<1>4. ASSUME NEW k \in 2 .. n, p[k] \in LiveStreams(tab)
      PROVE  tab.streams[p[k]].dir = "THRU" /\ tab.streams[p[k]].pos_rel_id = p[k - 1]
  <2>1. k - 1 \in 1 .. n - 1 /\ k - 1 \in 1 .. n /\ k \in 1 .. n /\ (k - 1) + 1 = k
    BY <1>1
  <2>2. Serves(stack[k - 1], stack[k])
    BY <2>1 DEF Nested
  <2>3. Copies(stack[k].id, stack[k - 1].id)
    BY <1>2, <1>4, <2>1, <2>2 DEF Serves, Live
  <2> QED BY <1>2, <2>1, <2>3 DEF Copies
<1> QED BY <1>3, <1>4 DEF Way

\* The streams of the calls are all there, and there once, when the one at the
\* top is.
LEMMA StackOnce ==
    ASSUME DPInv, Linked, Nested, stack # <<>>, Top.id \in Live
    PROVE  /\ \A k \in 1 .. Len(stack) : stack[k].id \in Live
           /\ \A j, k \in 1 .. Len(stack) : stack[j].id = stack[k].id => j = k
<1> DEFINE n == Len(stack)
           p == [k \in 1 .. n |-> stack[k].id]
<1>1. stack \in Seq(Frame) /\ n \in Nat \ {0} /\ n \in 1 .. n
  BY EmptySeq, LenProperties DEF DPInv, Calling
<1>2. Way(tab, p, n) /\ ThruLinked(tab)
  BY StackWay DEF Linked
<1>3. \A k \in 1 .. n : p[k] = stack[k].id
  OBVIOUS
<1>4. p[n] \in LiveStreams(tab)
  BY <1>1, <1>3 DEF Top, Live
<1> HIDE DEF p, n
<1>5. \A k \in 1 .. n : p[k] \in LiveStreams(tab)
  BY <1>1, <1>2, <1>4, WayLive
<1>6. ASSUME NEW j \in 1 .. n, NEW k \in 1 .. n, p[j] = p[k]
      PROVE  j = k
  <2>1. ~ (j < k) /\ ~ (k < j)
    BY <1>1, <1>2, <1>4, <1>6, WayOnce
  <2> QED BY <1>1, <2>1
<1> QED BY <1>3, <1>5, <1>6 DEF Live, n

\* Nor is a THRU stream of the one at the top.
LEMMA NextOnce ==
    ASSUME DPInv, Linked, Nested, stack # <<>>, NEW i \in SID, Copies(i, Top.id)
    PROVE  /\ Top.id \in Live
           /\ \A k \in 1 .. Len(stack) : stack[k].id # i
<1> DEFINE n == Len(stack)
           p == [k \in 1 .. n |-> stack[k].id]
           q == [k \in 1 .. n + 1 |-> IF k = n + 1 THEN i ELSE p[k]]
<1>1. stack \in Seq(Frame) /\ n \in Nat \ {0}
  BY EmptySeq, LenProperties DEF DPInv, Calling
<1>2. Way(tab, p, n) /\ ThruLinked(tab)
  BY StackWay DEF Linked
<1>3. \A k \in 1 .. n : p[k] = stack[k].id
  OBVIOUS
<1>4. Top.id \in Live
  BY <1>2 DEF Copies, ThruLinked, Live
<1>5. Top.id = p[n]
  BY <1>1, <1>3 DEF Top
<1> HIDE DEF n, p
<1>6. q[n + 1] = i /\ \A k \in 1 .. n : q[k] = p[k]
  BY <1>1
<1>7. q \in [1 .. n + 1 -> SID]
  <2>1. \A k \in 1 .. n + 1 : k # n + 1 => k \in 1 .. n
    BY <1>1
  <2> QED BY <1>2, <2>1 DEF Way
<1> HIDE DEF q
<1>8. ASSUME NEW k \in 2 .. n + 1, q[k] \in LiveStreams(tab)
      PROVE  tab.streams[q[k]].dir = "THRU" /\ tab.streams[q[k]].pos_rel_id = q[k - 1]
  <2>1. CASE k = n + 1
    <3>1. k - 1 = n /\ n \in 1 .. n
      BY <1>1, <2>1
    <3> QED BY <1>5, <1>6, <2>1, <3>1 DEF Copies
  <2>2. CASE k # n + 1
    <3>1. k \in 2 .. n /\ k \in 1 .. n /\ k - 1 \in 1 .. n
      BY <1>1, <2>2
    <3> QED BY <1>2, <1>6, <1>8, <3>1 DEF Way
  <2> QED BY <2>1, <2>2
<1>9. Way(tab, q, n + 1)
  BY <1>7, <1>8 DEF Way
<1>10. q[n + 1] \in LiveStreams(tab) /\ n + 1 \in Nat \ {0}
  BY <1>1, <1>6 DEF Copies, Live
<1>11. ASSUME NEW k \in 1 .. n
       PROVE  q[k] # q[n + 1]
  <2>1. k \in 1 .. n + 1 /\ n + 1 \in 1 .. n + 1 /\ k < n + 1
    BY <1>1
  <2> QED BY <1>2, <1>9, <1>10, <2>1, WayOnce
<1> QED BY <1>3, <1>4, <1>6, <1>11 DEF n

-----------------------------------------------------------------------------
(* Every step keeps the calls nested.                                       *)

\* Without calls there is little to say.
LEMMA NoNest ==
    ASSUME passed' \in [SID -> Seq(Datum)], copied' \in [SID -> Seq(Datum)],
           stack' = <<>>, job'.kind = "none" => AtRest', job'.kind = "mon" => job'.at # "read"
    PROVE  Nested'
<1>1. Len(stack') = 0
  OBVIOUS
<1>2. 1 .. Len(stack') = {} /\ 1 .. Len(stack') - 1 = {}
  BY <1>1
<1> QED BY <1>2 DEF Nested

\* What the calls pass on is data.
LEMMA MoreData ==
    ASSUME NEW F \in [SID -> Seq(Datum)], NEW s \in SID, NEW data \in Seq(Datum), NEW G,
           G = [F EXCEPT ![s] = @ \o data]
    PROVE  /\ G \in [SID -> Seq(Datum)] /\ G[s] = F[s] \o data
           /\ \A i \in SID \ {s} : G[i] = F[i]
<1> DEFINE e == F[s] \o data
<1>1. e \in Seq(Datum)
  BY ConcatProperties
<1>2. G = [F EXCEPT ![s] = e]
  OBVIOUS
<1> HIDE DEF e
<1>3. G \in [SID -> Seq(Datum)] /\ G[s] = e /\ \A i \in SID \ {s} : G[i] = F[i]
  BY <1>1, <1>2
<1> QED BY <1>3 DEF e

\* A stream that stays in the tables keeps the stream it copies, and that
\* stream keeps its header.
LEMMA GoneCopies ==
    ASSUME DPInv, Linked, Linked', NEW x, Gone(streams_delete(tab, x))
    PROVE  /\ Live' \subseteq Live
           /\ \A i, s \in SID : Copies(i, s)' => Copies(i, s) /\ s \in Live'
           /\ \A i, s \in SID : i \in Live' /\ Copies(i, s) => Copies(i, s)' /\ s \in Live'
           /\ \A s \in Live' : prethru'[s] = prethru[s]
<1> DEFINE t == streams_delete(tab, x)
<1>1. tab' = t /\ prethru' = [s \in SID |-> IF s \in LiveStreams(t) THEN prethru[s] ELSE <<>>]
  BY Zenon DEF Gone
<1>2. \A s \in LiveStreams(t) :
        /\ s \in LiveStreams(tab)
        /\ t.streams[s].dir = tab.streams[s].dir
        /\ t.streams[s].ready = tab.streams[s].ready
        /\ tab.streams[s].dir = "THRU" => t.streams[s].pos_rel_id = tab.streams[s].pos_rel_id
  BY DeleteCopies DEF DPInv, Stored, Linked
<1> HIDE DEF t
<1>3. Live' = LiveStreams(t) /\ Live' \subseteq Live /\ Live' \subseteq SID
  BY <1>1, <1>2 DEF Live, LiveStreams
<1>4. ThruLinked(t)
  BY <1>1 DEF Linked
<1>5. \A i, s \in SID : Copies(i, s)' => s \in Live'
  BY <1>1, <1>3, <1>4 DEF Copies, ThruLinked
<1>6. \A i, s \in SID : Copies(i, s)' => Copies(i, s)
  BY <1>1, <1>2, <1>3 DEF Copies, Live
<1>7. \A i, s \in SID : i \in Live' /\ Copies(i, s) => Copies(i, s)'
  BY <1>1, <1>2, <1>3 DEF Copies, Live
<1>8. \A s \in Live' : prethru'[s] = prethru[s]
  BY <1>1, <1>3
<1> QED BY <1>3, <1>5, <1>6, <1>7, <1>8

\* A copy is begun.
LEMMA CopyToNests ==
    ASSUME DPInv, Linked, Nested, CopyTo
    PROVE  Nested'
<1>1. PICK i \in SID, f \in Frame, g \in Frame, n \in Nat \ {0} : CopyBegins(i, f, g, n)
  BY CopyToLeaves
<1>2. /\ n = Len(stack) /\ n \in 1 .. n /\ Top = stack[n] /\ stack # <<>>
      /\ Len(stack') = n + 1 /\ stack'[n + 1] = g /\ stack'[n] = f
      /\ \A k \in 1 .. n - 1 : stack'[k] = stack[k]
      /\ UNCHANGED <<setup, tab, old, prethru, job, copied>>
  BY <1>1 DEF CopyBegins, Top
<1>3. /\ f.id = Top.id /\ f.data = Top.data /\ f.fn = Top.fn /\ f.i = i
      /\ f.at \in {"header", "data"}
      /\ g.id = i /\ g.data = Handed(f) /\ g.at = "look"
  BY <1>1 DEF CopyBegins
<1>4. Copies(i, Top.id)
  BY <1>1 DEF CopyBegins, NextCopy
<1>5. i \notin Monitor
  BY <1>4 DEF Copies, Linked
<1>6. passed' \in [SID -> Seq(Datum)]
  <2>1. g.data \in Seq(Datum) /\ passed \in [SID -> Seq(Datum)]
    BY DEF Frame, Nested
  <2>2. passed' = [passed EXCEPT ![i] = @ \o g.data]
    BY <1>1 DEF CopyBegins
  <2> QED BY <2>1, <2>2, MoreData
<1>7. \A a, b : Serves(a, b)' <=> Serves(a, b)
  BY <1>2 DEF Serves, Handed, Copies, Live
<1>8. ASSUME NEW k \in 1 .. Len(stack') - 1
      PROVE  Serves(stack'[k], stack'[k + 1])
  <2>1. CASE k = n
    BY <1>2, <1>3, <1>4, <2>1 DEF Serves
  <2>2. CASE k # n
    <3>1. k \in 1 .. n - 1 /\ k \in 1 .. Len(stack) - 1
      BY <1>2, <2>2
    <3>2. Serves(stack[k], stack[k + 1]) /\ stack'[k] = stack[k]
      BY <1>2, <3>1 DEF Nested
    <3>3. stack'[k + 1].id = stack[k + 1].id /\ stack'[k + 1].data = stack[k + 1].data
      <4>1. CASE k + 1 = n
        BY <1>2, <1>3, <4>1
      <4>2. CASE k + 1 # n
        <5>1. k + 1 \in 1 .. n - 1
          BY <3>1, <4>2
        <5> QED BY <1>2, <5>1
      <4> QED BY <4>1, <4>2
    <3> QED BY <3>2, <3>3 DEF Serves
  <2> QED BY <2>1, <2>2
<1>9. ASSUME NEW k \in 1 .. Len(stack'), stack'[k].id \in Monitor
      PROVE  stack'[k].fn = "write" /\ stack'[k].data # <<>>
  <2>1. k # n + 1
    BY <1>2, <1>3, <1>5, <1>9
  <2>2. k \in 1 .. n
    BY <1>2, <2>1
  <2>3. /\ stack'[k].id = stack[k].id /\ stack'[k].fn = stack[k].fn
        /\ stack'[k].data = stack[k].data
    <3>1. CASE k = n
      BY <1>2, <1>3, <3>1
    <3>2. CASE k # n
      <4>1. k \in 1 .. n - 1
        BY <2>2, <3>2
      <4> QED BY <1>2, <4>1
    <3> QED BY <3>1, <3>2
  <2> QED BY <1>2, <1>9, <2>2, <2>3 DEF Nested
<1>10. Top' = g
  BY <1>2 DEF Top
<1>11. stack'[1].id = stack[1].id
  <2>1. CASE n = 1
    BY <1>2, <1>3, <2>1
  <2>2. CASE n # 1
    <3>1. 1 \in 1 .. n - 1
      BY <2>2
    <3> QED BY <1>2, <3>1
  <2> QED BY <2>1, <2>2
<1>12. job.kind # "none"
  BY <1>2 DEF Nested, AtRest
<1>13. \A k \in 1 .. Len(stack') - 1 : Serves(stack[k], stack[k + 1])'
  BY <1>8, <1>2 DEF Serves, Handed, Copies, Live
<1>14. \A k \in 1 .. Len(stack') :
         stack'[k].id \in Monitor' => stack'[k].fn = "write" /\ stack'[k].data # <<>>
  BY <1>2, <1>9 DEF Monitor
<1>15. /\ Top'.at \in {"look", "again"} /\ Top'.at # "again"
       /\ job'.kind \in {"check", "mon"} => stack'[1].id = job'.id
  BY <1>2, <1>3, <1>10, <1>11 DEF Nested
<1>16. copied' \in [SID -> Seq(Datum)] /\ (job'.kind = "mon" => job'.at # "read")
  BY <1>2 DEF Nested
<1> QED BY <1>2, <1>6, <1>12, <1>13, <1>14, <1>15, <1>16 DEF Nested

\* A copy ends.
LEMMA WriteCopyNests ==
    ASSUME DPInv, Linked, Linked', Nested, WriteCopy
    PROVE  Nested'
<1>1. PICK full \in BOOLEAN, f \in Frame, g \in Frame, h \in Frame, n \in Nat \ {0, 1} :
        CopyEnds(full, f, g, h, n)
  BY WriteCopyLeaves
<1>2. /\ n = Len(stack) /\ n \in 1 .. n /\ n - 1 \in 1 .. n - 1 /\ n - 1 \in 1 .. n
      /\ f = stack[n - 1] /\ g = stack[n] /\ g.id \in Live /\ stack # <<>>
      /\ Len(stack') = n - 1 /\ stack'[n - 1] = h
      /\ \A k \in 1 .. n - 2 : stack'[k] = stack[k]
      /\ UNCHANGED <<setup, job, passed>>
      /\ h.id = f.id /\ h.data = f.data /\ h.fn = f.fn
  BY <1>1 DEF CopyEnds
<1>3. /\ f.i = g.id /\ f.at \in {"header", "data"} /\ Copies(g.id, f.id)
  <2>1. (n - 1) + 1 = n
    OBVIOUS
  <2>2. Serves(stack[n - 1], stack[n])
    BY <1>2, <2>1 DEF Nested
  <2> QED BY <1>2, <2>2 DEF Serves
<1>4. \A a, b \in Frame : b.id \in Live' =>
         /\ Copies(b.id, a.id) => Copies(b.id, a.id)' /\ prethru'[a.id] = prethru[a.id]
         /\ b.id \in Live
  <2>1. CASE full
    <3>1. tab' = tab /\ prethru' = prethru
      BY <1>1, <2>1 DEF CopyEnds
    <3> QED BY <3>1 DEF Copies, Live
  <2>2. CASE ~ full
    <3>1. Gone(streams_delete(tab, f.i))
      BY <1>1, <2>2 DEF CopyEnds
    <3>2. \A a \in Frame : a.id \in SID
      BY DEF Frame
    <3> QED BY <3>1, <3>2, GoneCopies
  <2> QED BY <2>1, <2>2
<1>5. \A k \in 1 .. n : stack[k] \in Frame
  BY <1>2, ElementOfSeq DEF DPInv, Calling
<1>6. \A k \in 1 .. n - 1 : /\ stack'[k].id = stack[k].id /\ stack'[k].fn = stack[k].fn
                            /\ stack'[k].data = stack[k].data
  <2> TAKE k \in 1 .. n - 1
  <2>1. CASE k = n - 1
    BY <1>2, <2>1
  <2>2. CASE k # n - 1
    <3>1. k \in 1 .. n - 2
      BY <2>2
    <3> QED BY <1>2, <3>1
  <2> QED BY <2>1, <2>2
<1>7. ASSUME NEW k \in 1 .. Len(stack') - 1
      PROVE  Serves(stack[k], stack[k + 1])'
  <2>1. k \in 1 .. n - 2 /\ k \in 1 .. Len(stack) - 1 /\ k + 1 \in 1 .. n - 1
        /\ k \in 1 .. n /\ k + 1 \in 1 .. n
    BY <1>2
  <2>2. PICK a \in Frame, b \in Frame : a = stack[k] /\ b = stack[k + 1]
    BY <1>5, <2>1
  <2> PICK c : c = stack'[k + 1]
    OBVIOUS
  <2>3. Serves(a, b)
    BY <2>1, <2>2 DEF Nested
  <2>4. c.id = b.id /\ c.data = b.data /\ stack'[k] = a
    BY <1>2, <1>6, <2>1, <2>2
  <2>5. Serves(a, c)'
    BY <1>4, <2>3, <2>4 DEF Serves, Handed
  <2> QED BY <2>2, <2>4, <2>5 DEF Serves, Handed, Copies
<1>8. \A k \in 1 .. Len(stack') :
         stack'[k].id \in Monitor' => stack'[k].fn = "write" /\ stack'[k].data # <<>>
  <2> SUFFICES ASSUME NEW k \in 1 .. n - 1, stack'[k].id \in Monitor
               PROVE  stack'[k].fn = "write" /\ stack'[k].data # <<>>
    BY <1>2 DEF Monitor
  <2>1. k \in 1 .. Len(stack)
    BY <1>2
  <2> QED BY <1>6, <2>1 DEF Nested
<1>9. Top' = h
  BY <1>2 DEF Top
<1>10. h.at \in {"look", "again"} /\ (h.at = "again" => Copies(h.i, h.id)')
  <2>1. CASE full /\ f.at = "header"
    <3>1. h.at = "again" /\ h.i = f.i /\ tab' = tab
      BY <1>1, <2>1 DEF CopyEnds
    <3> QED BY <1>2, <1>3, <3>1 DEF Copies, Live
  <2>2. CASE ~ (full /\ f.at = "header")
    <3>1. h.at = "look"
      BY <1>1, <2>2 DEF CopyEnds
    <3> QED BY <3>1
  <2> QED BY <2>1, <2>2
<1>11. /\ stack'[1].id = stack[1].id /\ job.kind # "none" /\ stack' # <<>>
  <2>1. 1 \in 1 .. n - 1
    OBVIOUS
  <2>2. Len(stack') # 0
    BY <1>2
  <2>3. stack' # <<>>
    BY <2>2
  <2> QED BY <1>2, <1>6, <2>1, <2>3 DEF Nested, AtRest
<1>12. /\ job'.kind \in {"check", "mon"} => stack'[1].id = job'.id
       /\ job'.kind # "none" /\ (job'.kind = "mon" => job'.at # "read")
       /\ passed' \in [SID -> Seq(Datum)]
  BY <1>2, <1>11 DEF Nested
<1>13. copied' \in [SID -> Seq(Datum)]
  <2>1. g.data \in Seq(Datum) /\ g.id \in SID /\ copied \in [SID -> Seq(Datum)]
    BY DEF Frame, Nested
  <2>2. copied' = [copied EXCEPT ![g.id] = @ \o g.data] \/ copied' = copied
    BY <1>1 DEF CopyEnds
  <2>3. PICK s \in SID, data \in Seq(Datum) : s = g.id /\ data = g.data
    BY <2>1
  <2>4. CASE copied' = [copied EXCEPT ![s] = @ \o data]
    BY <2>1, <2>4, MoreData
  <2>5. CASE copied' = copied
    BY <2>1, <2>5
  <2> QED BY <2>2, <2>3, <2>4, <2>5
<1>14. /\ Top'.at \in {"look", "again"}
       /\ Top'.at = "again" => Copies(Top.i, Top.id)'
  BY <1>9, <1>10 DEF Copies
<1> QED BY <1>7, <1>8, <1>12, <1>13, <1>14 DEF Nested

\* Every step keeps the calls nested.
LEMMA NestedStep ==
    ASSUME DPInv, Linked, Linked', Nested, Next
    PROVE  Nested'
<1>1. passed \in [SID -> Seq(Datum)] /\ copied \in [SID -> Seq(Datum)]
  BY DEF Nested
<1>2. CASE Quiet
  <2>1. UNCHANGED <<setup, tab, old, prethru, stack, passed, copied>> /\ SameRun
    BY <1>2 DEF Quiet
  <2>2. job'.kind = job.kind /\ job'.id = job.id /\ (job'.at = "read" => job.at = "read")
    BY <2>1 DEF SameRun
  <2>3. job.kind = "none" => job' = job
    BY <2>1 DEF SameRun
  <2>4. job'.kind = "none" => AtRest'
    BY <2>1, <2>2, <2>3 DEF Nested, AtRest
  <2> QED BY <2>1, <2>2, <2>4 DEF Nested, Serves, Handed, Copies, Live, Monitor, Top
<1>3. CASE Fresh
  <2>1. job = Idle /\ UNCHANGED <<stack, passed, copied>>
    BY <1>3 DEF Fresh
  <2>2. job.kind = "none"
    BY <2>1 DEF Idle
  <2>3. AtRest
    BY <2>2 DEF Nested
  <2>4. job'.kind = "none" => job' = job
    BY <1>3 DEF Fresh
  <2>5. job'.kind = "none" => AtRest'
    BY <2>1, <2>3, <2>4 DEF AtRest
  <2>6. job'.kind = "mon" => job'.at # "read"
    BY <1>3 DEF Fresh, Idle
  <2> QED BY <1>1, <2>1, <2>3, <2>5, <2>6, NoNest DEF AtRest
<1>4. CASE Begins
  <2>1. PICK fn \in {"read", "write"}, s \in SID, data \in Seq(Datum) :
          /\ stack = <<>> /\ job.kind # "none" /\ SameRun
          /\ Push(<<>>, fn, s, data)
          /\ UNCHANGED <<setup, tab, old, prethru, copied>>
          /\ job.kind \in {"check", "mon"} => s = job.id
          /\ s \in Monitor => fn = "write" /\ data # <<>>
    BY <1>4 DEF Begins
  <2> DEFINE f == Call(fn, s, data)
  <2>2. /\ stack' = <<f>> /\ passed' = [passed EXCEPT ![s] = @ \o data]
    BY <2>1 DEF Push
  <2>3. f.id = s /\ f.at = "look" /\ f.fn = fn /\ f.data = data
    BY DEF Call
  <2> HIDE DEF f
  <2>4. Len(stack') = 1 /\ stack'[1] = f /\ stack' # <<>>
    BY <2>2
  <2>5. Top' = f
    BY <2>4 DEF Top
  <2>6. passed' \in [SID -> Seq(Datum)]
    BY <1>1, <2>2, MoreData
  <2>7. job'.kind = job.kind /\ job'.id = job.id /\ (job'.at = "read" => job.at = "read")
    BY <2>1 DEF SameRun
  <2>8. 1 .. Len(stack') - 1 = {} /\ \A k \in 1 .. Len(stack') : stack'[k] = f
    BY <2>4
  <2>9. \A k \in 1 .. Len(stack') :
           stack'[k].id \in Monitor' => stack'[k].fn = "write" /\ stack'[k].data # <<>>
    BY <2>1, <2>3, <2>8 DEF Monitor
  <2>10. job'.kind # "none" /\ (job'.kind = "mon" => job'.at # "read")
    BY <2>1, <2>7 DEF Nested
  <2> QED BY <1>1, <2>1, <2>3, <2>4, <2>5, <2>6, <2>7, <2>8, <2>9, <2>10 DEF Nested
<1>5. CASE Returns
  <2>1. stack' = <<>> /\ SameRun /\ UNCHANGED <<passed, copied>>
    BY <1>5 DEF Returns
  <2>2. job'.kind = job.kind /\ (job'.at = "read" => job.at = "read")
        /\ (job.kind = "none" => job' = job)
    BY <2>1 DEF SameRun
  <2>3. job'.kind = "none" => AtRest'
    BY <2>1, <2>2 DEF Nested, AtRest
  <2>4. job'.kind = "mon" => job'.at # "read"
    BY <2>2 DEF Nested
  <2> QED BY <1>1, <2>1, <2>3, <2>4, NoNest
<1>6. CASE Ends
  <2>1. /\ job' = Idle /\ stack' = <<>> /\ passed' = [t \in SID |-> <<>>]
        /\ copied' = [t \in SID |-> <<>>]
    BY <1>6 DEF Ends, Over
  <2>2. <<>> \in Seq(Datum)
    BY EmptySeq
  <2>3. AtRest' /\ job'.kind # "mon"
    BY <2>1 DEF AtRest, Idle
  <2> QED BY <2>1, <2>2, <2>3, NoNest
<1> QED BY <1>2, <1>3, <1>4, <1>5, <1>6, CallEffects, CopyToNests, WriteCopyNests

\* Nothing is called when the main loop is entered.
LEMMA InitNested == Init => Linked /\ Nested
<1> SUFFICES ASSUME Init PROVE Linked /\ Nested
  OBVIOUS
<1>1. PICK u \in Setups : /\ setup = [monitors |-> u.monitors, headed |-> u.headed,
                                      prethru |-> u.prethru, asked |-> u.asked]
                          /\ tab = u.tab
  BY DEF Init
<1>2. /\ ThruLinked(u.tab) /\ u.headed \subseteq u.monitors
      /\ \A s \in u.monitors \cap LiveStreams(u.tab) : u.tab.streams[s].dir = "PLAY"
  BY DataPathAssumption
<1>3. setup.headed = u.headed /\ Monitor = u.monitors
  BY <1>1 DEF Monitor
<1>4. \A s \in SID : prethru[s] = <<>>
  BY DEF Init
<1>5. Linked
  BY <1>1, <1>2, <1>3, <1>4 DEF Linked, Live
<1>6. /\ passed = [s \in SID |-> <<>>] /\ copied = [s \in SID |-> <<>>]
      /\ stack = <<>> /\ job = Idle /\ <<>> \in Seq(Datum)
  BY EmptySeq DEF Init
<1>7. passed \in [SID -> Seq(Datum)] /\ copied \in [SID -> Seq(Datum)]
  BY <1>6
<1>8. AtRest /\ job.kind # "mon"
  BY <1>6 DEF AtRest, Idle
<1>9. Len(stack) = 0
  BY <1>6
<1>10. 1 .. Len(stack) = {} /\ 1 .. Len(stack) - 1 = {}
  BY <1>9
<1>11. Nested
  BY <1>6, <1>7, <1>8, <1>10 DEF Nested
<1> QED BY <1>5, <1>11

\* The calls stay nested, and the streams linked, for every set of servers:
\* no call of stream_vio_s_read() or stream_vio_s_write() is for a stream that
\* another active call is for, so that the recursion is as deep as there are
\* streams at most.
THEOREM CallsNested == Spec => [](Linked /\ Nested)
<1>1. DPInv /\ Linked /\ Nested /\ [Next]_vars => (Linked /\ Nested)'
  <2> SUFFICES ASSUME DPInv, Linked, Nested, [Next]_vars PROVE Linked' /\ Nested'
    OBVIOUS
  <2>1. CASE Next
    BY <2>1, LinkedStep, NestedStep DEF DPInv
  <2>2. CASE UNCHANGED vars
    <3>1. UNCHANGED <<setup, tab, prethru, job, stack, passed, copied>>
      BY <2>2 DEF vars
    <3>2. Linked'
      BY <3>1 DEF Linked, Live, Monitor
    <3>3. Nested'
      BY <3>1 DEF Nested, AtRest, Serves, Handed, Copies, Live, Monitor, Top
    <3> QED BY <3>2, <3>3
  <2> QED BY <2>1, <2>2
<1> QED BY <1>1, InitNested, DataInvariance, PTL DEF Spec

\* The deletion of a THRU stream that did not take its copy.
LEMMA CopyFails ==
    ASSUME DPInv, Linked, Nested, NEW n \in Nat \ {0, 1}, n = Len(stack),
           NEW i, i = stack[n].id, i \in Live, tab' = streams_delete(tab, i),
           NEW x \in Live \ Live',
           \/ x = job.id
           \/ \E k \in 1 .. n - 1 : x = stack[k].id
    PROVE  \/ tab.alive /\ ~ tab'.alive
           \/ \E c \in LiveClients(tab) \ LiveClients(tab') :
                /\ tab.clients[c].execed # None
                /\ tab.streams[tab.clients[c].execed].dir = "THRU"
<1> DEFINE D == Doomed(tab, {i})
           L == {} \cup {c \in CID : \E s \in D : ExecedBy(tab, s, c)}
           p == [k \in 1 .. n |-> stack[k].id]
<1>1. tab \in TablesType /\ ThruLinked(tab) /\ i \in LiveStreams(tab)
  BY DEF DPInv, Stored, Linked, Live
<1>2. tab' = Delete(tab, {i}, {})
  BY <1>1 DEF streams_delete
<1>3. CASE tab.alive /\ \E s \in D : tab.streams[s].primary
  <2>1. tab' = Quit
    BY <1>2, <1>3 DEF Delete
  <2> QED BY <1>3, <2>1 DEF Quit
<1>4. CASE ~ (tab.alive /\ \E s \in D : tab.streams[s].primary)
  <2>1. tab' = Remove(tab, D, L)
    BY <1>2, <1>4, Zenon DEF Delete
  <2>2. D \in SUBSET LiveStreams(tab) /\ L \in SUBSET LiveClients(tab)
    BY DoomedLive DEF ExecedBy
  <2> HIDE DEF D, L
  <2>3. Without(tab, D, L, tab')
    BY <1>1, <2>1, <2>2, RemoveLeaves, SMTT(60)
  <2>4. LiveStreams(tab') = LiveStreams(tab) \ D /\ LiveClients(tab') = LiveClients(tab) \ L
    BY <2>3 DEF Without
  <2>5. x \in D
    BY <2>4 DEF Live
  <2>6. ASSUME NEW s \in D, NEW c \in CID, ExecedBy(tab, s, c), tab.streams[s].dir = "THRU"
        PROVE  \E d \in LiveClients(tab) \ LiveClients(tab') :
                 /\ tab.clients[d].execed # None
                 /\ tab.streams[tab.clients[d].execed].dir = "THRU"
    <3>1. c \in L /\ c \in LiveClients(tab) /\ tab.clients[c].execed = s
      BY <2>6 DEF L, ExecedBy
    <3>2. s # None
      BY <2>2, NoneIsNoStream DEF LiveStreams
    <3> QED BY <2>4, <2>6, <3>1, <3>2
  <2>7. ASSUME NoneExeced(tab, D)
        PROVE  FALSE
    <3>1. (n - 1) + 1 = n /\ n - 1 \in 1 .. Len(stack) - 1 /\ n \in 1 .. n
      OBVIOUS
    <3>2. Serves(stack[n - 1], stack[n])
      BY <3>1 DEF Nested
    <3>3. tab.streams[i].dir = "THRU"
      BY <3>2 DEF Serves, Copies
    <3>4. \A d \in D : /\ tab.streams[d].dir = "THRU"
                       /\ d = i \/ tab.streams[d].pos_rel_id \in D
      <4>1. D = Doomed(tab, {i})
        BY DEF D
      <4> QED BY <1>1, <2>7, <3>3, <4>1, DoomedAreCopies
    <3>5. Way(tab, p, n) /\ \A k \in 1 .. n : p[k] = stack[k].id
      BY StackWay
    <3>6. p[n] = i
      BY <3>1
    <3> HIDE DEF p
    <3>7. ASSUME NEW k \in 1 .. n - 1
          PROVE  stack[k].id \notin D
      <4>1. k \in 1 .. n /\ k < n
        OBVIOUS
      <4>2. p[k] \notin D
        BY <1>1, <2>2, <3>3, <3>4, <3>5, <3>6, <4>1, WaySpared
      <4> QED BY <3>5, <4>1, <4>2
    <3>8. x = job.id
      BY <2>5, <3>7
    <3>9. job.kind \in {"none", "check", "raw", "mon"} /\ stack # <<>> /\ 1 \in 1 .. n - 1
      <4>1. stack # <<>>
        BY <3>1
      <4> QED BY <4>1 DEF DPInv, Turn, Job
    <3>10. job.kind # "none"
      BY <3>9 DEF Nested, AtRest
    <3>11. job.kind # "mon"
      BY <2>5, <3>7, <3>8, <3>9 DEF Nested
    <3>12. tab.streams[x].dir = "THRU" /\ x \in Live
      BY <2>5, <3>4
    <3>13. job.kind # "check"
      BY <3>8, <3>12 DEF DPInv, Turn, Inputs, IsInput
    <3>14. job.kind # "raw"
      BY <3>8, <3>12 DEF DPInv, Turn
    <3> QED BY <3>9, <3>10, <3>11, <3>13, <3>14
  <2> QED BY <2>6, <2>7 DEF NoneExeced
<1> QED BY <1>3, <1>4

\* A copy that fails never deletes the stream that a caller is reading or
\* writing, but for the two ends that it may have.
THEOREM CallersCorrect == Spec => CallersKeepStreams
<1> DEFINE Excuse == \/ tab.alive /\ ~ tab'.alive
                     \/ \E c \in LiveClients(tab) \ LiveClients(tab') :
                          /\ tab.clients[c].execed # None
                          /\ tab.streams[tab.clients[c].execed].dir = "THRU"
           Safe == job' # Idle /\ ~ InUse' \cap Live \subseteq Live' => Excuse
<1>1. DPInv /\ DPInv' /\ Linked /\ Nested /\ [Next]_vars => [Safe]_vars
  <2> SUFFICES ASSUME DPInv, DPInv', Linked, Nested, Next, job' # Idle,
                      NEW x \in InUse' \cap Live, x \notin Live'
               PROVE  Excuse
    BY DEF InUse
  <2>1. tab' # tab
    BY DEF Live
  <2>2. WriteCopy
    <3>1. ~ Quiet /\ ~ Begins /\ ~ Returns
      BY <2>1 DEF Quiet, Begins, Returns
    <3>2. ~ CopyTo
      BY <2>1, Zenon DEF CopyTo, tables
    <3>3. ~ Fresh /\ ~ Ends
      BY <2>1 DEF Fresh, Ends, Over
    <3> QED BY <3>1, <3>2, <3>3, CallEffects
  <2>3. PICK full \in BOOLEAN, f \in Frame, g \in Frame, h \in Frame, n \in Nat \ {0, 1} :
          CopyEnds(full, f, g, h, n)
    BY <2>2, WriteCopyLeaves
  <2>4. /\ n = Len(stack) /\ g = stack[n] /\ f = stack[n - 1] /\ g.id \in Live
        /\ Len(stack') = n - 1 /\ stack'[n - 1] = h /\ h.id = f.id
        /\ \A k \in 1 .. n - 2 : stack'[k] = stack[k]
        /\ job' = job /\ tab' = streams_delete(tab, f.i)
    BY <2>1, <2>3 DEF CopyEnds, Gone
  <2>5. f.i = g.id
    <3>1. (n - 1) + 1 = n /\ n - 1 \in 1 .. Len(stack) - 1
      BY <2>4
    <3>2. Serves(stack[n - 1], stack[n])
      BY <3>1 DEF Nested
    <3> QED BY <2>4, <3>2 DEF Serves
  <2>6. x = job.id \/ \E k \in 1 .. n - 1 : x = stack[k].id
    <3>1. SUFFICES ASSUME NEW k \in DOMAIN stack', x = stack'[k].id
                   PROVE  \E j \in 1 .. n - 1 : x = stack[j].id
      BY <2>4 DEF InUse
    <3>2. k \in 1 .. n - 1
      BY <2>4 DEF DPInv, Calling
    <3>3. CASE k = n - 1
      BY <2>4, <3>1, <3>2, <3>3
    <3>4. CASE k # n - 1
      <4>1. k \in 1 .. n - 2
        BY <3>2, <3>4
      <4> QED BY <2>4, <3>1, <3>2, <4>1
    <3> QED BY <3>3, <3>4
  <2>7. PICK i : i = stack[n].id
    OBVIOUS
  <2>8. i \in Live /\ tab' = streams_delete(tab, i)
    BY <2>4, <2>5, <2>7
  <2> QED BY <2>4, <2>6, <2>7, <2>8, CopyFails
<1> QED BY <1>1, CallsNested, DataInvariance, PTL DEF Spec, CallersKeepStreams

-----------------------------------------------------------------------------
(***************************************************************************)
(* What the copies get.  A THRU stream t of r that no call hands data to   *)
(* has all that was passed on for r; one that the call for r has yet to    *)
(* reach lacks the data of this call, and one that the call waits for      *)
(* lacks what is still to be written.                                      *)
(***************************************************************************)

\* What a THRU stream with header h is to have of data.
Due(h, data) == IF data = <<>> THEN <<>> ELSE h \o data

\* The header that t is to have of r, and whether the server keeps account of
\* it: r has one, and t was new when the job began.
HeaderOf(t, r) == IF t \in setup.prethru \cap job.new THEN Content(prethru[r]) ELSE <<>>
Late(t, r)     == t \in job.new /\ prethru[r] # <<>>

\* t has got data of r, and is known to have got it.
Served(t, r, data) ==
    /\ copied[t] = Due(HeaderOf(t, r), data)
    /\ Late(t, r) => (t \in old <=> data # <<>>)

\* The loop of call f has yet to reach t, or it waits for t.
Pending(t, f) == t > f.i \/ (t = f.i /\ f.at = "look")
Waits(t, f)   == t = f.i /\ f.at # "look"

\* What t gets of call f before the call goes on to the next stream.
ToCome(r, f) == IF f.at = "header" THEN Content(prethru[r]) ELSE <<>>

\* The call f for r has passed its data on to t as far as it has come.
FedBy(t, r, f) ==
    \E before \in Seq(Datum) :
        /\ passed[r] = before \o f.data
        /\ Pending(t, f) => Served(t, r, before)
        /\ t < f.i => Served(t, r, passed[r])
        /\ Waits(t, f) => (copied[t] \o ToCome(r, f)) \o f.data = Due(HeaderOf(t, r), passed[r])

Fed(t, r) ==
    /\ job.kind = "none" \/ t \in job.new \/ t \in old
    /\ (\A k \in 1 .. Len(stack) : stack[k].id # r) => Served(t, r, passed[r])
    /\ \A k \in 1 .. Len(stack) : stack[k].id = r => FedBy(t, r, stack[k])

AllFed == \A t, r \in SID : Copies(t, r) => Fed(t, r)

\* Sequences put together are empty when both are.
LEMMA BothEmpty ==
    ASSUME NEW V, NEW b \in Seq(V), NEW d \in Seq(V)
    PROVE  b \o d \in Seq(V) /\ (b \o d = <<>> <=> b = <<>> /\ d = <<>>)
<1>1. b \o d \in Seq(V) /\ Len(b \o d) = Len(b) + Len(d)
  BY ConcatProperties
<1>2. Len(b) \in Nat /\ Len(d) \in Nat
  BY LenProperties
<1>3. \A x \in Seq(V) : x = <<>> <=> Len(x) = 0
  BY EmptySeq
<1> QED BY <1>1, <1>2, <1>3

\* More data behind what is due, unless the header is to come first.
LEMMA DueMore ==
    ASSUME NEW h \in Seq(Datum), NEW b \in Seq(Datum), NEW d \in Seq(Datum),
           b # <<>> \/ d = <<>> \/ h = <<>>
    PROVE  Due(h, b) \o d = Due(h, b \o d)
<1>1. b \o d \in Seq(Datum) /\ (b \o d = <<>> <=> b = <<>> /\ d = <<>>)
  BY BothEmpty
<1>2. CASE b # <<>>
  <2>1. Due(h, b) = h \o b /\ Due(h, b \o d) = h \o (b \o d)
    BY <1>1, <1>2 DEF Due
  <2> QED BY <2>1, Regroup, SMTT(60)
<1>3. CASE b = <<>>
  <2>1. b \o d = d /\ Due(h, b) = <<>> /\ Due(h, b) \o d = d
    BY <1>3, ConcatEmptySeq DEF Due
  <2>2. CASE d = <<>>
    BY <2>1, <2>2 DEF Due
  <2>3. CASE d # <<>>
    <3>1. h = <<>>
      BY <1>3, <2>3
    <3>2. h \o d = d
      BY <3>1, ConcatEmptySeq
    <3> QED BY <2>1, <2>3, <3>2 DEF Due
  <2> QED BY <2>2, <2>3
<1> QED BY <1>2, <1>3

\* The header comes before the first data.
LEMMA DueFirst ==
    ASSUME NEW h \in Seq(Datum), NEW d \in Seq(Datum), d # <<>>
    PROVE  (Due(h, <<>>) \o h) \o d = Due(h, <<>> \o d)
<1>1. Due(h, <<>>) = <<>> /\ <<>> \o h = h /\ <<>> \o d = d
  BY ConcatEmptySeq DEF Due
<1> QED BY <1>1 DEF Due

\* Header and data are data.
LEMMA DueType ==
    ASSUME DPInv, Nested, NEW t \in SID, NEW r \in SID
    PROVE  /\ Content(prethru[r]) \in Seq(Datum) /\ HeaderOf(t, r) \in Seq(Datum)
           /\ passed[r] \in Seq(Datum) /\ copied[t] \in Seq(Datum)
           /\ prethru[r] = <<>> => Content(prethru[r]) = <<>> /\ HeaderOf(t, r) = <<>>
<1>1. prethru[r] \in Seq(Chunk(Datum))
  BY DEF DPInv, Stored
<1>2. Content(prethru[r]) \in Seq(Datum) /\ <<>> \in Seq(Datum)
  BY <1>1, ContentType, EmptySeq
<1>3. passed[r] \in Seq(Datum) /\ copied[t] \in Seq(Datum)
  BY DEF Nested
<1>4. prethru[r] = <<>> => Content(prethru[r]) = <<>>
  BY ContentEmpty
<1> QED BY <1>2, <1>3, <1>4 DEF HeaderOf

\* Nothing has changed for t and r.
Same(t, r) ==
    /\ copied'[t] = copied[t] /\ passed'[r] = passed[r] /\ prethru'[r] = prethru[r]
    /\ t \in old' <=> t \in old
    /\ job'.new = job.new /\ setup' = setup

\* What is due is as it was then.
LEMMA SameDue ==
    ASSUME NEW t, NEW r, copied'[t] = copied[t], prethru'[r] = prethru[r],
           t \in old' <=> t \in old, job'.new = job.new, setup' = setup
    PROVE  /\ HeaderOf(t, r)' = HeaderOf(t, r)
           /\ Late(t, r)' <=> Late(t, r)
           /\ \A data : Served(t, r, data)' <=> Served(t, r, data)
           /\ \A f : ToCome(r, f)' = ToCome(r, f)
BY DEF HeaderOf, Late, Served, ToCome

\* So is what a call is to pass on.
LEMMA SameFed ==
    ASSUME NEW t, NEW r, Same(t, r)
    PROVE  \A f : FedBy(t, r, f)' <=> FedBy(t, r, f)
<1>1. /\ HeaderOf(t, r)' = HeaderOf(t, r)
      /\ \A data : Served(t, r, data)' <=> Served(t, r, data)
      /\ \A f : ToCome(r, f)' = ToCome(r, f)
  BY SameDue DEF Same
<1>2. copied'[t] = copied[t] /\ passed'[r] = passed[r]
  BY DEF Same
<1> QED BY <1>1, <1>2 DEF FedBy, Pending, Waits

\* A loop that meets no more THRU streams is behind all of them.
LEMMA AllBehind ==
    ASSUME NEW f \in Frame, NoMoreCopies(f), NEW t \in SID, Copies(t, f.id)
    PROVE  t < f.i
<1> SUFFICES ASSUME ~ t < f.i PROVE FALSE
  OBVIOUS
<1>1. SID \subseteq Nat /\ f.i \in Nat /\ t \in Nat
  BY TablesAssumption DEF SID, Frame
<1> DEFINE S == {i \in SID : f.i <= i /\ Copies(i, f.id)}
<1>2. t \in S /\ S \in SUBSET Nat
  <2>1. f.i <= t
    BY <1>1
  <2>2. t \in S
    BY <2>1, Zenon
  <2>3. S \subseteq SID
    OBVIOUS
  <2> QED BY <1>1, <2>2, <2>3
<1>3. PICK i : FirstOf(S, i)
  BY <1>2, FirstExists
<1>4. i \in S /\ \A k \in S : i <= k
  BY <1>1, <1>2, <1>3 DEF FirstOf
<1>5. \A k \in f.i .. i - 1 : ~ Copies(k, f.id)
  <2> TAKE k \in f.i .. i - 1
  <2>1. i \in Nat /\ k \in Nat /\ f.i <= k /\ k < i
    BY <1>1, <1>4
  <2>2. k \in SID
    BY <1>4, <2>1, TablesAssumption DEF SID
  <2> QED BY <1>4, <2>1, <2>2
<1>6. NextCopy(f, i) /\ i \in SID
  BY <1>4, <1>5 DEF NextCopy
<1> QED BY <1>6 DEF NoMoreCopies

\* What must be shown of t and r after a step.
LEMMA FedAfter ==
    ASSUME NEW t, NEW r,
           job'.kind = "none" \/ t \in job'.new \/ t \in old',
           (\A k \in 1 .. Len(stack') : stack'[k].id # r) => \E p : p = passed'[r] /\ Served(t, r, p)',
           \A k \in 1 .. Len(stack') : stack'[k].id = r =>
               \E f : f = stack'[k] /\ FedBy(t, r, f)'
    PROVE  Fed(t, r)'
<1>1. (\A k \in 1 .. Len(stack') : stack'[k].id # r) => Served(t, r, passed[r])'
  BY DEF Served
<1>2. ASSUME NEW k \in 1 .. Len(stack'), stack'[k].id = r
      PROVE  FedBy(t, r, stack[k])'
  <2>1. PICK f : f = stack'[k] /\ FedBy(t, r, f)'
    BY <1>2
  <2> QED BY <2>1 DEF FedBy, Pending, Waits, ToCome
<1> QED BY <1>1, <1>2 DEF Fed

\* When all copies are made, every THRU stream has what was passed on.
LEMMA SettledServed ==
    ASSUME DPInv, AllFed, Settled, NEW t \in SID, NEW r \in SID, Copies(t, r)
    PROVE  Served(t, r, passed[r])
<1>1. Fed(t, r)
  BY DEF AllFed
<1>2. CASE stack = <<>>
  <2>1. Len(stack) = 0
    BY <1>2
  <2>2. 1 .. Len(stack) = {}
    BY <2>1
  <2> QED BY <1>1, <2>2 DEF Fed
<1>3. CASE Len(stack) = 1 /\ NoMoreCopies(Top)
  <2>1. Top = stack[1] /\ 1 \in 1 .. Len(stack) /\ \A k \in 1 .. Len(stack) : k = 1
    BY <1>3 DEF Top
  <2>2. CASE r # Top.id
    BY <1>1, <2>1, <2>2 DEF Fed
  <2>3. CASE r = Top.id
    <3>1. PICK f : f = stack[1]
      OBVIOUS
    <3>2. FedBy(t, r, f) /\ NoMoreCopies(f) /\ r = f.id
      BY <1>1, <1>3, <2>1, <2>3, <3>1 DEF Fed
    <3>3. f \in Frame
      BY <1>3, <2>1, <3>1 DEF DPInv, Calling
    <3>4. t < f.i
      BY <3>2, <3>3, AllBehind
    <3> QED BY <3>2, <3>4 DEF FedBy
  <2> QED BY <2>2, <2>3
<1> QED BY <1>2, <1>3 DEF Settled

\* There is little to say when nothing was passed on.
LEMMA RestFed ==
    ASSUME AtRest PROVE AllFed
<1>1. Len(stack) = 0 /\ job.kind = "none" /\ job.new = {}
  BY DEF AtRest, Idle
<1>2. 1 .. Len(stack) = {}
  BY <1>1
<1>3. ASSUME NEW t \in SID, NEW r \in SID PROVE Served(t, r, passed[r])
  BY <1>1 DEF AtRest, Served, Late, Due
<1> QED BY <1>1, <1>2, <1>3 DEF AllFed, Fed

\* Nothing happens to the calls.
LEMMA QuietFed ==
    ASSUME AllFed, Quiet
    PROVE  AllFed'
<1>1. UNCHANGED <<setup, tab, old, prethru, stack, passed, copied>> /\ SameRun
  BY DEF Quiet
<1>2. job'.kind = job.kind /\ job'.new = job.new
  BY <1>1 DEF SameRun
<1> SUFFICES ASSUME NEW t \in SID, NEW r \in SID, Copies(t, r)'
             PROVE  Fed(t, r)'
  BY DEF AllFed
<1>3. Fed(t, r)
  BY <1>1 DEF AllFed, Copies, Live
<1> QED BY <1>1, <1>2, <1>3, ZenonT(60) DEF Fed, FedBy, Served, Late, HeaderOf, ToCome

\* A job begins.
LEMMA FreshFed ==
    ASSUME Nested, Fresh
    PROVE  AllFed'
<1>1. job = Idle /\ setup' = setup /\ UNCHANGED <<stack, passed, copied>>
  BY DEF Fresh
<1>2. AtRest
  BY <1>1 DEF Nested, Idle
<1>3. CASE job' = job
  <2>1. AtRest'
    BY <1>1, <1>2, <1>3 DEF AtRest
  <2> QED BY <2>1, RestFed, PTL
<1>4. CASE job'.new = Live \ old /\ tab' = tab /\ old' = old
  <2> SUFFICES ASSUME NEW t \in SID, NEW r \in SID, Copies(t, r)'
               PROVE  Fed(t, r)'
    BY DEF AllFed
  <2>1. t \in Live
    BY <1>4 DEF Copies, Live
  <2>2. stack' = <<>> /\ passed'[r] = <<>> /\ copied'[t] = <<>>
    BY <1>1, <1>2 DEF AtRest
  <2>3. Len(stack') = 0
    BY <2>2
  <2>4. 1 .. Len(stack') = {}
    BY <2>3
  <2>5. Served(t, r, <<>>)'
    BY <1>4, <2>2 DEF Served, Late, Due
  <2> QED BY <1>4, <2>1, <2>2, <2>4, <2>5, FedAfter
<1> QED BY <1>3, <1>4 DEF Fresh

\* What a call that begins is to pass on.
LEMMA CallFed ==
    ASSUME Nested, NEW t \in SID, NEW s \in SID, NEW f \in Frame, Served(t, s, passed[s]),
           copied'[t] = copied[t], prethru'[s] = prethru[s], t \in old' <=> t \in old,
           job'.new = job.new, setup' = setup,
           f.i = 0, f.at = "look", passed'[s] = passed[s] \o f.data
    PROVE  FedBy(t, s, f)'
<1>1. \A data : Served(t, s, data)' <=> Served(t, s, data)
  BY SameDue
<1>2. PICK b : b = passed[s]
  OBVIOUS
<1>3. b \in Seq(Datum) /\ Served(t, s, b)' /\ passed'[s] = b \o f.data
  BY <1>1, <1>2 DEF Nested
<1>4. ~ t < f.i /\ ~ Waits(t, f)
  BY TablesAssumption DEF SID, Waits
<1> QED BY <1>3, <1>4 DEF FedBy, Waits

\* The main loop calls.
LEMMA BeginsFed ==
    ASSUME DPInv, Nested, AllFed, Begins
    PROVE  AllFed'
<1>1. PICK fn \in {"read", "write"}, s \in SID, data \in Seq(Datum) :
        /\ stack = <<>> /\ job.kind # "none" /\ SameRun
        /\ Push(<<>>, fn, s, data)
        /\ UNCHANGED <<setup, tab, old, prethru, copied>>
  BY DEF Begins
<1> DEFINE f == Call(fn, s, data)
<1>2. stack' = <<f>> /\ passed' = [passed EXCEPT ![s] = @ \o data]
  BY <1>1 DEF Push
<1>3. f \in Frame /\ f.id = s /\ f.at = "look" /\ f.data = data /\ f.i = 0
  BY CallType DEF Call
<1> HIDE DEF f
<1>4. Len(stack') = 1 /\ stack'[1] = f
  BY <1>2
<1>5. 1 .. Len(stack') = {1}
  BY <1>4
<1>6. passed'[s] = passed[s] \o data /\ \A i \in SID \ {s} : passed'[i] = passed[i]
  BY <1>2, MoreData DEF Nested
<1>7. job'.new = job.new /\ job'.kind = job.kind
  BY <1>1 DEF SameRun
<1> SUFFICES ASSUME NEW t \in SID, NEW r \in SID, Copies(t, r)'
             PROVE  Fed(t, r)'
  BY DEF AllFed
<1>8. Copies(t, r)
  BY <1>1 DEF Copies, Live
<1>9. Served(t, r, passed[r]) /\ Fed(t, r)
  BY <1>1, <1>8, SettledServed DEF Settled, AllFed
<1>10. job'.kind = "none" \/ t \in job'.new \/ t \in old'
  BY <1>1, <1>7, <1>9 DEF Fed
<1>11. CASE r = s
  <2>1. FedBy(t, r, f)'
    BY <1>1, <1>3, <1>6, <1>7, <1>9, <1>11, CallFed
  <2> QED BY <1>3, <1>4, <1>5, <1>10, <1>11, <2>1, FedAfter
<1>12. CASE r # s
  <2>1. passed'[r] = passed[r]
    BY <1>6, <1>12
  <2>2. \E p : p = passed'[r] /\ Served(t, r, p)'
    BY <1>1, <1>7, <1>9, <2>1, SameDue
  <2> QED BY <1>3, <1>4, <1>5, <1>10, <1>12, <2>2, FedAfter
<1> QED BY <1>11, <1>12

\* The call of the main loop returns.
LEMMA ReturnsFed ==
    ASSUME DPInv, Nested, AllFed, Returns
    PROVE  AllFed'
<1>1. /\ Settled /\ stack' = <<>> /\ SameRun
      /\ UNCHANGED <<setup, tab, old, prethru, passed, copied>>
  BY DEF Returns
<1>2. Len(stack') = 0
  BY <1>1
<1>3. 1 .. Len(stack') = {}
  BY <1>2
<1>4. job'.new = job.new /\ job'.kind = job.kind
  BY <1>1 DEF SameRun
<1> SUFFICES ASSUME NEW t \in SID, NEW r \in SID, Copies(t, r)'
             PROVE  Fed(t, r)'
  BY DEF AllFed
<1>5. Copies(t, r)
  BY <1>1 DEF Copies, Live
<1>6. Served(t, r, passed[r]) /\ Fed(t, r)
  BY <1>1, <1>5, SettledServed DEF AllFed
<1>7. job'.kind = "none" \/ t \in job'.new \/ t \in old'
  BY <1>1, <1>4, <1>6 DEF Fed
<1>8. \E p : p = passed'[r] /\ Served(t, r, p)'
  BY <1>1, <1>4, <1>6, SameDue
<1> QED BY <1>3, <1>7, <1>8, FedAfter

\* The loop of call e, now f, goes on to THRU stream i and waits for it.
LEMMA LoopFed ==
    ASSUME DPInv, Linked, Nested, NEW e \in Frame, NEW f \in Frame, NEW i \in SID, NEW t \in SID,
           NextCopy(e, i), Copies(t, e.id), FedBy(t, e.id, e),
           t \in job.new \/ t \in old,
           e.id \in Monitor => e.fn = "write" /\ e.data # <<>>,
           e.at \in {"look", "again"}, e.at = "again" => Copies(e.i, e.id),
           f.data = e.data, f.i = i,
           f.at = IF WantsHeader(e, i) THEN "header" ELSE "data"
    PROVE  FedBy(t, e.id, f)
<1> DEFINE r == e.id
           h == HeaderOf(t, r)
           all == Content(prethru[r])
<1>1. t \in Nat /\ i \in Nat /\ e.i \in Nat /\ r \in SID /\ e.data \in Seq(Datum)
  BY TablesAssumption DEF SID, Frame
<1>2. /\ all \in Seq(Datum) /\ h \in Seq(Datum) /\ copied[t] \in Seq(Datum)
      /\ prethru[r] = <<>> => all = <<>> /\ h = <<>>
  BY <1>1, DueType
<1>3. PICK b \in Seq(Datum) :
        /\ passed[r] = b \o e.data
        /\ Pending(t, e) => Served(t, r, b)
        /\ t < e.i => Served(t, r, passed[r])
        /\ Waits(t, e) => (copied[t] \o ToCome(r, e)) \o e.data = Due(h, passed[r])
  BY DEF FedBy
<1>4. e.i <= i /\ ~ (e.i <= t /\ t < i)
  <2>1. e.i <= i /\ \A k \in e.i .. i - 1 : ~ Copies(k, r)
    BY DEF NextCopy
  <2>2. e.i <= t /\ t < i => t \in e.i .. i - 1
    BY <1>1
  <2> QED BY <2>1, <2>2
<1>5. t < f.i => Served(t, r, passed[r])
  BY <1>1, <1>3, <1>4
<1>6. Pending(t, f) => Served(t, r, b)
  <2>1. f.at # "look"
    OBVIOUS
  <2>2. t > i => Pending(t, e)
    BY <1>1, <1>4 DEF Pending
  <2> QED BY <1>3, <2>1, <2>2 DEF Pending
<1>7. ASSUME t = i
      PROVE  (copied[t] \o ToCome(r, f)) \o e.data = Due(h, passed[r])
  <2>1. CASE e.at = "again"
    <3>1. e.i = i
      <4>1. \A k \in e.i .. i - 1 : ~ Copies(k, r)
        BY DEF NextCopy
      <4>2. e.i < i => e.i \in e.i .. i - 1
        BY <1>1
      <4> QED BY <1>1, <1>4, <2>1, <4>1, <4>2
    <3>2. ToCome(r, f) = ToCome(r, e)
      BY <2>1 DEF ToCome, WantsHeader
    <3> QED BY <1>3, <1>7, <2>1, <3>1, <3>2 DEF Waits
  <2>2. CASE e.at = "look"
    <3>1. Served(t, r, b)
      BY <1>1, <1>3, <1>4, <1>7, <2>2 DEF Pending
    <3>2. copied[t] = Due(h, b) /\ (Late(t, r) => (t \in old <=> b # <<>>))
      BY <3>1 DEF Served
    <3>3. prethru[r] # <<>> => e.fn = "write" /\ e.data # <<>>
      BY <1>1 DEF Linked
    <3> HIDE DEF h, all
    <3>4. CASE WantsHeader(e, i)
      <4>1. t \notin old /\ t \in setup.prethru /\ prethru[r] # <<>>
        BY <1>7, <3>4 DEF WantsHeader
      <4>2. t \in job.new /\ Late(t, r)
        BY <4>1 DEF Late
      <4>3. b = <<>> /\ h = all /\ e.data # <<>>
        BY <3>2, <3>3, <4>1, <4>2 DEF h, all, HeaderOf
      <4>4. ToCome(r, f) = h
        BY <3>4, <4>3 DEF ToCome, all
      <4> QED BY <1>1, <1>2, <1>3, <3>2, <4>3, <4>4, DueFirst, ZenonT(60)
    <3>5. CASE ~ WantsHeader(e, i)
      <4>1. b # <<>> \/ h = <<>>
        <5>1. CASE t \in job.new /\ prethru[r] # <<>> /\ t \in setup.prethru
          <6>1. t \in old
            BY <1>7, <2>2, <3>3, <3>5, <5>1 DEF WantsHeader
          <6> QED BY <3>2, <5>1, <6>1 DEF Late
        <5>2. CASE ~ (t \in job.new /\ prethru[r] # <<>> /\ t \in setup.prethru)
          BY <1>2, <5>2 DEF h, HeaderOf
        <5> QED BY <5>1, <5>2
      <4>2. ToCome(r, f) = <<>>
        BY <3>5 DEF ToCome
      <4>3. copied[t] \o <<>> = copied[t]
        BY <1>2, ConcatEmptySeq
      <4>4. Due(h, b) \o e.data = Due(h, b \o e.data)
        <5>1. PICK d : d = e.data
          OBVIOUS
        <5>2. h \in Seq(Datum) /\ d \in Seq(Datum) /\ (b # <<>> \/ d = <<>> \/ h = <<>>)
          BY <1>1, <1>2, <4>1, <5>1
        <5>3. Due(h, b) \o d = Due(h, b \o d)
          BY <5>2, DueMore, ZenonT(60)
        <5> QED BY <5>1, <5>3
      <4> QED BY <1>3, <3>2, <4>2, <4>3, <4>4
    <3> QED BY <3>4, <3>5
  <2> QED BY <2>1, <2>2
<1> HIDE DEF h, all
<1> QED BY <1>3, <1>5, <1>6, <1>7 DEF FedBy, Waits, h

\* A copy is begun.
LEMMA CopyToFed ==
    ASSUME DPInv, Linked, Nested, AllFed, CopyTo
    PROVE  AllFed'
<1>1. PICK i \in SID, f \in Frame, g \in Frame, n \in Nat \ {0} : CopyBegins(i, f, g, n)
  BY CopyToLeaves
<1>2. PICK e : e = stack[n]
  OBVIOUS
<1>3. /\ n = Len(stack) /\ n \in 1 .. n /\ Top = e /\ stack # <<>> /\ e \in Frame
      /\ e.id \in Live /\ NextCopy(e, i)
      /\ Len(stack') = n + 1 /\ stack'[n + 1] = g /\ stack'[n] = f
      /\ \A k \in 1 .. n - 1 : stack'[k] = stack[k]
      /\ UNCHANGED <<setup, tab, old, prethru, job, copied>>
  BY <1>1, <1>2 DEF CopyBegins, Top
<1>4. /\ f.id = e.id /\ f.data = e.data /\ f.i = i
      /\ f.at = IF WantsHeader(e, i) THEN "header" ELSE "data"
      /\ g.id = i /\ g.at = "look" /\ g.i = 0
      /\ passed' = [passed EXCEPT ![i] = @ \o g.data]
  BY <1>1, <1>3 DEF CopyBegins
<1>5. passed'[i] = passed[i] \o g.data /\ \A j \in SID \ {i} : passed'[j] = passed[j]
  <2>1. g.data \in Seq(Datum)
    BY DEF Frame
  <2> QED BY <1>4, <2>1, MoreData DEF Nested
<1>6. \A k \in 1 .. n : stack[k].id # i
  BY <1>3, NextOnce DEF NextCopy
<1>7. \A k \in 1 .. n : stack'[k].id = stack[k].id /\ (k # n => stack'[k] = stack[k])
  <2> TAKE k \in 1 .. n
  <2>1. k # n => k \in 1 .. n - 1
    OBVIOUS
  <2> QED BY <1>2, <1>3, <1>4, <2>1
<1>8. \A k \in 1 .. n + 1 : k # n + 1 => k \in 1 .. n
  OBVIOUS
<1> SUFFICES ASSUME NEW t \in SID, NEW r \in SID, Copies(t, r)'
             PROVE  Fed(t, r)'
  BY DEF AllFed
<1>9. Copies(t, r) /\ Fed(t, r)
  BY <1>3 DEF Copies, Live, AllFed
<1>10. t \in job.new \/ t \in old
  BY <1>3, <1>9 DEF Fed, Nested, AtRest
<1>11. CASE r = i
  <2>1. Served(t, r, passed[r])
    BY <1>3, <1>6, <1>9, <1>11 DEF Fed
  <2>2. FedBy(t, r, g)'
    BY <1>3, <1>4, <1>5, <1>11, <2>1, CallFed
  <2>3. \A k \in 1 .. n + 1 : stack'[k].id = r => k = n + 1
    BY <1>6, <1>7, <1>8, <1>11
  <2>4. n + 1 \in 1 .. n + 1
    OBVIOUS
  <2> QED BY <1>3, <1>4, <1>10, <1>11, <2>2, <2>3, <2>4, FedAfter, ZenonT(60)
<1>12. CASE r # i
  <2>1. Same(t, r)
    BY <1>3, <1>5, <1>12 DEF Same
  <2>2. \A a : FedBy(t, r, a)' <=> FedBy(t, r, a)
    BY <2>1, SameFed
  <2>3. \A data : Served(t, r, data)' <=> Served(t, r, data)
    BY <2>1, SameDue DEF Same
  <2>4. ASSUME \A k \in 1 .. Len(stack') : stack'[k].id # r
        PROVE  \E p : p = passed'[r] /\ Served(t, r, p)'
    <3>1. \A k \in 1 .. n : k \in 1 .. n + 1
      OBVIOUS
    <3>2. \A k \in 1 .. n : stack[k].id # r
      BY <1>3, <1>7, <2>4, <3>1
    <3> QED BY <1>3, <1>9, <2>1, <2>3, <3>2 DEF Fed, Same
  <2>5. ASSUME NEW k \in 1 .. Len(stack'), stack'[k].id = r
        PROVE  \E a : a = stack'[k] /\ FedBy(t, r, a)'
    <3>1. k # n + 1
      BY <1>3, <1>4, <1>12, <2>5
    <3>2. k \in 1 .. n
      BY <1>3, <1>8, <3>1
    <3>3. PICK a : a = stack[k]
      OBVIOUS
    <3>4. FedBy(t, r, a)
      BY <1>3, <1>7, <1>9, <2>5, <3>2, <3>3 DEF Fed
    <3>5. CASE k # n
      BY <1>7, <2>2, <3>2, <3>3, <3>4, <3>5
    <3>6. CASE k = n
      <4>1. a = e /\ r = e.id
        BY <1>2, <1>7, <2>5, <3>2, <3>3, <3>6
      <4>2. /\ e.id \in Monitor => e.fn = "write" /\ e.data # <<>>
            /\ e.at \in {"look", "again"} /\ (e.at = "again" => Copies(e.i, e.id))
        BY <1>2, <1>3 DEF Nested
      <4>3. FedBy(t, e.id, e) /\ Copies(t, e.id)
        BY <1>9, <3>4, <4>1
      <4>4. FedBy(t, e.id, f)
        BY <1>3, <1>4, <1>10, <4>2, <4>3, LoopFed
      <4> QED BY <1>3, <2>2, <3>6, <4>1, <4>4
    <3> QED BY <3>5, <3>6
  <2> QED BY <1>3, <1>10, <2>4, <2>5, FedAfter
<1> QED BY <1>11, <1>12

\* A THRU stream and the stream it copies are in the tables.
LEMMA CopiesIds ==
    ASSUME Linked, NEW t, NEW r, Copies(t, r)
    PROVE  t \in SID /\ r \in SID
BY DEF Linked, ThruLinked, Copies, Live, LiveStreams

\* The write to another THRU stream than t returns to call f, now h.
LEMMA OtherFed ==
    ASSUME NEW t \in SID, NEW r, NEW f \in Frame, NEW h \in Frame, FedBy(t, r, f), t # f.i,
           h.data = f.data, h.i = f.i \/ (h.i = f.i + 1 /\ h.at = "look")
    PROVE  FedBy(t, r, h)
<1>1. t \in Nat /\ f.i \in Nat
  BY TablesAssumption DEF SID, Frame
<1>2. (t < h.i <=> t < f.i) /\ ~ Waits(t, h) /\ (Pending(t, h) => Pending(t, f))
  BY <1>1 DEF Waits, Pending
<1> QED BY <1>2 DEF FedBy

\* The write to t, which got what it waited for, returns to call f, now h.
LEMMA ThisFed ==
    ASSUME DPInv, Linked, Nested, NEW t \in SID, NEW f \in Frame, NEW h \in Frame,
           FedBy(t, f.id, f), t = f.i, f.at \in {"header", "data"}, h.data = f.data,
           f.id \in Monitor => f.data # <<>>,
           copied'[t] = copied[t] \o Handed(f),
           passed'[f.id] = passed[f.id], prethru' = prethru, job' = job, setup' = setup,
           \/ f.at = "header" /\ h.i = f.i /\ h.at = "again"
           \/ f.at = "data" /\ h.i = f.i + 1 /\ h.at = "look" /\ t \in old'
    PROVE  FedBy(t, f.id, h)'
<1> DEFINE r == f.id
           hd == HeaderOf(t, r)
<1>1. t \in Nat /\ f.i \in Nat /\ r \in SID /\ f.data \in Seq(Datum)
  BY TablesAssumption DEF SID, Frame
<1>2. /\ Content(prethru[r]) \in Seq(Datum) /\ copied[t] \in Seq(Datum)
      /\ passed[r] \in Seq(Datum)
  BY <1>1, DueType
<1>3. PICK b \in Seq(Datum) :
        /\ passed[r] = b \o f.data
        /\ Waits(t, f) => (copied[t] \o ToCome(r, f)) \o f.data = Due(hd, passed[r])
  BY DEF FedBy
<1>4. (copied[t] \o ToCome(r, f)) \o f.data = Due(hd, passed[r])
  BY <1>3 DEF Waits
<1>5. HeaderOf(t, r)' = hd /\ (Late(t, r)' <=> Late(t, r))
  BY DEF HeaderOf, Late
<1>6. CASE f.at = "header"
  <2>1. h.i = f.i /\ h.at = "again"
    BY <1>6
  <2>2. copied'[t] = copied[t] \o ToCome(r, f)
    BY <1>6 DEF Handed, ToCome
  <2>3. copied'[t] \in Seq(Datum)
    BY <1>2, <1>6, BothEmpty DEF Handed
  <2>4. ToCome(r, h)' = <<>>
    BY <2>1 DEF ToCome
  <2>5. copied'[t] \o <<>> = copied'[t]
    BY <2>3, ConcatEmptySeq
  <2>6. (copied'[t] \o ToCome(r, h)') \o h.data = Due(hd, passed[r])
    BY <1>4, <2>2, <2>4, <2>5
  <2>7. ~ t < h.i /\ ~ Pending(t, h)
    BY <1>1, <2>1 DEF Pending
  <2> HIDE DEF hd
  <2> QED BY <1>3, <1>5, <2>6, <2>7 DEF FedBy, Pending
<1>7. CASE f.at = "data"
  <2>1. h.i = f.i + 1 /\ h.at = "look" /\ t \in old'
    BY <1>7
  <2>2. ToCome(r, f) = <<>> /\ copied[t] \o <<>> = copied[t]
    BY <1>2, <1>7, ConcatEmptySeq DEF ToCome
  <2>3. copied'[t] = Due(hd, passed[r])
    BY <1>4, <1>7, <2>2 DEF Handed
  <2>4. Late(t, r) => passed[r] # <<>>
    <3>1. Late(t, r) => f.data # <<>>
      BY <1>1 DEF Late, Linked
    <3> QED BY <1>1, <1>3, <3>1, BothEmpty
  <2>5. PICK p : p = passed[r]
    OBVIOUS
  <2>6. Served(t, r, p)' /\ p = passed'[r]
    BY <1>5, <2>1, <2>3, <2>4, <2>5 DEF Served
  <2>7. t < h.i /\ ~ Pending(t, h) /\ ~ Waits(t, h)
    BY <1>1, <2>1 DEF Pending, Waits
  <2>8. passed'[r] = b \o h.data
    BY <1>3
  <2>9. Served(t, r, passed[r])'
    BY <2>6 DEF Served
  <2> QED BY <2>7, <2>8, <2>9 DEF FedBy, Pending, Waits
<1> QED BY <1>6, <1>7

\* A copy ends.
LEMMA WriteCopyFed ==
    ASSUME DPInv, Linked, Linked', Nested, AllFed, WriteCopy
    PROVE  AllFed'
<1>1. PICK full \in BOOLEAN, f \in Frame, g \in Frame, h \in Frame, n \in Nat \ {0, 1} :
        CopyEnds(full, f, g, h, n)
  BY WriteCopyLeaves
<1>2. /\ n = Len(stack) /\ n \in 1 .. n /\ n - 1 \in 1 .. n - 1 /\ n - 1 \in 1 .. n
      /\ f = stack[n - 1] /\ g = stack[n] /\ g.id \in Live /\ NoMoreCopies(g)
      /\ stack # <<>> /\ Top = g
      /\ Len(stack') = n - 1 /\ stack'[n - 1] = h
      /\ \A k \in 1 .. n - 2 : stack'[k] = stack[k]
      /\ UNCHANGED <<setup, job, passed>>
      /\ h.id = f.id /\ h.data = f.data
      /\ IF full /\ f.at = "header" THEN h.at = "again" /\ h.i = f.i
                                    ELSE h.at = "look" /\ h.i = f.i + 1
  BY <1>1 DEF CopyEnds, Top
<1>3. /\ f.i = g.id /\ f.at \in {"header", "data"} /\ Copies(g.id, f.id)
      /\ g.data = Handed(f)
  <2>1. (n - 1) + 1 = n
    OBVIOUS
  <2>2. Serves(stack[n - 1], stack[n])
    BY <1>2, <2>1 DEF Nested
  <2> QED BY <1>2, <2>2 DEF Serves
<1>4. \A j, k \in 1 .. n : stack[j].id = stack[k].id => j = k
  BY <1>2, StackOnce
<1>5. f.id # g.id /\ f.id \in SID /\ g.id \in SID /\ g.data \in Seq(Datum)
  <2>1. f.id \in SID /\ g.id \in SID /\ g.data \in Seq(Datum)
    BY DEF Frame
  <2>2. n - 1 # n
    OBVIOUS
  <2> QED BY <1>2, <1>4, <2>1, <2>2
<1>6. \A k \in 1 .. n - 1 : k \in 1 .. n /\ stack'[k].id = stack[k].id
                            /\ (k # n - 1 => stack'[k] = stack[k])
  <2> TAKE k \in 1 .. n - 1
  <2>1. k \in 1 .. n /\ (k # n - 1 => k \in 1 .. n - 2)
    OBVIOUS
  <2> QED BY <1>2, <2>1
<1>7. full => /\ copied'[g.id] = copied[g.id] \o g.data
              /\ \A j \in SID \ {g.id} : copied'[j] = copied[j]
              /\ tab' = tab /\ prethru' = prethru
              /\ old' = IF f.at = "header" THEN old ELSE old \cup {f.i}
  <2> SUFFICES ASSUME full
               PROVE  /\ copied'[g.id] = copied[g.id] \o g.data
                      /\ \A j \in SID \ {g.id} : copied'[j] = copied[j]
                      /\ tab' = tab /\ prethru' = prethru
                      /\ old' = IF f.at = "header" THEN old ELSE old \cup {f.i}
    OBVIOUS
  <2>1. /\ copied' = [copied EXCEPT ![g.id] = @ \o g.data] /\ tab' = tab /\ prethru' = prethru
        /\ old' = IF f.at = "header" THEN old ELSE old \cup {f.i}
    BY <1>1 DEF CopyEnds
  <2>2. copied \in [SID -> Seq(Datum)]
    BY DEF Nested
  <2> QED BY <1>5, <2>1, <2>2, MoreData
<1>8. ~ full => Gone(streams_delete(tab, f.i)) /\ old' = old /\ copied' = copied
  BY <1>1 DEF CopyEnds
<1> SUFFICES ASSUME NEW t \in SID, NEW r \in SID, Copies(t, r)'
             PROVE  Fed(t, r)'
  BY DEF AllFed
<1>9. Copies(t, r) /\ prethru'[r] = prethru[r] /\ (~ full => t # g.id /\ r # g.id)
  <2>1. CASE full
    <3>1. tab' = tab /\ prethru' = prethru
      BY <1>7, <2>1
    <3> QED BY <2>1, <3>1 DEF Copies, Live
  <2>2. CASE ~ full
    <3>1. Gone(streams_delete(tab, f.i))
      BY <1>8, <2>2
    <3>2. Copies(t, r) /\ r \in Live' /\ prethru'[r] = prethru[r]
      BY <3>1, GoneCopies
    <3>3. g.id \notin Live'
      <4>1. tab' = streams_delete(tab, g.id)
        BY <1>3, <3>1, Zenon DEF Gone
      <4> QED BY <1>2, <4>1, DeletedGone DEF Live, DPInv, Stored
    <3>4. t \in Live'
      BY DEF Copies
    <3> QED BY <3>2, <3>3, <3>4
  <2> QED BY <2>1, <2>2
<1>10. Fed(t, r) /\ (t \in job.new \/ t \in old)
  <2>1. Fed(t, r)
    BY <1>9 DEF AllFed
  <2> QED BY <1>2, <2>1 DEF Fed, Nested, AtRest
<1>11. job'.kind = "none" \/ t \in job'.new \/ t \in old'
  BY <1>2, <1>7, <1>8, <1>10
<1>12. t = g.id => r = f.id
  BY <1>3, <1>9 DEF Copies
<1>13. t # g.id => Same(t, r)
  <2>1. t # g.id => copied'[t] = copied[t] /\ (t \in old' <=> t \in old)
    BY <1>3, <1>7, <1>8
  <2> QED BY <1>2, <1>9, <2>1 DEF Same
<1>14. CASE r = f.id
  <2>1. FedBy(t, r, f)
    BY <1>2, <1>10, <1>14 DEF Fed
  <2>2. FedBy(t, r, h)'
    <3>1. CASE t # g.id
      <4>1. h.i = f.i \/ (h.i = f.i + 1 /\ h.at = "look")
        BY <1>2
      <4>2. t # f.i
        BY <1>3, <3>1
      <4>3. FedBy(t, r, h)
        BY <1>2, <2>1, <4>1, <4>2, OtherFed
      <4> QED BY <1>13, <3>1, <4>3, SameFed
    <3>2. CASE t = g.id
      <4>1. full
        BY <1>9, <3>2
      <4>2. f.id \in Monitor => f.data # <<>>
        BY <1>2 DEF Nested
      <4>3. \/ f.at = "header" /\ h.i = f.i /\ h.at = "again"
            \/ f.at = "data" /\ h.i = f.i + 1 /\ h.at = "look" /\ t \in old'
        BY <1>2, <1>3, <1>7, <3>2, <4>1
      <4>4. copied'[t] = copied[t] \o Handed(f) /\ prethru' = prethru
        BY <1>3, <1>7, <3>2, <4>1
      <4>5. FedBy(t, f.id, f) /\ t = f.i
        BY <1>3, <1>14, <2>1, <3>2, SMTT(60)
      <4>6. FedBy(t, f.id, h)'
        BY <1>2, <1>3, <4>2, <4>3, <4>4, <4>5, ThisFed
      <4> QED BY <1>14, <4>6
    <3> QED BY <3>1, <3>2
  <2>3. \A k \in 1 .. n - 1 : stack'[k].id = r => k = n - 1
    <3> SUFFICES ASSUME NEW k \in 1 .. n - 1, stack'[k].id = r PROVE k = n - 1
      OBVIOUS
    <3>1. k \in 1 .. n /\ stack[k].id = stack[n - 1].id
      BY <1>2, <1>6, <1>14
    <3> QED BY <1>2, <1>4, <3>1
  <2> QED BY <1>2, <1>11, <1>14, <2>2, <2>3, FedAfter
<1>15. CASE r # f.id
  <2>1. t # g.id
    BY <1>12, <1>15
  <2>2. /\ \A a : FedBy(t, r, a)' <=> FedBy(t, r, a)
        /\ \A data : Served(t, r, data)' <=> Served(t, r, data)
        /\ passed'[r] = passed[r]
    BY <1>13, <2>1, SameFed, SameDue DEF Same
  <2>3. ASSUME \A k \in 1 .. Len(stack') : stack'[k].id # r
        PROVE  Served(t, r, passed[r])
    <3>1. CASE r = g.id
      <4>1. FedBy(t, r, g)
        BY <1>2, <1>10, <3>1 DEF Fed
      <4>2. t < g.i
        BY <1>2, <1>9, <3>1, AllBehind
      <4> QED BY <4>1, <4>2 DEF FedBy
    <3>2. CASE r # g.id
      <4>1. \A k \in 1 .. n : k # n => k \in 1 .. n - 1
        OBVIOUS
      <4>2. \A k \in 1 .. n : stack[k].id # r
        BY <1>2, <1>6, <2>3, <3>2, <4>1
      <4> QED BY <1>2, <1>10, <4>2 DEF Fed
    <3> QED BY <3>1, <3>2
  <2>4. ASSUME \A k \in 1 .. Len(stack') : stack'[k].id # r
        PROVE  \E p : p = passed'[r] /\ Served(t, r, p)'
    BY <2>2, <2>3, <2>4
  <2>5. ASSUME NEW k \in 1 .. Len(stack'), stack'[k].id = r
        PROVE  \E a : a = stack'[k] /\ FedBy(t, r, a)'
    <3>1. k \in 1 .. n - 1 /\ k # n - 1
      BY <1>2, <1>15, <2>5
    <3>2. PICK a : a = stack[k]
      OBVIOUS
    <3>3. a = stack'[k] /\ k \in 1 .. n
      BY <1>6, <3>1, <3>2
    <3>4. FedBy(t, r, a)
      BY <1>2, <1>10, <2>5, <3>2, <3>3 DEF Fed
    <3> QED BY <2>2, <3>3, <3>4
  <2> QED BY <1>11, <2>4, <2>5, FedAfter
<1> QED BY <1>14, <1>15

\* Every step keeps account of the copies.
LEMMA FedStep ==
    ASSUME DPInv, Linked, Linked', Nested, AllFed, Next
    PROVE  AllFed'
<1>1. CASE Ends
  <2>1. /\ job' = Idle /\ stack' = <<>> /\ passed' = [t \in SID |-> <<>>]
        /\ copied' = [t \in SID |-> <<>>]
    BY <1>1 DEF Ends, Over
  <2>2. AtRest'
    BY <2>1 DEF AtRest
  <2> QED BY <2>2, RestFed, PTL
<1> QED BY <1>1, CallEffects, QuietFed, FreshFed, BeginsFed, ReturnsFed, CopyToFed, WriteCopyFed

\* While the calls run, every THRU stream has what the loops have passed on so
\* far, whichever way the writes end: the account that ThruComplete closes.
THEOREM CopiesFed == Spec => []AllFed
<1>1. Init => AllFed
  <2> SUFFICES ASSUME Init PROVE AllFed
    OBVIOUS
  <2>1. AtRest
    BY DEF Init, AtRest
  <2> QED BY <2>1, RestFed
<1>2. DPInv /\ Linked /\ Linked' /\ Nested /\ AllFed /\ [Next]_vars => AllFed'
  <2> SUFFICES ASSUME DPInv, Linked, Linked', Nested, AllFed, [Next]_vars PROVE AllFed'
    OBVIOUS
  <2>1. CASE Next
    BY <2>1, FedStep
  <2>2. CASE UNCHANGED vars
    BY <2>2, QuietFed DEF vars, Quiet, SameRun
  <2> QED BY <2>1, <2>2
<1> QED BY <1>1, <1>2, CallsNested, DataInvariance, PTL DEF Spec

\* When the call from the main loop is over, every THRU stream that is still
\* there has got all that was read from or written to its stream, in order,
\* behind the header it asked for.
THEOREM ThruCorrect == Spec => ThruComplete
<1> DEFINE Whole ==
        job # Idle /\ job' = Idle =>
            \A t \in Live' :
                LET r == tab'.streams[t].pos_rel_id
                    header == IF t \in setup.prethru \cap job.new /\ passed[r] # <<>>
                              THEN Content(prethru[r]) ELSE <<>>
                IN  tab'.streams[t].dir = "THRU" /\ tab'.streams[t].ready
                        => copied[t] = header \o passed[r]
<1>1. DPInv /\ Linked /\ Nested /\ AllFed /\ [Next]_vars => [Whole]_vars
  <2> SUFFICES ASSUME DPInv, Linked, Nested, AllFed, Next, job # Idle, job' = Idle,
                      NEW t \in Live', tab'.streams[t].dir = "THRU", tab'.streams[t].ready,
                      NEW r, r = tab'.streams[t].pos_rel_id,
                      NEW header,
                      header = IF t \in setup.prethru \cap job.new /\ passed[r] # <<>>
                               THEN Content(prethru[r]) ELSE <<>>
               PROVE  copied[t] = header \o passed[r]
    BY ZenonT(60)
  <2>1. Ends
    <3>1. job.kind # "none" /\ job'.kind = "none"
      BY DEF Nested, AtRest, Idle
    <3>2. ~ SameRun
      BY <3>1 DEF SameRun
    <3>3. ~ CopyTo
      <4> SUFFICES ASSUME CopyTo PROVE FALSE
        OBVIOUS
      <4>1. PICK i \in SID, f \in Frame, g \in Frame, n \in Nat \ {0} : CopyBegins(i, f, g, n)
        BY CopyToLeaves
      <4> QED BY <4>1 DEF CopyBegins
    <3>4. ~ WriteCopy
      BY DEF WriteCopy
    <3> QED BY <3>2, <3>3, <3>4, CallEffects DEF Quiet, Fresh, Begins, Returns
  <2>2. Copies(t, r) /\ t \in SID /\ r \in SID
    <3>1. CASE tab' = tab
      <4>1. Copies(t, r)
        BY <3>1 DEF Copies, Live
      <4> QED BY <4>1, CopiesIds
    <3>2. ASSUME NEW x, tab' = streams_delete(tab, x)
          PROVE  Copies(t, r) /\ t \in SID /\ r \in SID
      <4> DEFINE u == streams_delete(tab, x)
      <4>1. \A s \in LiveStreams(u) :
              /\ s \in LiveStreams(tab)
              /\ u.streams[s].dir = tab.streams[s].dir
              /\ u.streams[s].ready = tab.streams[s].ready
              /\ tab.streams[s].dir = "THRU" =>
                     u.streams[s].pos_rel_id = tab.streams[s].pos_rel_id
        BY DeleteCopies DEF DPInv, Stored, Linked
      <4> HIDE DEF u
      <4>2. tab' = u
        BY <3>2 DEF u
      <4>3. Copies(t, r)
        BY <4>1, <4>2 DEF Copies, Live
      <4> QED BY <4>3, CopiesIds
    <3> QED BY <2>1, <3>1, <3>2 DEF Ends
  <2>3. Served(t, r, passed[r])
    BY <2>1, <2>2, SettledServed DEF Ends
  <2>4. copied[t] = Due(HeaderOf(t, r), passed[r]) /\ passed[r] \in Seq(Datum)
    BY <2>2, <2>3, DueType DEF Served
  <2>5. CASE passed[r] = <<>>
    <3>1. header = <<>> /\ copied[t] = <<>>
      BY <2>4, <2>5, SMTT(60) DEF Due
    <3>2. header \o passed[r] = passed[r]
      BY <2>4, <3>1, ConcatEmptySeq
    <3> QED BY <2>5, <3>1, <3>2
  <2>6. CASE passed[r] # <<>>
    BY <2>4, <2>6 DEF Due, HeaderOf
  <2> QED BY <2>5, <2>6
<1> QED BY <1>1, CopiesFed, CallsNested, DataInvariance, PTL DEF Spec, ThruComplete
==============================================================================
