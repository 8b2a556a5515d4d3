-------------------------- MODULE FrameQueueProofs --------------------------
(***************************************************************************)
(* What the frame queue operations do to the entries of a list, for every  *)
(* list and every set of entries.  The ownership proofs of the kernel core *)
(* and of the CUSE core rest on these lemmas only, never on how a list is  *)
(* represented.                                                            *)
(***************************************************************************)
EXTENDS FrameQueue, TLAPS

\* dmx512_framequeue_put links its entry and keeps all others.
LEMMA PutEntries ==
  ASSUME NEW S, NEW q \in Seq(S), NEW e \in S
  PROVE  /\ dmx512_framequeue_put(q, e) \in Seq(S)
         /\ Entries(dmx512_framequeue_put(q, e)) = Entries(q) \union {e}
<1> DEFINE p == Append(q, e)
<1>1. p \in Seq(S) /\ Len(p) = Len(q) + 1 /\ Len(q) \in Nat
  OBVIOUS
<1>2. \A i \in 1..Len(q) : p[i] = q[i]
  OBVIOUS
<1>3. p[Len(q) + 1] = e
  OBVIOUS
<1>4. ASSUME NEW x PROVE x \in Entries(p) <=> x \in Entries(q) \union {e}
  <2>1. ASSUME x \in Entries(p) PROVE x \in Entries(q) \union {e}
    <3>1. PICK i \in 1..Len(p) : x = p[i]
      BY <2>1 DEF Entries
    <3>2. CASE i = Len(q) + 1
      BY <3>1, <3>2, <1>3
    <3>3. CASE i \in 1..Len(q)
      BY <3>1, <3>3, <1>2 DEF Entries
    <3> QED BY <3>2, <3>3, <1>1
  <2>2. ASSUME x \in Entries(q) PROVE x \in Entries(p)
    <3>1. PICK i \in 1..Len(q) : x = q[i]
      BY <2>2 DEF Entries
    <3>2. i \in 1..Len(p) /\ p[i] = x
      BY <3>1, <1>1, <1>2
    <3> QED BY <3>2 DEF Entries
  <2>3. e \in Entries(p)
    <3>1. Len(q) + 1 \in 1..Len(p)
      BY <1>1
    <3> QED BY <3>1, <1>3 DEF Entries
  <2> QED BY <2>1, <2>2, <2>3
<1> QED BY <1>1, <1>4 DEF dmx512_framequeue_put

\* Linking an entry that is not in the list yet links none twice.
LEMMA PutNoDuplicates ==
  ASSUME NEW S, NEW q \in Seq(S), NEW e \in S,
         NoDuplicates(q), e \notin Entries(q)
  PROVE  NoDuplicates(dmx512_framequeue_put(q, e))
<1> DEFINE p == Append(q, e)
<1>1. Len(p) = Len(q) + 1 /\ Len(q) \in Nat
  OBVIOUS
<1>2. \A i \in 1..Len(q) : p[i] = q[i] /\ q[i] # e
  BY DEF Entries
<1>3. p[Len(q) + 1] = e
  OBVIOUS
<1>4. \A i, j \in 1..Len(q) : q[i] = q[j] => i = j
  BY DEF NoDuplicates
<1>5. ASSUME NEW i \in 1..Len(p), NEW j \in 1..Len(p), p[i] = p[j] PROVE i = j
  <2>1. (i \in 1..Len(q) \/ i = Len(q) + 1) /\ (j \in 1..Len(q) \/ j = Len(q) + 1)
    BY <1>1
  <2> HIDE DEF p
  <2> QED BY <2>1, <1>2, <1>3, <1>4, <1>5
<1> QED BY <1>5 DEF NoDuplicates, dmx512_framequeue_put

\* dmx512_framequeue_get unlinks the first entry and keeps all others.
LEMMA GetEntries ==
  ASSUME NEW S, NEW q \in Seq(S), ~ dmx512_framequeue_isempty(q)
  PROVE  /\ dmx512_framequeue_front(q) \in S
         /\ dmx512_framequeue_get(q) \in Seq(S)
         /\ Entries(q) = Entries(dmx512_framequeue_get(q))
                           \union {dmx512_framequeue_front(q)}
<1> DEFINE r == Tail(q)
<1>1. q # << >>
  BY DEF dmx512_framequeue_isempty
<1>2. /\ r \in Seq(S)
      /\ Len(q) \in Nat \ {0}
      /\ Len(r) = Len(q) - 1
      /\ \A i \in 1..Len(r) : r[i] = q[i + 1]
      /\ Head(q) = q[1]
  BY <1>1
<1>3. Head(q) \in S
  BY <1>1
<1>4. ASSUME NEW x PROVE x \in Entries(q) <=> x \in Entries(r) \union {Head(q)}
  <2> HIDE DEF r
  <2>1. ASSUME x \in Entries(q) PROVE x \in Entries(r) \union {Head(q)}
    <3>1. PICK i \in 1..Len(q) : x = q[i]
      BY <2>1 DEF Entries
    <3>2. CASE i = 1
      BY <3>1, <3>2, <1>2
    <3>3. CASE i # 1
      <4>1. i - 1 \in 1..Len(r) /\ r[i - 1] = x
        BY <3>1, <3>3, <1>2
      <4> QED BY <4>1 DEF Entries
    <3> QED BY <3>2, <3>3
  <2>2. ASSUME x \in Entries(r) PROVE x \in Entries(q)
    <3>1. PICK i \in 1..Len(r) : x = r[i]
      BY <2>2 DEF Entries
    <3>2. i + 1 \in 1..Len(q) /\ q[i + 1] = x
      BY <3>1, <1>2
    <3> QED BY <3>2 DEF Entries
  <2>3. Head(q) \in Entries(q)
    <3>1. 1 \in 1..Len(q)
      BY <1>2
    <3> QED BY <3>1, <1>2 DEF Entries
  <2> QED BY <2>1, <2>2, <2>3
<1> QED BY <1>2, <1>3, <1>4
        DEF dmx512_framequeue_front, dmx512_framequeue_get

\* The entry taken out of a list without duplicates is not in it any more.
LEMMA GetNoDuplicates ==
  ASSUME NEW S, NEW q \in Seq(S), ~ dmx512_framequeue_isempty(q),
         NoDuplicates(q)
  PROVE  /\ NoDuplicates(dmx512_framequeue_get(q))
         /\ dmx512_framequeue_front(q) \notin Entries(dmx512_framequeue_get(q))
<1> DEFINE r == Tail(q)
<1>1. q # << >>
  BY DEF dmx512_framequeue_isempty
<1>2. /\ Len(q) \in Nat \ {0}
      /\ Len(r) = Len(q) - 1
      /\ \A i \in 1..Len(r) : r[i] = q[i + 1]
      /\ Head(q) = q[1]
  BY <1>1
<1>3. \A i, j \in 1..Len(q) : q[i] = q[j] => i = j
  BY DEF NoDuplicates
<1> HIDE DEF r
<1>4. \A i, j \in 1..Len(r) : r[i] = r[j] => i = j
  <2> SUFFICES ASSUME NEW i \in 1..Len(r), NEW j \in 1..Len(r), r[i] = r[j]
               PROVE  i = j
    OBVIOUS
  <2>1. i + 1 \in 1..Len(q) /\ j + 1 \in 1..Len(q)
    BY <1>2
  <2>2. q[i + 1] = q[j + 1]
    BY <1>2
  <2>3. i + 1 = j + 1
    BY <2>1, <2>2, <1>3
  <2> QED BY <2>3, <1>2
<1>5. ASSUME NEW i \in 1..Len(r) PROVE r[i] # Head(q)
  <2>1. i + 1 \in 1..Len(q) /\ 1 \in 1..Len(q) /\ i + 1 # 1
    BY <1>2
  <2> QED BY <2>1, <1>2, <1>3
<1> QED BY <1>4, <1>5
        DEF r, NoDuplicates, Entries, dmx512_framequeue_front,
            dmx512_framequeue_get

\* A list without entries.
LEMMA EmptyEntries ==
  /\ \A S : << >> \in Seq(S)
  /\ Entries(<< >>) = {}
  /\ NoDuplicates(<< >>)
BY DEF Entries, NoDuplicates

\* The entries of a list are drawn from the set it is a list over.
LEMMA EntriesSubset ==
  ASSUME NEW S, NEW q \in Seq(S)
  PROVE  Entries(q) \subseteq S
BY DEF Entries

\* Queueing an entry queues the frame in it.
LEMMA PutContents ==
  ASSUME NEW S, NEW q \in Seq(S), NEW e \in S, NEW f
  PROVE  Contents(f, dmx512_framequeue_put(q, e)) = Append(Contents(f, q), f[e])
<1> DEFINE T == {f[x] : x \in S}
           c == Contents(f, q)
           p == Append(q, e)
<1>1. c \in Seq(T) /\ Len(c) = Len(q) /\ f[e] \in T
  BY DEF Contents
<1>2. /\ Len(p) = Len(q) + 1 /\ p[Len(q) + 1] = e
      /\ \A i \in 1..Len(q) : p[i] = q[i]
  OBVIOUS
<1>3. \A i \in 1..Len(q) : c[i] = f[q[i]]
  BY DEF Contents
<1> HIDE DEF c, T
<1>4. Append(c, f[e]) = [i \in 1..(Len(q) + 1) |->
                           IF i = Len(q) + 1 THEN f[e] ELSE c[i]]
  BY <1>1
<1>5. Contents(f, p) = [i \in 1..(Len(q) + 1) |-> f[p[i]]]
  BY <1>2 DEF Contents
<1>6. \A i \in 1..(Len(q) + 1) : f[p[i]] = IF i = Len(q) + 1 THEN f[e] ELSE c[i]
  BY <1>2, <1>3
<1>7. Contents(f, p) = Append(c, f[e])
  BY <1>4, <1>5, <1>6
<1> QED BY <1>7 DEF dmx512_framequeue_put, c

\* Unlinking the first entry takes the first frame.
LEMMA GetContents ==
  ASSUME NEW S, NEW q \in Seq(S), ~ dmx512_framequeue_isempty(q), NEW f
  PROVE  /\ Contents(f, q) # << >>
         /\ Head(Contents(f, q)) = f[dmx512_framequeue_front(q)]
         /\ Tail(Contents(f, q)) = Contents(f, dmx512_framequeue_get(q))
<1> DEFINE T == {f[x] : x \in S}
           c == Contents(f, q)
           r == Tail(q)
<1>0. q # << >> /\ Len(q) \in Nat /\ Len(q) # 0
  BY DEF dmx512_framequeue_isempty
<1>1. c \in Seq(T) /\ Len(c) = Len(q)
  BY DEF Contents
<1>2. Len(r) = Len(q) - 1 /\ \A i \in 1..(Len(q) - 1) : r[i] = q[i + 1]
  BY <1>0
<1>3. \A i \in 1..Len(q) : c[i] = f[q[i]]
  BY DEF Contents
<1>4. Contents(f, r) = [i \in 1..(Len(q) - 1) |-> f[r[i]]]
  BY <1>2 DEF Contents
<1> HIDE DEF c, T
<1>5. c # << >> /\ Head(c) = c[1] /\ Head(q) = q[1] /\ 1 \in 1..Len(q)
  BY <1>0, <1>1
<1>6. Tail(c) = [i \in 1..(Len(q) - 1) |-> c[i + 1]]
  <2>1. Tail(c) \in Seq(T) /\ Len(Tail(c)) = Len(q) - 1
    BY <1>0, <1>1, <1>5
  <2>2. \A s \in Seq(T) : s = [i \in 1..Len(s) |-> s[i]]
    OBVIOUS
  <2>3. \A i \in 1..(Len(q) - 1) : Tail(c)[i] = c[i + 1]
    BY <1>0, <1>1, <1>5
  <2>4. PICK s \in Seq(T) : s = Tail(c)
    BY <2>1
  <2> QED BY <2>1, <2>2, <2>3, <2>4
<1>7. \A i \in 1..(Len(q) - 1) : f[r[i]] = c[i + 1]
  BY <1>0, <1>2, <1>3
<1>8. Tail(c) = Contents(f, r)
  BY <1>4, <1>6, <1>7
<1> QED BY <1>3, <1>5, <1>8
        DEF dmx512_framequeue_get, dmx512_framequeue_front, c

\* The frames in a list are those of its entries: changing the frame in
\* another entry changes none of them.
LEMMA ContentsOfEntries ==
  ASSUME NEW q, NEW f, NEW g, \A x \in Entries(q) : f[x] = g[x]
  PROVE  Contents(f, q) = Contents(g, q)
BY DEF Contents, Entries
=============================================================================
