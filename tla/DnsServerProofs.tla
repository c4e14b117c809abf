-------------------------- MODULE DnsServerProofs --------------------------
(***************************************************************************)
(* Proofs about DnsServer, for any buffers that hold a header and a        *)
(* question, any well-formed queries and any other datagrams: the types,   *)
(* that a query for something else gets no address, that the usual query   *)
(* gets the documented reply, and whose socket the task can close.         *)
(*                                                                         *)
(* parse_dns_name walks the labels of a name, and a query is any number of *)
(* them: their recursive definitions are taken apart by induction on       *)
(* positions, once for each (ParseTable, Flattened), into tables that say  *)
(* where a label ends.  The rest is about bytes at offsets.                *)
(***************************************************************************)
EXTENDS DnsServer, SequenceTheorems, FiniteSetTheorems, WellFoundedInduction, TLAPS

-----------------------------------------------------------------------------
(* Functions defined by recursion on positions, and sequences of bytes.    *)

(* A set of numbers has a least one.                                       *)
LEMMA HasLeast ==
  ASSUME NEW S \in SUBSET Nat, S # {}
  PROVE  \E x \in S : \A y \in S : x <= y
<1>1. PICK x \in S : \A y \in S : <<y, x>> \notin OpToRel(<, Nat)
  BY WFMin, NatLessThanWellFounded
<1>2. \A y \in S : ~(y < x)
  BY <1>1 DEF OpToRel
<1>3. QED
  BY <1>2

(* A function that is defined on 0..N from its values further on.          *)
Ahead(N, done, nxt) == \A n \in 0..N : n \notin done => nxt[n] \in (n + 1)..N
Solves(f, N, done, val, nxt) ==
  \A n \in 0..N : f[n] = IF n \in done THEN val[n] ELSE f[nxt[n]]

(* There is one for every table of values and of places further on.        *)
LEMMA Recursion ==
  ASSUME NEW N \in Nat, NEW V, NEW done, NEW val \in [0..N -> V],
         NEW nxt, Ahead(N, done, nxt)
  PROVE  \E f \in [0..N -> V] : Solves(f, N, done, val, nxt)
<1> USE DEF Ahead, Solves
<1> DEFINE Holds(f, n) == f[n] = IF n \in done THEN val[n] ELSE f[nxt[n]]
           From(k) == \E f \in [0..N -> V] : \A n \in k..N : Holds(f, n)
           S == {k \in 0..(N + 1) : From(k)}
<1>1. N + 1 \in S
  <2>1. val \in [0..N -> V] /\ \A n \in (N + 1)..N : Holds(val, n)
    OBVIOUS
  <2>2. QED
    BY <2>1
<1>2. PICK k \in S : \A j \in S : k <= j
  <2>1. S \in SUBSET Nat
    OBVIOUS
  <2>2. QED
    BY <1>1, <2>1, HasLeast
<1>3. ASSUME k # 0 PROVE FALSE
  <2>1. PICK f \in [0..N -> V] : \A n \in k..N : Holds(f, n)
    BY <1>2
  <2> DEFINE m == k - 1
             g == [f EXCEPT ![m] = IF m \in done THEN val[m] ELSE f[nxt[m]]]
  <2>2. m \in 0..N /\ k = m + 1
    BY <1>3
  <2>3. g \in [0..N -> V]
    BY <2>2
  <2>4. \A n \in m..N : Holds(g, n)
    <3> TAKE n \in m..N
    <3>1. CASE n = m
      BY <2>2, <3>1
    <3>2. CASE n # m
      <4>1. n \in k..N /\ n \in 0..N
        BY <2>2, <3>2
      <4>2. Holds(f, n) /\ g[n] = f[n]
        BY <2>1, <2>2, <3>2, <4>1
      <4>3. n \notin done => nxt[n] # m /\ nxt[n] \in 0..N
        BY <2>2, <4>1
      <4>4. QED
        BY <4>2, <4>3, <4>1
    <3>3. QED
      BY <3>1, <3>2
  <2>5. From(m)
    <3> HIDE DEF g
    <3>1. QED
      BY <2>3, <2>4
  <2>6. m \in 0..(N + 1) /\ m < k
    BY <2>2
  <2>7. m \in S
    <3> HIDE DEF m
    <3>1. QED
      BY <2>5, <2>6
  <2>8. QED
    <3> HIDE DEF S, m
    <3>1. m \in Nat /\ k \in Nat
      BY <2>6 DEF S
    <3>2. QED
      BY <1>2, <2>6, <2>7, <3>1
<1>4. From(0)
  <2> HIDE DEF From
  <2>1. QED
    BY <1>3
<1>5. QED
  BY <1>4

(* It is the only one.                                                     *)
LEMMA RecursionUnique ==
  ASSUME NEW N \in Nat, NEW done, NEW val,
         NEW nxt, Ahead(N, done, nxt),
         NEW f, NEW g, Solves(f, N, done, val, nxt), Solves(g, N, done, val, nxt)
  PROVE  \A n \in 0..N : f[n] = g[n]
<1> USE DEF Ahead, Solves
<1> DEFINE S == {k \in 0..N : f[N - k] # g[N - k]}
<1>1. SUFFICES ASSUME S # {} PROVE FALSE
  <2>1. \A n \in 0..N : N - n \in 0..N /\ N - (N - n) = n
    OBVIOUS
  <2>2. QED
    BY <2>1
<1>2. PICK k \in S : \A j \in S : k <= j
  <2>1. S \in SUBSET Nat
    OBVIOUS
  <2>2. QED
    BY <1>1, <2>1, HasLeast
<1> DEFINE n == N - k
<1>3. n \in 0..N /\ f[n] # g[n]
  OBVIOUS
<1>4. n \notin done /\ f[nxt[n]] # g[nxt[n]] /\ nxt[n] \in (n + 1)..N
  BY <1>3
<1>5. N - nxt[n] \in S /\ N - nxt[n] < k
  BY <1>4
<1>6. QED
  BY <1>2, <1>5

Octets(seq, n) == seq \in Seq(Octet) /\ n = Len(seq)

(* What is known of a sequence of n bytes, at a position and of its        *)
(* length.                                                                 *)
LEMMA OctetAt ==
  ASSUME NEW seq, NEW n, Octets(seq, n), NEW i \in 1..n
  PROVE  seq[i] \in 0..255
BY ElementOfSeq DEF Octets, Octet

LEMMA OctetLen ==
  ASSUME NEW seq, NEW n, Octets(seq, n)
  PROVE  n \in Nat /\ Len(seq) = n
BY LenProperties DEF Octets

(* The walk of parse_dns_name, with the ends of labels and the bytes there *)
(* given as tables.                                                        *)
Ends(p) == {-1} \cup (p + 1)..(p + NAME_SIZE + 1)

Follows(f, p, len, next) ==
  \A n \in 0..NAME_SIZE :
    f[n] = IF len[n] > NAME_SIZE THEN -1
           ELSE IF next[n] = 0 THEN p + len[n] + 1 ELSE f[len[n]]
Advances(len) == len \in [0..NAME_SIZE -> Nat] /\ \A n \in 0..NAME_SIZE : len[n] > n

(* One such walk exists, and no other.                                     *)
LEMMA WalkExists ==
  ASSUME NEW p \in Nat, NEW len, NEW next, Advances(len)
  PROVE  /\ \E f \in [0..NAME_SIZE -> Ends(p)] : Follows(f, p, len, next)
         /\ \A f, g : Follows(f, p, len, next) /\ Follows(g, p, len, next)
                     => \A n \in 0..NAME_SIZE : f[n] = g[n]
<1> DEFINE done == {n \in 0..NAME_SIZE : len[n] > NAME_SIZE \/ next[n] = 0}
           val == [n \in 0..NAME_SIZE |->
                     IF len[n] > NAME_SIZE THEN -1 ELSE p + len[n] + 1]
<1>1. NAME_SIZE \in Nat
  BY BufferAssumption
<1>2. val \in [0..NAME_SIZE -> Ends(p)]
  BY <1>1 DEF Ends, Advances
<1>3. Ahead(NAME_SIZE, done, len)
  BY <1>1 DEF Ahead, Advances
<1>4. \A f : Solves(f, NAME_SIZE, done, val, len) <=> Follows(f, p, len, next)
  BY DEF Solves, Follows
<1> HIDE DEF done, val
<1>5. \E f \in [0..NAME_SIZE -> Ends(p)] : Solves(f, NAME_SIZE, done, val, len)
  BY <1>1, <1>2, <1>3, Recursion
<1>6. \A f, g : Solves(f, NAME_SIZE, done, val, len) /\ Solves(g, NAME_SIZE, done, val, len)
                => \A n \in 0..NAME_SIZE : f[n] = g[n]
  BY <1>1, <1>3, RecursionUnique
<1>7. QED
  BY <1>4, <1>5, <1>6

(* parse_dns_name walks the name at p: its value, and that behind every    *)
(* label of it.                                                            *)
NameEnd(buf, p, n) == n + At(buf, p + n) + 1

(* parse_dns_name ends at the first entry of the table of its walk, which  *)
(* says where the walk from every other position ends.                     *)
LEMMA ParseTable ==
  ASSUME NEW buf, NEW size \in Nat, Octets(buf, size),
         NEW p \in Nat, p + NAME_SIZE + 1 <= size
  PROVE  \E f \in [0..NAME_SIZE -> Ends(p)] :
           /\ parse_dns_name(buf, p) = f[0]
           /\ \A n \in 0..NAME_SIZE :
                f[n] = IF NameEnd(buf, p, n) > NAME_SIZE THEN -1
                       ELSE IF At(buf, p + NameEnd(buf, p, n)) = 0
                            THEN p + NameEnd(buf, p, n) + 1
                            ELSE f[NameEnd(buf, p, n)]
<1> DEFINE len == [n \in 0..NAME_SIZE |-> NameEnd(buf, p, n)]
           next == [n \in 0..NAME_SIZE |-> At(buf, p + NameEnd(buf, p, n))]
           Table(f) == Follows(f, p, len, next)
           Walks(f) == f = [n \in 0..NAME_SIZE |->
                              IF NameEnd(buf, p, n) > NAME_SIZE THEN -1
                              ELSE IF At(buf, p + NameEnd(buf, p, n)) = 0
                                   THEN p + NameEnd(buf, p, n) + 1
                              ELSE f[NameEnd(buf, p, n)]]
           w == CHOOSE f : Walks(f)
<1>1. NAME_SIZE \in Nat
  BY BufferAssumption
<1>2. \A n \in 0..NAME_SIZE : NameEnd(buf, p, n) \in Nat /\ NameEnd(buf, p, n) > n
  <2> TAKE n \in 0..NAME_SIZE
  <2>1. p + n + 1 \in 1..size
    BY <1>1
  <2>2. At(buf, p + n) \in 0..255
    BY <2>1, OctetAt DEF At
  <2>3. QED
    BY <1>1, <2>2 DEF NameEnd
<1>3. Advances(len)
  BY <1>2 DEF Advances
<1>4. \A f : Walks(f) => Table(f)
  BY DEF Follows
<1>5. PICK f \in [0..NAME_SIZE -> Ends(p)] : Table(f)
  <2> HIDE DEF len, next
  <2>1. QED
    BY <1>3, WalkExists
<1>6. Walks(f)
  BY <1>5 DEF Follows
<1>7. Table(w)
  <2>1. Walks(w)
    BY <1>6
  <2> HIDE DEF w, Walks, Table
  <2>2. QED
    BY <1>4, <2>1
<1>8. \A n \in 0..NAME_SIZE : f[n] = w[n]
  <2> HIDE DEF w, len, next
  <2>1. \A g, h : Follows(g, p, len, next) /\ Follows(h, p, len, next)
                  => \A n \in 0..NAME_SIZE : g[n] = h[n]
    BY <1>3, WalkExists
  <2>2. Follows(f, p, len, next) /\ Follows(w, p, len, next)
    BY <1>5, <1>7
  <2>3. QED
    BY <2>1, <2>2
<1>9. parse_dns_name(buf, p) = w[0]
  BY DEF parse_dns_name, NameEnd
<1>10. QED
  <2>1. parse_dns_name(buf, p) = f[0]
    BY <1>1, <1>8, <1>9
  <2>2. QED
    BY <1>5, <2>1 DEF Follows

-----------------------------------------------------------------------------
(* Sequences of bytes.                                                     *)

(* A function to bytes is a sequence of bytes.                             *)
LEMMA OctetsAre ==
  ASSUME NEW seq, NEW n \in Nat, seq \in [1..n -> 0..255]
  PROVE  Octets(seq, n)
<1>1. seq \in Seq(Octet)
  BY SeqDef DEF Octet
<1>2. n = Len(seq)
  <2>1. DOMAIN seq = 1..n /\ DOMAIN seq = 1..Len(seq) /\ Len(seq) \in Nat
    BY <1>1, LenProperties
  <2>2. QED
    BY <2>1
<1>3. QED
  BY <1>1, <1>2 DEF Octets

(* Sequences of bytes with the same bytes are equal.                       *)
LEMMA OctetsEqual ==
  ASSUME NEW s, NEW t, NEW n, Octets(s, n), Octets(t, n), \A i \in 1..n : s[i] = t[i]
  PROVE  s = t
BY SeqEqual DEF Octets

Joins(w, s, m, t, n) == /\ Octets(w, m + n)
                        /\ \A i \in 1..m : w[i] = s[i]
                        /\ \A i \in 1..n : w[m + i] = t[i]

(* The bytes of s \o t are those of s, then those of t.                    *)
LEMMA Joined ==
  ASSUME NEW s, NEW m, Octets(s, m), NEW t, NEW n, Octets(t, n)
  PROVE  Joins(s \o t, s, m, t, n)
<1>1. m \in Nat /\ n \in Nat
  BY OctetLen
<1>2. /\ s \o t \in Seq(Octet) /\ Len(s \o t) = Len(s) + Len(t)
      /\ \A i \in 1..(Len(s) + Len(t)) :
           (s \o t)[i] = IF i <= Len(s) THEN s[i] ELSE t[i - Len(s)]
  BY ConcatProperties DEF Octets
<1>3. Len(s) = m /\ Len(t) = n
  BY DEF Octets
<1>4. Octets(s \o t, m + n)
  BY <1>2, <1>3 DEF Octets
<1>5. \A i \in 1..(m + n) : (s \o t)[i] = IF i <= m THEN s[i] ELSE t[i - m]
  BY <1>2, <1>3
<1>6. \A i \in 1..m : (s \o t)[i] = s[i]
  <2> TAKE i \in 1..m
  <2>1. i \in 1..(m + n) /\ i <= m
    BY <1>1
  <2>2. QED
    BY <1>5, <2>1
<1>7. ASSUME NEW i \in 1..n PROVE (s \o t)[m + i] = t[i]
  <2>1. m + i \in 1..(m + n) /\ ~(m + i <= m) /\ (m + i) - m = i
    BY <1>1
  <2>2. QED
    BY <1>5, <2>1
<1>8. QED
  BY <1>4, <1>6, <1>7 DEF Joins

(* The bytes of a part of a sequence.                                      *)
LEMMA Cut ==
  ASSUME NEW s, NEW n, Octets(s, n), NEW i \in 1..(n + 1), NEW j \in 0..n, i <= j + 1
  PROVE  /\ Octets(SubSeq(s, i, j), j + 1 - i)
         /\ \A k \in 1..(j + 1 - i) : SubSeq(s, i, j)[k] = s[i + k - 1]
<1>1. n \in Nat /\ n = Len(s)
  BY OctetLen
<1>2. i \in Int /\ j \in Int
  BY <1>1
<1>3. \A k \in i..j : s[k] \in Octet
  <2>1. \A k \in i..j : k \in 1..Len(s)
    BY <1>1
  <2>2. QED
    BY <2>1, ElementOfSeq DEF Octets
<1>4. /\ SubSeq(s, i, j) \in Seq(Octet)
      /\ Len(SubSeq(s, i, j)) = IF i <= j THEN j - i + 1 ELSE 0
      /\ \A k \in 1..(j - i + 1) : SubSeq(s, i, j)[k] = s[i + k - 1]
  BY <1>2, <1>3, SubSeqProperties
<1>5. Len(SubSeq(s, i, j)) = j + 1 - i /\ j - i + 1 = j + 1 - i
  BY <1>1, <1>4
<1>6. QED
  BY <1>4, <1>5 DEF Octets

Puts(w, buf, size, p, bytes, n) ==
  /\ Octets(w, size)
  /\ \A i \in 1..size : w[i] = IF i \in (p + 1)..(p + n) THEN bytes[i - p] ELSE buf[i]

(* Put replaces the bytes at its offset, and keeps the other ones.         *)
LEMMA PutKeeps ==
  ASSUME NEW buf, NEW size, Octets(buf, size), NEW bytes, NEW n, Octets(bytes, n),
         NEW p \in Nat, p + n <= size
  PROVE  Puts(Put(buf, p, bytes), buf, size, p, bytes, n)
<1> DEFINE front == SubSeq(buf, 1, p)
           back == SubSeq(buf, p + n + 1, size)
<1>1. size \in Nat /\ n \in Nat /\ Len(buf) = size /\ Len(bytes) = n
  BY OctetLen
<1>2. Put(buf, p, bytes) = (front \o bytes) \o back
  BY <1>1 DEF Put
<1>3. Octets(front, p) /\ \A k \in 1..p : front[k] = buf[k]
  <2>1. p \in 0..size /\ 1 \in 1..(size + 1) /\ 1 <= p + 1 /\ p + 1 - 1 = p
    BY <1>1
  <2>2. Octets(front, p) /\ \A k \in 1..p : front[k] = buf[1 + k - 1]
    BY <2>1, Cut
  <2>3. QED
    BY <2>2
<1>4. /\ Octets(back, size - p - n)
      /\ \A k \in 1..(size - p - n) : back[k] = buf[p + n + k]
  <2>1. p + n + 1 \in 1..(size + 1) /\ size \in 0..size /\ p + n + 1 <= size + 1
    BY <1>1
  <2>2. /\ Octets(back, size + 1 - (p + n + 1))
        /\ \A k \in 1..(size + 1 - (p + n + 1)) : back[k] = buf[p + n + 1 + k - 1]
    BY <2>1, Cut
  <2>3. size + 1 - (p + n + 1) = size - p - n /\ \A k \in Int : p + n + 1 + k - 1 = p + n + k
    BY <1>1
  <2>4. ASSUME NEW k \in 1..(size - p - n) PROVE back[k] = buf[p + n + k]
    <3>1. k \in 1..(size + 1 - (p + n + 1)) /\ k \in Int
      BY <2>3
    <3>2. QED
      BY <2>2, <2>3, <3>1
  <2>5. QED
    BY <2>2, <2>3, <2>4
<1> HIDE DEF front, back
<1> DEFINE whole == (front \o bytes) \o back
<1>5. Joins(front \o bytes, front, p, bytes, n)
  BY <1>3, Joined
<1>6. Joins(whole, front \o bytes, p + n, back, size - p - n)
  <2>1. Octets(front \o bytes, p + n) /\ Octets(back, size - p - n)
    BY <1>4, <1>5 DEF Joins
  <2>2. QED
    BY <2>1, Joined
<1>7. (p + n) + (size - p - n) = size
  BY <1>1
<1> HIDE DEF whole
<1>8. ASSUME NEW i \in 1..size
      PROVE  whole[i] = IF i \in (p + 1)..(p + n) THEN bytes[i - p] ELSE buf[i]
  <2>1. CASE i <= p
    <3>1. i \in 1..p /\ i \in 1..(p + n)
      BY <1>1, <2>1
    <3>2. whole[i] = front[i] /\ front[i] = buf[i]
      BY <1>3, <1>5, <1>6, <3>1 DEF Joins
    <3>3. QED
      BY <1>1, <2>1, <3>2
  <2>2. CASE i \in (p + 1)..(p + n)
    <3>1. i - p \in 1..n /\ p + (i - p) = i /\ i \in 1..(p + n)
      BY <1>1, <2>2
    <3>2. whole[i] = (front \o bytes)[p + (i - p)]
      BY <1>6, <3>1 DEF Joins
    <3>3. QED
      BY <1>5, <2>2, <3>1, <3>2 DEF Joins
  <2>3. CASE i > p + n
    <3> DEFINE k == i - p - n
    <3>1. k \in 1..(size - p - n) /\ (p + n) + k = i /\ p + n + k = i
      BY <1>1, <2>3
    <3>2. whole[(p + n) + k] = back[k] /\ back[k] = buf[p + n + k]
      BY <1>4, <1>6, <3>1 DEF Joins
    <3>3. whole[i] = buf[i]
      BY <3>1, <3>2
    <3>4. QED
      BY <1>1, <2>3, <3>3
  <2>4. QED
    BY <1>1, <2>1, <2>2, <2>3
<1>9. QED
  BY <1>2, <1>6, <1>7, <1>8 DEF whole, Joins, Puts

-----------------------------------------------------------------------------
(* The reply that is started for a datagram.                               *)

(* Prepare copies the datagram and clears what follows it.                 *)
LEMMA Padded ==
  ASSUME NEW d, NEW n, Octets(d, n), n <= DNS_MAX_LEN
  PROVE  /\ Octets(Prepare(d), DNS_MAX_LEN)
         /\ \A i \in 1..n : Prepare(d)[i] = d[i]
         /\ \A i \in (n + 1)..DNS_MAX_LEN : Prepare(d)[i] = 0
<1> DEFINE rest == DNS_MAX_LEN - n
           pad == [z \in 1..rest |-> 0]
<1>1. n \in Nat /\ Len(d) = n /\ DNS_MAX_LEN \in Nat
  BY OctetLen, BufferAssumption
<1>2. rest \in Nat /\ n + rest = DNS_MAX_LEN
  BY <1>1
<1>3. pad \in [1..rest -> 0..255]
  OBVIOUS
<1>4. Prepare(d) = d \o pad
  BY <1>1 DEF Prepare
<1>5. \A i \in 1..rest : pad[i] = 0
  OBVIOUS
<1> HIDE DEF pad
<1>6. Octets(pad, rest)
  BY <1>2, <1>3, OctetsAre
<1> HIDE DEF rest
<1>7. Joins(d \o pad, d, n, pad, rest)
  BY <1>6, Joined
<1>8. ASSUME NEW i \in (n + 1)..DNS_MAX_LEN PROVE Prepare(d)[i] = 0
  <2>1. i - n \in 1..rest /\ n + (i - n) = i
    BY <1>1, <1>2
  <2>2. (d \o pad)[n + (i - n)] = pad[i - n]
    BY <1>7, <2>1 DEF Joins
  <2>3. QED
    BY <1>4, <1>5, <2>1, <2>2
<1>9. QED
  BY <1>2, <1>4, <1>7, <1>8 DEF Joins

(* The bytes of a word, and the word of two bytes.                         *)
LEMMA Halves ==
  ASSUME NEW w \in Nat, w < 65536
  PROVE  w \div 256 \in 0..255 /\ w % 256 \in 0..255
<1> DEFINE v == w \div 256
<1>1. v \in Int /\ w % 256 \in 0..255
  OBVIOUS
<1>2. v >= 0
  OBVIOUS
<1>3. v <= 255
  OBVIOUS
<1> HIDE DEF v
<1>4. v \in 0..255
  BY <1>1, <1>2, <1>3
<1>5. QED
  BY <1>1, <1>4 DEF v

LEMMA Combined ==
  ASSUME NEW x \in 0..255, NEW y \in 0..255
  PROVE  256 * x + y \in Nat /\ 256 * x + y < 65536
<1>1. 256 * x + y \in Int
  OBVIOUS
<1>2. 256 * x + y >= 0
  OBVIOUS
<1>3. 256 * x + y < 65536
  OBVIOUS
<1>4. QED
  BY <1>1, <1>2, <1>3

(* Word reads two bytes.                                                   *)
LEMMA WordRange ==
  ASSUME NEW buf, NEW size, Octets(buf, size), NEW o \in Nat, o + 2 <= size
  PROVE  Word(buf, o) \in Nat /\ Word(buf, o) < 65536
<1>1. size \in Nat
  BY OctetLen
<1>2. o + 1 \in 1..size /\ o + 1 + 1 \in 1..size
  BY <1>1
<1>3. buf[o + 1] \in 0..255 /\ buf[o + 1 + 1] \in 0..255
  BY <1>2, OctetAt
<1>4. QED
  <2> DEFINE x == buf[o + 1]
             y == buf[o + 1 + 1]
  <2>1. Word(buf, o) = 256 * x + y /\ x \in 0..255 /\ y \in 0..255
    BY <1>3 DEF Word, At
  <2> HIDE DEF x, y
  <2>2. 256 * x + y \in Nat /\ 256 * x + y < 65536
    BY <2>1, Combined
  <2>3. QED
    BY <2>1, <2>2

(* One byte, two, and the two of a word.                                   *)
LEMMA OneOctet ==
  ASSUME NEW b, b \in Octet
  PROVE  Octets(<<b>>, 1)
<1>1. <<b>> \in [1..1 -> 0..255]
  BY DEF Octet
<1>2. QED
  BY <1>1, OctetsAre

LEMMA TwoOctets ==
  ASSUME NEW x, x \in Octet, NEW y, y \in Octet
  PROVE  Octets(<<x, y>>, 2)
<1>1. <<x, y>> \in [1..2 -> 0..255]
  BY DEF Octet
<1>2. QED
  BY <1>1, OctetsAre

LEMMA WordOctets ==
  ASSUME NEW w \in Nat, w < 65536
  PROVE  /\ Octets(TwoBytes(w), 2)
         /\ TwoBytes(w)[1] = w \div 256 /\ TwoBytes(w)[2] = w % 256
<1> DEFINE x == w \div 256
           y == w % 256
<1>1. x \in Octet /\ y \in Octet /\ TwoBytes(w) = <<x, y>>
  BY Halves DEF TwoBytes, Octet
<1> HIDE DEF x, y
<1>2. Octets(TwoBytes(w), 2) /\ TwoBytes(w)[1] = x /\ TwoBytes(w)[2] = y
  <2>1. Octets(<<x, y>>, 2)
    BY <1>1, TwoOctets
  <2>2. QED
    BY <1>1, <2>1
<1>3. QED
  BY <1>2 DEF x, y

(* The reply as the loop over the questions finds it.                      *)
Started(d) == SetAnCount(SetResponse(Prepare(d)), QdCount(d))

StartedAs(d) ==
  /\ Octets(Started(d), DNS_MAX_LEN)
  /\ \A i \in 1..DNS_MAX_LEN :
       Started(d)[i] = CASE i = 3 -> (Prepare(d)[3] % 128) + 128
                         [] i = 7 -> QdCount(d) \div 256
                         [] i = 8 -> QdCount(d) % 256
                         [] OTHER -> Prepare(d)[i]

(* The reply differs from the datagram in its flags and its count of       *)
(* answers.                                                                *)
LEMMA Starting ==
  ASSUME NEW d, NEW n, Octets(d, n), n <= RX_SIZE
  PROVE  /\ QdCount(d) \in Nat /\ QdCount(d) < 65536
         /\ StartedAs(d)
<1> DEFINE b == Prepare(d)
           flag == <<(b[3] % 128) + 128>>
           r == SetResponse(b)
           count == TwoBytes(QdCount(d))
<1>1. /\ DNS_MAX_LEN \in Nat /\ DNS_MAX_LEN >= 34 /\ n <= DNS_MAX_LEN
  BY OctetLen, BufferAssumption DEF HEADER
<1>2. Octets(b, DNS_MAX_LEN)
  BY <1>1, Padded
<1> HIDE DEF b
<1>3. QdCount(d) \in Nat /\ QdCount(d) < 65536
  <2>1. Word(b, 4) \in Nat /\ Word(b, 4) < 65536
    BY <1>1, <1>2, WordRange
  <2>2. QED
    BY <2>1 DEF QdCount, b
<1>4. b[3] \in 0..255
  BY <1>1, <1>2, OctetAt
<1>5. Octets(flag, 1) /\ flag[1] = (b[3] % 128) + 128
  <2>1. (b[3] % 128) + 128 \in Octet
    BY <1>4 DEF Octet
  <2>2. QED
    BY <2>1, OneOctet
<1>6. Octets(count, 2) /\ count[1] = QdCount(d) \div 256 /\ count[2] = QdCount(d) % 256
  BY <1>3, WordOctets
<1> HIDE DEF flag, count
<1>7. Puts(r, b, DNS_MAX_LEN, 2, flag, 1)
  <2>1. r = Put(b, 2, flag)
    BY DEF SetResponse, At, flag
  <2>2. QED
    BY <1>1, <1>2, <1>5, <2>1, PutKeeps
<1> HIDE DEF r
<1>8. Puts(Started(d), r, DNS_MAX_LEN, 6, count, 2)
  <2>1. Started(d) = Put(r, 6, count)
    BY DEF Started, SetAnCount, count, r, b
  <2>2. Octets(r, DNS_MAX_LEN)
    BY <1>7 DEF Puts
  <2>3. QED
    BY <1>1, <1>6, <2>1, <2>2, PutKeeps
<1>9. ASSUME NEW i \in 1..DNS_MAX_LEN
      PROVE  Started(d)[i] = CASE i = 3 -> (b[3] % 128) + 128
                               [] i = 7 -> QdCount(d) \div 256
                               [] i = 8 -> QdCount(d) % 256
                               [] OTHER -> b[i]
  <2>1. r[i] = IF i = 3 THEN (b[3] % 128) + 128 ELSE b[i]
    <3>1. r[i] = IF i \in (2 + 1)..(2 + 1) THEN flag[i - 2] ELSE b[i]
      BY <1>7 DEF Puts
    <3>2. QED
      BY <1>1, <1>5, <3>1
  <2>2. Started(d)[i] = IF i = 7 THEN count[1] ELSE IF i = 8 THEN count[2] ELSE r[i]
    <3>1. Started(d)[i] = IF i \in (6 + 1)..(6 + 2) THEN count[i - 6] ELSE r[i]
      BY <1>8 DEF Puts
    <3>2. QED
      BY <1>1, <3>1
  <2>3. QED
    BY <1>1, <1>6, <2>1, <2>2
<1>10. QED
  BY <1>3, <1>8, <1>9 DEF StartedAs, Puts, b

-----------------------------------------------------------------------------
(* Sequences put behind each other.                                        *)

(* A set that holds 0 and the successor of its numbers below n goes up to  *)
(* n.                                                                      *)
LEMMA Climbing ==
  ASSUME NEW n \in Nat, NEW S, 0 \in S, \A k \in Nat : k < n /\ k \in S => k + 1 \in S
  PROVE  \A k \in 0..n : k \in S
<1> DEFINE T == {k \in 0..n : k \notin S}
<1>1. SUFFICES ASSUME T # {} PROVE FALSE
  OBVIOUS
<1>2. T \in SUBSET Nat
  OBVIOUS
<1>3. PICK x \in T : \A y \in T : x <= y
  BY <1>1, <1>2, HasLeast
<1>4. x \in Nat /\ x # 0 /\ x <= n /\ x \notin S
  BY <1>3
<1>5. x - 1 \in S
  <2>1. x - 1 \in 0..n /\ ~(x <= x - 1)
    BY <1>4
  <2>2. QED
    BY <1>3, <2>1
<1>6. x - 1 \in Nat /\ x - 1 < n /\ (x - 1) + 1 = x
  BY <1>4
<1>7. QED
  BY <1>4, <1>5, <1>6

Flattens(f, seqs, n) ==
  f = [i \in 1..n |-> IF i = 1 THEN seqs[i] ELSE f[i - 1] \o seqs[i]]

(* FlattenSeq's table of prefixes exists for every number of sequences.    *)
LEMMA FlattensExists ==
  ASSUME NEW n \in Nat, NEW seqs
  PROVE  \E f : Flattens(f, seqs, n)
<1> DEFINE S == {k \in Nat : \E f : Flattens(f, seqs, k)}
<1>1. 0 \in S
  <2> DEFINE f == [i \in 1..0 |-> seqs[i]]
  <2>1. Flattens(f, seqs, 0)
    BY DEF Flattens
  <2>2. QED
    BY <2>1
<1>2. ASSUME NEW k \in Nat, k \in S PROVE k + 1 \in S
  <2>1. PICK f : Flattens(f, seqs, k)
    BY <1>2
  <2> DEFINE g == [i \in 1..(k + 1) |->
                     IF i <= k THEN f[i]
                     ELSE IF i = 1 THEN seqs[i] ELSE f[i - 1] \o seqs[i]]
  <2>2. ASSUME NEW i \in 1..(k + 1)
        PROVE  g[i] = IF i = 1 THEN seqs[i] ELSE g[i - 1] \o seqs[i]
    <3>1. CASE i = 1
      BY <2>1, <3>1 DEF Flattens
    <3>2. CASE i # 1
      <4>1. i - 1 \in 1..k /\ g[i - 1] = f[i - 1]
        BY <3>2
      <4>2. CASE i <= k
        <5>1. i \in 1..k /\ g[i] = f[i]
          BY <4>2
        <5>2. f[i] = f[i - 1] \o seqs[i]
          BY <2>1, <3>2, <5>1 DEF Flattens
        <5>3. QED
          BY <3>2, <4>1, <5>1, <5>2
      <4>3. CASE ~(i <= k)
        BY <3>2, <4>1, <4>3
      <4>4. QED
        BY <4>2, <4>3
    <3>3. QED
      BY <3>1, <3>2
  <2>3. g = [i \in 1..(k + 1) |-> g[i]]
    OBVIOUS
  <2> HIDE DEF g
  <2>4. Flattens(g, seqs, k + 1)
    BY <2>2, <2>3 DEF Flattens
  <2>5. QED
    BY <2>4
<1> HIDE DEF S
<1>3. n \in S
  <2>1. \A k \in 0..n : k \in S
    BY <1>1, <1>2, Climbing
  <2>2. QED
    BY <2>1
<1>4. QED
  BY <1>3 DEF S

(* FlattenSeq is the last entry of such a table.                           *)
LEMMA FlattenTable ==
  ASSUME NEW n \in Nat, n # 0, NEW seqs, Len(seqs) = n
  PROVE  \E f : Flattens(f, seqs, n) /\ FlattenSeq(seqs) = f[n]
<1> DEFINE Table(f) == f = [i \in 1..Len(seqs) |->
                              IF i = 1 THEN seqs[i] ELSE f[i - 1] \o seqs[i]]
           w == CHOOSE f : Table(f)
<1>1. \E f : Table(f)
  BY FlattensExists DEF Flattens
<1>2. Table(w)
  BY <1>1
<1>3. FlattenSeq(seqs) = w[Len(seqs)]
  BY DEF FlattenSeq
<1>4. Flattens(w, seqs, n)
  <2> HIDE DEF w
  <2>1. QED
    BY <1>2 DEF Flattens
<1>5. QED
  BY <1>3, <1>4

(* The bytes of seqs[1] to seqs[k], of lengths len, lie in w behind each   *)
(* other, those of seqs[l] up to off[l].                                   *)
Laid(w, seqs, len, off, k) ==
  /\ Octets(w, off[k])
  /\ \A l \in 1..k : /\ off[l - 1] + len[l] <= off[k]
                     /\ \A i \in 1..len[l] : w[off[l - 1] + i] = seqs[l][i]
Behind(off, len, n) ==
  /\ off \in [0..n -> Nat] /\ off[0] = 0
  /\ \A k \in 1..n : off[k] = off[k - 1] + len[k]

(* FlattenSeq lays its sequences behind each other.                        *)
LEMMA Flattened ==
  ASSUME NEW n \in Nat, n # 0, NEW seqs, Len(seqs) = n,
         NEW len, \A l \in 1..n : Octets(seqs[l], len[l])
  PROVE  \E off : Behind(off, len, n) /\ Laid(FlattenSeq(seqs), seqs, len, off, n)
<1>1. PICK f : Flattens(f, seqs, n) /\ FlattenSeq(seqs) = f[n]
  BY FlattenTable
<1> DEFINE off == [k \in 0..n |-> IF k = 0 THEN 0 ELSE Len(f[k])]
           Fine(k) == /\ \A j \in 0..k : off[j] \in Nat
                      /\ \A j \in 1..k : off[j] = off[j - 1] + len[j]
                      /\ k = 0 \/ Laid(f[k], seqs, len, off, k)
           S == {k \in 0..n : Fine(k)}
<1>2. 0 \in S
  OBVIOUS
<1>3. ASSUME NEW k \in Nat, k < n, k \in S PROVE k + 1 \in S
  <2>1. k + 1 \in 1..n /\ k \in 0..n /\ (k + 1) - 1 = k
    BY <1>3
  <2>2. Octets(seqs[k + 1], len[k + 1]) /\ len[k + 1] \in Nat
    BY <2>1, OctetLen
  <2>3. CASE k = 0
    <3>1. f[1] = seqs[1]
      BY <1>1, <2>1, <2>3 DEF Flattens
    <3>2. Octets(f[1], len[1])
      BY <2>2, <2>3, <3>1
    <3>3. Len(f[1]) = len[1] /\ len[1] \in Nat
      BY <3>2, OctetLen
    <3>4. off[1] = len[1] /\ off[0] = 0
      BY <2>1, <2>3, <3>3
    <3>5. Laid(f[1], seqs, len, off, 1)
      <4> HIDE DEF off
      <4>1. \A l \in 1..1 : l = 1 /\ l - 1 = 0
        OBVIOUS
      <4>2. \A i \in 1..len[1] : 0 + i = i
        BY <3>3
      <4>3. QED
        BY <3>1, <3>2, <3>3, <3>4, <4>1, <4>2 DEF Laid
    <3>6. Fine(1)
      <4> HIDE DEF off
      <4>1. (\A j \in 0..1 : j = 0 \/ j = 1) /\ \A j \in 1..1 : j = 1 /\ j - 1 = 0
        OBVIOUS
      <4>2. QED
        BY <3>3, <3>4, <3>5, <4>1
    <3>7. QED
      BY <2>1, <2>3, <3>6
  <2>4. CASE k # 0
    <3>1. /\ Laid(f[k], seqs, len, off, k) /\ off[k] \in Nat
          /\ \A j \in 0..k : off[j] \in Nat
          /\ \A j \in 1..k : off[j] = off[j - 1] + len[j]
      <4>1. Fine(k)
        BY <1>3
      <4> HIDE DEF off
      <4>2. QED
        BY <1>3, <2>4, <4>1
    <3>2. f[k + 1] = f[k] \o seqs[k + 1]
      <4>1. k + 1 # 1 /\ k + 1 \in 1..n
        BY <2>1, <2>4
      <4>2. \A i \in 1..n : i # 1 => f[i] = f[i - 1] \o seqs[i]
        BY <1>1 DEF Flattens
      <4>3. QED
        BY <2>1, <4>1, <4>2
    <3>3. Octets(f[k], off[k])
      BY <3>1 DEF Laid
    <3>4. Joins(f[k + 1], f[k], off[k], seqs[k + 1], len[k + 1])
      <4> HIDE DEF off
      <4>1. QED
        BY <2>2, <3>2, <3>3, Joined
    <3>5. off[k + 1] = off[k] + len[k + 1]
      <4>1. off[k + 1] = Len(f[k + 1])
        BY <2>1
      <4>2. Octets(f[k + 1], off[k] + len[k + 1])
        BY <3>4 DEF Joins
      <4> HIDE DEF off
      <4>3. QED
        BY <4>1, <4>2, OctetLen
    <3> HIDE DEF off
    <3>6. Laid(f[k + 1], seqs, len, off, k + 1)
      <4>1. Octets(f[k + 1], off[k + 1])
        BY <3>4, <3>5 DEF Joins
      <4>2. ASSUME NEW l \in 1..(k + 1)
            PROVE  /\ off[l - 1] + len[l] <= off[k + 1]
                   /\ \A i \in 1..len[l] : f[k + 1][off[l - 1] + i] = seqs[l][i]
        <5>1. CASE l = k + 1
          <6>1. l - 1 = k
            BY <5>1
          <6>2. \A i \in 1..len[k + 1] : f[k + 1][off[k] + i] = seqs[k + 1][i]
            BY <3>4 DEF Joins
          <6>3. QED
            BY <2>2, <3>1, <3>5, <5>1, <6>1, <6>2
        <5>2. CASE l # k + 1
          <6>1. l \in 1..k
            BY <5>2
          <6>2. /\ off[l - 1] + len[l] <= off[k]
                /\ \A i \in 1..len[l] : f[k][off[l - 1] + i] = seqs[l][i]
            BY <3>1, <6>1 DEF Laid
          <6>3. l \in 1..n /\ l - 1 \in 0..n
            BY <2>1, <6>1
          <6>4. off[l - 1] \in Nat /\ len[l] \in Nat
            <7>1. len[l] \in Nat
              BY <6>3, OctetLen
            <7>2. off[l - 1] \in Nat
              BY <3>1, <6>1
            <7>3. QED
              BY <7>1, <7>2
          <6>5. ASSUME NEW i \in 1..len[l] PROVE f[k + 1][off[l - 1] + i] = seqs[l][i]
            <7>1. off[l - 1] + i \in 1..off[k]
              <8>1. off[k] \in Nat
                BY <3>1
              <8>2. i \in Nat /\ 1 <= i /\ i <= len[l]
                BY <6>4
              <8>3. off[l - 1] + len[l] <= off[k]
                BY <6>2
              <8>4. QED
                BY ONLY <6>4, <8>1, <8>2, <8>3
            <7>2. QED
              BY <3>4, <6>2, <7>1 DEF Joins
          <6>6. QED
            BY <2>2, <3>1, <3>5, <6>2, <6>4, <6>5
        <5>3. QED
          BY <5>1, <5>2
      <4>3. QED
        BY <4>1, <4>2 DEF Laid
    <3>7. \A j \in 0..(k + 1) : off[j] \in Nat
      <4>1. \A j \in 0..(k + 1) : j \in 0..k \/ j = k + 1
        BY <2>1
      <4>2. off[k + 1] \in Nat
        BY <2>2, <3>1, <3>5
      <4>3. QED
        BY <3>1, <4>1, <4>2
    <3>8. \A j \in 1..(k + 1) : off[j] = off[j - 1] + len[j]
      <4>1. \A j \in 1..(k + 1) : j \in 1..k \/ (j = k + 1 /\ j - 1 = k)
        BY <2>1
      <4>2. QED
        BY <3>1, <3>5, <4>1
    <3>9. QED
      BY <2>1, <3>6, <3>7, <3>8
  <2>5. QED
    BY <2>3, <2>4
<1>4. Fine(n)
  <2> HIDE DEF S
  <2>1. \A k \in 0..n : k \in S
    BY <1>2, <1>3, Climbing
  <2>2. n \in S
    BY <2>1
  <2>3. QED
    BY <2>2 DEF S
<1>5. Behind(off, len, n) /\ Laid(f[n], seqs, len, off, n)
  <2>1. off \in [0..n -> Nat]
    <3>1. \A j \in 0..n : off[j] \in Nat
      BY <1>4
    <3>2. QED
      BY <3>1
  <2>2. off[0] = 0
    OBVIOUS
  <2> HIDE DEF off
  <2>3. QED
    BY <1>4, <2>1, <2>2 DEF Behind
<1>6. QED
  <2> HIDE DEF off
  <2>1. QED
    BY <1>1, <1>5

-----------------------------------------------------------------------------
(* A well-formed query.                                                    *)

(* A label starts with its length.                                         *)
LEMMA Labelled ==
  ASSUME NEW length \in 1..63
  PROVE  Octets(Label(length), length + 1) /\ Label(length)[1] = length
<1> DEFINE first == <<length>>
           letters == [c \in 1..length |-> 97]
<1>1. Octets(first, 1) /\ first[1] = length
  BY OneOctet DEF Octet
<1>2. Octets(letters, length)
  <2>1. letters \in [1..length -> 0..255]
    OBVIOUS
  <2> HIDE DEF letters
  <2>2. QED
    BY <2>1, OctetsAre
<1> HIDE DEF first, letters
<1>3. Joins(first \o letters, first, 1, letters, length)
  BY <1>1, <1>2, Joined
<1>4. Label(length) = first \o letters
  BY DEF Label, first, letters
<1>5. 1 \in 1..1 /\ 1 + length = length + 1
  OBVIOUS
<1>6. QED
  BY <1>1, <1>3, <1>4, <1>5 DEF Joins

NameIs(name, n) == name \in Seq(1..63) /\ n = Len(name)

(* The labels of a name are numbers.                                       *)
LEMMA NameLabels ==
  ASSUME NEW name, NEW n, NameIs(name, n)
  PROVE  n \in Nat /\ \A k \in 1..n : name[k] \in 1..63
BY ElementOfSeq, LenProperties DEF NameIs

(* Where the labels of a name end.                                         *)
LabelEnds(off, name, n) ==
  /\ off \in [0..n -> Nat] /\ off[0] = 0
  /\ \A k \in 1..n : off[k] = off[k - 1] + name[k] + 1

NameLaid(w, name, n, off) ==
  /\ LabelEnds(off, name, n)
  /\ Octets(w, off[n] + 1) /\ w[off[n] + 1] = 0
  /\ \A k \in 1..n : w[off[k - 1] + 1] = name[k]

(* A name is its labels, each behind the one before, and a zero.           *)
LEMMA Naming ==
  ASSUME NEW name, NEW n, NameIs(name, n)
  PROVE  \E off : NameLaid(Name(name), name, n, off)
<1> DEFINE labels == [l \in 1..n |-> Label(name[l])]
           len == [l \in 1..n |-> name[l] + 1]
           flat == FlattenSeq(labels)
           root == <<0>>
<1>1. n \in Nat /\ \A k \in 1..n : name[k] \in 1..63
  BY NameLabels
<1>2. Name(name) = flat \o root
  BY DEF Name, NameIs
<1>3. Octets(root, 1) /\ root[1] = 0
  BY OneOctet DEF Octet
<1>4. \E off : /\ LabelEnds(off, name, n) /\ Octets(flat, off[n])
               /\ \A k \in 1..n : /\ off[k - 1] + 1 \in 1..off[n]
                                  /\ flat[off[k - 1] + 1] = name[k]
  <2>1. CASE n = 0
    <3> DEFINE off == [k \in 0..n |-> 0]
    <3>1. LabelEnds(off, name, n) /\ off[n] = 0
      BY <2>1 DEF LabelEnds
    <3>2. Octets(flat, 0)
      <4>1. labels = <<>>
        BY <2>1
      <4>2. flat = <<>>
        BY <4>1 DEF FlattenSeq
      <4>3. <<>> \in [1..0 -> 0..255]
        OBVIOUS
      <4>4. QED
        BY <4>2, <4>3, OctetsAre
    <3> HIDE DEF off, flat
    <3>3. QED
      BY <2>1, <3>1, <3>2
  <2>2. CASE n # 0
    <3>1. \A l \in 1..n : Octets(labels[l], len[l]) /\ labels[l][1] = name[l]
      BY <1>1, Labelled
    <3>2. Len(labels) = n
      BY <1>1
    <3>3. \A l \in 1..n : len[l] = name[l] + 1
      OBVIOUS
    <3> HIDE DEF labels, len
    <3>4. PICK off : Behind(off, len, n) /\ Laid(flat, labels, len, off, n)
      BY <1>1, <2>2, <3>1, <3>2, Flattened
    <3> HIDE DEF flat
    <3>5. LabelEnds(off, name, n)
      <4>1. \A k \in 1..n : off[k - 1] \in Nat
        BY <1>1, <3>4 DEF Behind
      <4>2. ASSUME NEW k \in 1..n PROVE off[k] = off[k - 1] + name[k] + 1
        <5>1. off[k] = off[k - 1] + (name[k] + 1)
          BY <3>3, <3>4 DEF Behind
        <5>2. QED
          BY <1>1, <4>1, <5>1
      <4>3. QED
        BY <3>4, <4>2 DEF Behind, LabelEnds
    <3>6. ASSUME NEW k \in 1..n
          PROVE  off[k - 1] + 1 \in 1..off[n] /\ flat[off[k - 1] + 1] = name[k]
      <4>1. off[k - 1] \in Nat /\ off[n] \in Nat
        BY <1>1, <3>4 DEF Behind
      <4>2. len[k] = name[k] + 1 /\ name[k] \in 1..63
        BY <1>1, <3>3
      <4>3. /\ off[k - 1] + len[k] <= off[n]
            /\ \A i \in 1..len[k] : flat[off[k - 1] + i] = labels[k][i]
        BY <3>4 DEF Laid
      <4>4. 1 \in 1..len[k]
        BY <4>2
      <4>5. flat[off[k - 1] + 1] = name[k]
        BY <3>1, <4>3, <4>4
      <4>6. QED
        BY <4>1, <4>2, <4>3, <4>5
    <3>7. Octets(flat, off[n])
      BY <3>4 DEF Laid
    <3>8. QED
      BY <3>5, <3>6, <3>7
  <2>3. QED
    BY <2>1, <2>2
<1> HIDE DEF flat, root
<1>5. PICK off : /\ LabelEnds(off, name, n) /\ Octets(flat, off[n])
                 /\ \A k \in 1..n : /\ off[k - 1] + 1 \in 1..off[n]
                                    /\ flat[off[k - 1] + 1] = name[k]
  BY <1>4
<1>6. Joins(flat \o root, flat, off[n], root, 1)
  BY <1>3, <1>5, Joined
<1>7. (flat \o root)[off[n] + 1] = 0
  <2>1. 1 \in 1..1
    OBVIOUS
  <2>2. QED
    BY <1>3, <1>6, <2>1 DEF Joins
<1>8. NameLaid(flat \o root, name, n, off)
  BY <1>5, <1>6, <1>7 DEF Joins, NameLaid
<1>9. QED
  BY <1>2, <1>8

(* The question for name and type lies in e, behind its first p bytes.     *)
Carries(e, size, p, name, n, type, off) ==
  /\ LabelEnds(off, name, n)
  /\ Octets(e, size) /\ p + off[n] + 5 <= size
  /\ \A k \in 1..n : e[p + off[k - 1] + 1] = name[k]
  /\ e[p + off[n] + 1] = 0
  /\ e[p + off[n] + 2] = type \div 256 /\ e[p + off[n] + 3] = type % 256
  /\ e[p + off[n] + 4] = 0 /\ e[p + off[n] + 5] = 1

(* Labels end in the order of the name.                                    *)
LEMMA EndsAt ==
  ASSUME NEW off, NEW name, NEW n, NameIs(name, n), LabelEnds(off, name, n)
  PROVE  /\ off[n] \in Nat
         /\ \A k \in 1..n : off[k - 1] \in Nat /\ off[k - 1] < off[n]
<1>1. n \in Nat /\ \A k \in 1..n : name[k] \in 1..63
  BY NameLabels
<1>2. \A k \in 0..n : off[k] \in Nat
  BY DEF LabelEnds
<1>4. ASSUME NEW k \in Nat, k < n PROVE off[k] < off[k + 1]
  <2>1. k + 1 \in 1..n /\ (k + 1) - 1 = k
    BY <1>1, <1>4
  <2>2. off[k + 1] = off[k] + name[k + 1] + 1 /\ name[k + 1] \in 1..63 /\ off[k] \in Nat
    BY <1>1, <1>2, <2>1 DEF LabelEnds
  <2>3. QED
    BY <2>2
<1> DEFINE Below == {j \in 0..n : \A k \in 0..j : off[k] <= off[j]}
<1>5. 0 \in Below
  BY <1>1, <1>2
<1>6. ASSUME NEW j \in Nat, j < n, j \in Below PROVE j + 1 \in Below
  <2>1. \A k \in 0..j : off[k] <= off[j] /\ off[k] \in Nat
    BY <1>1, <1>2, <1>6
  <2>2. off[j] < off[j + 1] /\ off[j] \in Nat /\ off[j + 1] \in Nat
    BY <1>1, <1>2, <1>4, <1>6
  <2>3. \A k \in 0..(j + 1) : k \in 0..j \/ k = j + 1
    BY <1>6
  <2>4. \A k \in 0..(j + 1) : off[k] <= off[j + 1]
    BY <2>1, <2>2, <2>3
  <2>5. QED
    BY <1>1, <1>6, <2>4
<1> HIDE DEF Below
<1>7. n \in Below
  <2>1. \A k \in 0..n : k \in Below
    BY <1>1, <1>5, <1>6, Climbing
  <2>2. QED
    BY <1>1, <2>1
<1>8. ASSUME NEW k \in 1..n PROVE off[k - 1] \in Nat /\ off[k - 1] < off[n]
  <2>1. k - 1 \in Nat /\ k - 1 < n /\ (k - 1) + 1 = k /\ k \in 0..n
    BY <1>1
  <2>2. off[k - 1] < off[k] /\ off[k] <= off[n]
    BY <1>4, <1>7, <2>1 DEF Below
  <2>3. QED
    BY <1>1, <1>2, <2>1, <2>2
<1>9. QED
  BY <1>1, <1>2, <1>8

(* A question is a name, its type and the class IN.                        *)
LEMMA Questioning ==
  ASSUME NEW qn, NEW n, NameIs(qn.name, n), qn.type \in Nat, qn.type < 65536
  PROVE  \E off : Carries(Question(qn), off[n] + 5, 0, qn.name, n, qn.type, off)
<1> DEFINE name == qn.name
           type == qn.type
           t == TwoBytes(type)
           c == <<0, 1>>
           w == Name(name)
<1>1. PICK off : NameLaid(w, name, n, off)
  BY Naming
<1>2. Octets(t, 2) /\ t[1] = type \div 256 /\ t[2] = type % 256
  BY WordOctets
<1>3. Octets(c, 2) /\ c[1] = 0 /\ c[2] = 1
  BY TwoOctets DEF Octet
<1>4. /\ off[n] \in Nat
      /\ \A k \in 1..n : off[k - 1] \in Nat /\ off[k - 1] < off[n]
  <2>1. LabelEnds(off, name, n)
    BY <1>1 DEF NameLaid
  <2> HIDE DEF name
  <2>2. QED
    BY <2>1, EndsAt DEF name
<1> DEFINE m == off[n] + 1
           wt == w \o t
           whole == wt \o c
<1>5. Question(qn) = whole
  BY DEF Question
<1> HIDE DEF t, c, w, name, type
<1>6. Octets(w, m)
  BY <1>1 DEF NameLaid
<1>7. Joins(wt, w, m, t, 2)
  <2> HIDE DEF m
  <2>1. QED
    BY <1>2, <1>6, Joined
<1> HIDE DEF wt
<1>8. Octets(wt, m + 2)
  BY <1>7 DEF Joins
<1>9. Joins(whole, wt, m + 2, c, 2)
  <2> HIDE DEF m
  <2>1. QED
    BY <1>3, <1>8, Joined
<1> HIDE DEF whole
<1>10. m \in Nat /\ m >= 1 /\ 1 \in 1..2 /\ 2 \in 1..2
  BY <1>4
<1>11. /\ \A i \in 1..(m + 2) : whole[i] = wt[i]
       /\ \A i \in 1..2 : whole[m + 2 + i] = c[i]
  BY <1>9 DEF Joins
<1>12. /\ \A i \in 1..m : wt[i] = w[i]
       /\ \A i \in 1..2 : wt[m + i] = t[i]
  BY <1>7 DEF Joins
<1>13. /\ \A i \in 1..m : whole[i] = w[i]
       /\ whole[m + 1] = type \div 256 /\ whole[m + 2] = type % 256
       /\ whole[m + 2 + 1] = 0 /\ whole[m + 2 + 2] = 1
  <2>1. ASSUME NEW i \in 1..m PROVE whole[i] = w[i]
    <3>1. i \in 1..(m + 2)
      BY <1>10
    <3>2. QED
      BY <1>11, <1>12, <3>1
  <2>2. m + 1 \in 1..(m + 2) /\ m + 2 \in 1..(m + 2)
    BY <1>10
  <2>3. whole[m + 1] = wt[m + 1] /\ whole[m + 2] = wt[m + 2]
    BY <1>11, <2>2
  <2>4. wt[m + 1] = t[1] /\ wt[m + 2] = t[2]
    BY <1>10, <1>12
  <2>5. whole[m + 2 + 1] = c[1] /\ whole[m + 2 + 2] = c[2]
    BY <1>10, <1>11
  <2>6. QED
    BY <1>2, <1>3, <2>1, <2>3, <2>4, <2>5
<1>14. ASSUME NEW k \in 1..n PROVE whole[off[k - 1] + 1] = name[k]
  <2>1. off[k - 1] + 1 \in 1..m
    BY <1>4
  <2>2. w[off[k - 1] + 1] = name[k]
    BY <1>1 DEF NameLaid
  <2>3. QED
    BY <1>13, <2>1, <2>2
<1>15. whole[m] = 0
  <2>1. m \in 1..m
    BY <1>10
  <2>2. w[m] = 0
    BY <1>1 DEF NameLaid
  <2>3. QED
    BY <1>13, <2>1, <2>2
<1>16. Carries(whole, off[n] + 5, 0, name, n, type, off)
  <2>1. LabelEnds(off, name, n)
    BY <1>1 DEF NameLaid
  <2>2. Octets(whole, off[n] + 5)
    <3>1. m + 2 + 2 = off[n] + 5
      BY <1>4
    <3>2. QED
      BY <1>9, <3>1 DEF Joins
  <2>3. /\ 0 + off[n] + 1 = m /\ 0 + off[n] + 2 = m + 1 /\ 0 + off[n] + 3 = m + 2
        /\ 0 + off[n] + 4 = m + 2 + 1 /\ 0 + off[n] + 5 = m + 2 + 2
        /\ 0 + off[n] + 5 <= off[n] + 5
        /\ \A k \in 1..n : 0 + off[k - 1] + 1 = off[k - 1] + 1
    BY <1>4
  <2> HIDE DEF m
  <2>4. QED
    BY <1>13, <1>14, <1>15, <2>1, <2>2, <2>3 DEF Carries
<1>17. QED
  BY <1>5, <1>16 DEF name, type

(* The types of questions are words.                                       *)
LEMMA ShortRange ==
  ASSUME NEW w, w \in Short
  PROVE  w \in Nat /\ w < 65536
BY DEF Short

(* The same of the questions of a query.                                   *)
LEMMA QuestionOctets ==
  ASSUME NEW qn, qn \in Asked
  PROVE  \E n, off : /\ NameIs(qn.name, n)
                     /\ Carries(Question(qn), off[n] + 5, 0, qn.name, n, qn.type, off)
<1> DEFINE n == Len(qn.name)
<1>1. qn.name \in Seq(1..63) /\ qn.type \in Short
  BY DEF Asked
<1>2. NameIs(qn.name, n)
  BY <1>1 DEF NameIs
<1>3. qn.type \in Nat /\ qn.type < 65536
  BY <1>1, ShortRange
<1> HIDE DEF n
<1>4. \E off : Carries(Question(qn), off[n] + 5, 0, qn.name, n, qn.type, off)
  BY <1>2, <1>3, Questioning
<1>5. QED
  BY <1>2, <1>4

(* The header of a query with m questions, before what follows it in e.    *)
Heads(e, size, flags, m) ==
  /\ Octets(e, size) /\ size >= HEADER
  /\ e[3] = flags[1] /\ e[4] = flags[2]
  /\ e[5] = m \div 256 /\ e[6] = m % 256

Headed(e, flags, m, w) ==
  e = <<0, 1>> \o flags \o TwoBytes(m) \o <<0, 0, 0, 0, 0, 0>> \o w

(* The rest of the header.                                                 *)
LEMMA SixZeros == Octets(<<0, 0, 0, 0, 0, 0>>, 6)
<1> DEFINE z == <<0, 0, 0, 0, 0, 0>>
<1>1. z \in [1..6 -> 0..255]
  OBVIOUS
<1> HIDE DEF z
<1>2. Octets(z, 6)
  BY <1>1, OctetsAre
<1>3. QED
  BY <1>2 DEF z

(* A header is followed by what is put behind it.                          *)
LEMMA Heading ==
  ASSUME NEW flags, flags \in Flags, NEW m \in Nat, m < 65536,
         NEW w, NEW size, Octets(w, size),
         NEW e, Headed(e, flags, m, w)
  PROVE  /\ Heads(e, HEADER + size, flags, m)
         /\ \A i \in 1..size : e[HEADER + i] = w[i]
<1> DEFINE id == <<0, 1>>
           t == TwoBytes(m)
           z == <<0, 0, 0, 0, 0, 0>>
           idf == id \o flags
           idft == idf \o t
           hd == idft \o z
<1>0. e = hd \o w
  BY DEF Headed
<1>1. Octets(id, 2)
  BY TwoOctets DEF Octet
<1>2. Octets(flags, 2)
  <2>1. flags[1] \in Octet /\ flags[2] \in Octet /\ flags = <<flags[1], flags[2]>>
    BY DEF Flags, Octet
  <2>2. Octets(<<flags[1], flags[2]>>, 2)
    BY <2>1, TwoOctets
  <2>3. QED
    BY <2>1, <2>2
<1>3. Octets(t, 2) /\ t[1] = m \div 256 /\ t[2] = m % 256
  BY WordOctets
<1>4. Octets(z, 6)
  BY SixZeros
<1> HIDE DEF id, t, z
<1>5. Joins(idf, id, 2, flags, 2)
  BY <1>1, <1>2, Joined
<1> HIDE DEF idf
<1>6. Joins(idft, idf, 4, t, 2)
  <2>1. Octets(idf, 4)
    BY <1>5 DEF Joins
  <2>2. QED
    BY <1>3, <2>1, Joined
<1> HIDE DEF idft
<1>7. Joins(hd, idft, 6, z, 6)
  <2>1. Octets(idft, 6)
    BY <1>6 DEF Joins
  <2>2. QED
    BY <1>4, <2>1, Joined
<1> HIDE DEF hd
<1>8. Joins(e, hd, 12, w, size)
  <2>1. Octets(hd, 12)
    BY <1>7 DEF Joins
  <2>2. QED
    BY <1>0, <2>1, Joined
<1>9. /\ \A i \in 1..2 : idf[2 + i] = flags[i]
      /\ \A i \in 1..4 : idft[i] = idf[i]
      /\ \A i \in 1..2 : idft[4 + i] = t[i]
      /\ \A i \in 1..6 : hd[i] = idft[i]
      /\ \A i \in 1..12 : e[i] = hd[i]
  BY <1>5, <1>6, <1>7, <1>8 DEF Joins
<1>10. e[3] = flags[1] /\ e[4] = flags[2]
  <2>1. idf[3] = flags[1] /\ idf[4] = flags[2]
    BY <1>9
  <2>2. QED
    BY <1>9, <2>1
<1>11. e[5] = t[1] /\ e[6] = t[2]
  <2>1. idft[5] = t[1] /\ idft[6] = t[2]
    BY <1>9
  <2>2. QED
    BY <1>9, <2>1
<1>12. Octets(e, HEADER + size) /\ HEADER + size >= HEADER
  BY <1>8, OctetLen DEF Joins, HEADER
<1>13. \A i \in 1..size : e[HEADER + i] = w[i]
  BY <1>8 DEF Joins, HEADER
<1>14. Heads(e, HEADER + size, flags, m)
  BY <1>3, <1>10, <1>11, <1>12 DEF Heads
<1>15. QED
  BY <1>13, <1>14

(* The sequence of no bytes.                                               *)
LEMMA NoOctets == Octets(<<>>, 0)
<1>1. <<>> \in [1..0 -> 0..255]
  OBVIOUS
<1>2. QED
  BY <1>1, OctetsAre

(* The first s bytes of w follow the header in e; where a question ends.   *)
AfterHeader(e, size, w, s) ==
  HEADER + s <= size /\ \A i \in 1..s : e[HEADER + i] = w[i]
Reach(off, n) == off[n] + 5

(* A question is carried behind the header as well.                        *)
LEMMA CarriesBehind ==
  ASSUME NEW name, NEW n, NameIs(name, n), NEW type, NEW off, NEW w, NEW s,
         Carries(w, s, 0, name, n, type, off), s = Reach(off, n),
         NEW e, NEW size, Octets(e, size), AfterHeader(e, size, w, s)
  PROVE  Carries(e, size, HEADER, name, n, type, off)
<1>1. LabelEnds(off, name, n)
  BY DEF Carries
<1>2. off[n] \in Nat /\ \A k \in 1..n : off[k - 1] \in Nat /\ off[k - 1] < off[n]
  BY <1>1, EndsAt
<1>3. size \in Nat /\ s = off[n] + 5 /\ HEADER + s <= size
  BY OctetLen DEF Reach, AfterHeader
<1>4. HEADER + off[n] + 5 <= size
  BY <1>2, <1>3 DEF HEADER
<1>5. ASSUME NEW k \in 1..n PROVE e[HEADER + off[k - 1] + 1] = name[k]
  <2>1. off[k - 1] + 1 \in 1..s /\ 0 + off[k - 1] + 1 = off[k - 1] + 1
        /\ HEADER + (off[k - 1] + 1) = HEADER + off[k - 1] + 1
    BY <1>2, <1>3 DEF HEADER
  <2>2. w[0 + off[k - 1] + 1] = name[k]
    BY DEF Carries
  <2>3. e[HEADER + (off[k - 1] + 1)] = w[off[k - 1] + 1]
    BY <2>1 DEF AfterHeader
  <2>4. QED
    BY <2>1, <2>2, <2>3
<1>6. ASSUME NEW i \in 1..5 PROVE e[HEADER + off[n] + i] = w[0 + off[n] + i]
  <2>1. off[n] + i \in 1..s /\ 0 + off[n] + i = off[n] + i
        /\ HEADER + (off[n] + i) = HEADER + off[n] + i
    BY <1>2, <1>3 DEF HEADER
  <2>2. e[HEADER + (off[n] + i)] = w[off[n] + i]
    BY <2>1 DEF AfterHeader
  <2>3. QED
    BY <2>1, <2>2
<1>7. /\ w[0 + off[n] + 1] = 0
      /\ w[0 + off[n] + 2] = type \div 256 /\ w[0 + off[n] + 3] = type % 256
      /\ w[0 + off[n] + 4] = 0 /\ w[0 + off[n] + 5] = 1
  BY DEF Carries
<1>8. /\ e[HEADER + off[n] + 1] = 0
      /\ e[HEADER + off[n] + 2] = type \div 256 /\ e[HEADER + off[n] + 3] = type % 256
      /\ e[HEADER + off[n] + 4] = 0 /\ e[HEADER + off[n] + 5] = 1
  <2>1. 1 \in 1..5 /\ 2 \in 1..5 /\ 3 \in 1..5 /\ 4 \in 1..5 /\ 5 \in 1..5
    OBVIOUS
  <2>2. /\ e[HEADER + off[n] + 1] = w[0 + off[n] + 1]
        /\ e[HEADER + off[n] + 2] = w[0 + off[n] + 2]
        /\ e[HEADER + off[n] + 3] = w[0 + off[n] + 3]
        /\ e[HEADER + off[n] + 4] = w[0 + off[n] + 4]
        /\ e[HEADER + off[n] + 5] = w[0 + off[n] + 5]
    BY <1>6, <2>1
  <2>3. QED
    BY <1>7, <2>2
<1>9. QED
  BY <1>1, <1>4, <1>5, <1>8 DEF Carries

EncodedAs(e, size, q, m) ==
  /\ Heads(e, size, q.flags, m)
  /\ m = 0 => size = HEADER
  /\ m # 0 => \E n, off :
       /\ NameIs(q.questions[1].name, n)
       /\ Carries(e, size, HEADER, q.questions[1].name, n, q.questions[1].type, off)
       /\ m = 1 => size = HEADER + off[n] + 5

(* A query is a header that counts its questions, and the first of them.   *)
LEMMA Encoding ==
  ASSUME NEW q, q \in Query, NEW m, m = Len(q.questions), m < 65536
  PROVE  \E size : EncodedAs(Encode(q), size, q, m)
<1> DEFINE qs == q.questions
           seqs == [i \in 1..m |-> Question(qs[i])]
           len == [i \in 1..m |-> Len(seqs[i])]
           flat == FlattenSeq(seqs)
           e == Encode(q)
<1>1. q.flags \in Flags /\ qs \in Seq(Asked)
  BY DEF Query
<1>2. m \in Nat /\ \A i \in 1..m : qs[i] \in Asked
  BY <1>1, ElementOfSeq, LenProperties
<1>3. Headed(e, q.flags, m, flat)
  BY DEF Headed, Encode
<1>4. \A i \in 1..m : seqs[i] = Question(qs[i]) /\ len[i] = Len(seqs[i])
  OBVIOUS
<1>5. Len(seqs) = m
  BY <1>2
<1>6. CASE m = 0
  <2>1. flat = <<>>
    <3>1. seqs = <<>>
      BY <1>6
    <3>2. QED
      BY <3>1 DEF FlattenSeq
  <2>2. Octets(flat, 0)
    BY <2>1, NoOctets
  <2> HIDE DEF flat, e
  <2>3. Heads(e, HEADER + 0, q.flags, m)
    BY <1>1, <1>2, <1>3, <2>2, Heading
  <2>4. HEADER + 0 = HEADER
    BY DEF HEADER
  <2>5. QED
    BY <1>6, <2>3, <2>4 DEF EncodedAs, e
<1>7. CASE m # 0
  <2>1. \A l \in 1..m : Octets(seqs[l], len[l])
    <3> TAKE l \in 1..m
    <3>1. PICK n, off : Carries(Question(qs[l]), off[n] + 5, 0, qs[l].name, n, qs[l].type, off)
      BY <1>2, QuestionOctets
    <3>2. Octets(Question(qs[l]), off[n] + 5)
      BY <3>1 DEF Carries
    <3> HIDE DEF seqs, len
    <3>3. QED
      BY <1>4, <3>2, OctetLen
  <2> HIDE DEF seqs, len
  <2>2. PICK at : Behind(at, len, m) /\ Laid(flat, seqs, len, at, m)
    BY <1>2, <1>5, <1>7, <2>1, Flattened
  <2> HIDE DEF flat, e
  <2>3. Octets(flat, at[m])
    BY <2>2 DEF Laid
  <2> DEFINE size == HEADER + at[m]
  <2>4. Heads(e, size, q.flags, m) /\ \A i \in 1..at[m] : e[HEADER + i] = flat[i]
    BY <1>1, <1>2, <1>3, <2>3, Heading
  <2>5. 1 \in 1..m
    BY <1>2, <1>7
  <2> DEFINE name == qs[1].name
             type == qs[1].type
  <2>6. PICK n, off : /\ NameIs(name, n)
                      /\ Carries(seqs[1], off[n] + 5, 0, name, n, type, off)
    BY <1>2, <1>4, <2>5, QuestionOctets
  <2>7. len[1] = off[n] + 5 /\ len[1] \in Nat
    <3>1. Octets(seqs[1], off[n] + 5)
      BY <2>6 DEF Carries
    <3>2. QED
      BY <1>4, <2>5, <3>1, OctetLen
  <2>8. /\ at[0] = 0 /\ at[0] + len[1] <= at[m] /\ at[m] \in Nat
        /\ \A i \in 1..len[1] : flat[at[0] + i] = seqs[1][i]
        /\ m = 1 => at[m] = at[0] + len[1]
    <3>1. 1 - 1 = 0 /\ m \in 0..m
      BY <1>2
    <3>2. at[0] = 0 /\ at[m] \in Nat /\ (m = 1 => at[m] = at[0] + len[1])
      <4>1. at \in [0..m -> Nat] /\ at[0] = 0
        BY <2>2 DEF Behind
      <4>2. at[1] = at[1 - 1] + len[1]
        BY <2>2, <2>5 DEF Behind
      <4>3. at[m] \in Nat
        BY <3>1, <4>1
      <4>4. QED
        BY <3>1, <4>1, <4>2, <4>3
    <3>3. /\ at[0] + len[1] <= at[m]
          /\ \A i \in 1..len[1] : flat[at[0] + i] = seqs[1][i]
      BY <2>2, <2>5, <3>1 DEF Laid
    <3>4. QED
      BY <3>2, <3>3
  <2>9. \A i \in 1..len[1] : e[HEADER + i] = seqs[1][i]
    <3> TAKE i \in 1..len[1]
    <3>1. i \in 1..at[m] /\ 0 + i = i
      BY <2>7, <2>8
    <3>2. e[HEADER + i] = flat[i] /\ flat[0 + i] = seqs[1][i]
      BY <2>4, <2>8, <3>1
    <3>3. QED
      BY <3>1, <3>2
  <2>10. HEADER + len[1] <= size
    BY <2>7, <2>8 DEF HEADER
  <2>11. Octets(e, size)
    BY <2>4 DEF Heads
  <2> HIDE DEF size, name, type
  <2>12. Carries(e, size, HEADER, name, n, type, off)
    <3>1. Carries(seqs[1], len[1], 0, name, n, type, off)
      BY <2>6, <2>7
    <3> DEFINE w == seqs[1]
               s == len[1]
    <3>2. /\ NameIs(name, n) /\ Carries(w, s, 0, name, n, type, off) /\ s = Reach(off, n)
          /\ Octets(e, size) /\ AfterHeader(e, size, w, s)
      BY <2>6, <2>7, <2>9, <2>10, <2>11, <3>1 DEF name, AfterHeader, Reach
    <3> HIDE DEF w, s
    <3>3. QED
      BY <3>2, CarriesBehind
  <2>13. m = 1 => size = HEADER + off[n] + 5
    <3>1. off[n] \in Nat
      <4>1. LabelEnds(off, name, n)
        BY <2>6 DEF Carries
      <4>2. QED
        BY <2>6, <4>1, EndsAt
    <3>2. QED
      BY <2>7, <2>8, <3>1 DEF size, HEADER
  <2>14. EncodedAs(e, size, q, m)
    BY <1>7, <2>4, <2>6, <2>12, <2>13 DEF EncodedAs, size, name, type
  <2>15. QED
    BY <2>14 DEF e
<1>8. QED
  BY <1>6, <1>7

-----------------------------------------------------------------------------
(* Where parse_dns_name finds the first question.                          *)

(* Behind the header, buf holds the first r bytes of e and nothing else.   *)
Buffered(buf, e, r) ==
  /\ Octets(buf, DNS_MAX_LEN) /\ r \in Nat /\ r <= NAME_SIZE
  /\ \A i \in (HEADER + 1)..r : buf[i] = e[i]
  /\ \A i \in (r + 1)..DNS_MAX_LEN : buf[i] = 0

(* parse_dns_name finds the end of the first name, unless it was not       *)
(* received to the end of its question.                                    *)
Found(end, r, off, n) ==
  \/ end = HEADER + off[n] + 1
  \/ r < HEADER + off[n] + 5 /\ (end = -1 \/ end > r)

Tabled(f, buf, p) ==
  \A n \in 0..NAME_SIZE :
    f[n] = IF NameEnd(buf, p, n) > NAME_SIZE THEN -1
           ELSE IF At(buf, p + NameEnd(buf, p, n)) = 0
                THEN p + NameEnd(buf, p, n) + 1
                ELSE f[NameEnd(buf, p, n)]

(* The walk of parse_dns_name in the reply, and where it may end.          *)
LEMMA Parsing ==
  ASSUME NEW buf, Octets(buf, DNS_MAX_LEN)
  PROVE  \E f : /\ parse_dns_name(buf, HEADER) = f[0]
                /\ f[0] \in Ends(HEADER) /\ Tabled(f, buf, HEADER)
<1>1. DNS_MAX_LEN \in Nat /\ HEADER \in Nat /\ HEADER + NAME_SIZE + 1 <= DNS_MAX_LEN
  BY BufferAssumption DEF HEADER
<1>2. PICK f \in [0..NAME_SIZE -> Ends(HEADER)] :
           /\ parse_dns_name(buf, HEADER) = f[0]
           /\ Tabled(f, buf, HEADER)
  BY <1>1, ParseTable DEF Tabled
<1>3. 0 \in 0..NAME_SIZE
  BY BufferAssumption
<1>4. QED
  BY <1>2, <1>3

(* parse_dns_name goes from label to label of a name that is not the root, *)
(* to the zero behind the last one, or leaves what was received.           *)
LEMMA NameFound ==
  ASSUME NEW name, NEW n, NameIs(name, n), n # 0, NEW type, NEW off, NEW e, NEW size,
         Carries(e, size, HEADER, name, n, type, off),
         NEW r, r <= size, r >= HEADER + 5, NEW buf, Buffered(buf, e, r)
  PROVE  Found(parse_dns_name(buf, HEADER), r, off, n)
<1>1. PICK f : /\ parse_dns_name(buf, HEADER) = f[0]
               /\ f[0] \in Ends(HEADER) /\ Tabled(f, buf, HEADER)
  BY Parsing DEF Buffered
<1>2. n \in Nat /\ \A k \in 1..n : name[k] \in 1..63
  BY NameLabels
<1>3. LabelEnds(off, name, n)
  BY DEF Carries
<1>4. /\ off[n] \in Nat
      /\ \A k \in 1..n : off[k - 1] \in Nat /\ off[k - 1] < off[n]
  BY <1>3, EndsAt
<1>5. NAME_SIZE \in Nat /\ DNS_MAX_LEN \in Nat /\ HEADER + NAME_SIZE + 5 <= DNS_MAX_LEN
  BY BufferAssumption
<1>6. r \in Nat /\ r <= NAME_SIZE
  BY DEF Buffered
<1>7. ASSUME NEW i \in Nat, HEADER < i, i <= HEADER + NAME_SIZE + 1
      PROVE  buf[i] = IF i <= r THEN e[i] ELSE 0
  <2>1. i \in (HEADER + 1)..r \/ i \in (r + 1)..DNS_MAX_LEN
    BY <1>5, <1>6, <1>7 DEF HEADER
  <2>2. QED
    BY <1>6, <2>1 DEF Buffered
<1> DEFINE Out == Found(f[0], r, off, n)
           Along(k) == k < n /\ HEADER + off[k] + 1 <= r /\ f[0] = f[off[k]]
           S == {k \in 0..n : Out \/ Along(k)}
<1>8. 0 \in S
  <2>1. off[0] = 0
    BY <1>3 DEF LabelEnds
  <2>2. Along(0)
    BY <1>2, <1>6, <2>1 DEF HEADER
  <2>3. QED
    BY <1>2, <2>2
<1>9. ASSUME NEW k \in Nat, k < n, k \in S PROVE k + 1 \in S
  <2>1. CASE Out
    BY <1>2, <1>9, <2>1
  <2>2. CASE Along(k)
    <3> DEFINE j == off[k + 1]
    <3>1. k + 1 \in 1..n /\ (k + 1) - 1 = k /\ k \in 0..n
      BY <1>2, <1>9
    <3>2. /\ off[k] \in Nat /\ off[k] < off[n] /\ name[k + 1] \in 1..63
          /\ j = off[k] + name[k + 1] + 1
      BY <1>2, <1>3, <1>4, <3>1 DEF LabelEnds
    <3>3. j \in Nat /\ j <= off[n] /\ off[k] \in 0..NAME_SIZE
      <4>1. j \in Nat /\ off[k] \in 0..NAME_SIZE
        BY <1>5, <1>6, <2>2, <3>2 DEF HEADER
      <4>2. CASE k + 1 = n
        BY <1>4, <4>1, <4>2
      <4>3. CASE k + 1 # n
        <5>1. k + 2 \in 1..n /\ (k + 2) - 1 = k + 1
          BY <1>2, <3>1, <4>3
        <5>2. off[(k + 2) - 1] < off[n]
          BY <1>4, <5>1
        <5>3. QED
          BY <1>4, <4>1, <5>1, <5>2
      <4>4. QED
        BY <4>1, <4>2, <4>3
    <3>4. NameEnd(buf, HEADER, off[k]) = j
      <4>1. buf[HEADER + off[k] + 1] = name[k + 1]
        <5>1. e[HEADER + off[(k + 1) - 1] + 1] = name[k + 1]
          BY <3>1 DEF Carries
        <5>2. HEADER + off[k] + 1 \in Nat /\ HEADER < HEADER + off[k] + 1
              /\ HEADER + off[k] + 1 <= HEADER + NAME_SIZE + 1
          BY <1>5, <3>2, <3>3 DEF HEADER
        <5>3. QED
          BY <1>7, <2>2, <3>1, <5>1, <5>2
      <4>2. QED
        BY <3>2, <4>1 DEF NameEnd, At
    <3>5. f[off[k]] = IF j > NAME_SIZE THEN -1
                      ELSE IF buf[HEADER + j + 1] = 0 THEN HEADER + j + 1 ELSE f[j]
      BY <1>1, <3>3, <3>4 DEF Tabled, At
    <3>6. CASE j > NAME_SIZE
      <4>1. f[0] = -1 /\ r < HEADER + off[n] + 5
        BY <1>4, <1>5, <1>6, <2>2, <3>3, <3>5, <3>6 DEF HEADER
      <4>2. QED
        BY <3>1, <4>1 DEF Found
    <3>7. CASE j <= NAME_SIZE
      <4>1. buf[HEADER + j + 1] = IF HEADER + j + 1 <= r THEN e[HEADER + j + 1] ELSE 0
        <5>1. HEADER + j + 1 \in Nat /\ HEADER < HEADER + j + 1
              /\ HEADER + j + 1 <= HEADER + NAME_SIZE + 1
          BY <1>5, <3>3, <3>7 DEF HEADER
        <5> HIDE DEF j
        <5>2. QED
          BY <1>7, <5>1
      <4>2. ~(j > NAME_SIZE)
        BY <1>5, <3>3, <3>7
      <4>3. CASE k + 1 = n
        <5>1. e[HEADER + j + 1] = 0
          BY <4>3 DEF Carries
        <5>2. f[0] = HEADER + off[n] + 1
          BY <2>2, <3>5, <4>1, <4>2, <4>3, <5>1
        <5>3. QED
          BY <3>1, <5>2 DEF Found
      <4>4. CASE k + 1 # n
        <5>1. k + 2 \in 1..n /\ (k + 2) - 1 = k + 1
          BY <1>2, <3>1, <4>4
        <5>2. e[HEADER + j + 1] = name[k + 2] /\ name[k + 2] \in 1..63
          <6>1. e[HEADER + off[(k + 2) - 1] + 1] = name[k + 2]
            BY <5>1 DEF Carries
          <6>2. QED
            BY <1>2, <5>1, <6>1
        <5>3. CASE HEADER + j + 1 <= r
          <6>1. f[0] = f[j]
            BY <2>2, <3>5, <4>1, <4>2, <5>2, <5>3
          <6>2. k + 1 < n
            BY <1>2, <3>1, <4>4
          <6>3. Along(k + 1)
            BY <5>3, <6>1, <6>2
          <6>4. QED
            BY <3>1, <6>3
        <5>4. CASE ~(HEADER + j + 1 <= r)
          <6>1. f[0] = HEADER + j + 1
            BY <2>2, <3>5, <4>1, <4>2, <5>4
          <6>2. r < HEADER + off[n] + 5 /\ f[0] > r
            BY <1>4, <1>6, <3>3, <5>4, <6>1 DEF HEADER
          <6>3. QED
            BY <3>1, <6>2 DEF Found
        <5>5. QED
          BY <5>3, <5>4
      <4>5. QED
        BY <4>3, <4>4
    <3>8. QED
      BY <1>5, <3>3, <3>6, <3>7
  <2>3. QED
    BY <1>9, <2>1, <2>2
<1>10. n \in S
  <2> HIDE DEF S
  <2>1. \A k \in 0..n : k \in S
    BY <1>2, <1>8, <1>9, Climbing
  <2>2. QED
    BY <1>2, <2>1
<1>11. Out
  BY <1>2, <1>10
<1>12. QED
  BY <1>1, <1>11

(* What the buffer holds where the type of the first question may lie.     *)
LEMMA TypeByte ==
  ASSUME NEW buf, NEW e, NEW r, Buffered(buf, e, r),
         NEW i \in Nat, HEADER < i, i <= HEADER + NAME_SIZE + 5
  PROVE  buf[i] = IF i <= r THEN e[i] ELSE 0
<1>1. NAME_SIZE \in Nat /\ DNS_MAX_LEN \in Nat /\ HEADER + NAME_SIZE + 5 <= DNS_MAX_LEN
  BY BufferAssumption
<1>2. r \in Nat
  BY DEF Buffered
<1>3. i \in (HEADER + 1)..r \/ i \in (r + 1)..DNS_MAX_LEN
  BY <1>1, <1>2 DEF HEADER
<1>4. QED
  BY <1>2, <1>3 DEF Buffered

(* A word of the buffer, given its bytes.                                  *)
LEMMA WordAt ==
  ASSUME NEW buf, NEW o, NEW x, NEW y, x \in 0..255, y \in 0..255,
         buf[o + 1] = x, o \in Nat, buf[o + 2] = y
  PROVE  Word(buf, o) = 256 * x + y
<1>1. o + 1 + 1 = o + 2
  OBVIOUS
<1>2. QED
  BY <1>1 DEF Word, At

(* Behind what was received the type reads as 0.                           *)
LEMMA NotInRest ==
  ASSUME NEW buf, NEW e, NEW r, Buffered(buf, e, r),
         NEW end \in Ends(HEADER), end > r, r >= HEADER
  PROVE  Word(buf, end) = 0
<1>1. r \in Nat /\ NAME_SIZE \in Nat
  BY BufferAssumption DEF Buffered
<1>2. end \in Nat /\ HEADER < end /\ end <= HEADER + NAME_SIZE + 1
  BY <1>1 DEF Ends, HEADER
<1>3. buf[end + 1] = 0
  <2>1. /\ end + 1 \in Nat /\ HEADER < end + 1
        /\ end + 1 <= HEADER + NAME_SIZE + 5 /\ ~(end + 1 <= r)
    BY <1>1, <1>2 DEF HEADER
  <2>2. QED
    BY <2>1, TypeByte
<1>4. buf[end + 2] = 0
  <2>1. /\ end + 2 \in Nat /\ HEADER < end + 2
        /\ end + 2 <= HEADER + NAME_SIZE + 5 /\ ~(end + 2 <= r)
    BY <1>1, <1>2 DEF HEADER
  <2>2. QED
    BY <2>1, TypeByte
<1>5. QED
  <2>1. Word(buf, end) = 256 * 0 + 0
    BY <1>2, <1>3, <1>4, WordAt
  <2>2. QED
    BY <2>1

(* The question for a name that is not the root and a type that is not A   *)
(* does not read as one of type A, wherever the datagram was cut.          *)
LEMMA OtherTypeNamed ==
  ASSUME NEW name, NEW n, NameIs(name, n), n # 0,
         NEW type \in Nat, type < 65536, type # QD_TYPE_A,
         NEW off, NEW e, NEW size, Carries(e, size, HEADER, name, n, type, off),
         NEW r, r <= size, r >= HEADER + 5, NEW buf, Buffered(buf, e, r)
  PROVE  LET end == parse_dns_name(buf, HEADER)
         IN end = -1 \/ Word(buf, end) # QD_TYPE_A
<1> DEFINE end == parse_dns_name(buf, HEADER)
           last == HEADER + off[n] + 1
<1>1. end \in Ends(HEADER)
  BY Parsing DEF Buffered
<1>2. Found(end, r, off, n)
  <2> HIDE DEF end
  <2>1. QED
    BY NameFound DEF end
<1> HIDE DEF end
<1>3. r \in Nat /\ r <= NAME_SIZE /\ NAME_SIZE \in Nat
  BY BufferAssumption DEF Buffered
<1>4. off[n] \in Nat
  <2>1. LabelEnds(off, name, n)
    BY DEF Carries
  <2>2. QED
    BY <2>1, EndsAt
<1>5. CASE end > r
  <2>1. Word(buf, end) = 0
    BY <1>1, <1>3, <1>5, NotInRest DEF HEADER
  <2>2. QED
    BY <2>1 DEF QD_TYPE_A, end
<1>6. CASE end = last /\ ~(end > r)
  <2>1. last \in Nat /\ last <= r /\ HEADER < last
    BY <1>3, <1>4, <1>6 DEF HEADER
  <2>2. /\ last + 1 = HEADER + off[n] + 2 /\ last + 2 = HEADER + off[n] + 3
    BY <1>4 DEF HEADER
  <2>3. /\ e[last + 1] = type \div 256 /\ e[last + 2] = type % 256
    BY <2>2 DEF Carries
  <2> HIDE DEF last
  <2>4. buf[last + 1] = IF last + 1 <= r THEN type \div 256 ELSE 0
    <3>1. last + 1 \in Nat /\ HEADER < last + 1 /\ last + 1 <= HEADER + NAME_SIZE + 5
      BY <1>3, <2>1 DEF HEADER
    <3>2. QED
      BY <2>3, <3>1, TypeByte
  <2>5. buf[last + 2] = IF last + 2 <= r THEN type % 256 ELSE 0
    <3>1. last + 2 \in Nat /\ HEADER < last + 2 /\ last + 2 <= HEADER + NAME_SIZE + 5
      BY <1>3, <2>1 DEF HEADER
    <3>2. QED
      BY <2>3, <3>1, TypeByte
  <2>6. type \div 256 \in 0..255 /\ type % 256 \in 0..255
    BY Halves
  <2>7. CASE last + 2 <= r
    <3>1. last + 1 <= r
      BY <1>3, <2>1, <2>7
    <3> DEFINE hi == type \div 256
               lo == type % 256
    <3>2. buf[last + 1] = hi /\ buf[last + 2] = lo /\ hi \in 0..255 /\ lo \in 0..255
      BY <2>4, <2>5, <2>6, <2>7, <3>1
    <3>3. 256 * hi + lo = type
      OBVIOUS
    <3> HIDE DEF hi, lo
    <3>4. Word(buf, last) = 256 * hi + lo
      BY <2>1, <3>2, WordAt
    <3>5. QED
      BY <1>6, <3>3, <3>4 DEF end
  <2>8. CASE ~(last + 2 <= r)
    <3>1. PICK x \in 0..255 : buf[last + 1] = x
      BY <2>4, <2>6
    <3>2. buf[last + 2] = 0
      BY <2>5, <2>8
    <3>3. Word(buf, last) = 256 * x + 0
      BY <2>1, <3>1, <3>2, WordAt
    <3>4. 256 * x + 0 # 1
      BY <3>1
    <3>5. QED
      BY <1>6, <3>3, <3>4 DEF QD_TYPE_A, end
  <2>9. QED
    BY <2>7, <2>8
<1>7. end = -1 \/ end > r \/ end = last
  BY <1>2 DEF Found
<1>8. QED
  BY <1>5, <1>6, <1>7 DEF end

(* Neither does a single question for the root, which parse_dns_name looks *)
(* for behind its own end: what it takes for the type lies elsewhere in    *)
(* those 17 bytes, or behind them.                                         *)
LEMMA OtherTypeRoot ==
  ASSUME NEW name, NameIs(name, 0),
         NEW type \in Nat, type < 65536, type # QD_TYPE_A,
         NEW off, NEW e, Carries(e, HEADER + 5, HEADER, name, 0, type, off),
         NEW buf, Buffered(buf, e, HEADER + 5)
  PROVE  LET end == parse_dns_name(buf, HEADER)
         IN end = -1 \/ Word(buf, end) # QD_TYPE_A
<1> DEFINE end == parse_dns_name(buf, HEADER)
           r == HEADER + 5
           hi == type \div 256
           lo == type % 256
<1>1. PICK f : /\ end = f[0]
               /\ f[0] \in Ends(HEADER) /\ Tabled(f, buf, HEADER)
  BY Parsing DEF Buffered
<1> HIDE DEF end
<1>2. NAME_SIZE \in Nat /\ 17 <= NAME_SIZE
  BY BufferAssumption DEF HEADER
<1>3. hi \in 0..255 /\ lo \in 0..255 /\ type = 256 * hi + lo
  BY Halves
<1>4. e[13] = 0 /\ e[14] = hi /\ e[15] = lo /\ e[16] = 0 /\ e[17] = 1
  <2>1. off[0] = 0
    BY DEF Carries, LabelEnds
  <2>2. QED
    BY <2>1 DEF Carries, HEADER
<1> HIDE DEF hi, lo
<1>5. /\ buf[13] = 0 /\ buf[14] = hi /\ buf[15] = lo /\ buf[16] = 0 /\ buf[17] = 1
      /\ \A i \in 18..(NAME_SIZE + 17) : buf[i] = 0
  <2>1. ASSUME NEW i \in 13..(NAME_SIZE + 17) PROVE buf[i] = IF i <= 17 THEN e[i] ELSE 0
    <3>1. i \in Nat /\ HEADER < i /\ i <= HEADER + NAME_SIZE + 5 /\ HEADER + 5 = 17
      BY <1>2 DEF HEADER
    <3>2. QED
      BY <3>1, TypeByte
  <2>2. /\ 13 \in 13..(NAME_SIZE + 17) /\ 14 \in 13..(NAME_SIZE + 17)
        /\ 15 \in 13..(NAME_SIZE + 17)
        /\ 16 \in 13..(NAME_SIZE + 17) /\ 17 \in 13..(NAME_SIZE + 17)
        /\ \A i \in 18..(NAME_SIZE + 17) : i \in 13..(NAME_SIZE + 17) /\ ~(i <= 17)
    BY <1>2
  <2>3. QED
    BY <1>4, <2>1, <2>2
<1>6. ASSUME NEW n \in 0..NAME_SIZE, NEW j \in Nat, j = n + buf[13 + n] + 1
      PROVE  f[n] = IF j > NAME_SIZE THEN -1
                    ELSE IF buf[13 + j] = 0 THEN 13 + j ELSE f[j]
  <2>1. HEADER + n + 1 = 13 + n /\ HEADER + j + 1 = 13 + j
    BY <1>2 DEF HEADER
  <2>2. NameEnd(buf, HEADER, n) = j
    BY <1>6, <2>1 DEF NameEnd, At
  <2>3. QED
    BY <1>1, <2>1, <2>2 DEF Tabled, At
<1>7. f[0] = IF hi = 0 THEN 14 ELSE f[1]
  <2>1. 0 \in 0..NAME_SIZE /\ 1 = 0 + buf[13 + 0] + 1 /\ ~(1 > NAME_SIZE)
    BY <1>2, <1>5
  <2>2. f[0] = IF 1 > NAME_SIZE THEN -1 ELSE IF buf[13 + 1] = 0 THEN 13 + 1 ELSE f[1]
    BY <1>6, <2>1
  <2>3. QED
    BY <1>5, <2>1, <2>2
<1>8. f[1] = IF hi + 2 > NAME_SIZE THEN -1
             ELSE IF buf[hi + 15] = 0 THEN hi + 15 ELSE f[hi + 2]
  <2>1. 1 \in 0..NAME_SIZE /\ hi + 2 \in Nat /\ hi + 2 = 1 + buf[13 + 1] + 1
    BY <1>2, <1>3, <1>5
  <2>2. f[1] = IF hi + 2 > NAME_SIZE THEN -1
               ELSE IF buf[13 + (hi + 2)] = 0 THEN 13 + (hi + 2) ELSE f[hi + 2]
    BY <1>6, <2>1
  <2>3. 13 + (hi + 2) = hi + 15
    BY <1>3
  <2>4. QED
    BY <2>2, <2>3
<1>9. f[4] = 19
  <2>1. 4 \in 0..NAME_SIZE /\ 6 \in Nat /\ 6 = 4 + buf[13 + 4] + 1 /\ ~(6 > NAME_SIZE)
    BY <1>2, <1>5
  <2>2. f[4] = IF 6 > NAME_SIZE THEN -1 ELSE IF buf[13 + 6] = 0 THEN 13 + 6 ELSE f[6]
    BY <1>6, <2>1
  <2>3. buf[19] = 0
    BY <1>2, <1>5
  <2>4. QED
    BY <2>1, <2>2, <2>3
<1>10. ASSUME end > 17 PROVE Word(buf, end) # 1
  <2>1. HEADER + 5 = 17 /\ HEADER + 5 >= HEADER
    BY DEF HEADER
  <2>2. end \in Ends(HEADER)
    BY <1>1
  <2>3. Word(buf, end) = 0
    BY <1>10, <2>1, <2>2, NotInRest
  <2>4. QED
    BY <2>3
<1>11. CASE hi = 0
  <2>1. end = 14
    BY <1>1, <1>7, <1>11
  <2>2. Word(buf, 14) = 256 * lo + 0
    <3>1. buf[14 + 1] = lo /\ buf[14 + 2] = 0 /\ 14 \in Nat
      BY <1>5
    <3>2. QED
      BY <1>3, <1>5, WordAt
  <2>3. 256 * lo + 0 # 1
    BY <1>3
  <2>4. QED
    BY <2>1, <2>2, <2>3 DEF end, QD_TYPE_A
<1>12. CASE hi = 1
  <2>1. end = 16
    BY <1>1, <1>2, <1>5, <1>7, <1>8, <1>12
  <2>2. Word(buf, 16) = 256 * 1 + 0
    <3>1. buf[16 + 1] = 1 /\ buf[16 + 2] = 0 /\ 16 \in Nat
      BY <1>2, <1>5
    <3>2. QED
      BY <3>1, WordAt
  <2>3. QED
    BY <2>1, <2>2 DEF end, QD_TYPE_A
<1>13. CASE hi = 2
  <2>1. buf[2 + 15] = 1 /\ ~(2 + 2 > NAME_SIZE) /\ 2 + 2 = 4
    BY <1>2, <1>5
  <2>2. f[1] = f[4]
    BY <1>8, <1>13, <2>1
  <2>3. end = 19
    BY <1>1, <1>7, <1>9, <1>13, <2>2
  <2>4. QED
    BY <1>10, <2>3 DEF end, QD_TYPE_A
<1>14. CASE hi > 2
  <2>1. CASE hi + 2 > NAME_SIZE
    <3>1. end = -1
      BY <1>1, <1>3, <1>7, <1>8, <1>14, <2>1
    <3>2. QED
      BY <3>1 DEF end
  <2>2. CASE ~(hi + 2 > NAME_SIZE)
    <3>1. buf[hi + 15] = 0
      <4>1. hi + 15 \in 18..(NAME_SIZE + 17)
        BY <1>2, <1>3, <1>14, <2>2
      <4>2. QED
        BY <1>5, <4>1
    <3>2. end = hi + 15 /\ end > 17
      BY <1>1, <1>3, <1>7, <1>8, <1>14, <2>2, <3>1
    <3>3. QED
      BY <1>10, <3>2 DEF end, QD_TYPE_A
  <2>3. QED
    BY <2>1, <2>2
<1>15. QED
  BY <1>3, <1>11, <1>12, <1>13, <1>14

-----------------------------------------------------------------------------
(* What is received, and the types.                                        *)

Taken(bytes) == SubSeq(bytes, 1, IF Len(bytes) < RX_SIZE THEN Len(bytes) ELSE RX_SIZE)

(* d is what is received of a datagram of size bytes.                      *)
Takes(d, r, bytes, size) ==
  /\ Octets(d, r) /\ r = IF size < RX_SIZE THEN size ELSE RX_SIZE
  /\ \A i \in 1..r : d[i] = bytes[i]

(* Up to RX_SIZE bytes of a datagram are received.                         *)
LEMMA Taking ==
  ASSUME NEW bytes, NEW size, Octets(bytes, size)
  PROVE  \E r : r \in Nat /\ r <= RX_SIZE /\ r <= size /\ Takes(Taken(bytes), r, bytes, size)
<1> DEFINE r == IF size < RX_SIZE THEN size ELSE RX_SIZE
<1>1. size \in Nat /\ Len(bytes) = size /\ RX_SIZE \in Nat
  BY OctetLen, BufferAssumption
<1>2. r \in 0..size /\ 1 \in 1..(size + 1) /\ 1 <= r + 1 /\ r <= RX_SIZE /\ r \in Nat
  BY <1>1
<1>3. Taken(bytes) = SubSeq(bytes, 1, r)
  BY <1>1 DEF Taken
<1>4. r = IF size < RX_SIZE THEN size ELSE RX_SIZE
  OBVIOUS
<1> HIDE DEF r
<1>5. /\ Octets(SubSeq(bytes, 1, r), r + 1 - 1)
      /\ \A k \in 1..(r + 1 - 1) : SubSeq(bytes, 1, r)[k] = bytes[1 + k - 1]
  BY <1>2, Cut
<1>6. r + 1 - 1 = r /\ \A k \in 1..r : 1 + k - 1 = k
  BY <1>2
<1> DEFINE d == Taken(bytes)
<1>7. Octets(d, r) /\ \A k \in 1..r : d[k] = bytes[1 + k - 1]
  BY <1>3, <1>5, <1>6
<1> HIDE DEF d
<1>8. Takes(d, r, bytes, size)
  BY <1>4, <1>6, <1>7 DEF Takes
<1>9. r <= size
  BY <1>1, <1>2
<1>10. QED
  BY <1>2, <1>8, <1>9 DEF d

(* The four bytes of the TTL.                                              *)
LEMMA TtlOctets == Octets(ANS_TTL_SEC, 4)
<1> DEFINE z == <<0, 0, 1, 44>>
<1>1. z \in [1..4 -> 0..255]
  OBVIOUS
<1> HIDE DEF z
<1>2. Octets(z, 4)
  BY <1>1, OctetsAre
<1>3. QED
  BY <1>2 DEF z, ANS_TTL_SEC

(* How long two sequences of bytes are together.                           *)
LEMMA JoinedLength ==
  ASSUME NEW s, NEW m, Octets(s, m), NEW t, NEW n, Octets(t, n)
  PROVE  Octets(s \o t, m + n)
<1> DEFINE w == s \o t
<1>1. Joins(w, s, m, t, n)
  BY Joined
<1> HIDE DEF w
<1>2. Octets(w, m + n)
  BY <1>1 DEF Joins
<1>3. QED
  BY <1>2 DEF w

(* An answer is ANSWER bytes long.                                         *)
LEMMA Answering ==
  ASSUME NEW qd_type \in Nat, qd_type < 65536, NEW qd_class \in Nat, qd_class < 65536,
         NEW ip, Octets(ip, 4)
  PROVE  Octets(AnswerBytes(qd_type, qd_class, ip), ANSWER)
<1> DEFINE p == <<192, HEADER>>
           t == TwoBytes(qd_type)
           c == TwoBytes(qd_class)
           l == TwoBytes(4)
           pt == p \o t
           ptc == pt \o c
           pts == ptc \o ANS_TTL_SEC
           ptl == pts \o l
           w == ptl \o ip
<1>1. Octets(p, 2)
  BY TwoOctets DEF Octet, HEADER
<1>2. Octets(t, 2) /\ Octets(c, 2) /\ Octets(l, 2)
  BY WordOctets
<1>3. w = AnswerBytes(qd_type, qd_class, ip)
  BY DEF AnswerBytes
<1> HIDE DEF p, t, c, l
<1>4. Octets(pt, 2 + 2)
  BY <1>1, <1>2, JoinedLength
<1> HIDE DEF pt
<1>5. Octets(ptc, 4 + 2)
  BY <1>2, <1>4, JoinedLength
<1> HIDE DEF ptc
<1>6. Octets(pts, 6 + 4)
  BY <1>5, TtlOctets, JoinedLength
<1> HIDE DEF pts
<1>7. Octets(ptl, 10 + 2)
  BY <1>2, <1>6, JoinedLength
<1> HIDE DEF ptl
<1>8. Octets(w, 12 + 4)
  BY <1>7, JoinedLength
<1> HIDE DEF w
<1>9. QED
  BY <1>3, <1>8 DEF ANSWER

(* What every variable holds.                                              *)
Typed ==
  /\ task \in {"open", "bind", "recv", "handle", "reply", "cleanup", "ended"}
  /\ owner \in {"dns", "nobody", "other"}
  /\ bound \in BOOLEAN /\ softap \in BOOLEAN /\ recvFail \in BOOLEAN
  /\ query \in Queries \cup {NoQuery}
  /\ Octets(datagram, Len(datagram)) /\ Len(datagram) <= RX_SIZE
  /\ dns_reply # <<>> => Octets(dns_reply, DNS_MAX_LEN)
  /\ task = "reply" => /\ Octets(dns_reply, DNS_MAX_LEN)
                       /\ turns \in Nat /\ turns <= QdCount(datagram)
                       /\ ReplyLen(datagram) \in 1..DNS_MAX_LEN

(* It holds at first.                                                      *)
LEMMA InitTyped == Init => Typed
<1> SUFFICES ASSUME Init PROVE Typed
  OBVIOUS
<1>1. Octets(datagram, 0) /\ Len(datagram) = 0
  BY NoOctets, OctetLen DEF Init
<1>2. 0 <= RX_SIZE
  BY BufferAssumption
<1>3. QED
  BY <1>1, <1>2 DEF Init, Typed

(* It is kept by every datagram of bytes.                                  *)
LEMMA ReceivedTyped ==
  ASSUME NEW bytes, NEW size, Octets(bytes, size), NEW q \in Queries \cup {NoQuery},
         Typed, Receive(q, bytes)
  PROVE  Typed'
<1>1. /\ datagram' = Taken(bytes) /\ query' = q /\ task' = "handle" /\ dns_reply' = dns_reply
      /\ owner' = owner /\ bound' = bound /\ softap' = softap /\ recvFail' = recvFail
  BY DEF Receive, Taken, sockVars, replyVars
<1>2. PICK r : r \in Nat /\ r <= RX_SIZE /\ Takes(Taken(bytes), r, bytes, size)
  BY Taking
<1>3. Octets(datagram', r) /\ Len(datagram') = r
  BY <1>1, <1>2, OctetLen DEF Takes
<1>4. QED
  BY <1>1, <1>2, <1>3 DEF Typed

(* It is kept where the reply is started.                                  *)
LEMMA StartTyped == Typed /\ StartReply => Typed'
<1> SUFFICES ASSUME Typed, StartReply PROVE Typed'
  OBVIOUS
<1>1. /\ datagram' = datagram /\ query' = query /\ owner' = owner
      /\ bound' = bound /\ softap' = softap /\ recvFail' = recvFail
  BY DEF StartReply, rxVars, sockVars
<1>2. CASE Refused
  BY <1>1, <1>2 DEF StartReply, Typed, replyVars
<1>3. CASE ~Refused
  <2>1. task' = "reply" /\ turns' = QdCount(datagram) /\ dns_reply' = Started(datagram)
    BY <1>3 DEF StartReply, Started
  <2>2. ReplyLen(datagram) \in 1..DNS_MAX_LEN
    BY <1>3 DEF Refused
  <2>3. QdCount(datagram) \in Nat /\ Octets(Started(datagram), DNS_MAX_LEN)
    BY Starting DEF Typed, StartedAs
  <2>4. QdCount(datagram) <= QdCount(datagram)
    BY <2>3
  <2>5. QED
    BY <1>1, <2>1, <2>2, <2>3, <2>4 DEF Typed
<1>4. QED
  BY <1>2, <1>3

(* A turn of the loop writes bytes, and within the buffer.                 *)
LEMMA RespondOctets ==
  ASSUME Typed, task = "reply", turns > 0, NEW ip \in Ips,
         NEW end \in Ends(HEADER), end # -1
  PROVE  Octets(Put(dns_reply, Len(datagram),
                    AnswerBytes(Word(dns_reply, end), Word(dns_reply, end + 2), ip)),
                DNS_MAX_LEN)
<1> DEFINE len == Len(datagram)
           t == Word(dns_reply, end)
           c == Word(dns_reply, end + 2)
           a == AnswerBytes(t, c, ip)
<1>1. /\ Octets(dns_reply, DNS_MAX_LEN) /\ turns \in Nat /\ turns <= QdCount(datagram)
      /\ ReplyLen(datagram) \in 1..DNS_MAX_LEN /\ Octets(datagram, len) /\ len <= RX_SIZE
  BY DEF Typed
<1>2. /\ NAME_SIZE \in Nat /\ DNS_MAX_LEN \in Nat
      /\ HEADER + NAME_SIZE + 5 <= DNS_MAX_LEN
  BY BufferAssumption
<1>3. end \in Nat /\ end + 2 <= DNS_MAX_LEN /\ end + 2 + 2 <= DNS_MAX_LEN /\ end + 2 \in Nat
  BY <1>2 DEF Ends, HEADER
<1>4. t \in Nat /\ t < 65536 /\ c \in Nat /\ c < 65536
  BY <1>1, <1>3, WordRange
<1>5. Octets(ip, 4)
  BY TrafficAssumption DEF Ips, Octets
<1>6. Octets(a, ANSWER)
  <2> HIDE DEF t, c
  <2>1. QED
    BY <1>4, <1>5, Answering
<1>7. len \in Nat /\ len + ANSWER <= DNS_MAX_LEN
  <2>1. len \in Nat
    BY <1>1, OctetLen
  <2>2. QdCount(datagram) \in Nat
    BY <1>1, Starting
  <2>3. QdCount(datagram) >= 1
    BY <1>1, <2>2
  <2>4. QdCount(datagram) * ANSWER + len <= DNS_MAX_LEN
    BY <1>1 DEF ReplyLen
  <2>5. QED
    BY <1>2, <2>1, <2>2, <2>3, <2>4 DEF ANSWER
<1> HIDE DEF a, len
<1> DEFINE w == Put(dns_reply, len, a)
<1>8. Puts(w, dns_reply, DNS_MAX_LEN, len, a, ANSWER)
  BY <1>1, <1>6, <1>7, PutKeeps
<1> HIDE DEF w
<1>9. Octets(w, DNS_MAX_LEN)
  BY <1>8 DEF Puts
<1>10. QED
  BY <1>9 DEF w, a, len

(* It is kept by a turn of the loop.                                       *)
LEMMA RespondTyped == Typed /\ Respond => Typed'
<1> SUFFICES ASSUME Typed, Respond PROVE Typed'
  OBVIOUS
<1> DEFINE end == parse_dns_name(dns_reply, HEADER)
<1>1. /\ task = "reply" /\ turns > 0 /\ datagram' = datagram /\ query' = query
      /\ owner' = owner /\ bound' = bound /\ softap' = softap /\ recvFail' = recvFail
  BY DEF Respond, rxVars, sockVars
<1>2. end \in Ends(HEADER)
  BY <1>1, Parsing DEF Typed
<1>3. CASE end = -1
  <2>1. task' = "recv" /\ dns_reply' = dns_reply
    BY <1>3 DEF Respond, replyVars
  <2>2. QED
    BY <1>1, <2>1 DEF Typed
<1>4. CASE end # -1
  <2>1. /\ task' = task /\ turns' = turns - 1
        /\ \/ dns_reply' = dns_reply
           \/ \E ip \in Ips :
                dns_reply' = Put(dns_reply, Len(datagram),
                  AnswerBytes(Word(dns_reply, end), Word(dns_reply, end + 2), ip))
    BY <1>4 DEF Respond
  <2> HIDE DEF end
  <2>2. Octets(dns_reply', DNS_MAX_LEN)
    <3>1. CASE dns_reply' = dns_reply
      BY <1>1, <3>1 DEF Typed
    <3>2. ASSUME NEW ip \in Ips,
                 dns_reply' = Put(dns_reply, Len(datagram),
                   AnswerBytes(Word(dns_reply, end), Word(dns_reply, end + 2), ip))
          PROVE  Octets(dns_reply', DNS_MAX_LEN)
      BY <1>1, <1>2, <1>4, <3>2, RespondOctets
    <3>3. QED
      BY <2>1, <3>1, <3>2
  <2>3. turns' \in Nat /\ turns' <= QdCount(datagram)
    <3>1. QdCount(datagram) \in Nat
      BY Starting DEF Typed
    <3>2. QED
      BY <1>1, <2>1, <3>1 DEF Typed
  <2>4. QED
    BY <1>1, <2>1, <2>2, <2>3 DEF Typed
<1>5. QED
  BY <1>3, <1>4

(* The queries that arrive are encoded as Encoding says.                   *)
LEMMA SentOctets ==
  ASSUME NEW q \in Queries
  PROVE  /\ Len(q.questions) \in Nat /\ Len(q.questions) < 65536
         /\ \E size : EncodedAs(Encode(q), size, q, Len(q.questions))
<1> DEFINE m == Len(q.questions)
<1>1. q \in Query /\ m < 65536
  BY TrafficAssumption
<1>2. m \in Nat
  BY <1>1, LenProperties DEF Query
<1> HIDE DEF m
<1>3. \E size : EncodedAs(Encode(q), size, q, m)
  BY <1>1, Encoding DEF m
<1>4. QED
  BY <1>1, <1>2, <1>3 DEF m

(* It is kept by every step.                                               *)
LEMMA NextTyped == Typed /\ [Next]_vars => Typed'
<1> SUFFICES ASSUME Typed, [Next]_vars PROVE Typed'
  OBVIOUS
<1>1. CASE OpenSocket
  BY <1>1 DEF OpenSocket, rxVars, replyVars, Typed
<1>2. CASE Bind
  BY <1>2 DEF Bind, AfterBind, rxVars, replyVars, Typed
<1>3. CASE StartReply
  BY <1>3, StartTyped
<1>4. CASE Respond
  BY <1>4, RespondTyped
<1>5. CASE Send
  BY <1>5 DEF Send, SendError, rxVars, replyVars, Typed
<1>6. CASE Cleanup
  <2>1. /\ task' = "open" /\ owner' = "nobody" /\ bound' = FALSE /\ query' = NoQuery
        /\ softap' = softap /\ recvFail' = FALSE /\ dns_reply' = <<>> /\ datagram' = <<>>
    BY <1>6 DEF Cleanup
  <2>2. Octets(datagram', 0) /\ Len(datagram') = 0 /\ 0 <= RX_SIZE
    BY <2>1, NoOctets, OctetLen, BufferAssumption
  <2>3. QED
    BY <2>1, <2>2 DEF Typed
<1>7. CASE RecvError
  BY <1>7 DEF RecvError, rxVars, replyVars, Typed
<1>8. CASE OtherOpens
  BY <1>8 DEF OtherOpens, rxVars, replyVars, Typed
<1>9. ASSUME NEW q \in Queries, Receive(q, Encode(q)) PROVE Typed'
  <2>1. PICK size : EncodedAs(Encode(q), size, q, Len(q.questions))
    BY SentOctets
  <2>2. Octets(Encode(q), size)
    BY <2>1 DEF EncodedAs, Heads
  <2>3. QED
    BY <1>9, <2>2, ReceivedTyped
<1>10. ASSUME NEW bytes \in Junk, Receive(NoQuery, bytes) PROVE Typed'
  <2>1. Octets(bytes, Len(bytes))
    BY TrafficAssumption DEF Octets
  <2>2. QED
    BY <1>10, <2>1, ReceivedTyped
<1>11. CASE UNCHANGED vars
  BY <1>11 DEF vars, sockVars, rxVars, replyVars, Typed
<1>12. QED
  BY <1>1, <1>2, <1>3, <1>4, <1>5, <1>6, <1>7, <1>8, <1>9, <1>10, <1>11 DEF Next, DnsTask

(* It implies the types a run checks.                                      *)
LEMMA TypedOK == Typed => TypeOK
<1> SUFFICES ASSUME Typed PROVE TypeOK
  OBVIOUS
<1>1. dns_reply # <<>> => Len(dns_reply) = DNS_MAX_LEN
  BY OctetLen DEF Typed
<1>2. ASSUME NEW o \in 1..Len(dns_reply) PROVE dns_reply[o] \in 0..255
  <2>1. dns_reply # <<>>
    OBVIOUS
  <2>2. o \in 1..DNS_MAX_LEN
    BY <1>1, <2>1
  <2>3. QED
    BY <2>1, <2>2, OctetAt DEF Typed
<1>3. QED
  BY <1>1, <1>2 DEF Typed, TypeOK

(* The task's variables keep their types, and the replies it prepares      *)
(* their length, for every datagram.                                       *)
THEOREM TypeCorrect == Spec => []TypeOK
BY InitTyped, NextTyped, TypedOK, PTL DEF Spec

-----------------------------------------------------------------------------
(* What is left of a query in the buffers.                                 *)

(* d is what was received of q, and b the reply that is started for it.    *)
Opened(d, b, q, m, e, size, r) ==
  /\ EncodedAs(e, size, q, m) /\ Takes(d, r, e, size)
  /\ r \in Nat /\ r <= RX_SIZE /\ r <= size /\ r >= HEADER
  /\ QdCount(d) = m /\ StartedAs(d) /\ b = Started(d) /\ Buffered(b, e, r)

Counts(buf, m) == /\ m \in Nat /\ m < 65536
                  /\ buf[5] = m \div 256 /\ buf[6] = m % 256

(* The count of questions, given its bytes.                                *)
LEMMA CountAt ==
  ASSUME NEW buf, NEW m, Counts(buf, m)
  PROVE  Word(buf, 4) = m
<1> USE DEF Counts
<1> DEFINE hi == m \div 256
           lo == m % 256
<1>1. hi \in 0..255 /\ lo \in 0..255
  BY Halves
<1>2. m = 256 * hi + lo
  OBVIOUS
<1>3. buf[4 + 1] = hi /\ buf[4 + 2] = lo /\ 4 \in Nat
  OBVIOUS
<1> HIDE DEF hi, lo
<1>4. Word(buf, 4) = 256 * hi + lo
  BY <1>1, <1>3, WordAt
<1>5. QED
  BY <1>2, <1>4

(* The reply is started for the number of questions of the query, with the *)
(* bytes received of it behind the header.                                 *)
LEMMA Opening ==
  ASSUME NEW q \in Queries, NEW d, d = Taken(Encode(q)), NEW m, m = Len(q.questions)
  PROVE  \E size, r : Opened(d, Started(d), q, m, Encode(q), size, r)
<1> DEFINE e == Encode(q)
           b == Started(d)
           pad == Prepare(d)
<1>1. m \in Nat /\ m < 65536 /\ \E size : EncodedAs(e, size, q, m)
  BY SentOctets
<1>2. PICK size : EncodedAs(e, size, q, m)
  BY <1>1
<1>3. Heads(e, size, q.flags, m) /\ Octets(e, size) /\ size >= HEADER
  BY <1>2 DEF EncodedAs, Heads
<1> HIDE DEF e
<1>4. PICK r : r \in Nat /\ r <= RX_SIZE /\ r <= size /\ Takes(d, r, e, size)
  BY <1>3, Taking DEF e
<1>5. /\ DNS_MAX_LEN \in Nat /\ RX_SIZE \in Nat /\ NAME_SIZE \in Nat
      /\ HEADER + 5 <= RX_SIZE /\ RX_SIZE <= NAME_SIZE
      /\ HEADER + NAME_SIZE + 5 <= DNS_MAX_LEN /\ size \in Nat
  BY <1>3, BufferAssumption, OctetLen
<1>6. r >= HEADER /\ r <= DNS_MAX_LEN /\ r <= NAME_SIZE
  BY <1>3, <1>4, <1>5 DEF Takes, HEADER
<1>7. Octets(d, r) /\ \A i \in 1..r : d[i] = e[i]
  BY <1>4 DEF Takes
<1>8. /\ Octets(pad, DNS_MAX_LEN)
      /\ \A i \in 1..r : pad[i] = d[i]
      /\ \A i \in (r + 1)..DNS_MAX_LEN : pad[i] = 0
  BY <1>6, <1>7, Padded
<1> HIDE DEF pad
<1>9. StartedAs(d)
  BY <1>4, <1>7, Starting
<1>10. QdCount(d) = m
  <2>1. 5 \in 1..r /\ 6 \in 1..r
    BY <1>4, <1>6 DEF HEADER
  <2>2. e[5] = m \div 256 /\ e[6] = m % 256
    BY <1>3 DEF Heads
  <2>3. pad[5] = m \div 256 /\ pad[6] = m % 256
    BY <1>7, <1>8, <2>1, <2>2
  <2>4. Word(pad, 4) = m
    <3>1. Counts(pad, m)
      BY <1>1, <2>3 DEF Counts
    <3>2. QED
      BY <3>1, CountAt
  <2>5. QED
    BY <2>4 DEF QdCount, pad
<1> HIDE DEF b
<1>11. Buffered(b, e, r)
  <2>1. Octets(b, DNS_MAX_LEN)
    BY <1>9 DEF StartedAs, b
  <2>2. ASSUME NEW i \in 9..DNS_MAX_LEN PROVE b[i] = pad[i]
    <3>1. i \in 1..DNS_MAX_LEN /\ i # 3 /\ i # 7 /\ i # 8
      BY <1>5
    <3>2. QED
      BY <1>9, <3>1 DEF StartedAs, b, pad
  <2>3. ASSUME NEW i \in (HEADER + 1)..r PROVE b[i] = e[i]
    <3>1. i \in 9..DNS_MAX_LEN /\ i \in 1..r
      BY <1>4, <1>5, <1>6 DEF HEADER
    <3>2. QED
      BY <1>7, <1>8, <2>2, <3>1
  <2>4. ASSUME NEW i \in (r + 1)..DNS_MAX_LEN PROVE b[i] = 0
    <3>1. i \in 9..DNS_MAX_LEN
      BY <1>4, <1>5, <1>6 DEF HEADER
    <3>2. QED
      BY <1>8, <2>2, <3>1
  <2>5. QED
    BY <1>4, <1>6, <2>1, <2>3, <2>4 DEF Buffered
<1>12. Opened(d, b, q, m, e, size, r)
  BY <1>2, <1>4, <1>6, <1>9, <1>10, <1>11 DEF Opened, b
<1>13. QED
  BY <1>12 DEF b, e

(* The type of the first question is a word.                               *)
LEMMA FirstQuestion ==
  ASSUME NEW q \in Queries, NEW m, m = Len(q.questions), m # 0
  PROVE  /\ 1 \in 1..m
         /\ q.questions[1].type \in Nat /\ q.questions[1].type < 65536
<1>1. m \in Nat /\ 1 \in 1..m
  BY SentOctets
<1>2. q.questions \in Seq(Asked)
  BY TrafficAssumption DEF Query
<1>3. q.questions[1] \in Asked
  BY <1>1, <1>2, ElementOfSeq
<1>4. q.questions[1].type \in Short
  BY <1>3 DEF Asked
<1>5. QED
  BY <1>1, <1>4, ShortRange

(* The queries of NoAddressUnasked.                                        *)
AsksNothing(q) == /\ Asking(q) = {}
                  /\ Len(q.questions) > 1 => q.questions[1].name # <<>>

(* No turn of the loop takes the question of such a query for one of type  *)
(* A.                                                                      *)
LEMMA NotAsked ==
  ASSUME NEW q \in Queries, AsksNothing(q), NEW d, d = Taken(Encode(q)),
         Len(q.questions) # 0
  PROVE  LET end == parse_dns_name(Started(d), HEADER)
         IN end = -1 \/ Word(Started(d), end) # QD_TYPE_A
<1> DEFINE m == Len(q.questions)
           b == Started(d)
           name == q.questions[1].name
           type == q.questions[1].type
           end == parse_dns_name(b, HEADER)
<1>1. m \in Nat /\ m # 0
  BY SentOctets
<1>2. type \in Nat /\ type < 65536 /\ type # QD_TYPE_A
  BY <1>1, FirstQuestion DEF AsksNothing, Asking
<1>3. m > 1 => name # <<>>
  BY DEF AsksNothing
<1> DEFINE e == Encode(q)
<1>4. PICK size, r : Opened(d, b, q, m, e, size, r)
  BY Opening
<1> HIDE DEF m, b, e
<1>5. PICK n, off : /\ NameIs(name, n) /\ Carries(e, size, HEADER, name, n, type, off)
                    /\ m = 1 => size = HEADER + off[n] + 5
  BY <1>1, <1>4 DEF Opened, EncodedAs
<1> HIDE DEF name, type
<1>6. off[n] \in Nat /\ n \in Nat
  <2>1. LabelEnds(off, name, n)
    BY <1>5 DEF Carries
  <2>2. QED
    BY <1>5, <2>1, EndsAt, NameLabels
<1>7. RX_SIZE \in Nat /\ HEADER + 5 <= RX_SIZE /\ size \in Nat
  <2>1. Octets(e, size)
    BY <1>5 DEF Carries
  <2>2. QED
    BY <2>1, BufferAssumption, OctetLen
<1>8. HEADER + off[n] + 5 <= size
  BY <1>5 DEF Carries
<1>9. /\ Buffered(b, e, r) /\ r \in Nat /\ r <= size
      /\ r = IF size < RX_SIZE THEN size ELSE RX_SIZE
  BY <1>4 DEF Opened, Takes
<1>10. r >= HEADER + 5
  BY <1>6, <1>7, <1>8, <1>9 DEF HEADER
<1>11. CASE n # 0
  <2>1. end = -1 \/ Word(b, end) # QD_TYPE_A
    BY <1>2, <1>5, <1>9, <1>10, <1>11, OtherTypeNamed
  <2>2. QED
    BY <2>1 DEF b
<1>12. CASE n = 0
  <2>1. name = <<>>
    BY <1>5, <1>12, EmptySeq DEF NameIs
  <2>2. m = 1
    BY <1>1, <1>3, <2>1
  <2>3. off[0] = 0
    BY <1>5 DEF Carries, LabelEnds
  <2>4. size = HEADER + 5 /\ r = HEADER + 5
    BY <1>5, <1>7, <1>9, <1>12, <2>2, <2>3 DEF HEADER
  <2>5. Carries(e, HEADER + 5, HEADER, name, 0, type, off) /\ NameIs(name, 0)
        /\ Buffered(b, e, HEADER + 5)
    BY <1>5, <1>9, <1>12, <2>4
  <2>6. end = -1 \/ Word(b, end) # QD_TYPE_A
    BY <1>2, <2>5, OtherTypeRoot
  <2>7. QED
    BY <2>6 DEF b
<1>13. QED
  BY <1>11, <1>12

-----------------------------------------------------------------------------
(* The usual query.                                                        *)

(* A usual query is received whole, gets one answer, and the first turn    *)
(* finds its question.                                                     *)
LEMMA UsualOpening ==
  ASSUME NEW q \in Queries, Usual(q), NEW d, d = Taken(Encode(q))
  PROVE  /\ d = Encode(q)
         /\ \E size : /\ Opened(d, Started(d), q, 1, Encode(q), size, size)
                      /\ QdCount(d) = 1 /\ Len(d) = size /\ size + ANSWER <= DNS_MAX_LEN
                      /\ \E n, off : /\ n # 0 /\ NameIs(q.questions[1].name, n)
                                     /\ Carries(Encode(q), size, HEADER,
                                                q.questions[1].name, n, QD_TYPE_A, off)
                                     /\ size = HEADER + off[n] + 5
<1> DEFINE m == Len(q.questions)
           name == q.questions[1].name
           e == Encode(q)
           b == Started(d)
<1>1. m = 1 /\ q.questions[1].type = QD_TYPE_A /\ name # <<>> /\ Len(e) <= RX_SIZE
  BY DEF Usual
<1>2. PICK size, r : Opened(d, b, q, 1, e, size, r)
  BY <1>1, Opening
<1> HIDE DEF e, b
<1>3. /\ EncodedAs(e, size, q, 1) /\ Octets(e, size) /\ Takes(d, r, e, size) /\ Octets(d, r)
      /\ QdCount(d) = 1 /\ r \in Nat /\ r <= RX_SIZE
  BY <1>2 DEF Opened, EncodedAs, Heads, Takes
<1>4. Len(e) = size /\ size \in Nat /\ Len(d) = r /\ RX_SIZE \in Nat
  BY <1>3, OctetLen, BufferAssumption
<1>5. r = size
  BY <1>1, <1>3, <1>4 DEF Takes
<1>6. d = e
  BY <1>3, <1>5, OctetsEqual DEF Takes
<1>7. size + ANSWER <= DNS_MAX_LEN
  BY <1>1, <1>4, BufferAssumption DEF HEADER, ANSWER
<1>8. \E n, off : /\ n # 0 /\ NameIs(name, n)
                  /\ Carries(e, size, HEADER, name, n, QD_TYPE_A, off)
                  /\ size = HEADER + off[n] + 5
  <2>1. PICK n, off : /\ NameIs(name, n) /\ Carries(e, size, HEADER, name, n, QD_TYPE_A, off)
                      /\ size = HEADER + off[n] + 5
    BY <1>1, <1>3 DEF EncodedAs
  <2>2. n # 0
    <3>1. n = 0 => name = <<>>
      BY <2>1, EmptySeq DEF NameIs
    <3>2. QED
      BY <1>1, <3>1
  <2>3. QED
    BY <2>1, <2>2
<1>9. Opened(d, b, q, 1, e, size, size)
  BY <1>2, <1>5
<1>10. QED
  BY <1>3, <1>4, <1>5, <1>6, <1>7, <1>8, <1>9 DEF e, b

(* It is not refused, and its reply has room for one answer.               *)
LEMMA UsualNotRefused ==
  ASSUME NEW q \in Queries, Usual(q), NEW d, d = Taken(Encode(q))
  PROVE  ~NotStandard(Prepare(d)) /\ ReplyLen(d) \in 1..DNS_MAX_LEN
         /\ ReplyLen(d) = Len(d) + ANSWER
<1>1. PICK size : /\ Opened(d, Started(d), q, 1, Encode(q), size, size)
                  /\ QdCount(d) = 1 /\ Len(d) = size /\ size + ANSWER <= DNS_MAX_LEN
  BY UsualOpening
<1> DEFINE e == Encode(q)
           pad == Prepare(d)
<1>2. /\ size \in Nat /\ size >= HEADER /\ Octets(d, size) /\ \A i \in 1..size : d[i] = e[i]
      /\ e[4] = q.flags[2]
  BY <1>1 DEF Opened, Takes, EncodedAs, Heads
<1>3. q.flags[2] = 0
  BY DEF Usual
<1> HIDE DEF e
<1>4. \A i \in 1..size : pad[i] = d[i]
  <2>1. size <= DNS_MAX_LEN
    BY <1>1, <1>2, BufferAssumption DEF ANSWER
  <2>2. QED
    BY <1>2, <2>1, Padded
<1> HIDE DEF pad
<1>5. pad[4] = 0
  <2>1. 4 \in 1..size
    BY <1>2 DEF HEADER
  <2>2. QED
    BY <1>2, <1>3, <1>4, <2>1
<1>6. ~NotStandard(pad)
  <2>1. At(pad, 3) = 0
    BY <1>5 DEF At
  <2>2. QED
    BY <2>1 DEF NotStandard
<1>7. ReplyLen(d) = size + ANSWER
  BY <1>1, <1>2 DEF ReplyLen, ANSWER
<1>8. size + ANSWER \in 1..DNS_MAX_LEN
  BY <1>1, <1>2, BufferAssumption DEF ANSWER
<1>9. QED
  BY <1>1, <1>6, <1>7, <1>8 DEF pad

(* The turn of the loop finds its type and class.                          *)
LEMMA UsualFound ==
  ASSUME NEW q \in Queries, Usual(q), NEW d, d = Taken(Encode(q))
  PROVE  LET end == parse_dns_name(Started(d), HEADER)
         IN end # -1 /\ Word(Started(d), end) = 1 /\ Word(Started(d), end + 2) = 1
<1> DEFINE name == q.questions[1].name
           e == Encode(q)
           b == Started(d)
           end == parse_dns_name(b, HEADER)
<1>1. PICK size, n, off :
        /\ Opened(d, b, q, 1, e, size, size)
        /\ n # 0 /\ NameIs(name, n)
        /\ Carries(e, size, HEADER, name, n, QD_TYPE_A, off) /\ size = HEADER + off[n] + 5
  BY UsualOpening
<1> HIDE DEF name, e, b
<1>2. Buffered(b, e, size) /\ size \in Nat /\ size <= RX_SIZE
  BY <1>1 DEF Opened
<1>3. off[n] \in Nat
  <2>1. LabelEnds(off, name, n)
    BY <1>1 DEF Carries
  <2>2. QED
    BY <1>1, <2>1, EndsAt
<1>4. size >= HEADER + 5 /\ size <= size
  BY <1>1, <1>2, <1>3 DEF HEADER
<1>5. Found(end, size, off, n)
  BY <1>1, <1>2, <1>4, NameFound
<1> HIDE DEF end
<1> DEFINE last == HEADER + off[n] + 1
<1>6. end = last
  BY <1>1, <1>2, <1>5 DEF Found
<1>7. last \in Nat /\ HEADER < last /\ last + 4 = size /\ last + 2 \in Nat /\ NAME_SIZE \in Nat
  BY <1>1, <1>2, <1>3, BufferAssumption DEF HEADER
<1>8. /\ e[last + 1] = 0 /\ e[last + 2] = 1 /\ e[last + 3] = 0 /\ e[last + 4] = 1
  <2>1. /\ last + 1 = HEADER + off[n] + 2 /\ last + 2 = HEADER + off[n] + 3
        /\ last + 3 = HEADER + off[n] + 4 /\ last + 4 = HEADER + off[n] + 5
    BY <1>3 DEF HEADER
  <2>2. 1 \div 256 = 0 /\ 1 % 256 = 1
    OBVIOUS
  <2>3. QED
    BY <1>1, <2>1, <2>2 DEF Carries, QD_TYPE_A
<1> HIDE DEF last
<1>9. ASSUME NEW i \in (last + 1)..(last + 4) PROVE b[i] = e[i]
  <2>1. i \in Nat /\ HEADER < i /\ i <= HEADER + NAME_SIZE + 5 /\ i <= size
    BY <1>2, <1>7, BufferAssumption DEF HEADER
  <2>2. QED
    BY <1>2, <2>1, TypeByte
<1>10. b[last + 1] = 0 /\ b[last + 2] = 1 /\ b[last + 2 + 1] = 0 /\ b[last + 2 + 2] = 1
  <2>1. /\ last + 1 \in (last + 1)..(last + 4) /\ last + 2 \in (last + 1)..(last + 4)
        /\ last + 3 \in (last + 1)..(last + 4) /\ last + 4 \in (last + 1)..(last + 4)
        /\ last + 2 + 1 = last + 3 /\ last + 2 + 2 = last + 4
    BY <1>7
  <2>2. QED
    BY <1>8, <1>9, <2>1
<1>11. Word(b, last) = 256 * 0 + 1 /\ Word(b, last + 2) = 256 * 0 + 1
  BY <1>7, <1>10, WordAt
<1>12. QED
  BY <1>6, <1>7, <1>11 DEF end, b

(* The name of the first question lies behind the header.                  *)
LEMMA FirstOffset ==
  ASSUME NEW q \in Queries
  PROVE  Offset(q, 1) = HEADER
<1> DEFINE none == [q EXCEPT !.questions = SubSeq(@, 1, 1 - 1)]
<1>1. q \in Query
  BY TrafficAssumption
<1>2. q.questions \in Seq(Asked) /\ q.flags \in Flags
  BY <1>1 DEF Query
<1>3. SubSeq(q.questions, 1, 1 - 1) = <<>>
  BY <1>2, EmptySeq, SubSeqProperties
<1>4. none \in Query /\ none.questions = <<>>
  <2>1. <<>> \in Seq(Asked)
    OBVIOUS
  <2>2. none = [q EXCEPT !.questions = <<>>]
    BY <1>3
  <2>3. QED
    BY <1>1, <2>1, <2>2 DEF Query
<1>5. Len(none.questions) = 0
  BY <1>4
<1>6. Offset(q, 1) = Len(Encode(none))
  BY DEF Offset
<1> HIDE DEF none
<1>7. PICK size : EncodedAs(Encode(none), size, none, 0)
  BY <1>4, <1>5, Encoding
<1>8. Octets(Encode(none), HEADER)
  BY <1>7 DEF EncodedAs, Heads
<1>9. QED
  BY <1>6, <1>8, OctetLen

(* The answers of the reply that is documented for one question.           *)
LEMMA OneAnswer ==
  ASSUME NEW q \in Queries, Usual(q), NEW ip
  PROVE  /\ Cardinality(Asking(q)) = 1
         /\ FlattenSeq([n \in 1..Len(q.questions) |->
                          IF n \in Asking(q) THEN AnswerTo(q, n, ip) ELSE <<>>])
              = AnswerBytes(QD_TYPE_A, 1, ip)
<1> DEFINE seqs == [n \in 1..Len(q.questions) |->
                      IF n \in Asking(q) THEN AnswerTo(q, n, ip) ELSE <<>>]
<1>1. Len(q.questions) = 1 /\ Asking(q) = {1}
  BY DEF Usual, Asking
<1>2. Cardinality(Asking(q)) = 1
  BY <1>1, FS_Singleton
<1>3. seqs[1] = AnswerTo(q, 1, ip) /\ Len(seqs) = 1
  BY <1>1
<1>4. AnswerTo(q, 1, ip) = AnswerBytes(QD_TYPE_A, 1, ip)
  BY FirstOffset DEF AnswerTo, AnswerBytes
<1> HIDE DEF seqs
<1>5. PICK f : Flattens(f, seqs, 1) /\ FlattenSeq(seqs) = f[1]
  <2> DEFINE k == 1
  <2>1. k \in Nat /\ k # 0 /\ Len(seqs) = k
    BY <1>3
  <2> HIDE DEF k
  <2>2. \E f : Flattens(f, seqs, k) /\ FlattenSeq(seqs) = f[k]
    BY <2>1, FlattenTable
  <2>3. QED
    BY <2>2 DEF k
<1>6. f[1] = seqs[1]
  BY <1>5 DEF Flattens
<1>7. FlattenSeq(seqs) = AnswerBytes(QD_TYPE_A, 1, ip)
  BY <1>3, <1>4, <1>5, <1>6
<1>8. QED
  BY <1>2, <1>7 DEF seqs

(* The reply to e, with one answer a.                                      *)
Replies(w, e, size, a) ==
  /\ Octets(w, size + ANSWER)
  /\ \A i \in 1..size : w[i] = CASE i = 3 -> e[3] + 128
                                 [] i = 7 -> 0
                                 [] i = 8 -> 1
                                 [] OTHER -> e[i]
  /\ \A i \in 1..ANSWER : w[size + i] = a[i]

(* There is only one such reply.                                           *)
LEMMA RepliesEqual ==
  ASSUME NEW v, NEW w, NEW e, NEW size \in Nat, NEW a,
         Replies(v, e, size, a), Replies(w, e, size, a)
  PROVE  v = w
<1>1. ASSUME NEW i \in 1..(size + ANSWER) PROVE v[i] = w[i]
  <2>1. CASE i <= size
    BY <2>1 DEF Replies
  <2>2. CASE i > size
    <3>1. i - size \in 1..ANSWER /\ size + (i - size) = i
      BY <2>2 DEF ANSWER
    <3>2. v[size + (i - size)] = a[i - size] /\ w[size + (i - size)] = a[i - size]
      BY <3>1 DEF Replies
    <3>3. QED
      BY <3>1, <3>2
  <2>3. QED
    BY <2>1, <2>2
<1>2. QED
  BY <1>1, OctetsEqual DEF Replies

(* It is the one that is documented, given its answers.                    *)
LEMMA DocumentedReplies ==
  ASSUME NEW e, NEW size, Octets(e, size), size >= HEADER, e[3] \in 0..127,
         NEW a, Octets(a, ANSWER)
  PROVE  Replies(SubSeq(e, 1, 2) \o <<e[3] + 128, e[4]>> \o SubSeq(e, 5, 6)
                   \o TwoBytes(1) \o SubSeq(e, 9, size) \o a, e, size, a)
<1> DEFINE x1 == SubSeq(e, 1, 2)
           x2 == <<e[3] + 128, e[4]>>
           x3 == SubSeq(e, 5, 6)
           x4 == TwoBytes(1)
           x5 == SubSeq(e, 9, size)
           y2 == x1 \o x2
           y3 == y2 \o x3
           y4 == y3 \o x4
           y5 == y4 \o x5
           w == y5 \o a
<1>1. size \in Nat /\ size >= 12
  BY OctetLen DEF HEADER
<1>2. Octets(x1, 2) /\ \A i \in 1..2 : x1[i] = e[i]
  <2>1. 1 \in 1..(size + 1) /\ 2 \in 0..size /\ 1 <= 2 + 1 /\ 2 + 1 - 1 = 2
    BY <1>1
  <2>2. Octets(x1, 2 + 1 - 1) /\ \A i \in 1..(2 + 1 - 1) : x1[i] = e[1 + i - 1]
    BY <2>1, Cut
  <2> HIDE DEF x1
  <2>3. QED
    BY <2>1, <2>2
<1>3. Octets(x2, 2) /\ x2[1] = e[3] + 128 /\ x2[2] = e[4]
  <2>1. e[4] \in 0..255
    <3>1. 4 \in 1..size
      BY <1>1
    <3>2. QED
      BY <3>1, OctetAt
  <2>2. e[3] + 128 \in Octet /\ e[4] \in Octet
    BY <2>1 DEF Octet
  <2>3. Octets(x2, 2)
    BY <2>2, TwoOctets
  <2>4. QED
    BY <2>3
<1>4. Octets(x3, 2) /\ x3[1] = e[5] /\ x3[2] = e[6]
  <2>1. 5 \in 1..(size + 1) /\ 6 \in 0..size /\ 5 <= 6 + 1 /\ 6 + 1 - 5 = 2
    BY <1>1
  <2>2. Octets(x3, 6 + 1 - 5) /\ \A i \in 1..(6 + 1 - 5) : x3[i] = e[5 + i - 1]
    BY <2>1, Cut
  <2> HIDE DEF x3
  <2>3. QED
    BY <2>1, <2>2
<1>5. Octets(x4, 2) /\ x4[1] = 0 /\ x4[2] = 1
  <2>1. Octets(x4, 2) /\ x4[1] = 1 \div 256 /\ x4[2] = 1 % 256
    BY WordOctets
  <2> HIDE DEF x4
  <2>2. QED
    BY <2>1
<1>6. Octets(x5, size - 8) /\ \A i \in 1..(size - 8) : x5[i] = e[8 + i]
  <2>1. 9 \in 1..(size + 1) /\ size \in 0..size /\ 9 <= size + 1 /\ size + 1 - 9 = size - 8
    BY <1>1
  <2>2. Octets(x5, size + 1 - 9) /\ \A i \in 1..(size + 1 - 9) : x5[i] = e[9 + i - 1]
    BY <2>1, Cut
  <2> HIDE DEF x5
  <2>3. \A i \in 1..(size - 8) : x5[i] = e[8 + i]
    <3> TAKE i \in 1..(size - 8)
    <3>1. 9 + i - 1 = 8 + i
      BY <1>1
    <3>2. QED
      BY <2>1, <2>2, <3>1
  <2>4. QED
    BY <2>1, <2>2, <2>3
<1> HIDE DEF x1, x2, x3, x4, x5
<1>7. Joins(y2, x1, 2, x2, 2)
  BY <1>2, <1>3, Joined
<1> HIDE DEF y2
<1>8. Joins(y3, y2, 4, x3, 2)
  <2>1. Octets(y2, 4)
    BY <1>7 DEF Joins
  <2>2. QED
    BY <1>4, <2>1, Joined
<1> HIDE DEF y3
<1>9. Joins(y4, y3, 6, x4, 2)
  <2>1. Octets(y3, 6)
    BY <1>8 DEF Joins
  <2>2. QED
    BY <1>5, <2>1, Joined
<1> HIDE DEF y4
<1>10. Joins(y5, y4, 8, x5, size - 8)
  <2>1. Octets(y4, 8)
    BY <1>9 DEF Joins
  <2>2. QED
    BY <1>6, <2>1, Joined
<1> HIDE DEF y5
<1>11. Octets(y5, size)
  <2>1. 8 + (size - 8) = size
    BY <1>1
  <2>2. QED
    BY <1>10, <2>1 DEF Joins
<1>12. Joins(w, y5, size, a, ANSWER)
  BY <1>11, Joined
<1> HIDE DEF w
<1>13. y2[1] = e[1] /\ y2[2] = e[2] /\ y2[3] = e[3] + 128 /\ y2[4] = e[4]
  <2>1. /\ \A i \in 1..2 : y2[i] = x1[i]
        /\ \A i \in 1..2 : y2[2 + i] = x2[i]
    BY <1>7 DEF Joins
  <2>2. y2[2 + 1] = x2[1] /\ y2[2 + 2] = x2[2]
    BY <2>1
  <2>3. QED
    BY <1>2, <1>3, <2>1, <2>2
<1>14. (\A i \in 1..4 : y3[i] = y2[i]) /\ y3[5] = e[5] /\ y3[6] = e[6]
  <2>1. /\ \A i \in 1..4 : y3[i] = y2[i]
        /\ \A i \in 1..2 : y3[4 + i] = x3[i]
    BY <1>8 DEF Joins
  <2>2. y3[4 + 1] = x3[1] /\ y3[4 + 2] = x3[2]
    BY <2>1
  <2>3. QED
    BY <1>4, <2>1, <2>2
<1>15. (\A i \in 1..6 : y4[i] = y3[i]) /\ y4[7] = 0 /\ y4[8] = 1
  <2>1. /\ \A i \in 1..6 : y4[i] = y3[i]
        /\ \A i \in 1..2 : y4[6 + i] = x4[i]
    BY <1>9 DEF Joins
  <2>2. y4[6 + 1] = x4[1] /\ y4[6 + 2] = x4[2]
    BY <2>1
  <2>3. QED
    BY <1>5, <2>1, <2>2
<1>16. \A i \in 1..8 : y4[i] = CASE i = 3 -> e[3] + 128 [] i = 7 -> 0 [] i = 8 -> 1
                                 [] OTHER -> e[i]
  <2>1. /\ y4[1] = e[1] /\ y4[2] = e[2] /\ y4[3] = e[3] + 128 /\ y4[4] = e[4]
        /\ y4[5] = e[5] /\ y4[6] = e[6]
    BY <1>13, <1>14, <1>15
  <2>2. \A i \in 1..8 : i = 1 \/ i = 2 \/ i = 3 \/ i = 4 \/ i = 5 \/ i = 6 \/ i = 7 \/ i = 8
    OBVIOUS
  <2>3. QED
    BY <1>15, <2>1, <2>2
<1>17. ASSUME NEW i \in 1..size
       PROVE  w[i] = CASE i = 3 -> e[3] + 128 [] i = 7 -> 0 [] i = 8 -> 1 [] OTHER -> e[i]
  <2>1. w[i] = y5[i]
    BY <1>12 DEF Joins
  <2>2. CASE i <= 8
    <3>1. i \in 1..8
      BY <1>1, <2>2
    <3>2. y5[i] = y4[i]
      BY <1>10, <3>1 DEF Joins
    <3>3. QED
      BY <1>16, <2>1, <3>1, <3>2
  <2>3. CASE i > 8
    <3>1. i - 8 \in 1..(size - 8) /\ 8 + (i - 8) = i /\ i # 3 /\ i # 7 /\ i # 8
      BY <1>1, <2>3
    <3>2. y5[8 + (i - 8)] = x5[i - 8]
      BY <1>10, <3>1 DEF Joins
    <3>3. w[i] = e[i]
      BY <1>6, <2>1, <3>1, <3>2
    <3>4. QED
      BY <3>1, <3>3
  <2>4. QED
    BY <1>1, <2>2, <2>3
<1>18. Replies(w, e, size, a)
  BY <1>12, <1>17 DEF Joins, Replies
<1>19. QED
  BY <1>18 DEF w, y5, y4, y3, y2, x1, x2, x3, x4, x5

(* It is the one that is sent, when one answer is put behind the datagram. *)
LEMMA SentReplies ==
  ASSUME NEW d, NEW size, StartedAs(d), Octets(d, size), size >= HEADER, d[3] \in 0..127,
         size + ANSWER <= DNS_MAX_LEN, QdCount(d) = 1, NEW a, Octets(a, ANSWER)
  PROVE  Replies(SubSeq(Put(Started(d), size, a), 1, size + ANSWER), d, size, a)
<1> DEFINE b == Started(d)
           w == Put(b, size, a)
           last == size + ANSWER
           s == SubSeq(w, 1, last)
           pad == Prepare(d)
<1>1. size \in Nat /\ size >= 12 /\ last \in Nat /\ last = size + 16 /\ DNS_MAX_LEN \in Nat
      /\ size <= DNS_MAX_LEN
  BY OctetLen, BufferAssumption DEF HEADER, ANSWER
<1>2. \A i \in 1..size : pad[i] = d[i]
  BY <1>1, Padded
<1>3. /\ Octets(b, DNS_MAX_LEN)
      /\ \A i \in 1..DNS_MAX_LEN :
           b[i] = CASE i = 3 -> (pad[3] % 128) + 128
                    [] i = 7 -> 1 \div 256
                    [] i = 8 -> 1 % 256
                    [] OTHER -> pad[i]
  BY DEF StartedAs
<1> HIDE DEF b, pad
<1>4. Puts(w, b, DNS_MAX_LEN, size, a, ANSWER)
  BY <1>1, <1>3, PutKeeps
<1> HIDE DEF w
<1>5. Octets(s, last) /\ \A i \in 1..last : s[i] = w[i]
  <2>1. Octets(w, DNS_MAX_LEN)
    BY <1>4 DEF Puts
  <2>2. 1 \in 1..(DNS_MAX_LEN + 1) /\ last \in 0..DNS_MAX_LEN /\ 1 <= last + 1
        /\ last + 1 - 1 = last
    BY <1>1
  <2> HIDE DEF last
  <2>3. Octets(s, last + 1 - 1) /\ \A i \in 1..(last + 1 - 1) : s[i] = w[1 + i - 1]
    BY <2>1, <2>2, Cut
  <2> HIDE DEF s
  <2>4. \A i \in 1..last : 1 + i - 1 = i
    BY <1>1
  <2>5. QED
    BY <2>2, <2>3, <2>4
<1> HIDE DEF s
<1>6. ASSUME NEW i \in 1..size
      PROVE  s[i] = CASE i = 3 -> d[3] + 128 [] i = 7 -> 0 [] i = 8 -> 1 [] OTHER -> d[i]
  <2>1. /\ i \in 1..last /\ i \in 1..DNS_MAX_LEN
        /\ i \notin (size + 1)..(size + ANSWER) /\ 3 \in 1..size
    BY <1>1
  <2>2. s[i] = b[i]
    BY <1>4, <1>5, <2>1 DEF Puts
  <2>3. pad[3] = d[3] /\ pad[i] = d[i]
    BY <1>2, <2>1
  <2>4. (d[3] % 128) + 128 = d[3] + 128 /\ 1 \div 256 = 0 /\ 1 % 256 = 1
    OBVIOUS
  <2>5. QED
    BY <1>3, <2>1, <2>2, <2>3, <2>4
<1>7. ASSUME NEW i \in 1..ANSWER PROVE s[size + i] = a[i]
  <2>1. /\ size + i \in 1..last /\ size + i \in 1..DNS_MAX_LEN
        /\ size + i \in (size + 1)..(size + ANSWER) /\ (size + i) - size = i
    BY <1>1 DEF ANSWER
  <2>2. s[size + i] = w[size + i]
    BY <1>5, <2>1
  <2>3. w[size + i] = a[(size + i) - size]
    BY <1>4, <2>1 DEF Puts
  <2>4. QED
    BY <2>1, <2>2, <2>3
<1>8. Replies(s, d, size, a)
  BY <1>5, <1>6, <1>7 DEF Replies
<1>9. QED
  BY <1>8 DEF s, w, b

(* What is sent for a usual query is what is documented.                   *)
LEMMA UsualReply ==
  ASSUME NEW q \in Queries, Usual(q), NEW d, d = Taken(Encode(q)), NEW ip \in Ips
  PROVE  SubSeq(Put(Started(d), Len(d), AnswerBytes(QD_TYPE_A, 1, ip)), 1, ReplyLen(d))
           = Documented(q, ip)
<1> DEFINE a == AnswerBytes(QD_TYPE_A, 1, ip)
           e == Encode(q)
<1>1. PICK size : /\ d = e /\ Opened(d, Started(d), q, 1, e, size, size)
                  /\ QdCount(d) = 1 /\ Len(d) = size /\ size + ANSWER <= DNS_MAX_LEN
  BY UsualOpening
<1> HIDE DEF e
<1>2. StartedAs(d) /\ Octets(d, size) /\ size \in Nat /\ size >= HEADER /\ d[3] = q.flags[1]
  BY <1>1 DEF Opened, EncodedAs, Heads, Takes
<1>3. d[3] \in 0..127
  <2>1. q \in Query
    BY TrafficAssumption
  <2>2. q.flags \in Flags
    BY <2>1 DEF Query
  <2>3. q.flags[1] \in 0..127
    BY <2>2 DEF Flags
  <2>4. QED
    BY <1>2, <2>3
<1>4. Octets(a, ANSWER)
  <2>1. Octets(ip, 4)
    BY TrafficAssumption DEF Ips, Octets
  <2>2. 1 \in Nat /\ 1 < 65536 /\ QD_TYPE_A \in Nat /\ QD_TYPE_A < 65536
    BY DEF QD_TYPE_A
  <2>3. QED
    BY <2>1, <2>2, Answering
<1>5. Replies(SubSeq(Put(Started(d), size, a), 1, size + ANSWER), d, size, a)
  <2> HIDE DEF a
  <2>1. QED
    BY <1>1, <1>2, <1>3, <1>4, SentReplies
<1>6. Documented(q, ip) = SubSeq(d, 1, 2) \o <<d[3] + 128, d[4]>> \o SubSeq(d, 5, 6)
                            \o TwoBytes(1) \o SubSeq(d, 9, size) \o a
  BY <1>1, OneAnswer DEF Documented, e
<1>7. Replies(Documented(q, ip), d, size, a)
  <2> HIDE DEF a
  <2>1. QED
    BY <1>2, <1>3, <1>4, <1>6, DocumentedReplies
<1>8. ReplyLen(d) = size + ANSWER
  BY <1>1, UsualNotRefused
<1>9. QED
  <2> HIDE DEF a
  <2>1. SubSeq(Put(Started(d), size, a), 1, size + ANSWER) = Documented(q, ip)
    BY <1>2, <1>5, <1>7, RepliesEqual
  <2>2. QED
    BY <1>1, <1>8, <2>1 DEF a

(* What is left in the buffers of a query that arrived.                    *)
Contents ==
  /\ task \in {"open", "bind", "ended"} => query = NoQuery
  /\ query # NoQuery => datagram = Taken(Encode(query))
  /\ task \in {"handle", "reply"} => reply = NoReply
(* The reply to a query that asks for no address, in the making and sent.  *)
NothingUnasked ==
  query # NoQuery /\ AsksNothing(query) =>
    /\ task = "reply" => dns_reply = Started(datagram)
    /\ task = "recv" => \A o \in (Len(datagram) + 1)..Len(reply) : reply[o] = 0
(* The reply to a usual query, before and after its one turn and sent.     *)
UsualUnderWay ==
  query # NoQuery /\ Usual(query) =>
    /\ task = "reply" =>
         \/ turns = 1 /\ dns_reply = Started(datagram)
         \/ /\ turns = 0
            /\ \E ip \in Ips : dns_reply = Put(Started(datagram), Len(datagram),
                                               AnswerBytes(QD_TYPE_A, 1, ip))
    /\ task = "recv" => \E ip \in Ips : reply = Documented(query, ip)

DnsInv == Typed /\ Contents /\ NothingUnasked /\ UsualUnderWay

-----------------------------------------------------------------------------
(* The inductive invariant.                                                *)

(* All of it holds at first.                                               *)
LEMMA InitContents == Init => Contents /\ NothingUnasked /\ UsualUnderWay
BY DEF Init, Contents, NothingUnasked, UsualUnderWay

(* The buffers hold what was received last.                                *)
LEMMA NextContents == Contents /\ Typed /\ [Next]_vars => Contents'
<1> SUFFICES ASSUME Contents, Typed, [Next]_vars PROVE Contents'
  OBVIOUS
<1> USE DEF Contents
<1>1. CASE OpenSocket
  BY <1>1 DEF OpenSocket, rxVars
<1>2. CASE Bind
  BY <1>2 DEF Bind, AfterBind, rxVars
<1>3. CASE StartReply
  <2>1. /\ task = "handle" /\ task' \in {"recv", "reply"}
        /\ UNCHANGED <<query, datagram, reply>>
    BY <1>3 DEF StartReply, rxVars
  <2>2. QED
    BY <2>1
<1>4. CASE Respond
  <2>1. /\ task = "reply" /\ task' \in {"recv", "reply"}
        /\ UNCHANGED <<query, datagram, reply>>
    BY <1>4 DEF Respond, rxVars
  <2>2. QED
    BY <2>1
<1>5. CASE Send
  BY <1>5 DEF Send, rxVars
<1>6. CASE Cleanup
  BY <1>6 DEF Cleanup
<1>7. CASE RecvError
  BY <1>7 DEF RecvError, rxVars
<1>8. CASE OtherOpens
  BY <1>8 DEF OtherOpens, rxVars
<1>9. ASSUME NEW q \in Queries, Receive(q, Encode(q)) PROVE Contents'
  BY <1>9 DEF Receive, Taken
<1>10. ASSUME NEW bytes \in Junk, Receive(NoQuery, bytes) PROVE Contents'
  BY <1>10 DEF Receive
<1>11. CASE UNCHANGED vars
  BY <1>11 DEF vars, rxVars
<1>12. QED
  BY <1>1, <1>2, <1>3, <1>4, <1>5, <1>6, <1>7, <1>8, <1>9, <1>10, <1>11 DEF Next, DnsTask

(* Neither part below speaks of a query that was just received, or of one  *)
(* that was given up.                                                      *)
LEMMA Elsewhere ==
  ASSUME [Next]_vars, Contents,
         task' \notin {"reply", "recv"} \/ query' = NoQuery \/ UNCHANGED vars
  PROVE  /\ NothingUnasked => NothingUnasked'
         /\ UsualUnderWay => UsualUnderWay'
<1>1. CASE task' \notin {"reply", "recv"} \/ query' = NoQuery
  BY <1>1 DEF NothingUnasked, UsualUnderWay
<1>2. CASE UNCHANGED vars
  BY <1>2 DEF vars, sockVars, rxVars, replyVars, NothingUnasked, UsualUnderWay, Ips
<1>3. QED
  BY <1>1, <1>2

(* The steps that leave the reply of a query in question.                  *)
LEMMA StepsThatMatter ==
  ASSUME [Next]_vars, Contents
  PROVE  \/ StartReply \/ Respond \/ Send
         \/ task' \notin {"reply", "recv"} \/ query' = NoQuery \/ UNCHANGED vars
<1>1. CASE OpenSocket
  BY <1>1 DEF OpenSocket
<1>2. CASE Bind
  BY <1>2 DEF Bind, AfterBind, rxVars, Contents
<1>3. CASE StartReply \/ Respond \/ Send \/ UNCHANGED vars
  BY <1>3
<1>4. CASE Cleanup
  BY <1>4 DEF Cleanup
<1>5. CASE RecvError
  BY <1>5 DEF RecvError
<1>6. CASE OtherOpens
  BY <1>6 DEF OtherOpens
<1>7. CASE \/ \E q \in Queries : Receive(q, Encode(q))
           \/ \E bytes \in Junk : Receive(NoQuery, bytes)
  BY <1>7 DEF Receive
<1>8. QED
  BY <1>1, <1>2, <1>3, <1>4, <1>5, <1>6, <1>7 DEF Next, DnsTask

(* A reply that is sent as it was started holds nothing behind the         *)
(* datagram.                                                               *)
LEMMA BlankReply ==
  ASSUME Typed, Contents, task = "reply", query # NoQuery, dns_reply = Started(datagram),
         reply' = SubSeq(dns_reply, 1, ReplyLen(datagram))
  PROVE  \A o \in (Len(datagram) + 1)..Len(reply') : reply'[o] = 0
<1> DEFINE d == datagram
           b == Started(d)
           last == ReplyLen(d)
           s == SubSeq(b, 1, last)
           m == Len(query.questions)
           e == Encode(query)
<1>1. query \in Queries /\ d = Taken(e)
  BY DEF Typed, Contents
<1>2. PICK size, r : Opened(d, b, query, m, e, size, r)
  BY <1>1, Opening
<1>3. last \in 1..DNS_MAX_LEN
  BY DEF Typed
<1> HIDE DEF b, e, last, m
<1>4. /\ Buffered(b, e, r) /\ Octets(d, r) /\ Octets(b, DNS_MAX_LEN) /\ r \in Nat
  BY <1>2 DEF Opened, Takes, Buffered
<1>5. Len(d) = r /\ DNS_MAX_LEN \in Nat
  BY <1>4, OctetLen, BufferAssumption
<1>6. Octets(s, last + 1 - 1) /\ \A i \in 1..(last + 1 - 1) : s[i] = b[1 + i - 1]
  <2>1. 1 \in 1..(DNS_MAX_LEN + 1) /\ last \in 0..DNS_MAX_LEN /\ 1 <= last + 1
    BY <1>3, <1>5
  <2>2. QED
    BY <1>4, <2>1, Cut
<1>7. reply' = s
  BY DEF b, last
<1> HIDE DEF s, d
<1>8. Len(s) = last
  <2>1. last + 1 - 1 = last
    BY <1>3
  <2>2. QED
    BY <1>6, <2>1, OctetLen
<1>9. ASSUME NEW o \in (r + 1)..last PROVE s[o] = 0
  <2>1. o \in 1..(last + 1 - 1) /\ 1 + o - 1 = o /\ o \in (r + 1)..DNS_MAX_LEN
    BY <1>3, <1>4, <1>5
  <2>2. s[o] = b[o]
    BY <1>6, <2>1
  <2>3. QED
    BY <1>4, <2>1, <2>2 DEF Buffered
<1>10. QED
  BY <1>5, <1>7, <1>8, <1>9 DEF d

(* No step puts an answer to a query that asks for no address.             *)
LEMMA NextNothingUnasked ==
  Typed /\ Contents /\ NothingUnasked /\ [Next]_vars => NothingUnasked'
<1> SUFFICES ASSUME Typed, Contents, NothingUnasked, [Next]_vars PROVE NothingUnasked'
  OBVIOUS
<1>1. CASE task' \notin {"reply", "recv"} \/ query' = NoQuery \/ UNCHANGED vars
  BY <1>1, Elsewhere
<1>2. CASE StartReply
  <2>1. /\ task = "handle" /\ UNCHANGED <<query, datagram, reply>>
        /\ \/ task' = "recv"
           \/ task' = "reply" /\ dns_reply' = Started(datagram)
    BY <1>2 DEF StartReply, rxVars, Started
  <2>2. reply = NoReply /\ Len(NoReply) = 0
    BY <2>1 DEF Contents, NoReply
  <2>3. Len(datagram) \in Nat
    BY OctetLen DEF Typed
  <2>4. QED
    BY <2>1, <2>2, <2>3 DEF NothingUnasked
<1>3. CASE Respond
  <2> DEFINE end == parse_dns_name(dns_reply, HEADER)
  <2>1. task = "reply" /\ turns > 0 /\ UNCHANGED <<query, datagram, reply>>
    BY <1>3 DEF Respond, rxVars
  <2>2. reply = NoReply /\ Len(NoReply) = 0
    BY <2>1 DEF Contents, NoReply
  <2>3. Len(datagram) \in Nat
    BY OctetLen DEF Typed
  <2>4. CASE end = -1
    <3>1. task' = "recv"
      BY <1>3, <2>4 DEF Respond
    <3>2. QED
      BY <2>1, <2>2, <2>3, <3>1 DEF NothingUnasked
  <2>5. CASE end # -1
    <3>1. task' = "reply" /\ (Word(dns_reply, end) # QD_TYPE_A => dns_reply' = dns_reply)
      BY <1>3, <2>1, <2>5 DEF Respond, Answered
    <3> SUFFICES ASSUME query # NoQuery, AsksNothing(query)
                 PROVE  dns_reply' = Started(datagram)
      BY <2>1, <3>1 DEF NothingUnasked
    <3>2. query \in Queries /\ datagram = Taken(Encode(query))
      BY DEF Typed, Contents
    <3>3. dns_reply = Started(datagram)
      BY <2>1 DEF NothingUnasked
    <3>4. Len(query.questions) # 0
      <4>1. turns \in Nat /\ turns <= QdCount(datagram)
        BY <2>1 DEF Typed
      <4>2. QdCount(datagram) = Len(query.questions)
        BY <3>2, Opening DEF Opened
      <4>3. QdCount(datagram) \in Nat
        BY Starting DEF Typed
      <4>4. QED
        BY <2>1, <4>1, <4>2, <4>3
    <3>5. Word(dns_reply, end) # QD_TYPE_A
      BY <2>5, <3>2, <3>3, <3>4, NotAsked
    <3>6. QED
      BY <3>1, <3>3, <3>5
  <2>6. QED
    BY <2>4, <2>5
<1>4. CASE Send
  <2>1. /\ task = "reply" /\ UNCHANGED <<query, datagram>>
        /\ \/ task' = "recv" /\ reply' = SubSeq(dns_reply, 1, ReplyLen(datagram))
           \/ task' = "cleanup"
    BY <1>4 DEF Send, rxVars
  <2>2. SUFFICES ASSUME query # NoQuery, AsksNothing(query),
                        reply' = SubSeq(dns_reply, 1, ReplyLen(datagram))
                 PROVE  \A o \in (Len(datagram) + 1)..Len(reply') : reply'[o] = 0
    BY <2>1 DEF NothingUnasked
  <2>3. dns_reply = Started(datagram)
    BY <2>1, <2>2 DEF NothingUnasked
  <2>4. QED
    BY <2>1, <2>2, <2>3, BlankReply
<1>5. QED
  BY <1>1, <1>2, <1>3, <1>4, StepsThatMatter

(* Every step takes a usual query closer to the documented reply.          *)
LEMMA NextUsualUnderWay ==
  Typed /\ Contents /\ UsualUnderWay /\ [Next]_vars => UsualUnderWay'
<1> SUFFICES ASSUME Typed, Contents, UsualUnderWay, [Next]_vars PROVE UsualUnderWay'
  OBVIOUS
<1>1. CASE task' \notin {"reply", "recv"} \/ query' = NoQuery \/ UNCHANGED vars
  BY <1>1, Elsewhere
<1>2. ASSUME StartReply \/ Respond \/ Send PROVE UsualUnderWay'
  <2>1. UNCHANGED <<query, datagram, softap>> /\ Ips' = Ips
    BY <1>2 DEF StartReply, Respond, Send, rxVars, Ips
  <2> SUFFICES ASSUME query # NoQuery, Usual(query)
               PROVE  UsualUnderWay'
    BY <2>1 DEF UsualUnderWay
  <2> DEFINE b == Started(datagram)
             Answer(ip) == Put(b, Len(datagram), AnswerBytes(QD_TYPE_A, 1, ip))
  <2>2. query \in Queries /\ datagram = Taken(Encode(query))
    BY DEF Typed, Contents
  <2>3. ~Refused /\ QdCount(datagram) = 1
    BY <2>2, UsualOpening, UsualNotRefused DEF Refused
  <2>4. CASE StartReply
    <3>1. task' = "reply" /\ turns' = 1 /\ dns_reply' = b
      BY <2>3, <2>4 DEF StartReply, Started
    <3>2. QED
      BY <2>1, <3>1 DEF UsualUnderWay
  <2>5. CASE Respond
    <3>1. task = "reply" /\ turns > 0 /\ turns = 1 /\ dns_reply = b
      BY <2>5 DEF Respond, UsualUnderWay
    <3> DEFINE end == parse_dns_name(b, HEADER)
    <3>2. end # -1 /\ Word(b, end) = 1 /\ Word(b, end + 2) = 1
      BY <2>2, UsualFound
    <3>3. /\ task' = "reply" /\ turns' = 0
          /\ \E ip \in Ips : dns_reply' = Answer(ip)
      BY <2>5, <3>1, <3>2 DEF Respond, Answered, QD_TYPE_A
    <3>4. QED
      BY <2>1, <3>3 DEF UsualUnderWay
  <2>6. CASE Send
    <3>1. task = "reply" /\ turns = 0
      BY <2>6 DEF Send
    <3>2. PICK ip \in Ips : dns_reply = Answer(ip)
      BY <3>1 DEF UsualUnderWay
    <3>3. \/ task' = "recv" /\ reply' = SubSeq(dns_reply, 1, ReplyLen(datagram))
          \/ task' = "cleanup"
      BY <2>6 DEF Send
    <3>4. SubSeq(Answer(ip), 1, ReplyLen(datagram)) = Documented(query, ip)
      BY <2>2, UsualReply
    <3>5. task' = "recv" => reply' = Documented(query, ip)
      BY <3>2, <3>3, <3>4
    <3>6. QED
      BY <2>1, <3>3, <3>5 DEF UsualUnderWay
  <2>7. QED
    BY <1>2, <2>4, <2>5, <2>6
<1>3. QED
  BY <1>1, <1>2, StepsThatMatter

(* The invariant holds throughout.                                         *)
LEMMA DnsInvariance == Spec => []DnsInv
<1>1. Init => DnsInv
  BY InitTyped, InitContents DEF DnsInv
<1>2. DnsInv /\ [Next]_vars => DnsInv'
  BY NextTyped, NextContents, NextNothingUnasked, NextUsualUnderWay DEF DnsInv
<1>3. QED
  BY <1>1, <1>2, PTL DEF Spec

(* Whatever arrives and fails: a query that asks for no address gets a     *)
(* reply with nothing behind its own bytes, however many questions it has  *)
(* and wherever the receive buffer cuts it.                                *)
THEOREM NoAddressForOthers == Spec => []NoAddressUnasked
<1>1. DnsInv => NoAddressUnasked
  BY DEF DnsInv, NothingUnasked, NoAddressUnasked, AsksNothing, Handled
<1>2. QED
  BY <1>1, DnsInvariance, PTL

(* Whatever arrives and fails: a standard query of one question for an     *)
(* address that is received whole gets, byte for byte, the documented      *)
(* reply.                                                                  *)
THEOREM UsualQueriesAnswered == Spec => []UsualQueryAnswered
<1>1. DnsInv => UsualQueryAnswered
  BY DEF DnsInv, UsualUnderWay, UsualQueryAnswered, Handled
<1>2. QED
  BY <1>1, DnsInvariance, PTL

-----------------------------------------------------------------------------
(* The socket.                                                             *)

(* While the task uses its descriptor the socket is its own; it cleans up  *)
(* behind a descriptor that is not only after recvfrom failed.             *)
SocketOwned ==
  /\ task \in {"bind", "recv", "handle", "reply"} => owner = "dns"
  /\ task \in {"open", "ended"} => owner = "nobody"
  /\ task = "cleanup" /\ owner # "dns" => recvFail

(* It holds at first, and is kept by every step.                           *)
LEMMA InitSocketOwned == Init => SocketOwned
BY DEF Init, SocketOwned

LEMMA NextSocketOwned == SocketOwned /\ [Next]_vars => SocketOwned'
<1> SUFFICES ASSUME SocketOwned, [Next]_vars PROVE SocketOwned'
  OBVIOUS
<1> USE DEF SocketOwned
<1>1. CASE OpenSocket
  BY <1>1 DEF OpenSocket
<1>2. CASE Bind
  BY <1>2 DEF Bind, AfterBind
<1>3. CASE StartReply
  BY <1>3 DEF StartReply, sockVars
<1>4. CASE Respond
  <2>1. task' \in {"recv", "reply"} /\ UNCHANGED owner /\ task = "reply"
    BY <1>4 DEF Respond, sockVars
  <2>2. QED
    BY <2>1
<1>5. CASE Send
  BY <1>5 DEF Send, SendError
<1>6. CASE Cleanup
  BY <1>6 DEF Cleanup
<1>7. CASE RecvError
  BY <1>7 DEF RecvError
<1>8. CASE OtherOpens
  BY <1>8 DEF OtherOpens
<1>9. CASE \E q \in Queries : Receive(q, Encode(q))
  BY <1>9 DEF Receive, sockVars
<1>10. CASE \E bytes \in Junk : Receive(NoQuery, bytes)
  BY <1>10 DEF Receive, sockVars
<1>11. CASE UNCHANGED vars
  BY <1>11 DEF vars, sockVars
<1>12. QED
  BY <1>1, <1>2, <1>3, <1>4, <1>5, <1>6, <1>7, <1>8, <1>9, <1>10, <1>11
     DEF Next, DnsTask

(* Whatever dns_server_task receives and whichever of its calls fail, it   *)
(* can close a socket of another task only after recvfrom has failed on    *)
(* the one it opened last: the other ways to its last close leave it that. *)
THEOREM ForeignCloseAfterRecvError == Spec => ForeignCloseNeedsRecvError
<1>1. SocketOwned /\ [Next]_vars => [owner = "other" /\ owner' = "nobody" => recvFail]_vars
  <2> SUFFICES ASSUME SocketOwned, Next, owner = "other" PROVE recvFail
    OBVIOUS
  <2>1. task = "cleanup" \/ task \notin {"open", "bind", "recv", "handle", "reply"}
    BY DEF SocketOwned
  <2>2. CASE task = "cleanup"
    BY <2>2 DEF SocketOwned
  <2>3. CASE task \notin {"open", "bind", "recv", "handle", "reply", "cleanup"}
    BY <2>3 DEF Next, DnsTask, OpenSocket, Bind, StartReply, Respond, Send, Cleanup,
       RecvError, OtherOpens, Receive
  <2>4. QED
    BY <2>1, <2>2, <2>3
<1>2. QED
  BY <1>1, InitSocketOwned, NextSocketOwned, PTL DEF Spec, ForeignCloseNeedsRecvError
=============================================================================
