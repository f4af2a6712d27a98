-------------------------- MODULE HuffmanTree_proofs --------------------------
(***************************************************************************)
(* Proofs about the tree construction of huffman_compress.  IInv is        *)
(* inductive: Forest alone is not, since a leaf could be linked in twice   *)
(* were it not for the accounting of the leaves, and the accounting needs  *)
(* Forest to know that a merge takes two different nodes off the queue.    *)
(* The recursive walks of encoder and decoder (tree_size, serialize_tree,  *)
(* encoding_below, deserialize_tree) are then shown to compute what their  *)
(* definitions say, and related to words, the codes of the letters.        *)
(***************************************************************************)
EXTENDS HuffmanCodec, FiniteSetTheorems, TLAPS

-----------------------------------------------------------------------------
(* Induction and recursion over the nodes, a child being older than its    *)
(* parent.  The induction theorems of the library take an operator, which  *)
(* the provers cannot instantiate; here the property is a set.             *)

\* A non-empty set of naturals has a least element.
LEMMA LeastElement ==
  ASSUME NEW S, S \subseteq Nat, S # {}
  PROVE  \E x \in S : \A y \in S : x <= y
<1>. DEFINE R == {ss \in Nat \X Nat : ss[1] < ss[2]}
<1>1. OpToRel(<, Nat) = R
  BY Zenon DEF OpToRel
<1>2. \A x, y \in Nat : <<y, x>> \notin R => x <= y
  OBVIOUS
<1>. HIDE DEF R
<1>3. PICK x \in S : \A y \in S : <<y, x>> \notin R
  BY Zenon, <1>1, WFMin, NatLessThanWellFounded
<1>. QED
  BY Zenon, <1>2, <1>3

\* Induction from the leaves up: what holds of a number whenever it holds of all
\* smaller ones holds of all.
LEMMA Upwards ==
  ASSUME NEW t \in Nat, NEW S, \A n \in 0..t : (\A k \in 0..n - 1 : k \in S) => n \in S
  PROVE  \A n \in 0..t : n \in S
<1>. DEFINE Bad == {n \in 0..t : n \notin S}
<1>1. SUFFICES ASSUME Bad # {} PROVE FALSE
  OBVIOUS
<1>2. Bad \subseteq Nat
  OBVIOUS
<1>3. PICK x \in Bad : \A y \in Bad : x <= y
  <2>. HIDE DEF Bad
  <2>. QED
    BY <1>1, <1>2, LeastElement, Zenon
<1>4. \A k \in 0..x - 1 : k \in S
  <2>. SUFFICES ASSUME NEW k \in 0..x - 1, k \notin S PROVE FALSE
    OBVIOUS
  <2>1. k \in Bad /\ ~ (x <= k)
    OBVIOUS
  <2>. QED
    BY <2>1, <1>3
<1>. QED
  BY <1>4

\* The same from the root down.
LEMMA Downwards ==
  ASSUME NEW a \in Nat, NEW t \in Nat, NEW S,
         \A n \in a..t : (\A k \in n + 1..t : k \in S) => n \in S
  PROVE  \A n \in a..t : n \in S
<1>. DEFINE U == {k \in 0..t : t - k \in a..t => t - k \in S}
<1>1. ASSUME NEW n \in 0..t, \A k \in 0..n - 1 : k \in U PROVE n \in U
  <2>. SUFFICES ASSUME t - n \in a..t PROVE t - n \in S
    OBVIOUS
  <2>1. ASSUME NEW k \in (t - n) + 1..t PROVE k \in S
    <3>1. t - k \in 0..n - 1 /\ t - (t - k) = k /\ k \in a..t
      OBVIOUS
    <3>2. t - k \in U
      BY <1>1, <3>1
    <3>. QED
      BY <3>1, <3>2
  <2>. QED
    BY <2>1
<1>. HIDE DEF U
<1>2. \A n \in 0..t : n \in U
  BY <1>1, Upwards
<1>. SUFFICES ASSUME NEW n \in a..t PROVE n \in S
  OBVIOUS
<1>3. t - n \in 0..t /\ t - (t - n) = n
  OBVIOUS
<1>4. t - n \in U
  BY <1>2, <1>3
<1>. QED
  BY <1>3, <1>4 DEF U

\* A value v0 for NULL, what G makes of the values at the children of a node, and a
\* function that has these values at the nodes up to t.
Recursion(t, V, v0, G, l, r) ==
  /\ t \in Nat /\ v0 \in V /\ G \in [1..t -> [V -> [V -> V]]]
  /\ l \in [1..t -> Nat] /\ r \in [1..t -> Nat] /\ \A n \in 1..t : l[n] < n /\ r[n] < n

Solves(f, t, V, v0, G, l, r) ==
  f \in [0..t -> V] /\ f[0] = v0 /\ \A n \in 1..t : f[n] = G[n][f[l[n]]][f[r[n]]]

\* A function on the nodes may be defined by its values at the children, which are
\* older.
LEMMA TreeRecursion ==
  ASSUME NEW t, NEW V, NEW v0, NEW G, NEW l, NEW r, Recursion(t, V, v0, G, l, r)
  PROVE  \E f : Solves(f, t, V, v0, G, l, r)
<1>. USE DEF Recursion
<1>. DEFINE Defined(f, n) == f[0] = v0 /\ \A k \in 1..n : f[k] = G[k][f[l[k]]][f[r[k]]]
            S == {n \in 0..t : \E f \in [0..n -> V] : Defined(f, n)}
<1>1. ASSUME NEW n \in 0..t, \A k \in 0..n - 1 : k \in S PROVE n \in S
  <2>1. CASE n = 0
    <3>. DEFINE f == [k \in 0..0 |-> v0]
    <3>1. f \in [0..0 -> V] /\ Defined(f, 0)
      OBVIOUS
    <3>. QED
      BY <2>1, <3>1, Zenon
  <2>2. CASE n > 0
    <3>1. n - 1 \in 0..n - 1 /\ n \in 1..t
      BY <2>2
    <3>2. PICK f \in [0..n - 1 -> V] : Defined(f, n - 1)
      BY <1>1, <3>1, Zenon
    <3>. DEFINE v == G[n][f[l[n]]][f[r[n]]]
                g == [k \in 0..n |-> IF k < n THEN f[k] ELSE v]
    <3>3. \A k \in 1..n : l[k] \in 0..k - 1 /\ r[k] \in 0..k - 1
      BY <3>1
    <3>4. v \in V
      <4>1. f[l[n]] \in V /\ f[r[n]] \in V
        BY <3>1, <3>3
      <4>. QED
        BY <3>1, <4>1
    <3>5. g \in [0..n -> V] /\ g[n] = v /\ \A k \in 0..n - 1 : g[k] = f[k]
      BY <3>4
    <3>. HIDE DEF g
    <3>6. g[0] = v0
      BY <2>2, <3>2, <3>5
    <3>7. ASSUME NEW k \in 1..n PROVE g[k] = G[k][g[l[k]]][g[r[k]]]
      <4>1. l[k] \in 0..n - 1 /\ r[k] \in 0..n - 1
        BY <3>3
      <4>2. g[l[k]] = f[l[k]] /\ g[r[k]] = f[r[k]]
        BY <3>5, <4>1
      <4>3. CASE k < n
        <5>1. k \in 1..n - 1 /\ k \in 0..n - 1
          BY <4>3
        <5>2. f[k] = G[k][f[l[k]]][f[r[k]]] /\ g[k] = f[k]
          BY <3>2, <3>5, <5>1, Zenon
        <5>. QED
          BY <4>2, <5>2
      <4>4. CASE k = n
        BY <3>5, <4>2, <4>4
      <4>. QED
        BY <4>3, <4>4
    <3>. QED
      BY <3>5, <3>6, <3>7, Zenon
  <2>3. n = 0 \/ n > 0
    OBVIOUS
  <2>. QED
    BY <2>1, <2>2, <2>3, Zenon
<1>2. t \in S
  <2>. HIDE DEF S
  <2>1. \A n \in 0..t : n \in S
    BY <1>1, Upwards, Zenon
  <2>. QED
    BY <2>1
<1>. QED
  BY <1>2 DEF Solves

-----------------------------------------------------------------------------
(* Sequences                                                               *)

\* The elements of a sequence; one that is not empty has a first.
LEMMA ElementOfSeq ==
  ASSUME NEW S, NEW q \in Seq(S)
  PROVE  /\ \A k \in 1..Len(q) : q[k] \in S
         /\ q # <<>> => Len(q) \in Nat \ {0}
  OBVIOUS

\* Assignment to an element.
LEMMA ExceptSeq ==
  ASSUME NEW S, NEW q \in Seq(S), NEW k \in 1..Len(q), NEW el \in S
  PROVE  /\ [q EXCEPT ![k] = el] \in Seq(S)
         /\ Len([q EXCEPT ![k] = el]) = Len(q)
         /\ \A n \in 1..Len(q) : [q EXCEPT ![k] = el][n] = IF n = k THEN el ELSE q[n]
  OBVIOUS

\* One more element at the end.
LEMMA AppendSeq ==
  ASSUME NEW S, NEW q \in Seq(S), NEW el \in S
  PROVE  /\ Append(q, el) \in Seq(S)
         /\ Len(Append(q, el)) = Len(q) + 1
         /\ \A n \in 1..Len(q) : Append(q, el)[n] = q[n]
         /\ Append(q, el)[Len(q) + 1] = el
  OBVIOUS

\* Two lists joined.
LEMMA ConcatSeq ==
  ASSUME NEW S, NEW q \in Seq(S), NEW r \in Seq(S)
  PROVE  q \o r \in Seq(S) /\ Len(q \o r) = Len(q) + Len(r)
  OBVIOUS

-----------------------------------------------------------------------------
(* Bits and bytes                                                          *)

\* The values of a byte.
LEMMA Bytes == \A x : x \in Byte <=> x \in Nat /\ x <= 255
  BY DEF Byte

\* The byte b with the bits of s shifted in, one after the other.
shifted(b, s) == [k \in 0..7 |-> IF k < Len(s) THEN s[Len(s) - k] ELSE b[k - Len(s)]]

\* Which bits an exchange moves up.
LEMMA BitPositions ==
  \A k \in 0..7 : /\ (k \div 4) % 2 = 0 <=> k < 4
                  /\ (k \div 2) % 2 = 0 <=> k \in {0, 1, 4, 5}
                  /\ (k \div 1) % 2 = 0 <=> k \in {0, 2, 4, 6}
<1>. SUFFICES ASSUME NEW k \in 0..7
              PROVE  /\ (k \div 4) % 2 = 0 <=> k < 4
                     /\ (k \div 2) % 2 = 0 <=> k \in {0, 1, 4, 5}
                     /\ (k \div 1) % 2 = 0 <=> k \in {0, 2, 4, 6}
  OBVIOUS
<1>1. (k \div 4) % 2 = 0 <=> k < 4
  OBVIOUS
<1>2. (k \div 2) % 2 = 0 <=> k \in {0, 1, 4, 5}
  OBVIOUS
<1>3. (k \div 1) % 2 = 0 <=> k \in {0, 2, 4, 6}
  OBVIOUS
<1>. QED
  BY <1>1, <1>2, <1>3

\* The three exchanges of reverse_bits turn a byte around, and the shift brings the
\* code back to the low end: what bitstream_put_bits emits is the word itself.
LEMMA PutWord ==
  ASSUME NEW s \in Seq({0, 1}), Len(s) <= 8, NEW undef
  PROVE  put_bits(reverse_bits(shifted(ZERO, s), Len(s), undef), Len(s)) = s
<1>. DEFINE L == Len(s)
            b == shifted(ZERO, s)
            exchange(x, w) == [k \in 0..7 |-> IF (k \div w) % 2 = 0 THEN x[k + w] ELSE x[k - w]]
            x4 == exchange(b, 4)
            x2 == exchange(x4, 2)
            x1 == exchange(x2, 1)
            c == [k \in 0..7 |-> IF k < L THEN x1[k + (8 - L)] ELSE 0]
<1>1. L \in Nat /\ L <= 8
  OBVIOUS
<1>2. \A k \in 0..7 : k < L => b[k] = s[L - k]
  BY DEF shifted
<1>. HIDE DEF b, L
<1>3. \A k \in 0..7 : x4[k] = IF k < 4 THEN b[k + 4] ELSE b[k - 4]
  BY BitPositions, Zenon
<1>. HIDE DEF x4
<1>4. \A k \in 0..7 : x2[k] = IF k \in {0, 1, 4, 5} THEN x4[k + 2] ELSE x4[k - 2]
  BY BitPositions, Zenon
<1>. HIDE DEF x2
<1>5. \A k \in 0..7 : x1[k] = IF k \in {0, 2, 4, 6} THEN x2[k + 1] ELSE x2[k - 1]
  BY BitPositions, Zenon
<1>. HIDE DEF x1
<1>6. \A k \in 0..7 : x1[k] = b[7 - k]
  BY <1>3, <1>4, <1>5
<1>7. ASSUME NEW k \in 1..L PROVE c[k - 1] = s[k]
  <2>1. k - 1 \in 0..7 /\ k - 1 < L /\ (k - 1) + (8 - L) \in 0..7
    BY <1>1
  <2>2. 7 - ((k - 1) + (8 - L)) = L - k /\ L - k \in 0..7 /\ L - k < L /\ L - (L - k) = k
    BY <1>1
  <2>3. c[k - 1] = x1[(k - 1) + (8 - L)]
    BY <2>1
  <2>4. x1[(k - 1) + (8 - L)] = b[L - k]
    BY <1>6, <2>1, <2>2
  <2>. QED
    BY <1>2, <2>2, <2>3, <2>4, SMTT(30)
<1>. HIDE DEF c
<1>8. reverse_bits(b, L, undef) = c
  <2>1. ~ (L > 8)
    BY <1>1
  <2>. QED
    BY <2>1, Zenon DEF reverse_bits, c, x1, x2, x4
<1>9. put_bits(c, L) = [k \in 1..L |-> s[k]]
  BY <1>1, <1>7 DEF put_bits
<1>10. s = [k \in 1..L |-> s[k]]
  BY DEF L
<1>. QED
  BY <1>8, <1>9, <1>10 DEF b, L

\* The value of a byte, and its bits as the decoder extracts them.
LEMMA ValueBits ==
  ASSUME NEW b \in uint8_t
  PROVE  value(b) \in Byte /\ \A k \in 0..7 : (value(b) \div 2^k) % 2 = b[k]
<1>1. \A k \in 0..7 : b[k] \in {0, 1}
  BY SMTT(30) DEF uint8_t
<1>0. /\ b[0] \in {0, 1} /\ b[1] \in {0, 1} /\ b[2] \in {0, 1} /\ b[3] \in {0, 1}
      /\ b[4] \in {0, 1} /\ b[5] \in {0, 1} /\ b[6] \in {0, 1} /\ b[7] \in {0, 1}
  BY <1>1, SMTT(30)
<1>a. PICK b0, b1 \in {0, 1} : b0 = b[0] /\ b1 = b[1]
  BY <1>0, Zenon
<1>b. PICK b2, b3 \in {0, 1} : b2 = b[2] /\ b3 = b[3]
  BY <1>0, Zenon
<1>c. PICK b4, b5 \in {0, 1} : b4 = b[4] /\ b5 = b[5]
  BY <1>0, Zenon
<1>d. PICK b6, b7 \in {0, 1} : b6 = b[6] /\ b7 = b[7]
  BY <1>0, Zenon
<1>3. PICK s : s = b0 + 2 * b1 + 4 * b2 + 8 * b3 + 16 * b4 + 32 * b5 + 64 * b6 + 128 * b7
  OBVIOUS
<1>4. value(b) = s
  BY <1>a, <1>b, <1>c, <1>d, <1>3 DEF value
<1>5. s \in Byte
  BY <1>3, Bytes
<1>6. /\ 2^0 = 1 /\ 2^1 = 2 /\ 2^2 = 4 /\ 2^3 = 8 /\ 2^4 = 16 /\ 2^5 = 32 /\ 2^6 = 64
      /\ 2^7 = 128
  OBVIOUS
<1>7. (s \div 1) % 2 = b0 /\ (s \div 2) % 2 = b1
  BY <1>3
<1>8. (s \div 4) % 2 = b2 /\ (s \div 8) % 2 = b3
  BY <1>3
<1>9. (s \div 16) % 2 = b4 /\ (s \div 32) % 2 = b5
  BY <1>3
<1>10. (s \div 64) % 2 = b6 /\ (s \div 128) % 2 = b7
  BY <1>3
<1>11. ASSUME NEW k \in 0..7 PROVE (s \div 2^k) % 2 = b[k]
  <2>1. k = 0 \/ k = 1 \/ k = 2 \/ k = 3 \/ k = 4 \/ k = 5 \/ k = 6 \/ k = 7
    OBVIOUS
  <2>2. CASE k = 0
    BY <1>a, <1>6, <1>7, <2>2
  <2>3. CASE k = 1
    BY <1>a, <1>6, <1>7, <2>3
  <2>4. CASE k = 2
    BY <1>b, <1>6, <1>8, <2>4
  <2>5. CASE k = 3
    BY <1>b, <1>6, <1>8, <2>5
  <2>6. CASE k = 4
    BY <1>c, <1>6, <1>9, <2>6
  <2>7. CASE k = 5
    BY <1>c, <1>6, <1>9, <2>7
  <2>8. CASE k = 6
    BY <1>d, <1>6, <1>10, <2>8
  <2>9. CASE k = 7
    BY <1>d, <1>6, <1>10, <2>9
  <2>. QED
    BY <2>1, <2>2, <2>3, <2>4, <2>5, <2>6, <2>7, <2>8, <2>9
<1>. QED
  BY <1>4, <1>5, <1>11

\* bitstream_put_bit and the decoder agree on where a bit is.
LEMMA PackIs ==
  ASSUME NEW bits \in Seq({0, 1})
  PROVE  /\ pack(bits) \in Seq(Byte) /\ Len(pack(bits)) = (Len(bits) + 7) \div 8
         /\ Len(pack(bits)) \in Nat
         /\ \A m \in 0..Len(bits) - 1 :
              /\ m \div 8 \in Nat /\ (m \div 8) + 1 \in 1..Len(pack(bits))
              /\ (pack(bits)[(m \div 8) + 1] \div 2^(m % 8)) % 2 = bits[m + 1]
<1>. DEFINE B == Len(bits)
            N == (B + 7) \div 8
            vec(j) == [k \in 0..7 |-> IF 8 * (j - 1) + k < B THEN bits[8 * (j - 1) + k + 1] ELSE 0]
<1>1. B \in Nat /\ N \in Nat
  OBVIOUS
<1>2. \A m \in 1..B : bits[m] \in {0, 1}
  OBVIOUS
<1>. HIDE DEF B
<1>3. ASSUME NEW j \in 1..N PROVE vec(j) \in uint8_t
  <2>1. ASSUME NEW k \in 0..7, 8 * (j - 1) + k < B PROVE 8 * (j - 1) + k + 1 \in 1..B
    BY <1>1, <2>1
  <2>2. \A k \in 0..7 : 8 * (j - 1) + k < B => bits[8 * (j - 1) + k + 1] \in {0, 1}
    BY <1>2, <2>1, Zenon
  <2>. QED
    BY <2>2 DEF uint8_t
<1>4. pack(bits) = [j \in 1..N |-> value(vec(j))]
  BY DEF pack, B
<1>. HIDE DEF N
<1>5. \A j \in 1..N : value(vec(j)) \in Byte
  <2>. HIDE DEF vec
  <2>. QED
    BY <1>3, ValueBits
<1>6. /\ pack(bits) \in Seq(Byte) /\ Len(pack(bits)) = N
      /\ \A j \in 1..N : pack(bits)[j] = value(vec(j))
  <2>. HIDE DEF vec
  <2>. QED
    BY <1>1, <1>4, <1>5
<1>7. ASSUME NEW m \in 0..B - 1
      PROVE  /\ m \div 8 \in Nat /\ (m \div 8) + 1 \in 1..N
             /\ (pack(bits)[(m \div 8) + 1] \div 2^(m % 8)) % 2 = bits[m + 1]
  <2>1. PICK j, k : j = (m \div 8) + 1 /\ k = m % 8
    OBVIOUS
  <2>2. m \div 8 \in Nat /\ j \in 1..N /\ k \in 0..7 /\ 8 * (j - 1) + k = m
    BY <1>1, <2>1 DEF N
  <2>3. vec(j)[k] = bits[m + 1]
    <3>1. vec(j)[k] = IF 8 * (j - 1) + k < B THEN bits[8 * (j - 1) + k + 1] ELSE 0
      BY <2>2
    <3>2. 8 * (j - 1) + k < B /\ 8 * (j - 1) + k + 1 = m + 1
      BY <1>1, <2>2
    <3>. QED
      BY <3>1, <3>2
  <2>4. pack(bits)[j] = value(vec(j)) /\ vec(j) \in uint8_t
    BY <1>3, <1>6, <2>2, Zenon
  <2>. HIDE DEF vec
  <2>5. (value(vec(j)) \div 2^k) % 2 = vec(j)[k]
    BY <2>2, <2>4, ValueBits, Zenon
  <2>. QED
    BY <2>1, <2>2, <2>3, <2>4, <2>5, ZenonT(30)
<1>. QED
  BY <1>1, <1>6, <1>7 DEF B, N

-----------------------------------------------------------------------------
(* build_queue and build_tree                                              *)

\* queue_add_element links the new element in at one place p and changes nothing
\* else, whichever of its three return statements is taken.
LEMMA AddElementProperties ==
  ASSUME NEW S, NEW q \in Seq(S), NEW el \in S, NEW mem
  PROVE  LET r == queue_add_element(mem, q, el)
         IN  /\ r \in Seq(S)
             /\ Len(r) = Len(q) + 1
             /\ \E p \in 1..Len(q) + 1 : \A k \in 1..Len(r) :
                  r[k] = IF k < p THEN q[k] ELSE IF k = p THEN el ELSE q[k-1]
<1>. DEFINE heavier == {k \in DOMAIN q : mem[q[k]].weight > mem[el].weight}
            p == CHOOSE k \in heavier \cup {Len(q) + 1} : \A j \in heavier : k <= j
            l == SubSeq(q, 1, p - 1)
            e == l \o <<el>>
            t == SubSeq(q, p, Len(q))
            r == e \o t
<1>a. queue_add_element(mem, q, el) = r
  BY DEF queue_add_element
<1>b. Len(q) \in Nat /\ heavier \subseteq 1..Len(q)
  OBVIOUS
<1>. HIDE DEF heavier
<1>c. \E k \in heavier \cup {Len(q) + 1} : \A j \in heavier : k <= j
  <2>0. (\A k \in 1..Len(q) : k \in Nat) /\ Len(q) + 1 \in Nat
    BY <1>b
  <2>1. heavier \cup {Len(q) + 1} \subseteq Nat
    BY <1>b, <2>0, ZenonT(30)
  <2>2. PICK k \in heavier \cup {Len(q) + 1} : \A y \in heavier \cup {Len(q) + 1} : k <= y
    BY <2>1, LeastElement, ZenonT(30)
  <2>. QED
    BY <2>2, Zenon
<1>0. Len(q) \in Nat /\ p \in Nat /\ p \in 1..Len(q) + 1
  <2>1. p \in heavier \cup {Len(q) + 1}
    BY <1>c
  <2>. HIDE DEF p
  <2>. QED
    BY <1>b, <2>1
<1>. HIDE DEF p
<1>1. /\ l \in Seq(S) /\ Len(l) = p - 1
      /\ \A k \in 1..p-1 : l[k] = q[k]
  BY <1>0
<1>2. /\ t \in Seq(S) /\ Len(t) = Len(q) + 1 - p
      /\ \A k \in 1..Len(q) + 1 - p : t[k] = q[p + k - 1]
  BY <1>0
<1>. HIDE DEF l, t
<1>3. /\ e \in Seq(S) /\ Len(e) = p
      /\ \A k \in 1..p : e[k] = IF k < p THEN q[k] ELSE el
  BY <1>0, <1>1
<1>. HIDE DEF e
<1>4. r \in Seq(S) /\ Len(r) = Len(q) + 1
  <2>1. r \in Seq(S) /\ Len(r) = Len(e) + Len(t)
    <3>1. e \in Seq(S) /\ t \in Seq(S)
      BY <1>2, <1>3
    <3>. QED
      BY <3>1, ConcatSeq, ZenonT(30)
  <2>. QED
    BY <2>1, <1>0, <1>2, <1>3, SMTT(30)
<1>5. \A k \in 1..Len(r) : r[k] = IF k <= p THEN e[k] ELSE t[k - p]
  BY <1>0, <1>2, <1>3, <1>4
<1>. HIDE DEF r
<1>6. ASSUME NEW k \in 1..Len(r)
      PROVE  r[k] = IF k < p THEN q[k] ELSE IF k = p THEN el ELSE q[k-1]
  <2>1. CASE k <= p
    BY <2>1, <1>0, <1>3, <1>4, <1>5, SMTT(30)
  <2>2. CASE k > p
    <3>1. k - p \in 1..Len(q) + 1 - p /\ p + (k - p) - 1 = k - 1
      BY <2>2, <1>0, <1>4, SMTT(30)
    <3>. QED
      BY <2>2, <3>1, <1>0, <1>2, <1>4, <1>5, SMTT(30)
  <2>. QED
    BY <2>1, <2>2, <1>0, <1>4, SMTT(30)
<1>. QED
  BY <1>0, <1>4, <1>6, <1>a, ZenonT(30)

NoRepeats(q) == \A j, k \in 1..Len(q) : q[j] = q[k] => j = k
Holds(q, n) == \E k \in 1..Len(q) : q[k] = n

\* The list that queue_add_element returns holds what it held before and the new
\* element, each once.
LEMMA AddElementMembers ==
  ASSUME NEW S, NEW q \in Seq(S), NEW el \in S, NEW mem,
         NoRepeats(q), ~ Holds(q, el),
         NEW r, r = queue_add_element(mem, q, el)
  PROVE  /\ r \in Seq(S)
         /\ Len(r) = Len(q) + 1
         /\ NoRepeats(r)
         /\ \A n \in S : Holds(r, n) <=> n = el \/ Holds(q, n)
<1>. USE DEF NoRepeats, Holds
<1>1. r \in Seq(S) /\ Len(r) = Len(q) + 1 /\ Len(q) \in Nat
  BY AddElementProperties
<1>2. PICK p \in 1..Len(q) + 1 : \A k \in 1..Len(r) :
         r[k] = IF k < p THEN q[k] ELSE IF k = p THEN el ELSE q[k-1]
  BY AddElementProperties, SMTT(30)
<1>a. \A k \in 1..Len(r) : k < p => k \in 1..Len(q) /\ r[k] = q[k]
  BY <1>1, <1>2
<1>b. \A k \in 1..Len(r) : k = p => r[k] = el
  BY <1>1, <1>2
<1>c. \A k \in 1..Len(r) : k > p => k - 1 \in 1..Len(q) /\ r[k] = q[k-1]
  BY <1>1, <1>2
<1>d. p \in Nat
  OBVIOUS
<1>3. ASSUME NEW j \in 1..Len(r), NEW k \in 1..Len(r), j < k
      PROVE  r[j] # r[k]
  <2>0. j \in Nat /\ k \in Nat
    BY <1>1
  <2>1. CASE k < p
    <3>1. j < p
      BY <2>0, <2>1, <1>3, <1>d
    <3>. QED
      BY <2>0, <2>1, <3>1, <1>3, <1>a, SMTT(30)
  <2>2. CASE k = p
    <3>1. r[j] = q[j] /\ j \in 1..Len(q)
      BY <2>0, <2>2, <1>3, <1>a, SMTT(30)
    <3>. QED
      BY <2>2, <3>1, <1>b, SMTT(30)
  <2>3. CASE k > p /\ j < p
    <3>1. j # k - 1 /\ k > p
      BY <2>0, <2>3, <1>d, SMTT(30)
    <3>. QED
      BY <2>3, <3>1, <1>a, <1>c, SMTT(30)
  <2>4. CASE k > p /\ j = p
    BY <2>4, <1>b, <1>c, SMTT(30)
  <2>5. CASE k > p /\ j > p
    <3>1. j - 1 # k - 1
      BY <2>0, <1>3
    <3>. QED
      BY <2>5, <3>1, <1>c, SMTT(30)
  <2>. QED
    BY <2>0, <2>1, <2>2, <2>3, <2>4, <2>5, <1>d, SMTT(30)
<1>4. ASSUME NEW n, NEW k \in 1..Len(r), r[k] = n
      PROVE  n = el \/ \E j \in 1..Len(q) : q[j] = n
  <2>1. CASE k < p
    BY <2>1, <1>4, <1>a, SMTT(30)
  <2>2. CASE k = p
    BY <2>2, <1>4, <1>b, SMTT(30)
  <2>3. CASE k > p
    BY <2>3, <1>4, <1>c, SMTT(30)
  <2>. QED
    BY <2>1, <2>2, <2>3, <1>1
<1>5. r[p] = el /\ p \in 1..Len(r)
  BY <1>1, <1>2, SMTT(30)
<1>6. ASSUME NEW n, NEW k \in 1..Len(q), q[k] = n
      PROVE  \E j \in 1..Len(r) : r[j] = n
  <2>1. CASE k < p
    BY <1>1, <1>2, <1>6, <2>1, SMTT(30)
  <2>2. CASE k >= p
    <3>1. k + 1 \in 1..Len(r) /\ r[k + 1] = q[k]
      BY <1>1, <1>2, <2>2
    <3>. QED
      BY <1>6, <3>1
  <2>. QED
    BY <2>1, <2>2, <1>1
<1>7. \A j, k \in 1..Len(r) : r[j] = r[k] => j = k
  <2>. SUFFICES ASSUME NEW j \in 1..Len(r), NEW k \in 1..Len(r), j # k
                PROVE  r[j] # r[k]
    OBVIOUS
  <2>1. j < k \/ k < j
    BY <1>1
  <2>. QED
    BY <2>1, <1>3
<1>. QED
  BY <1>1, <1>7, <1>4, <1>5, <1>6, SMTT(30)

-----------------------------------------------------------------------------

IInv == TypeOK /\ Forest /\ NodeAccounting

\* The empty queue and tree that huffman_compress starts from.
LEMMA InitIInv == Init => IInv
<1>. SUFFICES ASSUME Init PROVE IInv
  OBVIOUS
<1>1. Nodes = {} /\ Leaves = {}
  BY DEF Init, Nodes, Leaves
<1>2. TypeOK
  BY BlocksAssumption DEF Init, TypeOK
<1>3. Forest
  BY <1>1 DEF Init, Forest
<1>4. NodeAccounting
  BY <1>1, FS_EmptySet DEF Init, NodeAccounting
<1>. QED
  BY <1>2, <1>3, <1>4 DEF IInv

\* A uint16_t sum is a uint16_t again.
LEMMA ModWord == \A x \in Nat : x % WORD \in 0..WORD - 1
  BY WordAssumption

\* What the increment of a found node changes: one weight, and no pointer.
LEMMA CountSeenFacts ==
  ASSUME IInv, CountSeen
  PROVE  /\ tree_memory' \in Seq(Node)
         /\ Len(tree_memory') = Len(tree_memory)
         /\ \A n \in Nodes : /\ tree_memory'[n].left = tree_memory[n].left
                             /\ tree_memory'[n].right = tree_memory[n].right
                             /\ tree_memory'[n].byte = tree_memory[n].byte
<1>1. tree_memory \in Seq(Node) /\ queue \in Seq(Nodes) /\ Len(tree_memory) \in Nat
  BY DEF IInv, TypeOK
<1>2. PICK k \in DOMAIN queue :
        tree_memory' = [tree_memory EXCEPT ![queue[k]].weight = (@ + 1) % WORD]
  BY Zenon DEF CountSeen
<1>3. queue[k] \in Nodes
  BY <1>1
<1>. DEFINE q == queue[k]
            t == [tree_memory[q] EXCEPT !.weight = (@ + 1) % WORD]
<1>4. tree_memory' = [tree_memory EXCEPT ![q] = t]
  BY <1>2
<1>5. /\ tree_memory[q] \in Node
      /\ \A n \in Nodes : tree_memory[n] \in Node
  BY <1>1, <1>3 DEF Nodes
<1>6. (tree_memory[q].weight + 1) % WORD \in 0..WORD - 1
  <2>1. tree_memory[q].weight + 1 \in Nat
    BY <1>5, WordAssumption, SMTT(30) DEF Node
  <2>. QED
    BY <2>1, ModWord, SMTT(30)
<1>7. /\ t \in Node
      /\ t.left = tree_memory[q].left
      /\ t.right = tree_memory[q].right
      /\ t.byte = tree_memory[q].byte
  BY <1>5, <1>6 DEF Node
<1>. HIDE DEF q, t
<1>8. q \in 1..Len(tree_memory)
  BY <1>3 DEF q, Nodes
<1>9. /\ tree_memory' \in Seq(Node)
      /\ Len(tree_memory') = Len(tree_memory)
      /\ \A n \in Nodes : tree_memory'[n] = IF n = q THEN t ELSE tree_memory[n]
  BY <1>1, <1>4, <1>7, <1>8, ExceptSeq, SMTT(30) DEF Nodes
<1>. QED
  BY <1>7, <1>9

\* What build_queue changes when a byte is new: one leaf at the end of
\* tree_memory, linked into the queue.
LEMMA CountNewFacts ==
  ASSUME IInv, CountNew, NEW e, e = Len(tree_memory) + 1
  PROVE  /\ tree_memory' \in Seq(Node)
         /\ Len(tree_memory') = e
         /\ \A n \in Nodes : tree_memory'[n] = tree_memory[n]
         /\ tree_memory'[e] = leaf(data[i + 1])
         /\ data[i + 1] \in Alphabet /\ data[i + 1] # 0
         /\ queue' \in Seq(1..e)
         /\ Len(queue') = Len(queue) + 1
         /\ NoRepeats(queue')
         /\ \A n \in 1..e : Queued(n)' <=> n = e \/ Queued(n)
<1>1. /\ tree_memory \in Seq(Node) /\ queue \in Seq(Nodes)
      /\ Len(tree_memory) \in Nat /\ Len(queue) \in Nat
      /\ data \in Seq(Alphabet) /\ i \in 0..Len(data) /\ Len(data) \in Nat
  BY DEF IInv, TypeOK
<1>2. data[i + 1] \in Alphabet
  BY <1>1 DEF CountNew
<1>3. data[i + 1] # 0
  BY <1>2, AlphabetAssumption
<1>4. leaf(data[i + 1]) \in Node
  BY <1>2, ModWord DEF leaf, Node, NULL
<1>5. tree_memory' = Append(tree_memory, leaf(data[i + 1]))
  BY DEF CountNew
<1>. HIDE DEF leaf
<1>6. /\ tree_memory' \in Seq(Node)
      /\ Len(tree_memory') = e
      /\ \A n \in Nodes : tree_memory'[n] = tree_memory[n]
      /\ tree_memory'[e] = leaf(data[i + 1])
  BY <1>1, <1>4, <1>5, AppendSeq, SMTT(30) DEF Nodes
<1>7. queue \in Seq(1..e) /\ e \in 1..e /\ ~ Holds(queue, e)
  BY <1>1 DEF Nodes, Holds
<1>8. NoRepeats(queue)
  BY <1>1 DEF IInv, Forest, NoRepeats
<1>9. queue' = queue_add_element(tree_memory', queue, e)
  BY DEF CountNew
<1>10. /\ queue' \in Seq(1..e)
       /\ Len(queue') = Len(queue) + 1
       /\ NoRepeats(queue')
       /\ \A n \in 1..e : Holds(queue', n) <=> n = e \/ Holds(queue, n)
  <2>. DEFINE S == 1..e
              mem == tree_memory'
              q == queue
              r == queue'
  <2>1. q \in Seq(S) /\ e \in S /\ NoRepeats(q) /\ ~ Holds(q, e)
    BY <1>7, <1>8
  <2>2. r = queue_add_element(mem, q, e)
    BY <1>9
  <2>3. /\ r \in Seq(S) /\ Len(r) = Len(q) + 1 /\ NoRepeats(r)
        /\ \A n \in S : Holds(r, n) <=> n = e \/ Holds(q, n)
    <3>. HIDE DEF S, mem, q, r
    <3>. QED
      BY <2>1, <2>2, AddElementMembers, SMTT(30)
  <2>. QED
    BY <2>3
<1>11. DOMAIN queue = 1..Len(queue) /\ DOMAIN queue' = 1..Len(queue')
  BY <1>1, <1>10
<1>12. \A n \in 1..e : Queued(n)' <=> n = e \/ Queued(n)
  BY Zenon, <1>10, <1>11 DEF Queued, Holds
<1>. QED
  BY <1>2, <1>3, <1>6, <1>10, <1>12, SMTT(30)

\* What an iteration of build_tree changes: the first two nodes leave the queue
\* and their new parent enters it.
LEMMA MergeFacts ==
  ASSUME IInv, Merge, NEW e, e = Len(tree_memory) + 1
  PROVE  /\ tree_memory' \in Seq(Node)
         /\ Len(tree_memory') = e
         /\ \A n \in Nodes : tree_memory'[n] = tree_memory[n]
         /\ tree_memory'[e] = internal(tree_memory, queue[1], queue[2])
         /\ queue[1] \in Nodes /\ queue[2] \in Nodes /\ queue[1] # queue[2]
         /\ Queued(queue[1]) /\ Queued(queue[2])
         /\ queue' \in Seq(1..e)
         /\ Len(queue') = Len(queue) - 1
         /\ NoRepeats(queue')
         /\ \A n \in 1..e :
              Queued(n)' <=> n = e \/ (Queued(n) /\ n # queue[1] /\ n # queue[2])
<1>1. /\ tree_memory \in Seq(Node) /\ queue \in Seq(Nodes)
      /\ Len(tree_memory) \in Nat /\ Len(queue) \in Nat /\ Len(queue) >= 2
      /\ DOMAIN queue = 1..Len(queue)
  BY DEF IInv, TypeOK, Merge
<1>2. NoRepeats(queue)
  BY <1>1, SMTT(30) DEF IInv, Forest, NoRepeats
<1>3. /\ queue[1] \in Nodes /\ queue[2] \in Nodes /\ queue[1] # queue[2]
      /\ Queued(queue[1]) /\ Queued(queue[2])
  BY <1>1, <1>2 DEF Queued, NoRepeats
<1>4. /\ tree_memory[queue[1]] \in Node /\ tree_memory[queue[2]] \in Node
      /\ queue[1] \in Nat /\ queue[2] \in Nat
  BY <1>1, <1>3, SMTT(30) DEF Nodes
<1>5. tree_memory[queue[1]].weight + tree_memory[queue[2]].weight \in Nat
  <2>1. \A t \in Node : t.weight \in Nat
    BY WordAssumption DEF Node
  <2>. QED
    BY <2>1, <1>4
<1>6. internal(tree_memory, queue[1], queue[2]) \in Node
  BY <1>4, <1>5, ModWord DEF internal, Node
<1>7. tree_memory' = Append(tree_memory, internal(tree_memory, queue[1], queue[2]))
  BY DEF Merge
<1>8. /\ tree_memory' \in Seq(Node)
      /\ Len(tree_memory') = e
      /\ \A n \in Nodes : tree_memory'[n] = tree_memory[n]
      /\ tree_memory'[e] = internal(tree_memory, queue[1], queue[2])
  BY <1>1, <1>6, <1>7, AppendSeq, SMTT(30) DEF Nodes
<1>. DEFINE q == SubSeq(queue, 3, Len(queue))
<1>9. queue' = queue_add_element(tree_memory', q, e)
  BY DEF Merge
<1>10. queue \in Seq(1..e) /\ e \in 1..e /\ \A k \in 1..Len(queue) : queue[k] # e
  BY <1>1 DEF Nodes
<1>11. /\ q \in Seq(1..e) /\ Len(q) = Len(queue) - 2
       /\ \A k \in 1..Len(q) : q[k] = queue[k + 2]
  BY <1>1, <1>10
<1>. HIDE DEF q
<1>12. \A k \in 1..Len(q) : k + 2 \in 1..Len(queue)
  BY <1>1, <1>11
<1>13. NoRepeats(q)
  <2>. SUFFICES ASSUME NEW j \in 1..Len(q), NEW k \in 1..Len(q), q[j] = q[k]
                PROVE  j = k
    BY DEF NoRepeats
  <2>1. queue[j + 2] = queue[k + 2]
    BY <1>11
  <2>2. j + 2 = k + 2
    BY <2>1, <1>2, <1>12, SMTT(30) DEF NoRepeats
  <2>. QED
    BY <2>2, <1>1, <1>11
<1>14. ~ Holds(q, e)
  BY <1>10, <1>11, <1>12, SMTT(30) DEF Holds
<1>15. /\ queue' \in Seq(1..e)
       /\ Len(queue') = Len(q) + 1
       /\ NoRepeats(queue')
       /\ \A n \in 1..e : Holds(queue', n) <=> n = e \/ Holds(q, n)
  <2>. DEFINE S == 1..e
              mem == tree_memory'
              r == queue'
  <2>1. q \in Seq(S) /\ e \in S /\ NoRepeats(q) /\ ~ Holds(q, e)
    BY <1>10, <1>11, <1>13, <1>14, SMTT(30)
  <2>2. r = queue_add_element(mem, q, e)
    BY <1>9
  <2>3. /\ r \in Seq(S) /\ Len(r) = Len(q) + 1 /\ NoRepeats(r)
        /\ \A n \in S : Holds(r, n) <=> n = e \/ Holds(q, n)
    <3>. HIDE DEF S, mem, r
    <3>. QED
      BY <2>1, <2>2, AddElementMembers
  <2>. QED
    BY <2>3
<1>16. \A n \in 1..e : Holds(q, n)
                          <=> Queued(n) /\ n # queue[1] /\ n # queue[2]
  <2>. TAKE n \in 1..e
  <2>1. ASSUME NEW k \in 1..Len(q), q[k] = n
        PROVE  Queued(n) /\ n # queue[1] /\ n # queue[2]
    <3>1. queue[k + 2] = n /\ k + 2 \in 1..Len(queue) /\ k + 2 # 1 /\ k + 2 # 2
      BY <2>1, <1>1, <1>11, <1>12, SMTT(30)
    <3>2. 1 \in 1..Len(queue) /\ 2 \in 1..Len(queue)
      BY <1>1
    <3>. QED
      BY <3>1, <3>2, <1>1, <1>2, SMTT(30) DEF Queued, NoRepeats
  <2>2. ASSUME Queued(n), n # queue[1], n # queue[2]
        PROVE  \E k \in 1..Len(q) : q[k] = n
    <3>1. PICK j \in 1..Len(queue) : queue[j] = n
      BY <2>2, <1>1 DEF Queued
    <3>2. j # 1 /\ j # 2
      BY <2>2, <3>1
    <3>3. j - 2 \in 1..Len(q) /\ (j - 2) + 2 = j
      BY <3>2, <1>1, <1>11
    <3>. QED
      BY Zenon, <3>1, <3>3, <1>11
  <2>. QED
    BY <2>1, <2>2 DEF Holds
<1>17. \A n \in 1..e :
         Queued(n)' <=> n = e \/ (Queued(n) /\ n # queue[1] /\ n # queue[2])
  <2>1. DOMAIN queue' = 1..Len(queue')
    BY <1>15
  <2>. QED
    BY Zenon, <2>1, <1>15, <1>16 DEF Queued, Holds
<1>18. Len(queue') = Len(queue) - 1
  BY <1>1, <1>11, <1>15, SMTT(30)
<1>. QED
  BY <1>3, <1>8, <1>15, <1>17, <1>18, SMTT(30)

\* Counting a byte seen before preserves the inductive invariant.
LEMMA CountSeenIInv == IInv /\ CountSeen => IInv'
<1>. SUFFICES ASSUME IInv, CountSeen PROVE IInv'
  OBVIOUS
<1>1. /\ tree_memory' \in Seq(Node)
      /\ Len(tree_memory') = Len(tree_memory)
      /\ \A n \in Nodes : /\ tree_memory'[n].left = tree_memory[n].left
                          /\ tree_memory'[n].right = tree_memory[n].right
                          /\ tree_memory'[n].byte = tree_memory[n].byte
  BY CountSeenFacts
<1>2. /\ data' = data /\ queue' = queue /\ i' = i + 1 /\ i < Len(data)
      /\ allocated_queue_size' = allocated_queue_size
  BY DEF CountSeen
<1>3. /\ Nodes' = Nodes /\ Leaves' = Leaves
      /\ \A n \in Nodes : IsLeaf(n)' <=> IsLeaf(n)
      /\ \A m, n \in Nodes : Parent(m, n)' <=> Parent(m, n)
      /\ \A n \in Nodes : Queued(n)' <=> Queued(n)
  BY <1>1, <1>2, SMTT(30) DEF Nodes, Leaves, IsLeaf, Parent, Queued
<1>4. TypeOK'
  BY <1>1, <1>2, <1>3, SMTT(30) DEF IInv, TypeOK
<1>5. Forest'
  BY SMTT(30), <1>1, <1>2, <1>3 DEF IInv, Forest
<1>6. NodeAccounting'
  <2>1. queue # <<>>
    BY DEF CountSeen
  <2>2. i \in Nat /\ i + 1 # 0 /\ i' = i + 1 /\ Len(data) \in Nat
    BY <1>2 DEF IInv, TypeOK
  <2>3. \A n \in Leaves : n \in Nodes
    BY DEF Leaves
  <2>. QED
    BY <2>1, <2>2, <2>3, <1>1, <1>2, <1>3, SMTT(30) DEF IInv, NodeAccounting
<1>. QED
  BY <1>4, <1>5, <1>6 DEF IInv

\* No child pointer leads to a node allocated later, so the node that an
\* iteration allocates has no parent yet.
LEMMA ChildrenAreOlder ==
  ASSUME IInv, NEW m \in Nodes
  PROVE  tree_memory[m].left \in 0..m-1 /\ tree_memory[m].right \in 0..m-1
<1>1. m \in Nat /\ m > 0
  BY DEF Nodes, IInv, TypeOK
<1>2. CASE IsLeaf(m)
  BY <1>1, <1>2 DEF IInv, Forest, NULL
<1>3. CASE ~ IsLeaf(m)
  <2>1. tree_memory[m].left \in 1..m-1 /\ tree_memory[m].right \in 1..m-1
    BY <1>3, SMTT(30) DEF IInv, Forest
  <2>. QED
    BY <1>1, <2>1
<1>. QED
  BY <1>2, <1>3

\* Counting a new byte preserves the inductive invariant.
LEMMA CountNewIInv == IInv /\ CountNew => IInv'
<1>. SUFFICES ASSUME IInv, CountNew PROVE IInv'
  OBVIOUS
<1>e. PICK e : e = Len(tree_memory) + 1
  OBVIOUS
<1>0. /\ Len(tree_memory) \in Nat /\ Len(queue) \in Nat /\ Nodes = 1..e - 1
      /\ e \in Nat /\ e \notin Nodes /\ Len(queue') \in Nat
      /\ DOMAIN queue = 1..Len(queue)
  <2>1. Len(queue') = Len(queue) + 1
    BY <1>e, CountNewFacts
  <2>. QED
    BY <1>e, <2>1 DEF IInv, TypeOK, Nodes
<1>1. /\ tree_memory' \in Seq(Node)
      /\ Len(tree_memory') = e
      /\ \A n \in Nodes : tree_memory'[n] = tree_memory[n]
      /\ tree_memory'[e] = leaf(data[i + 1])
      /\ data[i + 1] \in Alphabet /\ data[i + 1] # 0
      /\ queue' \in Seq(1..e)
      /\ Len(queue') = Len(queue) + 1
      /\ NoRepeats(queue')
      /\ \A n \in 1..e : Queued(n)' <=> n = e \/ Queued(n)
  BY <1>e, CountNewFacts
<1>2. /\ data' = data /\ i' = i + 1 /\ i < Len(data)
      /\ allocated_queue_size' = allocated_queue_size + 1
      /\ \A k \in DOMAIN queue : tree_memory[queue[k]].byte # data[i + 1]
  BY DEF CountNew
<1>3. /\ Nodes' = Nodes \cup {e}
      /\ Nodes' = 1..e
  BY SMTT(30), <1>0, <1>1 DEF Nodes
<1>4. /\ tree_memory'[e].left = NULL /\ tree_memory'[e].right = NULL
      /\ tree_memory'[e].byte = data[i + 1]
  BY <1>1 DEF leaf
<1>5. /\ \A n \in Nodes : IsLeaf(n)' <=> IsLeaf(n)
      /\ IsLeaf(e)'
  BY <1>1, <1>4 DEF IsLeaf
<1>6. Leaves' = Leaves \cup {e} /\ e \notin Leaves
  BY <1>0, <1>3, <1>5, SMTT(30) DEF Leaves
<1>7. TypeOK'
  <2>1. i \in 0..Len(data) /\ Len(data) \in Nat /\ allocated_queue_size \in Nat
    BY DEF IInv, TypeOK
  <2>2. i + 1 \in 0..Len(data) /\ allocated_queue_size + 1 \in Nat
    BY <2>1, <1>2
  <2>. QED
    BY Zenon, <2>2, <1>1, <1>2, <1>3 DEF IInv, TypeOK
<1>8. \A m \in Nodes', n \in Nodes' :
        Parent(m, n)' <=> m \in Nodes /\ n \in Nodes /\ Parent(m, n)
  <2>1. \A n \in Nodes' : ~ Parent(e, n)'
    BY <1>0, <1>3, <1>4, SMTT(30) DEF Parent, NULL
  <2>2. ASSUME NEW m \in Nodes, NEW n \in Nodes
        PROVE  Parent(m, n)' <=> Parent(m, n)
    BY <1>1 DEF Parent
  <2>3. ASSUME NEW m \in Nodes
        PROVE  ~ Parent(m, e)'
    <3>1. tree_memory'[m].left # e /\ tree_memory'[m].right # e
      <4>1. tree_memory[m].left \in 0..m-1 /\ tree_memory[m].right \in 0..m-1
        BY ChildrenAreOlder
      <4>2. m \in 1..e-1 /\ e \in Nat
        BY <1>0
      <4>3. tree_memory'[m] = tree_memory[m]
        BY <1>1
      <4>. QED
        BY <4>1, <4>2, <4>3, SMTT(30)
    <3>. QED
      BY <3>1 DEF Parent
  <2>. QED
    BY <1>0, <1>3, <2>1, <2>2, <2>3, SMTT(30)
<1>9. Forest'
  <2>1. (\A j, k \in DOMAIN queue : queue[j] = queue[k] => j = k)'
    BY <1>1, SMTT(30) DEF NoRepeats
  <2>2. (\A n \in Nodes :
          LET t == tree_memory[n]
          IN  IF IsLeaf(n) THEN t.left = NULL /\ t.right = NULL
              ELSE t.left \in 1..n-1 /\ t.right \in 1..n-1 /\ t.left # t.right)'
    BY <1>1, <1>3, <1>4, <1>5, SMTT(30) DEF IInv, Forest
  <2>3. (\A n \in Nodes : Queued(n) <=> ~ \E m \in Nodes : Parent(m, n))'
    BY <1>0, <1>1, <1>3, <1>8, SMTT(30) DEF IInv, Forest
  <2>4. (\A m1, m2, n \in Nodes : Parent(m1, n) /\ Parent(m2, n) => m1 = m2)'
    BY <1>8 DEF IInv, Forest
  <2>. QED
    BY <2>1, <2>2, <2>3, <2>4, SMTT(30) DEF Forest
<1>10. NodeAccounting'
  <2>1. i \in Nat /\ i + 1 # 0 /\ Len(data) \in Nat
    BY <1>2 DEF IInv, TypeOK
  <2>2. \A n \in Leaves : n \in Nodes /\ tree_memory'[n] = tree_memory[n]
    BY <1>1 DEF Leaves
  <2>3. \A n \in Nodes : Queued(n) /\ IsLeaf(n) /\ tree_memory[n].byte # data[i + 1]
    <3>1. \A n \in Nodes : Queued(n) /\ IsLeaf(n)
      BY <1>2 DEF IInv, NodeAccounting
    <3>. QED
      BY <1>2, <3>1 DEF Queued
  <2>4. Cardinality(Leaves') = Cardinality(Leaves) + 1 /\ Cardinality(Leaves) \in Nat
    <3>1. IsFiniteSet(Nodes)
      BY <1>0, FS_Interval, SMTT(30)
    <3>2. IsFiniteSet(Leaves)
      BY <3>1, FS_Subset, SMTT(30) DEF Leaves
    <3>. QED
      BY <3>2, <1>6, FS_AddElement, FS_CardinalityType, SMTT(30)
  <2>5. (allocated_queue_size = Len(tree_memory))'
    BY <1>e, <1>0, <1>1, <1>2, SMTT(30) DEF IInv, NodeAccounting
  <2>6. (Len(tree_memory) + Len(queue) = 2 * Cardinality(Leaves))'
    <3>1. Len(tree_memory) + Len(queue) = 2 * Cardinality(Leaves)
      BY DEF IInv, NodeAccounting
    <3>2. Len(tree_memory') = Len(tree_memory) + 1 /\ Len(queue') = Len(queue) + 1
      BY <1>e, <1>1
    <3>3. Len(tree_memory) \in Nat /\ Len(queue) \in Nat
      BY <1>0
    <3>. QED
      BY <3>1, <3>2, <3>3, <2>4, SMTT(30)
  <2>7. (\A n \in Leaves : tree_memory[n].byte \in Alphabet)'
    BY Zenon, <1>1, <1>4, <1>6, <2>2 DEF IInv, NodeAccounting
  <2>8. (\A m, n \in Leaves : tree_memory[m].byte = tree_memory[n].byte => m = n)'
    BY SMTT(30), <1>1, <1>4, <1>6, <2>2, <2>3 DEF IInv, NodeAccounting
  <2>9. (\A n \in Nodes : Queued(n) /\ IsLeaf(n))'
    BY <1>1, <1>3, <1>5, <2>3, Zenon
  <2>10. (IF i = 0 THEN tree_memory = <<>> ELSE queue # <<>>)'
    BY SMTT(30), <1>0, <1>1, <1>2, <2>1
  <2>. QED
    BY SMTT(30), <2>5, <2>6, <2>7, <2>8, <2>9, <2>10 DEF NodeAccounting
<1>. QED
  BY <1>7, <1>9, <1>10 DEF IInv

\* An iteration of build_tree preserves the inductive invariant.
LEMMA MergeIInv == IInv /\ Merge => IInv'
<1>. SUFFICES ASSUME IInv, Merge PROVE IInv'
  OBVIOUS
<1>e. PICK e : e = Len(tree_memory) + 1
  OBVIOUS
<1>q. PICK a, b : a = queue[1] /\ b = queue[2]
  OBVIOUS
<1>1. /\ tree_memory' \in Seq(Node)
      /\ Len(tree_memory') = e
      /\ \A n \in Nodes : tree_memory'[n] = tree_memory[n]
      /\ tree_memory'[e] = internal(tree_memory, a, b)
      /\ a \in Nodes /\ b \in Nodes /\ a # b
      /\ Queued(a) /\ Queued(b)
      /\ queue' \in Seq(1..e)
      /\ Len(queue') = Len(queue) - 1
      /\ NoRepeats(queue')
      /\ \A n \in 1..e : Queued(n)' <=> n = e \/ (Queued(n) /\ n # a /\ n # b)
  BY <1>e, <1>q, MergeFacts, SMTT(30)
<1>0. /\ Len(tree_memory) \in Nat /\ Len(queue) \in Nat /\ Nodes = 1..e - 1
      /\ e \in Nat /\ e \notin Nodes /\ Len(queue') \in Nat
  BY <1>e, <1>1 DEF IInv, TypeOK, Nodes
<1>2. /\ data' = data /\ i' = i /\ i = Len(data) /\ Len(queue) >= 2
      /\ allocated_queue_size' = allocated_queue_size + 1
  BY DEF Merge
<1>3. Nodes' = Nodes \cup {e} /\ Nodes' = 1..e
  BY <1>0, <1>1 DEF Nodes
<1>4. /\ tree_memory'[e].left = a /\ tree_memory'[e].right = b
      /\ tree_memory'[e].byte = 0
  BY <1>1 DEF internal
<1>5. /\ \A n \in Nodes : IsLeaf(n)' <=> IsLeaf(n)
      /\ ~ IsLeaf(e)'
  BY <1>1, <1>4 DEF IsLeaf
<1>6. Leaves' = Leaves
  BY <1>0, <1>3, <1>5 DEF Leaves
<1>7. TypeOK'
  <2>1. allocated_queue_size + 1 \in Nat
    BY DEF IInv, TypeOK
  <2>. QED
    BY Zenon, <2>1, <1>1, <1>2, <1>3 DEF IInv, TypeOK
<1>8. \A m \in Nodes', n \in Nodes' :
        Parent(m, n)' <=> \/ m = e /\ (n = a \/ n = b)
                          \/ m \in Nodes /\ n \in Nodes /\ Parent(m, n)
  <2>1. \A n \in Nodes' : Parent(e, n)' <=> n = a \/ n = b
    BY <1>4 DEF Parent
  <2>2. ASSUME NEW m \in Nodes, NEW n \in Nodes
        PROVE  Parent(m, n)' <=> Parent(m, n)
    BY SMTT(30), <1>1 DEF Parent
  <2>3. ASSUME NEW m \in Nodes
        PROVE  ~ Parent(m, e)'
    <3>1. tree_memory'[m].left # e /\ tree_memory'[m].right # e
      <4>1. tree_memory[m].left \in 0..m-1 /\ tree_memory[m].right \in 0..m-1
        BY ChildrenAreOlder
      <4>2. m \in 1..e-1 /\ e \in Nat
        BY <1>0
      <4>3. tree_memory'[m] = tree_memory[m]
        BY <1>1
      <4>. QED
        BY <4>1, <4>2, <4>3
    <3>. QED
      BY <3>1 DEF Parent
  <2>. QED
    BY <1>0, <1>3, <2>1, <2>2, <2>3, SMTT(30)
<1>9. \A m \in Nodes : ~ Parent(m, a) /\ ~ Parent(m, b)
  BY SMTT(30), <1>1 DEF IInv, Forest
<1>10. Forest'
  <2>1. (\A j, k \in DOMAIN queue : queue[j] = queue[k] => j = k)'
    BY <1>1, SMTT(30) DEF NoRepeats
  <2>2. (\A n \in Nodes :
          LET t == tree_memory[n]
          IN  IF IsLeaf(n) THEN t.left = NULL /\ t.right = NULL
              ELSE t.left \in 1..n-1 /\ t.right \in 1..n-1 /\ t.left # t.right)'
    <3>1. a \in 1..e-1 /\ b \in 1..e-1
      BY <1>0, <1>1
    <3>. QED
      BY Zenon, <3>1, <1>1, <1>3, <1>4, <1>5 DEF IInv, Forest
  <2>3. (\A n \in Nodes : Queued(n) <=> ~ \E m \in Nodes : Parent(m, n))'
    <3>. SUFFICES ASSUME NEW n \in Nodes'
                  PROVE  Queued(n)' <=> ~ \E m \in Nodes' : Parent(m, n)'
      OBVIOUS
    <3>1. CASE n = e
      BY SMTT(30), <3>1, <1>0, <1>1, <1>3, <1>8
    <3>2. CASE n = a \/ n = b
      BY SMTT(30), <3>2, <1>0, <1>1, <1>3, <1>8
    <3>3. CASE n \in Nodes /\ n # a /\ n # b
      BY SMTT(30), <3>3, <1>0, <1>1, <1>3, <1>8 DEF IInv, Forest
    <3>. QED
      BY <3>1, <3>2, <3>3, <1>3, SMTT(30)
  <2>4. (\A m1, m2, n \in Nodes : Parent(m1, n) /\ Parent(m2, n) => m1 = m2)'
    BY <1>8, <1>9 DEF IInv, Forest
  <2>. QED
    BY <2>1, <2>2, <2>3, <2>4 DEF Forest
<1>11. NodeAccounting'
  <2>1. \A n \in Leaves : n \in Nodes /\ tree_memory'[n] = tree_memory[n]
    BY <1>1, SMTT(30) DEF Leaves
  <2>2. (allocated_queue_size = Len(tree_memory))'
    BY <1>e, <1>1, <1>2, SMTT(30) DEF IInv, NodeAccounting
  <2>3. (Len(tree_memory) + Len(queue) = 2 * Cardinality(Leaves))'
    <3>1. Len(tree_memory) + Len(queue) = 2 * Cardinality(Leaves)
      BY DEF IInv, NodeAccounting
    <3>2. Len(tree_memory') = Len(tree_memory) + 1 /\ Len(queue') = Len(queue) - 1
      BY <1>e, <1>1, SMTT(30)
    <3>3. Len(tree_memory) \in Nat /\ Len(queue) \in Nat
      BY <1>0
    <3>. QED
      BY <3>1, <3>2, <3>3, <1>6, SMTT(30)
  <2>4. (i < Len(data) => \A n \in Nodes : Queued(n) /\ IsLeaf(n))'
    BY <1>2 DEF IInv, TypeOK
  <2>5. (IF i = 0 THEN tree_memory = <<>> ELSE queue # <<>>)'
    <3>1. Len(queue') >= 1 /\ Len(data) \in Nat /\ data # <<>> /\ data \in Seq(Alphabet)
      BY <1>0, <1>1, <1>2, SMTT(30) DEF IInv, TypeOK
    <3>. QED
      BY <3>1, <1>1, <1>2, SMTT(30)
  <2>. QED
    BY SMTT(30), <2>1, <2>2, <2>3, <2>4, <2>5, <1>6 DEF IInv, NodeAccounting
<1>. QED
  BY <1>7, <1>10, <1>11 DEF IInv

\* The inductive invariant of build_queue and build_tree holds at every step.
LEMMA StepIInv == IInv /\ [Next]_treeVars => IInv'
<1>1. IInv /\ UNCHANGED treeVars => IInv'
  <2>. SUFFICES ASSUME IInv, UNCHANGED treeVars PROVE IInv'
    OBVIOUS
  <2>0. UNCHANGED <<data, i, tree_memory, queue, allocated_queue_size>>
    BY Zenon DEF treeVars
  <2>1. TypeOK'
    BY <2>0, SMTT(30) DEF IInv, TypeOK, Nodes
  <2>2. Forest'
    BY <2>0, SMTT(30) DEF IInv, Forest, Nodes, IsLeaf, Queued, Parent
  <2>3. NodeAccounting'
    BY <2>0, SMTT(30) DEF IInv, NodeAccounting, Nodes, Leaves, IsLeaf, Queued
  <2>. QED
    BY <2>1, <2>2, <2>3, Zenon DEF IInv
<1>. QED
  BY <1>1, CountSeenIInv, CountNewIInv, MergeIInv, SMTT(30) DEF Next

\* The queue and the tree are well formed and add up in every reachable state.
THEOREM Invariance == Spec => []IInv
  BY InitIInv, StepIInv, PTL DEF Spec

\* Every variable of build_queue and build_tree keeps its type; in particular
\* no pointer leaves the allocated nodes.
THEOREM TypeCorrect == Spec => []TypeOK
  BY Invariance, PTL DEF IInv

\* build_queue and build_tree never lose or share a node, whatever the block.
THEOREM ForestCorrect == Spec => []Forest
  BY Invariance, PTL DEF IInv

\* Each node takes one queue cell that is never given back, and nodes and queue
\* together are twice the leaves.
THEOREM AccountingCorrect == Spec => []NodeAccounting
  BY Invariance, PTL DEF IInv

\* There are at most ALPHABET_SIZE leaves, since no two have the same byte.
LEMMA LeavesWithinAlphabet ==
  IInv => /\ Cardinality(Leaves) \in Nat
          /\ Cardinality(Alphabet) \in Nat
          /\ Cardinality(Leaves) <= Cardinality(Alphabet)
<1>. SUFFICES ASSUME IInv
              PROVE  /\ Cardinality(Leaves) \in Nat
                     /\ Cardinality(Alphabet) \in Nat
                     /\ Cardinality(Leaves) <= Cardinality(Alphabet)
  OBVIOUS
<1>. DEFINE f == [n \in Leaves |-> tree_memory[n].byte]
<1>1. f \in Injection(Leaves, Alphabet)
  BY DEF Injection, IsInjective, IInv, NodeAccounting
<1>. HIDE DEF f
<1>. QED
  BY <1>1, AlphabetAssumption, FS_Injection, FS_CardinalityType, SMTT(30)

\* With at most N leaves and a queue that is not empty there are at most 2N - 1
\* nodes.
LEMMA NodesWithinBound == IInv => TreeMemoryBound
<1>. SUFFICES ASSUME IInv PROVE TreeMemoryBound
  OBVIOUS
<1>1. /\ Len(tree_memory) + Len(queue) = 2 * Cardinality(Leaves)
      /\ Len(tree_memory) \in Nat /\ Len(queue) \in Nat
      /\ queue \in Seq(Nodes) /\ data \in Seq(Alphabet) /\ data # <<>>
  BY DEF IInv, NodeAccounting, TypeOK
<1>2. Alphabet # {}
  <2>1. Len(data) \in Nat \ {0}
    BY <1>1, ElementOfSeq
  <2>2. data[1] \in Alphabet
    BY <1>1, <2>1, ElementOfSeq, SMTT(30)
  <2>. QED
    BY <2>2
<1>3. Cardinality(Alphabet) # 0
  BY <1>2, AlphabetAssumption, FS_EmptySet, SMTT(30)
<1>4. CASE i = 0
  <2>1. Len(tree_memory) = 0
    BY <1>4 DEF IInv, NodeAccounting
  <2>. QED
    BY <2>1, <1>3, LeavesWithinAlphabet, SMTT(30) DEF TreeMemoryBound, TREE_MAX_SIZE,
       ALPHABET_SIZE
<1>5. CASE i # 0
  <2>1. Len(queue) >= 1
    BY <1>1, <1>5, ElementOfSeq DEF IInv, NodeAccounting
  <2>. QED
    BY <2>1, <1>1, LeavesWithinAlphabet, SMTT(30) DEF TreeMemoryBound, TREE_MAX_SIZE,
       ALPHABET_SIZE
<1>. QED
  BY <1>4, <1>5

\* tree_alloc never passes the end of tree_memory[TREE_MAX_SIZE] of
\* huffman_compress, for every alphabet and every block over it.
THEOREM TreeMemorySuffices == Spec => []TreeMemoryBound
  BY Invariance, NodesWithinBound, PTL

\* queue_alloc takes at most QUEUE_MAX_SIZE cells for a block that uses no more
\* than half of the alphabet, and never more than TREE_MAX_SIZE, for every alphabet
\* and block.
THEOREM QueueCellsNeeded ==
  Spec => []QueueMemoryBound /\ [](allocated_queue_size <= TREE_MAX_SIZE)
<1>1. IInv => QueueMemoryBound
  <2>. SUFFICES ASSUME IInv PROVE QueueMemoryBound
    OBVIOUS
  <2>1. /\ Len(tree_memory) + Len(queue) = 2 * Cardinality(Leaves)
        /\ Len(tree_memory) \in Nat /\ Len(queue) \in Nat /\ queue \in Seq(Nodes)
        /\ allocated_queue_size = Len(tree_memory)
        /\ IF i = 0 THEN tree_memory = <<>> ELSE queue # <<>>
    BY DEF IInv, NodeAccounting, TypeOK
  <2>2. Cardinality(Alphabet) \in Nat
    BY AlphabetAssumption, FS_CardinalityType, SMTT(30)
  <2>3. CASE i = 0
    <3>1. Len(tree_memory) = 0
      BY <2>1, <2>3, SMTT(30)
    <3>. QED
      BY <2>1, <2>2, <3>1, SMTT(30) DEF QueueMemoryBound, QUEUE_MAX_SIZE, ALPHABET_SIZE
  <2>4. CASE i # 0
    <3>1. Len(queue) >= 1
      BY <2>1, <2>4, ElementOfSeq
    <3>2. Len(tree_memory) <= 2 * Cardinality(Leaves) - 1
      BY <2>1, <3>1, LeavesWithinAlphabet, SMTT(30)
    <3>. QED
      BY <2>1, <2>2, <3>2, LeavesWithinAlphabet, SMTT(30) DEF QueueMemoryBound,
         QUEUE_MAX_SIZE, ALPHABET_SIZE
  <2>. QED
    BY <2>3, <2>4
<1>2. NodeAccounting /\ TreeMemoryBound => allocated_queue_size <= TREE_MAX_SIZE
  BY DEF NodeAccounting, TreeMemoryBound
<1>. QED
  BY <1>1, <1>2, Invariance, AccountingCorrect, TreeMemorySuffices, PTL

\* A bound on the iterations that build_queue and build_tree have before them: a
\* byte costs one to count and one more to merge the leaf it may have added.
BuildLeft == 2 * (Len(data) - i) + Len(queue)

\* Every iteration of build_queue and of build_tree brings its end nearer.
LEMMA BuildAdvances ==
  ASSUME IInv, Next
  PROVE  BuildLeft \in Nat /\ BuildLeft' \in Nat /\ BuildLeft' < BuildLeft
<1>1. Len(data) \in Nat /\ i \in 0..Len(data) /\ Len(queue) \in Nat
  BY DEF IInv, TypeOK
<1>2. CASE CountSeen
  <2>1. i < Len(data) /\ i' = i + 1 /\ data' = data /\ queue' = queue
    BY <1>2 DEF CountSeen
  <2>. QED
    BY <1>1, <2>1 DEF BuildLeft
<1>3. CASE CountNew
  <2>1. i < Len(data) /\ i' = i + 1 /\ data' = data
    BY <1>3 DEF CountNew
  <2>2. Len(queue') = Len(queue) + 1
    BY <1>3, CountNewFacts, Zenon
  <2>. QED
    BY <1>1, <2>1, <2>2 DEF BuildLeft
<1>4. CASE Merge
  <2>1. Len(queue) >= 2 /\ i' = i /\ data' = data
    BY <1>4 DEF Merge
  <2>2. Len(queue') = Len(queue) - 1
    BY <1>4, MergeFacts, Zenon
  <2>. QED
    BY <1>1, <2>1, <2>2 DEF BuildLeft
<1>. QED
  BY <1>2, <1>3, <1>4 DEF Next

\* build_queue and build_tree together take at most two steps for each byte of the
\* block, whatever the block: every step takes BuildLeft, a natural number that
\* starts at twice the length, further down.
THEOREM BuildProgress ==
  Spec => /\ BuildLeft = 2 * Len(data)
          /\ [][BuildLeft' \in Nat /\ BuildLeft' < BuildLeft]_treeVars
<1>1. Init => BuildLeft = 2 * Len(data)
  <2>. SUFFICES ASSUME Init PROVE BuildLeft = 2 * Len(data)
    OBVIOUS
  <2>1. i = 0 /\ Len(queue) = 0
    BY DEF Init
  <2>2. Len(data) \in Nat
    BY InitIInv DEF IInv, TypeOK
  <2>. QED
    BY <2>1, <2>2 DEF BuildLeft
<1>2. IInv /\ [Next]_treeVars => [BuildLeft' \in Nat /\ BuildLeft' < BuildLeft]_treeVars
  BY BuildAdvances
<1>. QED
  BY <1>1, <1>2, Invariance, PTL DEF Spec

-----------------------------------------------------------------------------
(* The tree as a whole                                                     *)

below[n \in 0..Len(tree_memory)] ==
  IF n = 0 THEN {} ELSE {n} \cup below[tree_memory[n].left] \cup below[tree_memory[n].right]

\* The children of a node, as functions.
LEMMA Children ==
  ASSUME IInv
  PROVE  /\ Len(tree_memory) \in Nat /\ Nodes = 1..Len(tree_memory)
         /\ [n \in Nodes |-> tree_memory[n].left] \in [Nodes -> Nat]
         /\ [n \in Nodes |-> tree_memory[n].right] \in [Nodes -> Nat]
         /\ \A n \in Nodes : /\ tree_memory[n].left \in 0..Len(tree_memory) /\ tree_memory[n].left < n
                             /\ tree_memory[n].right \in 0..Len(tree_memory)
                             /\ tree_memory[n].right < n
<1>1. Len(tree_memory) \in Nat /\ Nodes = 1..Len(tree_memory)
  BY DEF IInv, TypeOK, Nodes
<1>2. ASSUME NEW n \in Nodes
      PROVE  /\ tree_memory[n].left \in 0..Len(tree_memory) /\ tree_memory[n].left < n
             /\ tree_memory[n].right \in 0..Len(tree_memory) /\ tree_memory[n].right < n
  BY <1>1, ChildrenAreOlder
<1>. QED
  BY <1>1, <1>2

\* What holds of NULL, and of a node whenever it holds of its children, holds of
\* every node.
LEMMA TreeInduction ==
  ASSUME IInv, NEW S, 0 \in S,
         \A n \in Nodes : tree_memory[n].left \in S /\ tree_memory[n].right \in S => n \in S
  PROVE  \A n \in 0..Len(tree_memory) : n \in S
<1>1. ASSUME NEW n \in 0..Len(tree_memory), \A k \in 0..n - 1 : k \in S PROVE n \in S
  <2>1. CASE n = 0
    BY <2>1
  <2>2. CASE n # 0
    <3>1. n \in Nodes
      BY <2>2, Children
    <3>2. tree_memory[n].left \in 0..n - 1 /\ tree_memory[n].right \in 0..n - 1
      BY <3>1, ChildrenAreOlder
    <3>. QED
      BY <1>1, <3>1, <3>2
  <2>. QED
    BY <2>1, <2>2
<1>. QED
  BY <1>1, Upwards, Children, Zenon

Computes(f, V, v0, G) ==
  /\ f \in [0..Len(tree_memory) -> V] /\ f[0] = v0
  /\ \A n \in Nodes : f[n] = G[n][f[tree_memory[n].left]][f[tree_memory[n].right]]

\* A function of the nodes that is given by its values at the two children exists.
LEMMA NodeRecursion ==
  ASSUME IInv, NEW V, NEW v0, v0 \in V, NEW G, G \in [Nodes -> [V -> [V -> V]]]
  PROVE  \E f : Computes(f, V, v0, G)
<1>. DEFINE t == Len(tree_memory)
            l == [n \in Nodes |-> tree_memory[n].left]
            r == [n \in Nodes |-> tree_memory[n].right]
<1>1. /\ t \in Nat /\ Nodes = 1..t /\ l \in [1..t -> Nat] /\ r \in [1..t -> Nat]
      /\ \A n \in 1..t : /\ l[n] = tree_memory[n].left /\ l[n] < n
                         /\ r[n] = tree_memory[n].right /\ r[n] < n
  BY Children
<1>. HIDE DEF t, l, r
<1>2. PICK f : Solves(f, t, V, v0, G, l, r)
  <2>1. Recursion(t, V, v0, G, l, r)
    BY <1>1 DEF Recursion
  <2>. QED
    BY <2>1, TreeRecursion, Zenon
<1>3. f \in [0..t -> V] /\ f[0] = v0 /\ \A n \in 1..t : f[n] = G[n][f[l[n]]][f[r[n]]]
  BY <1>2 DEF Solves
<1>4. Computes(f, V, v0, G)
  <2>1. \A n \in Nodes : f[n] = G[n][f[tree_memory[n].left]][f[tree_memory[n].right]]
    BY <1>1, <1>3, Zenon
  <2>. QED
    BY <1>3, <2>1, Zenon DEF Computes, t
<1>. QED
  BY <1>4

\* The nodes below a node.
LEMMA BelowIs ==
  ASSUME IInv
  PROVE  /\ below[0] = {}
         /\ \A n \in Nodes :
              below[n] = {n} \cup below[tree_memory[n].left] \cup below[tree_memory[n].right]
<1>. DEFINE t == Len(tree_memory)
            V == SUBSET Nat
            v0 == {}
            G == [n \in Nodes |-> [a \in V |-> [b \in V |-> {n} \cup a \cup b]]]
<1>1. /\ t \in Nat /\ Nodes = 1..t /\ v0 \in V
      /\ \A n \in Nodes : tree_memory[n].left \in 0..t /\ tree_memory[n].right \in 0..t
  BY Children
<1>2. \A n \in Nodes, a, b \in V : {n} \cup a \cup b \in V
  BY <1>1
<1>. HIDE DEF t, V, v0
<1>3. /\ G \in [Nodes -> [V -> [V -> V]]]
      /\ \A n \in Nodes, a, b \in V : G[n][a][b] = {n} \cup a \cup b
  BY <1>2
<1>. HIDE DEF G
<1>4. PICK f : Computes(f, V, v0, G)
  BY <1>1, <1>3, NodeRecursion, Zenon
<1>5. f = [n \in 0..t |->
             IF n = 0 THEN {} ELSE {n} \cup f[tree_memory[n].left] \cup f[tree_memory[n].right]]
  <2>1. f \in [0..t -> V] /\ f[0] = v0
    BY <1>4 DEF Computes, t
  <2>2. \A n \in Nodes : f[tree_memory[n].left] \in V /\ f[tree_memory[n].right] \in V
    BY <1>1, <2>1
  <2>3. \A n \in Nodes : f[n] = {n} \cup f[tree_memory[n].left] \cup f[tree_memory[n].right]
    <3>. SUFFICES ASSUME NEW n \in Nodes
                  PROVE  f[n] = {n} \cup f[tree_memory[n].left] \cup f[tree_memory[n].right]
      OBVIOUS
    <3>1. f[n] = G[n][f[tree_memory[n].left]][f[tree_memory[n].right]]
      BY <1>4, Zenon DEF Computes
    <3>2. \A a, b \in V : G[n][a][b] = {n} \cup a \cup b
      BY <1>3, Zenon
    <3>3. G[n][f[tree_memory[n].left]][f[tree_memory[n].right]]
            = {n} \cup f[tree_memory[n].left] \cup f[tree_memory[n].right]
      BY <2>2, <3>2, Zenon
    <3>. QED
      BY <3>1, <3>3, Zenon
  <2>. QED
    BY <1>1, <2>1, <2>3, SMTT(30) DEF v0
<1>6. below = [n \in 0..t |->
         IF n = 0 THEN {} ELSE {n} \cup below[tree_memory[n].left] \cup below[tree_memory[n].right]]
  BY <1>5, ZenonT(30) DEF below, t
<1>7. ASSUME NEW n \in 0..t
      PROVE  below[n] = IF n = 0 THEN {}
                        ELSE {n} \cup below[tree_memory[n].left] \cup below[tree_memory[n].right]
  BY <1>6, Zenon
<1>8. 0 \in 0..t /\ \A n \in Nodes : n \in 0..t /\ n # 0
  BY <1>1
<1>. QED
  BY <1>7, <1>8, Zenon

\* Only older nodes, and the node itself, are below a node.
LEMMA BelowOlder ==
  ASSUME IInv
  PROVE  /\ \A n \in 0..Len(tree_memory) : below[n] \subseteq 1..n
         /\ \A n \in Nodes : n \in below[n]
<1>. DEFINE S == {n \in 0..Len(tree_memory) : below[n] \subseteq 1..n}
<1>1. 0 \in S
  BY BelowIs, Children
<1>2. ASSUME NEW n \in Nodes, tree_memory[n].left \in S, tree_memory[n].right \in S
      PROVE  n \in S
  <2>1. tree_memory[n].left < n /\ tree_memory[n].right < n /\ n \in 0..Len(tree_memory)
    BY Children
  <2>. QED
    BY <1>2, <2>1, BelowIs
<1>. HIDE DEF S
<1>3. \A n \in 0..Len(tree_memory) : n \in S
  BY <1>1, <1>2, TreeInduction
<1>. QED
  BY <1>3, BelowIs DEF S

\* With a node its children are below.
LEMMA BelowClosed ==
  ASSUME IInv, NEW n \in 0..Len(tree_memory), NEW m \in below[n], NEW x \in Nodes, Parent(m, x)
  PROVE  x \in below[n]
<1>. DEFINE S == {j \in 0..Len(tree_memory) :
                    \A a \in below[j], b \in Nodes : Parent(a, b) => b \in below[j]}
<1>1. 0 \in S
  BY BelowIs, Children
<1>2. ASSUME NEW j \in Nodes, tree_memory[j].left \in S, tree_memory[j].right \in S
      PROVE  j \in S
  <2>1. j \in 0..Len(tree_memory)
    BY Children
  <2>2. ASSUME NEW a \in below[j], NEW b \in Nodes, Parent(a, b) PROVE b \in below[j]
    <3>1. CASE a = j
      BY <2>2, <3>1, BelowIs, BelowOlder DEF Parent
    <3>2. CASE a # j
      BY <1>2, <2>2, <3>2, BelowIs
    <3>. QED
      BY <3>1, <3>2
  <2>. QED
    BY <2>1, <2>2
<1>. HIDE DEF S
<1>3. \A j \in 0..Len(tree_memory) : j \in S
  BY <1>1, <1>2, TreeInduction
<1>. QED
  BY <1>3 DEF S

\* Whatever is below a node hangs there by a parent that is below it too.
LEMMA BelowParents ==
  ASSUME IInv, NEW n \in 0..Len(tree_memory), NEW x \in below[n], x # n
  PROVE  \E m \in below[n] : Parent(m, x)
<1>. DEFINE S == {j \in 0..Len(tree_memory) :
                    \A b \in below[j] : b # j => \E m \in below[j] : Parent(m, b)}
<1>1. 0 \in S
  BY BelowIs, Children
<1>2. ASSUME NEW j \in Nodes, tree_memory[j].left \in S, tree_memory[j].right \in S
      PROVE  j \in S
  <2>1. j \in 0..Len(tree_memory) /\ j \in below[j]
    BY Children, BelowOlder
  <2>2. ASSUME NEW b \in below[j], b # j PROVE \E m \in below[j] : Parent(m, b)
    <3>1. CASE Parent(j, b)
      BY <2>1, <3>1
    <3>2. CASE b \in below[tree_memory[j].left] /\ b # tree_memory[j].left
      <4>1. PICK m \in below[tree_memory[j].left] : Parent(m, b)
        BY <1>2, <3>2
      <4>. QED
        BY <4>1, BelowIs
    <3>3. CASE b \in below[tree_memory[j].right] /\ b # tree_memory[j].right
      <4>1. PICK m \in below[tree_memory[j].right] : Parent(m, b)
        BY <1>2, <3>3
      <4>. QED
        BY <4>1, BelowIs
    <3>. QED
      BY <2>2, <3>1, <3>2, <3>3, BelowIs DEF Parent
  <2>. QED
    BY <2>1, <2>2
<1>. HIDE DEF S
<1>3. \A j \in 0..Len(tree_memory) : j \in S
  BY <1>1, <1>2, TreeInduction
<1>. QED
  BY <1>3 DEF S

\* The two subtrees of a node have no node in common.
LEMMA BelowDisjoint ==
  ASSUME IInv, NEW n \in Nodes, ~ IsLeaf(n)
  PROVE  /\ below[tree_memory[n].left] \cap below[tree_memory[n].right] = {}
         /\ n \notin below[tree_memory[n].left] /\ n \notin below[tree_memory[n].right]
<1>. DEFINE t == Len(tree_memory)
            l == tree_memory[n].left
            r == tree_memory[n].right
<1>1. /\ t \in Nat /\ Nodes = 1..t /\ l \in Nodes /\ r \in Nodes /\ l # r /\ l < n /\ r < n
      /\ l \in 0..t /\ r \in 0..t
  <2>1. l \in 1..n - 1 /\ r \in 1..n - 1 /\ l # r
    BY DEF IInv, Forest
  <2>. QED
    BY <2>1, Children
<1>2. /\ below[l] \subseteq 1..l /\ below[r] \subseteq 1..r /\ below[l] \subseteq Nodes
      /\ below[r] \subseteq Nodes
  BY <1>1, BelowOlder
<1>3. n \notin below[l] /\ n \notin below[r]
  BY <1>1, <1>2
<1>4. Parent(n, l) /\ Parent(n, r)
  BY DEF Parent
<1>. HIDE DEF t, l, r
<1>. DEFINE S == {x \in 1..t : ~ (x \in below[l] /\ x \in below[r])}
<1>5. ASSUME NEW x \in 1..t, \A k \in x + 1..t : k \in S PROVE x \in S
  <2>. SUFFICES ASSUME x \in below[l], x \in below[r] PROVE FALSE
    OBVIOUS
  <2>1. CASE x = l
    <3>1. PICK m \in below[r] : Parent(m, l)
      BY <1>1, <2>1, BelowParents DEF t
    <3>2. m = n
      BY <1>1, <1>2, <1>4, <3>1 DEF IInv, Forest
    <3>. QED
      BY <1>3, <3>2
  <2>2. CASE x = r
    <3>1. PICK m \in below[l] : Parent(m, r)
      BY <1>1, <2>2, BelowParents DEF t
    <3>2. m = n
      BY <1>1, <1>2, <1>4, <3>1 DEF IInv, Forest
    <3>. QED
      BY <1>3, <3>2
  <2>3. CASE x # l /\ x # r
    <3>1. PICK a \in below[l] : Parent(a, x)
      BY <1>1, <2>3, BelowParents DEF t
    <3>2. PICK b \in below[r] : Parent(b, x)
      BY <1>1, <2>3, BelowParents DEF t
    <3>3. a \in Nodes /\ b \in Nodes /\ x \in Nodes
      BY <1>1, <1>2
    <3>4. a = b
      BY <3>1, <3>2, <3>3, ZenonT(30) DEF IInv, Forest
    <3>5. x < a
      BY <3>1, <3>3, Children DEF Parent
    <3>6. a \in x + 1..t
      BY <1>1, <3>3, <3>5
    <3>. QED
      BY <1>5, <3>4, <3>6
  <2>. QED
    BY <2>1, <2>2, <2>3
<1>6. \A x \in 1..t : x \in S
  <2>. HIDE DEF S
  <2>. QED
    BY <1>1, <1>5, Downwards, Zenon
<1>7. below[l] \cap below[r] = {}
  BY <1>1, <1>2, <1>6
<1>. QED
  BY <1>3, <1>7 DEF l, r

\* The last node in the queue is above all others.
LEMMA BelowRoot ==
  ASSUME IInv, TreeBuilt
  PROVE  root \in Nodes /\ below[root] = Nodes
<1>. DEFINE t == Len(tree_memory)
<1>1. /\ root \in Nodes /\ t \in Nat /\ Nodes = 1..t /\ root \in 0..t
      /\ \A n \in Nodes : Queued(n) => n = root
  <2>1. queue \in Seq(Nodes) /\ Len(queue) = 1
    BY DEF IInv, TypeOK, TreeBuilt
  <2>2. root \in Nodes /\ \A n \in Nodes : Queued(n) => n = root
    BY <2>1 DEF root, Queued
  <2>. QED
    BY <2>2, Children
<1>. DEFINE S == {x \in 1..t : x \in below[root]}
<1>2. ASSUME NEW x \in 1..t, \A k \in x + 1..t : k \in S PROVE x \in S
  <2>1. CASE x = root
    BY <1>1, <2>1, BelowOlder
  <2>2. CASE x # root
    <3>1. PICK m \in Nodes : Parent(m, x)
      BY <1>1, <2>2 DEF IInv, Forest
    <3>2. x < m
      BY <1>1, <3>1, Children DEF Parent
    <3>3. m \in x + 1..t
      BY <1>1, <3>1, <3>2
    <3>4. m \in below[root]
      BY <1>2, <3>3
    <3>. QED
      BY <1>1, <3>1, <3>4, BelowClosed
  <2>. QED
    BY <2>1, <2>2
<1>3. \A x \in 1..t : x \in S
  <2>. HIDE DEF S, t
  <2>. QED
    BY <1>1, <1>2, Downwards, ZenonT(30)
<1>4. below[root] \subseteq Nodes
  BY <1>1, BelowOlder
<1>. QED
  BY <1>1, <1>3, <1>4, ZenonT(30)

-----------------------------------------------------------------------------
(* The weights: Weighed is what a step preserves, the sum of a node still  *)
(* modulo WORD.                                                            *)

Occurrences(d, m, b) == {j \in 1..m : d[j] = b}

Weighed ==
  /\ Len(data) < WORD
  /\ \A n \in Nodes :
       tree_memory[n].weight =
         IF IsLeaf(n)
         THEN Cardinality(Occurrences(data, i, tree_memory[n].byte))
         ELSE (tree_memory[tree_memory[n].left].weight
                 + tree_memory[tree_memory[n].right].weight) % WORD
  /\ {data[j] : j \in 1..i} = {tree_memory[n].byte : n \in Leaves}

\* A uint16_t sum that is small enough is exact.
LEMMA SmallMod == \A x \in Nat : x < WORD => x % WORD = x
  BY WordAssumption

\* A byte occurs at most as often as bytes were counted.
LEMMA OccurrencesBound ==
  ASSUME NEW m \in Nat, NEW S, S \subseteq 1..m
  PROVE  IsFiniteSet(S) /\ Cardinality(S) \in 0..m
<1>1. IsFiniteSet(1..m) /\ Cardinality(1..m) = m
  BY FS_Interval
<1>. QED
  <2>1. IsFiniteSet(S) /\ Cardinality(S) <= Cardinality(1..m)
    BY <1>1, FS_Subset, Zenon
  <2>. QED
    BY <1>1, <2>1, FS_CardinalityType

\* Counting one more byte adds one to the occurrences of that byte only.
LEMMA OccurrencesStep ==
  ASSUME NEW d, NEW m \in Nat, NEW b
  PROVE  Cardinality(Occurrences(d, m + 1, b)) =
           Cardinality(Occurrences(d, m, b)) + (IF d[m + 1] = b THEN 1 ELSE 0)
<1>1. IsFiniteSet(Occurrences(d, m, b)) /\ Cardinality(Occurrences(d, m, b)) \in Nat
  BY OccurrencesBound DEF Occurrences
<1>2. CASE d[m + 1] = b
  <2>1. /\ Occurrences(d, m + 1, b) = Occurrences(d, m, b) \cup {m + 1}
        /\ m + 1 \notin Occurrences(d, m, b)
    BY <1>2 DEF Occurrences
  <2>. QED
    BY <1>1, <1>2, <2>1, FS_AddElement
<1>3. CASE d[m + 1] # b
  <2>1. Occurrences(d, m + 1, b) = Occurrences(d, m, b)
    BY <1>3 DEF Occurrences
  <2>. QED
    BY <1>1, <1>3, <2>1
<1>. QED
  BY <1>2, <1>3

\* The increment of a weight is exact: no byte occurs WORD times.
LEMMA CountSeenWeighed == IInv /\ Weighed /\ CountSeen => Weighed'
<1>. SUFFICES ASSUME IInv, Weighed, CountSeen PROVE Weighed'
  OBVIOUS
<1>1. /\ Len(tree_memory') = Len(tree_memory)
      /\ \A n \in Nodes : tree_memory'[n].byte = tree_memory[n].byte
  BY CountSeenFacts
<1>2. /\ data' = data /\ i' = i + 1 /\ i < Len(data) /\ i \in Nat /\ Len(data) \in Nat
      /\ tree_memory \in Seq(Node) /\ queue \in Seq(Nodes) /\ DOMAIN tree_memory = Nodes
      /\ \A n \in Nodes : tree_memory[n] \in Node
  BY DEF CountSeen, IInv, TypeOK, Nodes
<1>3. PICK k \in DOMAIN queue :
        /\ tree_memory[queue[k]].byte = data[i + 1]
        /\ tree_memory' = [tree_memory EXCEPT ![queue[k]].weight = (@ + 1) % WORD]
  BY ZenonT(30) DEF CountSeen
<1>. DEFINE q == queue[k]
<1>4. q \in Nodes
  BY <1>2
<1>5. \A n \in Nodes : tree_memory'[n].weight =
        IF n = q THEN (tree_memory[n].weight + 1) % WORD ELSE tree_memory[n].weight
  BY <1>2, <1>3, <1>4 DEF Node
<1>6. Nodes' = Nodes /\ \A n \in Nodes : IsLeaf(n) /\ IsLeaf(n)'
  BY <1>1, <1>2, ZenonT(30) DEF IInv, NodeAccounting, Nodes, IsLeaf
<1>7. Leaves = Nodes /\ Leaves' = Nodes
  BY <1>6 DEF Leaves
<1>9. ASSUME NEW n \in Nodes
      PROVE  tree_memory'[n].weight = Cardinality(Occurrences(data, i + 1, tree_memory'[n].byte))
  <2>. DEFINE b == tree_memory[n].byte
              c == Cardinality(Occurrences(data, i, b))
  <2>1. tree_memory[n].weight = c /\ Len(data) < WORD
    BY <1>6 DEF Weighed
  <2>2. c \in 0..i
    BY <1>2, OccurrencesBound DEF Occurrences
  <2>3. Cardinality(Occurrences(data, i + 1, b)) = c + (IF data[i + 1] = b THEN 1 ELSE 0)
    BY <1>2, OccurrencesStep, ZenonT(30)
  <2>5. n = q <=> data[i + 1] = b
    BY <1>3, <1>4, <1>7 DEF IInv, NodeAccounting
  <2>6. (c + 1) % WORD = c + 1
    <3>. HIDE DEF c
    <3>1. c + 1 \in Nat /\ c + 1 < WORD
      BY <1>2, <2>1, <2>2, WordAssumption
    <3>. QED
      BY <3>1, SmallMod
  <2>7. tree_memory'[n].weight = Cardinality(Occurrences(data, i + 1, b))
    <3>. HIDE DEF c, b, q
    <3>. QED
      BY <1>5, <2>1, <2>2, <2>3, <2>5, <2>6
  <2>. QED
    BY <1>1, <2>7
<1>10. {data[j] : j \in 1..i + 1} = {data[j] : j \in 1..i}
  <2>1. data[i + 1] \in {data[j] : j \in 1..i}
    BY <1>3, <1>4, <1>7 DEF Weighed
  <2>2. 1..i + 1 = (1..i) \cup {i + 1}
    BY <1>2
  <2>. QED
    BY <2>1, <2>2
<1>11. {tree_memory'[n].byte : n \in Nodes} = {tree_memory[n].byte : n \in Nodes}
  BY <1>1
<1>12. \A n \in Nodes' : IsLeaf(n)' /\ tree_memory'[n].weight =
                                Cardinality(Occurrences(data', i', tree_memory'[n].byte))
  BY <1>2, <1>6, <1>9
<1>13. {data'[j] : j \in 1..i'} = {tree_memory'[n].byte : n \in Leaves'}
  BY <1>2, <1>7, <1>10, <1>11, ZenonT(30) DEF Weighed
<1>14. Len(data') < WORD
  BY <1>2 DEF Weighed
<1>. QED
  BY <1>12, <1>13, <1>14, Zenon DEF Weighed

\* A new byte did not occur before, and its leaf weighs 1.
LEMMA CountNewWeighed == IInv /\ Weighed /\ CountNew => Weighed'
<1>. SUFFICES ASSUME IInv, Weighed, CountNew PROVE Weighed'
  OBVIOUS
<1>e. PICK e : e = Len(tree_memory) + 1
  OBVIOUS
<1>1. /\ Len(tree_memory') = e
      /\ \A n \in Nodes : tree_memory'[n] = tree_memory[n]
      /\ tree_memory'[e] = leaf(data[i + 1])
      /\ data[i + 1] # 0
  BY <1>e, CountNewFacts
<1>2. /\ data' = data /\ i' = i + 1 /\ i < Len(data) /\ i \in Nat /\ Len(data) \in Nat
      /\ Len(tree_memory) \in Nat /\ queue \in Seq(Nodes)
      /\ \A k \in DOMAIN queue : tree_memory[queue[k]].byte # data[i + 1]
  BY DEF CountNew, IInv, TypeOK
<1>3. Nodes' = Nodes \cup {e} /\ e \notin Nodes
  BY <1>1, <1>2, <1>e DEF Nodes
<1>4. \A n \in Nodes : IsLeaf(n) /\ IsLeaf(n)' /\ tree_memory[n].byte # data[i + 1]
  BY <1>1, <1>2 DEF IInv, NodeAccounting, IsLeaf, Queued
<1>5. tree_memory'[e].byte = data[i + 1] /\ tree_memory'[e].weight = 1 % WORD /\ IsLeaf(e)'
  BY <1>1 DEF leaf, IsLeaf
<1>6. Leaves = Nodes /\ Leaves' = Nodes \cup {e}
  BY <1>3, <1>4, <1>5 DEF Leaves
<1>8. ASSUME NEW n \in Nodes
      PROVE  tree_memory'[n].weight = Cardinality(Occurrences(data, i + 1, tree_memory'[n].byte))
  <2>1. tree_memory[n].weight = Cardinality(Occurrences(data, i, tree_memory[n].byte))
    BY <1>4 DEF Weighed
  <2>2. Cardinality(Occurrences(data, i, tree_memory[n].byte)) \in 0..i
    BY <1>2, OccurrencesBound DEF Occurrences
  <2>3. Cardinality(Occurrences(data, i + 1, tree_memory[n].byte)) =
          Cardinality(Occurrences(data, i, tree_memory[n].byte)) + 0
    BY <1>2, <1>4, OccurrencesStep, Zenon
  <2>. QED
    BY <1>1, <2>1, <2>2, <2>3
<1>9. tree_memory'[e].weight = Cardinality(Occurrences(data, i + 1, tree_memory'[e].byte))
  <2>1. Occurrences(data, i, data[i + 1]) = {}
    <3>1. data[i + 1] \notin {data[j] : j \in 1..i}
      BY <1>4, <1>6, ZenonT(30) DEF Weighed
    <3>. QED
      BY <3>1 DEF Occurrences
  <2>2. Cardinality(Occurrences(data, i + 1, data[i + 1])) = 1
    <3>1. Cardinality(Occurrences(data, i + 1, data[i + 1])) =
            Cardinality(Occurrences(data, i, data[i + 1])) + 1
      BY <1>2, OccurrencesStep
    <3>. QED
      BY <2>1, <3>1, FS_EmptySet
  <2>3. 1 % WORD = 1
    BY <1>2, WordAssumption, SmallMod DEF Weighed
  <2>. QED
    BY <1>5, <2>2, <2>3
<1>10. {data[j] : j \in 1..i + 1} = {data[j] : j \in 1..i} \cup {data[i + 1]}
  <2>1. 1..i + 1 = (1..i) \cup {i + 1}
    BY <1>2
  <2>. QED
    BY <2>1
<1>11. {tree_memory'[n].byte : n \in Leaves'} = {tree_memory[n].byte : n \in Leaves} \cup {data[i + 1]}
  BY <1>1, <1>5, <1>6
<1>12. \A n \in Nodes' : IsLeaf(n)' /\ tree_memory'[n].weight =
                                Cardinality(Occurrences(data', i', tree_memory'[n].byte))
  BY <1>2, <1>3, <1>4, <1>5, <1>8, <1>9
<1>13. {data'[j] : j \in 1..i'} = {tree_memory'[n].byte : n \in Leaves'}
  <2>1. {data[j] : j \in 1..i} = {tree_memory[n].byte : n \in Leaves}
    BY ZenonT(30) DEF Weighed
  <2>2. {data'[j] : j \in 1..i'} = {data[j] : j \in 1..i + 1}
    BY <1>2
  <2>. QED
    BY <1>10, <1>11, <2>1, <2>2, Zenon
<1>14. Len(data') < WORD
  BY <1>2 DEF Weighed
<1>. QED
  BY <1>12, <1>13, <1>14, Zenon DEF Weighed

\* A merged node weighs what its children weigh, up to the width of a uint16_t.
LEMMA MergeWeighed == IInv /\ Weighed /\ Merge => Weighed'
<1>. SUFFICES ASSUME IInv, Weighed, Merge PROVE Weighed'
  OBVIOUS
<1>e. PICK e : e = Len(tree_memory) + 1
  OBVIOUS
<1>1. /\ Len(tree_memory') = e
      /\ \A n \in Nodes : tree_memory'[n] = tree_memory[n]
      /\ tree_memory'[e] = internal(tree_memory, queue[1], queue[2])
      /\ queue[1] \in Nodes /\ queue[2] \in Nodes
  BY <1>e, MergeFacts
<1>2. data' = data /\ i' = i /\ Len(tree_memory) \in Nat
  BY DEF Merge, IInv, TypeOK
<1>3. Nodes' = Nodes \cup {e} /\ e \notin Nodes
  BY <1>1, <1>2, <1>e DEF Nodes
<1>4. \A n \in Nodes : IsLeaf(n)' <=> IsLeaf(n)
  BY <1>1 DEF IsLeaf
<1>5. /\ ~ IsLeaf(e)' /\ tree_memory'[e].left = queue[1] /\ tree_memory'[e].right = queue[2]
      /\ tree_memory'[e].weight = (tree_memory[queue[1]].weight + tree_memory[queue[2]].weight) % WORD
  BY <1>1 DEF internal, IsLeaf
<1>6. Leaves' = Leaves /\ Leaves \subseteq Nodes
  BY <1>3, <1>4, <1>5, SMTT(30) DEF Leaves
<1>8. ASSUME NEW n \in Nodes, ~ IsLeaf(n)
      PROVE  tree_memory[n].left \in Nodes /\ tree_memory[n].right \in Nodes
  BY <1>8, Children DEF IInv, Forest
<1>9. {tree_memory'[n].byte : n \in Leaves} = {tree_memory[n].byte : n \in Leaves}
  BY <1>1, <1>6, Zenon
<1>10. ASSUME NEW n \in Nodes'
       PROVE  tree_memory'[n].weight =
                IF IsLeaf(n)'
                THEN Cardinality(Occurrences(data', i', tree_memory'[n].byte))
                ELSE (tree_memory'[tree_memory'[n].left].weight
                        + tree_memory'[tree_memory'[n].right].weight) % WORD
  <2>1. CASE n = e
    BY <1>1, <1>5, <2>1, ZenonT(30)
  <2>2. CASE n # e
    <3>1. n \in Nodes
      BY <1>3, <2>2
    <3>2. CASE IsLeaf(n)
      BY <1>1, <1>2, <1>4, <3>1, <3>2, ZenonT(30) DEF Weighed
    <3>3. CASE ~ IsLeaf(n)
      BY <1>1, <1>4, <1>8, <3>1, <3>3 DEF Weighed
    <3>. QED
      BY <3>2, <3>3
  <2>. QED
    BY <2>1, <2>2, ZenonT(30)
<1>11. {data'[j] : j \in 1..i'} = {tree_memory'[n].byte : n \in Leaves'}
  BY <1>2, <1>6, <1>9, Zenon DEF Weighed
<1>12. Len(data') < WORD
  BY <1>2, ZenonT(30) DEF Weighed
<1>. QED
  BY <1>10, <1>11, <1>12, Zenon DEF Weighed

\* Nothing is counted and nothing is weighed.
LEMMA InitWeighed == Init => Weighed
<1>. SUFFICES ASSUME Init PROVE Weighed
  OBVIOUS
<1>1. Nodes = {} /\ Leaves = {} /\ 1..i = {}
  BY DEF Init, Nodes, Leaves
<1>2. {data[j] : j \in 1..i} = {} /\ {tree_memory[n].byte : n \in Leaves} = {}
  BY <1>1
<1>3. Len(data) < WORD
  BY BlocksAssumption DEF Init
<1>. QED
  BY <1>1, <1>2, <1>3, ZenonT(30) DEF Weighed

\* Counting and merging keep the weights right.
LEMMA StepWeighed == IInv /\ Weighed /\ [Next]_treeVars => Weighed'
<1>1. Weighed /\ UNCHANGED treeVars => Weighed'
  <2>. SUFFICES ASSUME Weighed, UNCHANGED treeVars PROVE Weighed'
    OBVIOUS
  <2>1. data' = data /\ i' = i /\ tree_memory' = tree_memory
    BY DEF treeVars
  <2>2. Nodes' = Nodes /\ Leaves' = Leaves /\ \A n : IsLeaf(n)' <=> IsLeaf(n)
    BY <2>1 DEF Nodes, Leaves, IsLeaf
  <2>. QED
    BY <2>1, <2>2, Zenon DEF Weighed
<1>. QED
  BY <1>1, CountSeenWeighed, CountNewWeighed, MergeWeighed DEF Next

\* A tree under construction is weighed at every step.
THEOREM WeighedInvariance == Spec => [](IInv /\ Weighed)
  BY InitWeighed, StepWeighed, Invariance, PTL DEF Spec

CountedBelow(n) == {j \in 1..i : \E x \in below[n] : data[j] = tree_memory[x].byte}

\* A byte is counted below one of the two children.
LEMMA CountedBelowSum ==
  ASSUME IInv, NEW k \in Nodes, ~ IsLeaf(k), NEW l, l = tree_memory[k].left,
         NEW r, r = tree_memory[k].right
  PROVE  /\ l \in Nodes /\ r \in Nodes
         /\ Cardinality(CountedBelow(l)) \in Nat /\ Cardinality(CountedBelow(r)) \in Nat
         /\ Cardinality(CountedBelow(k)) \in 0..i
         /\ Cardinality(CountedBelow(k)) = Cardinality(CountedBelow(l)) + Cardinality(CountedBelow(r))
<1>1. /\ i \in Nat /\ l \in Nodes /\ r \in Nodes /\ Nodes = 1..Len(tree_memory)
      /\ \A j \in 1..i : data[j] # 0
  <2>1. \A j \in 1..i : data[j] \in Alphabet
    BY DEF IInv, TypeOK
  <2>. QED
    BY <2>1, Children, AlphabetAssumption DEF IInv, TypeOK, Forest
<1>2. /\ below[k] = {k} \cup below[l] \cup below[r] /\ below[l] \cap below[r] = {}
      /\ below[l] \subseteq Nodes /\ below[r] \subseteq Nodes
  <2>1. below[l] \subseteq 1..l /\ below[r] \subseteq 1..r
    BY <1>1, BelowOlder
  <2>2. below[l] \subseteq Nodes /\ below[r] \subseteq Nodes
    BY <1>1, <2>1, SMTT(30)
  <2>. QED
    BY <2>2, BelowIs, BelowDisjoint, ZenonT(30)
<1>3. CountedBelow(k) = CountedBelow(l) \cup CountedBelow(r)
  <2>1. \A j \in 1..i : data[j] # tree_memory[k].byte
    BY <1>1 DEF IsLeaf
  <2>. QED
    BY <1>2, <2>1 DEF CountedBelow
<1>4. CountedBelow(l) \cap CountedBelow(r) = {}
  <2>. SUFFICES ASSUME NEW j \in CountedBelow(l), j \in CountedBelow(r) PROVE FALSE
    OBVIOUS
  <2>1. PICK x \in below[l] : data[j] = tree_memory[x].byte
    BY DEF CountedBelow
  <2>2. PICK y \in below[r] : data[j] = tree_memory[y].byte
    BY DEF CountedBelow
  <2>3. data[j] # 0
    BY <1>1 DEF CountedBelow
  <2>4. x \in Leaves /\ y \in Leaves
    BY <1>2, <2>1, <2>2, <2>3, Zenon DEF Leaves, IsLeaf
  <2>5. x = y
    BY <2>1, <2>2, <2>4, ZenonT(30) DEF IInv, NodeAccounting
  <2>. QED
    BY <1>2, <2>5
<1>5. \A n : IsFiniteSet(CountedBelow(n)) /\ Cardinality(CountedBelow(n)) \in 0..i
  BY <1>1, OccurrencesBound DEF CountedBelow
<1>6. Cardinality(CountedBelow(k)) = Cardinality(CountedBelow(l)) + Cardinality(CountedBelow(r))
  <2>1. Cardinality(CountedBelow(k)) =
          Cardinality(CountedBelow(l)) + Cardinality(CountedBelow(r)) - Cardinality({})
    BY <1>3, <1>4, <1>5, FS_Union
  <2>. QED
    BY <1>1, <1>5, <2>1, FS_EmptySet
<1>. QED
  BY <1>1, <1>5, <1>6, SMTT(30)

\* A node weighs as many bytes of the block as have their leaf below it.
LEMMA WeightBelow ==
  ASSUME IInv, Weighed
  PROVE  \A n \in Nodes : tree_memory[n].weight = Cardinality(CountedBelow(n))
<1>. DEFINE t == Len(tree_memory)
            S == {k \in 0..t : k # 0 => tree_memory[k].weight = Cardinality(CountedBelow(k))}
<1>1. /\ t \in Nat /\ Nodes = 1..t /\ i \in Nat /\ i <= Len(data) /\ Len(data) \in Nat
  BY Children DEF IInv, TypeOK
<1>2. 0 \in S
  BY <1>1
<1>3. ASSUME NEW k \in Nodes, tree_memory[k].left \in S, tree_memory[k].right \in S
      PROVE  k \in S
  <2>1. CASE IsLeaf(k)
    <3>1. below[k] = {k}
      BY <2>1, BelowIs DEF IInv, Forest, NULL
    <3>2. CountedBelow(k) = Occurrences(data, i, tree_memory[k].byte)
      BY <3>1 DEF CountedBelow, Occurrences
    <3>. QED
      BY <1>1, <2>1, <3>2 DEF Weighed
  <2>2. CASE ~ IsLeaf(k)
    <3>. DEFINE l == tree_memory[k].left
                r == tree_memory[k].right
    <3>1. /\ l \in Nodes /\ r \in Nodes
          /\ Cardinality(CountedBelow(k)) \in 0..i
          /\ Cardinality(CountedBelow(k)) = Cardinality(CountedBelow(l)) + Cardinality(CountedBelow(r))
      BY <2>2, CountedBelowSum
    <3>2. /\ tree_memory[l].weight = Cardinality(CountedBelow(l))
          /\ tree_memory[r].weight = Cardinality(CountedBelow(r))
      BY <1>1, <1>3, <3>1, SMTT(30)
    <3>3. tree_memory[k].weight = Cardinality(CountedBelow(k)) % WORD
      BY <2>2, <3>1, <3>2, ZenonT(30) DEF Weighed
    <3>4. Cardinality(CountedBelow(k)) \in Nat /\ Cardinality(CountedBelow(k)) < WORD
      BY <1>1, <3>1, WordAssumption DEF Weighed
    <3>. QED
      BY <1>1, <3>3, <3>4, SmallMod
  <2>. QED
    BY <2>1, <2>2
<1>4. \A k \in 0..t : k \in S
  <2>. HIDE DEF S
  <2>. QED
    BY <1>2, <1>3, TreeInduction
<1>. QED
  BY <1>1, <1>4

\* The sum of two weights never wraps around, and the root weighs the block.
LEMMA WeightsExact == IInv /\ Weighed => WeightsCount
<1>. SUFFICES ASSUME IInv, Weighed PROVE WeightsCount
  OBVIOUS
<1>1. ASSUME NEW n \in Nodes, ~ IsLeaf(n)
      PROVE  tree_memory[n].weight = tree_memory[tree_memory[n].left].weight
                                       + tree_memory[tree_memory[n].right].weight
  <2>1. /\ tree_memory[n].left \in Nodes /\ tree_memory[n].right \in Nodes
        /\ Cardinality(CountedBelow(n)) = Cardinality(CountedBelow(tree_memory[n].left))
                                            + Cardinality(CountedBelow(tree_memory[n].right))
    BY <1>1, CountedBelowSum
  <2>. QED
    BY <2>1, WeightBelow
<1>2. ASSUME TreeBuilt PROVE tree_memory[root].weight = Len(data)
  <2>1. root \in Nodes /\ below[root] = Nodes
    BY <1>2, BelowRoot
  <2>2. CountedBelow(root) = 1..i
    <3>1. \A j \in 1..i : \E x \in Leaves : data[j] = tree_memory[x].byte
      BY ZenonT(30) DEF Weighed
    <3>. QED
      BY <2>1, <3>1 DEF CountedBelow, Leaves
  <2>3. i = Len(data) /\ Len(data) \in Nat
    BY <1>2 DEF TreeBuilt, IInv, TypeOK
  <2>. QED
    <3>1. Len(data) > 0 /\ Len(data) \in Int
      BY ElementOfSeq DEF IInv, TypeOK
    <3>2. Cardinality(1..Len(data)) = Len(data) - 1 + 1
      BY <3>1, FS_Interval
    <3>. QED
      BY <2>1, <2>2, <2>3, <3>2, WeightBelow
<1>3. \A n \in Nodes :
        tree_memory[n].weight =
         IF IsLeaf(n)
         THEN Cardinality({j \in 1..i : data[j] = tree_memory[n].byte})
         ELSE tree_memory[tree_memory[n].left].weight
                + tree_memory[tree_memory[n].right].weight
  BY <1>1, ZenonT(30) DEF Weighed, Occurrences
<1>4. {data[j] : j \in 1..i} = {tree_memory[n].byte : n \in Leaves}
  BY ZenonT(30) DEF Weighed
<1>. QED
  BY <1>2, <1>3, <1>4, Zenon DEF WeightsCount

\* For every block and alphabet the leaves weigh what their bytes occur, no
\* uint16_t sum of build_tree wraps around, and the root weighs the block.
THEOREM WeightsCorrect == Spec => []WeightsCount
  BY WeighedInvariance, WeightsExact, PTL

-----------------------------------------------------------------------------
(* The walks of the tree.  Each recursive function is first shown to be    *)
(* what its definition says, then related to words, the bit strings on the *)
(* way from a node down to its leaves.                                     *)

Letter == Alphabet \cup {STAR, DASH}

\* The bit strings that lead from a node to the leaves below it, with the bytes of
\* the leaves.
Word == Alphabet \X Seq({0, 1})
via(bit, W) == {<<w[1], <<bit>> \o w[2]>> : w \in W}
words[n \in 0..Len(tree_memory)] ==
  IF n = NULL THEN {}
  ELSE IF IsLeaf(n) THEN {<<tree_memory[n].byte, <<>>>>}
  ELSE via(0, words[left(n)]) \cup via(1, words[right(n)])

\* A leaf has no children and a letter, an internal node has two children.
LEMMA NodeCases ==
  ASSUME IInv
  PROVE  /\ \A n \in Nodes : /\ left(n) \in 0..Len(tree_memory) /\ right(n) \in 0..Len(tree_memory)
                             /\ n \in 0..Len(tree_memory) /\ n # 0
                             /\ left(n) < n /\ right(n) < n
                             /\ IsLeaf(n) => tree_memory[n].byte \in Alphabet /\ left(n) = 0 /\ right(n) = 0
                             /\ ~ IsLeaf(n) => left(n) \in Nodes /\ right(n) \in Nodes
         /\ Len(tree_memory) \in Nat /\ Nodes = 1..Len(tree_memory) /\ 0 \in 0..Len(tree_memory)
<1>1. ASSUME NEW n \in Nodes, IsLeaf(n)
      PROVE  tree_memory[n].byte \in Alphabet /\ left(n) = 0 /\ right(n) = 0
  BY <1>1, ZenonT(30) DEF IInv, NodeAccounting, Forest, Leaves, NULL, left, right
<1>2. ASSUME NEW n \in Nodes, ~ IsLeaf(n) PROVE left(n) \in Nodes /\ right(n) \in Nodes
  <2>1. left(n) \in 1..n - 1 /\ right(n) \in 1..n - 1
    BY <1>2, ZenonT(30) DEF IInv, Forest, left, right
  <2>. QED
    BY <2>1, Children
<1>3. /\ \A n \in Nodes : /\ left(n) \in 0..Len(tree_memory) /\ right(n) \in 0..Len(tree_memory)
                          /\ n \in 0..Len(tree_memory) /\ n # 0
                          /\ left(n) < n /\ right(n) < n
      /\ Len(tree_memory) \in Nat /\ Nodes = 1..Len(tree_memory) /\ 0 \in 0..Len(tree_memory)
  BY Children DEF left, right
<1>. QED
  BY <1>1, <1>2, <1>3, ZenonT(30)

\* tree_get_size counts the two subtrees and the node.
LEMMA TreeSizeIs ==
  ASSUME IInv
  PROVE  /\ tree_size[0] = 0
         /\ \A n \in Nodes : tree_size[n] = tree_size[left(n)] + tree_size[right(n)] + 1
<1>. DEFINE t == Len(tree_memory)
            V == Nat
            v0 == 0
            G == [n \in Nodes |-> [a \in V |-> [b \in V |-> a + b + 1]]]
<1>1. /\ t \in Nat /\ Nodes = 1..t /\ v0 \in V
      /\ \A n \in Nodes : left(n) \in 0..t /\ right(n) \in 0..t
  BY NodeCases
<1>2. G \in [Nodes -> [V -> [V -> V]]] /\ \A n \in Nodes, a, b \in V : G[n][a][b] = a + b + 1
  OBVIOUS
<1>. HIDE DEF t, V, v0, G
<1>3. PICK f : Computes(f, V, v0, G)
  BY <1>1, <1>2, NodeRecursion, Zenon
<1>4. f = [n \in 0..t |-> IF n = NULL THEN 0 ELSE f[left(n)] + f[right(n)] + 1]
  <2>1. f \in [0..t -> V] /\ f[0] = v0
    BY <1>3 DEF Computes, t
  <2>2. \A n \in Nodes : f[n] = f[left(n)] + f[right(n)] + 1
    <3>. SUFFICES ASSUME NEW n \in Nodes PROVE f[n] = f[left(n)] + f[right(n)] + 1
      OBVIOUS
    <3>1. f[n] = G[n][f[left(n)]][f[right(n)]]
      BY <1>3, ZenonT(30) DEF Computes, left, right
    <3>2. f[left(n)] \in V /\ f[right(n)] \in V
      BY <1>1, <2>1
    <3>3. G[n][f[left(n)]][f[right(n)]] = f[left(n)] + f[right(n)] + 1
      BY <1>2, <3>2, Zenon
    <3>. QED
      BY <3>1, <3>3, Zenon
  <2>. QED
    BY <1>1, <2>1, <2>2 DEF v0, NULL
<1>5. tree_size = [n \in 0..t |->
                     IF n = NULL THEN 0 ELSE tree_size[left(n)] + tree_size[right(n)] + 1]
  BY <1>4, Zenon DEF tree_size, t
<1>6. ASSUME NEW n \in 0..t
      PROVE  tree_size[n] = IF n = NULL THEN 0 ELSE tree_size[left(n)] + tree_size[right(n)] + 1
  BY <1>5, Zenon
<1>7. 0 \in 0..t /\ \A n \in Nodes : n \in 0..t /\ n # 0
  BY <1>1
<1>. QED
  BY <1>6, <1>7, Zenon DEF NULL

\* serialize_tree writes a leaf as its letter, an internal node as a star and its
\* two subtrees.
LEMMA SerializeIs ==
  ASSUME IInv
  PROVE  \A n \in Nodes :
           serialize_tree[n] = IF IsLeaf(n) THEN <<tree_memory[n].byte>>
                               ELSE <<STAR>> \o serialize_tree[left(n)] \o serialize_tree[right(n)]
<1>. DEFINE t == Len(tree_memory)
            V == Seq(Letter)
            v0 == <<DASH>>
            H(n, a, b) == IF IsLeaf(n) THEN <<tree_memory[n].byte>> ELSE <<STAR>> \o a \o b
            G == [n \in Nodes |-> [a \in V |-> [b \in V |-> H(n, a, b)]]]
<1>1. /\ t \in Nat /\ Nodes = 1..t /\ v0 \in V
      /\ \A n \in Nodes : left(n) \in 0..t /\ right(n) \in 0..t
  BY NodeCases DEF Letter
<1>2. \A n \in Nodes, a, b \in V : H(n, a, b) \in V
  <2>1. ASSUME NEW n \in Nodes, NEW a \in V, NEW b \in V PROVE H(n, a, b) \in V
    <3>1. CASE IsLeaf(n)
      BY <3>1, NodeCases DEF Letter
    <3>2. CASE ~ IsLeaf(n)
      BY <3>2 DEF Letter
    <3>. QED
      BY <3>1, <3>2
  <2>. QED
    BY <2>1
<1>. HIDE DEF t, V, v0, H
<1>3. G \in [Nodes -> [V -> [V -> V]]] /\ \A n \in Nodes, a, b \in V : G[n][a][b] = H(n, a, b)
  BY <1>2
<1>. HIDE DEF G
<1>4. PICK f : Computes(f, V, v0, G)
  BY <1>1, <1>3, NodeRecursion, Zenon
<1>5. f = [n \in 0..t |->
             IF n = NULL THEN <<DASH>>
             ELSE IF IsLeaf(n) THEN <<tree_memory[n].byte>>
             ELSE <<STAR>> \o f[left(n)] \o f[right(n)]]
  <2>1. f \in [0..t -> V] /\ f[0] = v0
    BY <1>4 DEF Computes, t
  <2>2. \A n \in Nodes : f[n] = H(n, f[left(n)], f[right(n)])
    <3>. SUFFICES ASSUME NEW n \in Nodes PROVE f[n] = H(n, f[left(n)], f[right(n)])
      OBVIOUS
    <3>1. f[n] = G[n][f[left(n)]][f[right(n)]]
      BY <1>4, Zenon DEF Computes, left, right
    <3>2. f[left(n)] \in V /\ f[right(n)] \in V
      BY <1>1, <2>1
    <3>3. G[n][f[left(n)]][f[right(n)]] = H(n, f[left(n)], f[right(n)])
      BY <1>3, <3>2, ZenonT(30)
    <3>. QED
      BY <3>1, <3>3, Zenon
  <2>. QED
    BY <1>1, <2>1, <2>2 DEF v0, NULL, H
<1>6. serialize_tree = [n \in 0..t |->
             IF n = NULL THEN <<DASH>>
             ELSE IF IsLeaf(n) THEN <<tree_memory[n].byte>>
             ELSE <<STAR>> \o serialize_tree[left(n)] \o serialize_tree[right(n)]]
  BY <1>5, Zenon DEF serialize_tree, t
<1>7. ASSUME NEW n \in 0..t
      PROVE  serialize_tree[n] = IF n = NULL THEN <<DASH>>
                                 ELSE IF IsLeaf(n) THEN <<tree_memory[n].byte>>
                                 ELSE <<STAR>> \o serialize_tree[left(n)] \o serialize_tree[right(n)]
  BY <1>6, Zenon
<1>8. \A n \in Nodes : n \in 0..t /\ n # 0
  BY <1>1
<1>. QED
  BY <1>7, <1>8, Zenon DEF NULL

\* Words with a bit in front are words.
LEMMA ViaWords ==
  ASSUME NEW bit \in {0, 1}, NEW W, W \subseteq Word PROVE via(bit, W) \subseteq Word
<1>1. ASSUME NEW w \in W PROVE <<w[1], <<bit>> \o w[2]>> \in Word
  <2>1. w[1] \in Alphabet /\ w[2] \in Seq({0, 1})
    BY DEF Word
  <2>2. <<bit>> \o w[2] \in Seq({0, 1})
    BY <2>1
  <2>. QED
    BY <2>1, <2>2, Zenon DEF Word
<1>. QED
  BY <1>1 DEF via

\* A word of a node is a bit and a word of the child that the bit selects.
LEMMA WordsIs ==
  ASSUME IInv
  PROVE  /\ words[0] = {}
         /\ \A n \in Nodes :
              words[n] = IF IsLeaf(n) THEN {<<tree_memory[n].byte, <<>>>>}
                         ELSE via(0, words[left(n)]) \cup via(1, words[right(n)])
<1>. DEFINE t == Len(tree_memory)
            V == SUBSET Word
            v0 == {}
            H(n, a, b) == IF IsLeaf(n) THEN {<<tree_memory[n].byte, <<>>>>} ELSE via(0, a) \cup via(1, b)
            G == [n \in Nodes |-> [a \in V |-> [b \in V |-> H(n, a, b)]]]
<1>1. /\ t \in Nat /\ Nodes = 1..t /\ v0 \in V
      /\ \A n \in Nodes : left(n) \in 0..t /\ right(n) \in 0..t
  BY NodeCases
<1>2. \A n \in Nodes, a, b \in V : H(n, a, b) \in V
  <2>1. ASSUME NEW n \in Nodes, NEW a \in V, NEW b \in V PROVE H(n, a, b) \in V
    <3>1. CASE IsLeaf(n)
      <4>1. tree_memory[n].byte \in Alphabet /\ <<>> \in Seq({0, 1})
        BY <3>1, NodeCases
      <4>2. <<tree_memory[n].byte, <<>>>> \in Word
        BY <4>1, Zenon DEF Word
      <4>. QED
        BY <3>1, <4>2
    <3>2. CASE ~ IsLeaf(n)
      <4>1. via(0, a) \subseteq Word /\ via(1, b) \subseteq Word
        BY ViaWords, SMTT(30)
      <4>. QED
        BY <3>2, <4>1
    <3>. QED
      BY <3>1, <3>2
  <2>. QED
    BY <2>1, Zenon
<1>. HIDE DEF t, V, v0, H
<1>3. G \in [Nodes -> [V -> [V -> V]]] /\ \A n \in Nodes, a, b \in V : G[n][a][b] = H(n, a, b)
  BY <1>2
<1>. HIDE DEF G
<1>4. PICK f : Computes(f, V, v0, G)
  BY <1>1, <1>3, NodeRecursion, Zenon
<1>5. f = [n \in 0..t |->
             IF n = NULL THEN {}
             ELSE IF IsLeaf(n) THEN {<<tree_memory[n].byte, <<>>>>}
             ELSE via(0, f[left(n)]) \cup via(1, f[right(n)])]
  <2>1. f \in [0..t -> V] /\ f[0] = v0
    BY <1>4 DEF Computes, t
  <2>2. \A n \in Nodes : f[n] = H(n, f[left(n)], f[right(n)])
    <3>. SUFFICES ASSUME NEW n \in Nodes PROVE f[n] = H(n, f[left(n)], f[right(n)])
      OBVIOUS
    <3>1. f[n] = G[n][f[left(n)]][f[right(n)]]
      BY <1>4, Zenon DEF Computes, left, right
    <3>2. f[left(n)] \in V /\ f[right(n)] \in V
      BY <1>1, <2>1
    <3>3. G[n][f[left(n)]][f[right(n)]] = H(n, f[left(n)], f[right(n)])
      BY <1>3, <3>2, Zenon
    <3>. QED
      BY <3>1, <3>3, Zenon
  <2>. DEFINE E(n) == IF n = NULL THEN {}
                      ELSE IF IsLeaf(n) THEN {<<tree_memory[n].byte, <<>>>>}
                      ELSE via(0, f[left(n)]) \cup via(1, f[right(n)])
  <2>3. ASSUME NEW n \in 0..t PROVE f[n] = E(n)
    <3>1. CASE n = 0
      BY <2>1, <3>1 DEF v0, NULL
    <3>2. CASE n # 0
      <4>1. n \in Nodes
        BY <1>1, <3>2
      <4>. QED
        BY <2>2, <3>2, <4>1, Zenon DEF NULL, H
    <3>. QED
      BY <3>1, <3>2, Zenon
  <2>. HIDE DEF E
  <2>4. f = [n \in 0..t |-> E(n)]
    BY <2>1, <2>3, SMTT(30)
  <2>. QED
    BY <2>4, Zenon DEF E
<1>6. words = [n \in 0..t |->
             IF n = NULL THEN {}
             ELSE IF IsLeaf(n) THEN {<<tree_memory[n].byte, <<>>>>}
             ELSE via(0, words[left(n)]) \cup via(1, words[right(n)])]
  BY <1>5, Zenon DEF words, t
<1>7. ASSUME NEW n \in 0..t
      PROVE  words[n] = IF n = NULL THEN {}
                        ELSE IF IsLeaf(n) THEN {<<tree_memory[n].byte, <<>>>>}
                        ELSE via(0, words[left(n)]) \cup via(1, words[right(n)])
  BY <1>6, Zenon
<1>8. 0 \in 0..t /\ \A n \in Nodes : n \in 0..t /\ n # 0
  BY <1>1
<1>. QED
  BY <1>7, <1>8, Zenon DEF NULL

\* An entry of the table that the code of a node and a word from the node down make.
Entry == [byte : Alphabet, encoded_byte : uint8_t, num_bits : Byte]
entry(code, w) ==
  [byte |-> w[1], encoded_byte |-> shifted(code.encoded_byte, w[2]),
   num_bits |-> low(code.num_bits + Len(w[2]))]

\* The two bytes of a number.
LEMMA LowHigh ==
  \A x \in Nat : /\ low(x) \in Byte /\ high(x) * 256 + low(x) = x
                 /\ x <= 255 => low(x) = x
                 /\ x < 65536 => high(x) \in Byte
  BY Bytes, SMT DEF low, high

\* A code with a bit shifted in is a code.
LEMMA ShiftInCode ==
  ASSUME NEW code \in Code, NEW bit \in {0, 1}
  PROVE  /\ shift_in(code, bit) \in Code
         /\ shift_in(code, bit).num_bits = low(code.num_bits + 1)
         /\ shift_in(code, bit).encoded_byte =
              [k \in 0..7 |-> IF k = 0 THEN bit ELSE code.encoded_byte[k - 1]]
<1>. DEFINE b == [k \in 0..7 |-> IF k = 0 THEN bit ELSE code.encoded_byte[k - 1]]
            m == low(code.num_bits + 1)
<1>1. code.encoded_byte \in [0..7 -> {0, 1}] /\ code.num_bits \in Byte
  BY DEF Code, uint8_t
<1>2. \A k \in 0..7 : k # 0 => k - 1 \in 0..7
  OBVIOUS
<1>3. b \in uint8_t
  BY <1>1, <1>2 DEF uint8_t
<1>4. m \in Byte
  BY <1>1, Bytes, LowHigh
<1>. HIDE DEF b, m
<1>5. shift_in(code, bit) = [encoded_byte |-> b, num_bits |-> m]
  BY DEF shift_in, b, m
<1>. QED
  BY <1>3, <1>4, <1>5 DEF Code, b, m

\* The entries below a node are those of its children, their codes a bit longer.
LEMMA EncodingIs ==
  ASSUME IInv
  PROVE  \A n \in Nodes, code \in Code :
           encoding_below[n][code] =
             IF IsLeaf(n)
             THEN {[byte |-> tree_memory[n].byte,
                    encoded_byte |-> code.encoded_byte, num_bits |-> code.num_bits]}
             ELSE encoding_below[left(n)][shift_in(code, 0)]
                    \cup encoding_below[right(n)][shift_in(code, 1)]
<1>. DEFINE t == Len(tree_memory)
            U == SUBSET Entry
            V == [Code -> U]
            v0 == [code \in Code |-> {}]
            own(n, code) == {[byte |-> tree_memory[n].byte,
                              encoded_byte |-> code.encoded_byte, num_bits |-> code.num_bits]}
            K(n, a, b, code) == IF IsLeaf(n) THEN own(n, code)
                                ELSE a[shift_in(code, 0)] \cup b[shift_in(code, 1)]
            H(n, a, b) == [code \in Code |-> K(n, a, b, code)]
            G == [n \in Nodes |-> [a \in V |-> [b \in V |-> H(n, a, b)]]]
<1>1. /\ t \in Nat /\ Nodes = 1..t /\ v0 \in V
      /\ \A n \in Nodes : left(n) \in 0..t /\ right(n) \in 0..t
  BY NodeCases
<1>2. \A n \in Nodes, a, b \in V : H(n, a, b) \in V
  <2>1. ASSUME NEW n \in Nodes, NEW a \in V, NEW b \in V, NEW code \in Code
        PROVE  K(n, a, b, code) \in U
    <3>1. CASE IsLeaf(n)
      <4>1. tree_memory[n].byte \in Alphabet
        BY <3>1, NodeCases
      <4>2. own(n, code) \subseteq Entry
        BY <4>1 DEF Entry, Code
      <4>. QED
        BY <3>1, <4>2
    <3>2. CASE ~ IsLeaf(n)
      <4>1. shift_in(code, 0) \in Code /\ shift_in(code, 1) \in Code
        BY ShiftInCode, ZenonT(30)
      <4>2. a[shift_in(code, 0)] \subseteq Entry /\ b[shift_in(code, 1)] \subseteq Entry
        BY <4>1
      <4>. QED
        BY <3>2, <4>2
    <3>. QED
      BY <3>1, <3>2
  <2>. HIDE DEF K
  <2>. QED
    BY <2>1
<1>. HIDE DEF t, V, v0, H
<1>3. G \in [Nodes -> [V -> [V -> V]]] /\ \A n \in Nodes, a, b \in V : G[n][a][b] = H(n, a, b)
  BY <1>2
<1>. HIDE DEF G
<1>4. PICK f : Computes(f, V, v0, G)
  BY <1>1, <1>3, NodeRecursion, Zenon
<1>. DEFINE E(g, n) == [code \in Code |->
              IF n = NULL THEN {}
              ELSE IF IsLeaf(n)
              THEN {[byte |-> tree_memory[n].byte,
                     encoded_byte |-> code.encoded_byte, num_bits |-> code.num_bits]}
              ELSE g[left(n)][shift_in(code, 0)] \cup g[right(n)][shift_in(code, 1)]]
<1>5. f = [n \in 0..t |-> E(f, n)]
  <2>1. f \in [0..t -> V] /\ f[0] = v0
    BY <1>4 DEF Computes, t
  <2>2. \A n \in Nodes : f[n] = H(n, f[left(n)], f[right(n)])
    <3>. SUFFICES ASSUME NEW n \in Nodes PROVE f[n] = H(n, f[left(n)], f[right(n)])
      BY SMTT(30)
    <3>1. f[n] = G[n][f[left(n)]][f[right(n)]]
      BY <1>4, ZenonT(30) DEF Computes, left, right
    <3>2. f[left(n)] \in V /\ f[right(n)] \in V
      BY <1>1, <2>1
    <3>3. G[n][f[left(n)]][f[right(n)]] = H(n, f[left(n)], f[right(n)])
      BY <1>3, <3>2, Zenon
    <3>. QED
      BY <3>1, <3>3, Zenon
  <2>3. ASSUME NEW n \in 0..t PROVE f[n] = E(f, n)
    <3>1. CASE n = 0
      BY <2>1, <3>1, Zenon DEF v0, NULL
    <3>2. CASE n # 0
      <4>1. n \in Nodes
        BY <1>1, <3>2
      <4>2. H(n, f[left(n)], f[right(n)]) = E(f, n)
        BY <3>2, Zenon DEF H, NULL
      <4>. QED
        BY <2>2, <4>1, <4>2, Zenon
    <3>. QED
      BY <3>1, <3>2, Zenon
  <2>. HIDE DEF E
  <2>. QED
    BY <2>1, <2>3, SMTT(30)
<1>6. encoding_below = [n \in 0..t |-> E(encoding_below, n)]
  BY <1>5, Zenon DEF encoding_below, t
<1>7. ASSUME NEW n \in Nodes, NEW code \in Code
      PROVE  encoding_below[n][code] = K(n, encoding_below[left(n)], encoding_below[right(n)], code)
  <2>1. n \in 0..t /\ n # 0
    BY <1>1
  <2>2. encoding_below[n] = E(encoding_below, n)
    <3>. HIDE DEF E
    <3>. QED
      BY <1>6, <2>1, Zenon
  <2>. QED
    BY <2>1, <2>2, Zenon DEF NULL
<1>. QED
  BY <1>7, Zenon

\* Induction over the tree, with the names of the codec.
LEMMA WalkInduction ==
  ASSUME IInv, NEW S,
         \A n \in Nodes : IsLeaf(n) => n \in S,
         \A n \in Nodes : ~ IsLeaf(n) /\ left(n) \in S /\ right(n) \in S => n \in S
  PROVE  \A n \in Nodes : n \in S
<1>. DEFINE U == S \cup {0}
<1>1. 0 \in U
  OBVIOUS
<1>2. ASSUME NEW n \in Nodes, tree_memory[n].left \in U, tree_memory[n].right \in U PROVE n \in U
  <2>1. CASE IsLeaf(n)
    BY <2>1
  <2>2. CASE ~ IsLeaf(n)
    <3>1. left(n) \in Nodes /\ right(n) \in Nodes /\ 0 \notin Nodes
      BY <2>2, NodeCases
    <3>2. left(n) \in S /\ right(n) \in S
      BY <1>2, <3>1 DEF left, right
    <3>. QED
      BY <2>2, <3>2
  <2>. QED
    BY <2>1, <2>2
<1>. HIDE DEF U
<1>3. \A n \in 0..Len(tree_memory) : n \in U
  BY <1>1, <1>2, TreeInduction
<1>. QED
  BY <1>3, NodeCases DEF U

\* Words are letters with bit strings.
LEMMA WordsType ==
  ASSUME IInv PROVE \A n \in Nodes : words[n] \subseteq Word
<1>. DEFINE S == {n \in Nodes : words[n] \subseteq Word}
<1>1. ASSUME NEW n \in Nodes, IsLeaf(n) PROVE n \in S
  <2>1. tree_memory[n].byte \in Alphabet /\ <<>> \in Seq({0, 1})
    BY <1>1, NodeCases
  <2>2. <<tree_memory[n].byte, <<>>>> \in Word
    BY <2>1, Zenon DEF Word
  <2>3. words[n] = {<<tree_memory[n].byte, <<>>>>}
    BY <1>1, WordsIs, Zenon
  <2>. QED
    BY <2>2, <2>3
<1>2. ASSUME NEW n \in Nodes, ~ IsLeaf(n), left(n) \in S, right(n) \in S PROVE n \in S
  <2>1. words[n] = via(0, words[left(n)]) \cup via(1, words[right(n)])
    BY <1>2, WordsIs, ZenonT(30)
  <2>2. via(0, words[left(n)]) \subseteq Word /\ via(1, words[right(n)]) \subseteq Word
    BY <1>2, ViaWords
  <2>. QED
    BY <2>1, <2>2
<1>. HIDE DEF S
<1>3. \A n \in Nodes : n \in S
  BY <1>1, <1>2, WalkInduction
<1>. QED
  BY <1>3 DEF S

\* The child of a node that a bit leads to.
branch(n, bit) == IF bit = 0 THEN left(n) ELSE right(n)

\* A word of an internal node starts with a bit, and goes on as a word of the child
\* that the bit leads to.
LEMMA WordBit ==
  ASSUME IInv, NEW n \in Nodes, ~ IsLeaf(n), NEW w \in words[n]
  PROVE  \E bit \in {0, 1} : \E v \in words[branch(n, bit)] :
           /\ v \in Word /\ branch(n, bit) \in Nodes
           /\ w = <<v[1], <<bit>> \o v[2]>> /\ w[1] = v[1]
           /\ w[2] = <<bit>> \o v[2] /\ v[2] \in Seq({0, 1}) /\ Len(v[2]) \in Nat
           /\ Len(w[2]) = Len(v[2]) + 1 /\ w[2][1] = bit
           /\ \A k \in 1..Len(v[2]) : w[2][k + 1] = v[2][k]
<1>1. PICK bit \in {0, 1} : w \in via(bit, words[branch(n, bit)])
  <2>1. w \in via(0, words[left(n)]) \/ w \in via(1, words[right(n)])
    BY WordsIs, Zenon
  <2>2. branch(n, 0) = left(n) /\ branch(n, 1) = right(n)
    BY DEF branch
  <2>. QED
    BY <2>1, <2>2
<1>2. branch(n, bit) \in Nodes
  BY NodeCases DEF branch
<1>3. PICK v \in words[branch(n, bit)] : w = <<v[1], <<bit>> \o v[2]>>
  BY <1>1 DEF via
<1>4. v \in Word /\ v[2] \in Seq({0, 1})
  BY <1>2, WordsType DEF Word
<1>5. w[1] = v[1] /\ w[2] = <<bit>> \o v[2]
  BY <1>3
<1>6. /\ Len(<<bit>> \o v[2]) = Len(v[2]) + 1 /\ (<<bit>> \o v[2])[1] = bit
      /\ \A k \in 1..Len(v[2]) : (<<bit>> \o v[2])[k + 1] = v[2][k]
      /\ Len(v[2]) \in Nat
  BY <1>4
<1>. QED
  BY <1>2, <1>3, <1>4, <1>5, <1>6, Zenon

\* A code is shorter than the tree is large: its length fits a byte.
LEMMA WordLength ==
  ASSUME IInv PROVE \A n \in Nodes : \A w \in words[n] : Len(w[2]) \in Nat /\ Len(w[2]) < n
<1>. DEFINE S == {n \in Nodes : \A w \in words[n] : Len(w[2]) \in Nat /\ Len(w[2]) < n}
<1>1. ASSUME NEW n \in Nodes, IsLeaf(n) PROVE n \in S
  <2>1. n \in Nat /\ n # 0
    BY NodeCases
  <2>2. ASSUME NEW w \in words[n] PROVE Len(w[2]) = 0
    <3>1. w = <<tree_memory[n].byte, <<>>>>
      BY <1>1, WordsIs, ZenonT(30)
    <3>. QED
      BY <3>1
  <2>. QED
    BY <2>1, <2>2
<1>2. ASSUME NEW n \in Nodes, ~ IsLeaf(n), left(n) \in S, right(n) \in S PROVE n \in S
  <2>. SUFFICES ASSUME NEW w \in words[n] PROVE Len(w[2]) \in Nat /\ Len(w[2]) < n
    OBVIOUS
  <2>1. PICK bit \in {0, 1} : \E v \in words[branch(n, bit)] :
          Len(v[2]) \in Nat /\ Len(w[2]) = Len(v[2]) + 1
    BY <1>2, WordBit, ZenonT(30)
  <2>2. PICK v \in words[branch(n, bit)] : Len(v[2]) \in Nat /\ Len(w[2]) = Len(v[2]) + 1
    BY <2>1
  <2>3. branch(n, bit) < n /\ branch(n, bit) \in S /\ branch(n, bit) \in Nat /\ n \in Nat
    BY <1>2, NodeCases DEF branch
  <2>. QED
    BY <2>2, <2>3
<1>. HIDE DEF S
<1>3. \A n \in Nodes : n \in S
  BY <1>1, <1>2, WalkInduction
<1>. QED
  BY <1>3 DEF S

\* Every leaf below a node is at the end of a word.
LEMMA LeafWord ==
  ASSUME IInv
  PROVE  \A n \in Nodes : \A x \in below[n] : IsLeaf(x) => \E w \in words[n] : w[1] = tree_memory[x].byte
<1>. DEFINE S == {n \in Nodes : \A x \in below[n] :
                    IsLeaf(x) => \E w \in words[n] : w[1] = tree_memory[x].byte}
<1>1. ASSUME NEW n \in Nodes, IsLeaf(n) PROVE n \in S
  <2>1. below[n] = {n}
    BY <1>1, BelowIs, NodeCases DEF left, right
  <2>2. words[n] = {<<tree_memory[n].byte, <<>>>>}
    BY <1>1, WordsIs, ZenonT(30)
  <2>. QED
    BY <2>1, <2>2, ZenonT(30)
<1>2. ASSUME NEW n \in Nodes, ~ IsLeaf(n), left(n) \in S, right(n) \in S PROVE n \in S
  <2>. SUFFICES ASSUME NEW x \in below[n], IsLeaf(x)
                PROVE  \E w \in words[n] : w[1] = tree_memory[x].byte
    BY ZenonT(30)
  <2>1. x \in below[left(n)] \/ x \in below[right(n)]
    BY <1>2, BelowIs DEF left, right
  <2>2. words[n] = via(0, words[left(n)]) \cup via(1, words[right(n)])
    BY <1>2, WordsIs, ZenonT(30)
  <2>3. ASSUME NEW W, NEW v \in W, v[1] = tree_memory[x].byte, NEW bit
        PROVE  \E w \in via(bit, W) : w[1] = tree_memory[x].byte
    <3>1. <<v[1], <<bit>> \o v[2]>> \in via(bit, W)
      BY DEF via
    <3>. QED
      BY <2>3, <3>1
  <2>4. CASE x \in below[left(n)]
    <3>1. PICK v \in words[left(n)] : v[1] = tree_memory[x].byte
      BY <1>2, <2>4, SMTT(30)
    <3>. QED
      BY <2>2, <2>3, <3>1
  <2>5. CASE x \in below[right(n)]
    <3>1. PICK v \in words[right(n)] : v[1] = tree_memory[x].byte
      BY <1>2, <2>5
    <3>. QED
      BY <2>2, <2>3, <3>1
  <2>. QED
    BY <2>1, <2>4, <2>5
<1>. HIDE DEF S
<1>3. \A n \in Nodes : n \in S
  BY <1>1, <1>2, WalkInduction
<1>. QED
  BY <1>3, Zenon DEF S

ShiftsIn(c, b, bit) == \A k \in 0..7 : c[k] = IF k = 0 THEN bit ELSE b[k - 1]
StartsWith(u, bit, s) ==
  /\ Len(s) \in Nat /\ Len(u) = Len(s) + 1 /\ u[1] = bit
  /\ \A k \in 1..Len(s) : u[k + 1] = s[k]

\* Shifting a bit in and then a bit string is shifting in the longer bit string.
LEMMA ShiftedTwice ==
  ASSUME NEW b, NEW bit, NEW c, ShiftsIn(c, b, bit), NEW s, NEW u, StartsWith(u, bit, s)
  PROVE  shifted(c, s) = shifted(b, u)
<1>. USE DEF ShiftsIn, StartsWith
<1>. DEFINE L == Len(s)
<1>1. ASSUME NEW k \in 0..7
      PROVE  (IF k < L THEN s[L - k] ELSE c[k - L])
               = (IF k < Len(u) THEN u[Len(u) - k] ELSE b[k - Len(u)])
  <2>. HIDE DEF L
  <2>0. L \in Nat /\ Len(u) = L + 1
    BY DEF L
  <2>1. CASE k < L
    <3>1. L - k \in 1..L /\ Len(u) - k = (L - k) + 1 /\ k < Len(u)
      BY <2>0, <2>1
    <3>2. u[(L - k) + 1] = s[L - k]
      BY <3>1 DEF L
    <3>. QED
      BY <2>1, <3>1, <3>2
  <2>2. CASE k = L
    <3>1. k - L = 0 /\ Len(u) - k = 1 /\ ~ (k < L) /\ k < Len(u)
      BY <2>0, <2>2
    <3>2. c[0] = bit /\ u[1] = bit
      OBVIOUS
    <3>. QED
      BY <3>1, <3>2, Zenon
  <2>3. CASE k > L
    <3>1. k - L \in 0..7 /\ k - L # 0 /\ (k - L) - 1 = k - Len(u) /\ ~ (k < L) /\ ~ (k < Len(u))
      BY <2>0, <2>3
    <3>. QED
      BY <3>1
  <2>4. k < L \/ k = L \/ k > L
    BY <2>0
  <2>. QED
    BY <2>1, <2>2, <2>3, <2>4
<1>. QED
  BY <1>1, Zenon DEF shifted

\* The length of a code is counted modulo 256.
LEMMA LengthModulo ==
  \A m \in Byte, L \in Nat : low(low(m + 1) + L) = low(m + (L + 1))
<1>. SUFFICES ASSUME NEW m \in Nat, m <= 255, NEW L \in Nat
              PROVE  (((m + 1) % 256) + L) % 256 = (m + (L + 1)) % 256
  BY Bytes DEF low
<1>1. CASE m = 255
  BY <1>1
<1>2. CASE m # 255
  BY <1>2
<1>. QED
  BY <1>1, <1>2

\* The entry for a longer word is that for the rest of it, once its bit is shifted in.
LEMMA EntryOfShifted ==
  ASSUME NEW code \in Code, NEW bit \in {0, 1}, NEW v \in Word
  PROVE  entry(shift_in(code, bit), v) = entry(code, <<v[1], <<bit>> \o v[2]>>)
<1>1. v[2] \in Seq({0, 1}) /\ Len(v[2]) \in Nat
  BY DEF Word
<1>2. code.num_bits \in Byte
  BY DEF Code
<1>3. PICK u : u = <<bit>> \o v[2]
  BY Zenon
<1>4. Len(u) = Len(v[2]) + 1 /\ u[1] = bit /\ \A k \in 1..Len(v[2]) : u[k + 1] = v[2][k]
  BY <1>1, <1>3
<1>5. PICK c : c = shift_in(code, bit)
  OBVIOUS
<1>6. c.num_bits = low(code.num_bits + 1)
  BY <1>5, ShiftInCode, Zenon
<1>7. c.encoded_byte = [k \in 0..7 |-> IF k = 0 THEN bit ELSE code.encoded_byte[k - 1]]
  BY <1>5, ShiftInCode, ZenonT(30)
<1>8. \A k \in 0..7 : c.encoded_byte[k] = IF k = 0 THEN bit ELSE code.encoded_byte[k - 1]
  BY <1>7
<1>9. shifted(c.encoded_byte, v[2]) = shifted(code.encoded_byte, u)
  <2>1. ShiftsIn(c.encoded_byte, code.encoded_byte, bit)
    BY <1>8 DEF ShiftsIn
  <2>2. StartsWith(u, bit, v[2])
    BY <1>1, <1>4 DEF StartsWith
  <2>. QED
    BY <2>1, <2>2, ShiftedTwice, SMT
<1>10. low(c.num_bits + Len(v[2])) = low(code.num_bits + Len(u))
  <2>1. low(low(code.num_bits + 1) + Len(v[2])) = low(code.num_bits + (Len(v[2]) + 1))
    BY <1>1, <1>2, LengthModulo, Zenon
  <2>. QED
    BY <1>4, <1>6, <2>1, Zenon
<1>11. <<v[1], u>>[1] = v[1] /\ <<v[1], u>>[2] = u
  OBVIOUS
<1>12. entry(c, v) = entry(code, <<v[1], u>>)
  BY <1>9, <1>10, <1>11, Zenon DEF entry
<1>. QED
  BY <1>3, <1>5, <1>12, Zenon

\* build_encoding_table: the table holds the words of the tree.
LEMMA TableIs ==
  ASSUME IInv
  PROVE  \A n \in Nodes : \A code \in Code : encoding_below[n][code] = {entry(code, w) : w \in words[n]}
<1>. DEFINE S == {n \in Nodes : \A code \in Code :
                    encoding_below[n][code] = {entry(code, w) : w \in words[n]}}
<1>1. ASSUME NEW n \in Nodes, IsLeaf(n) PROVE n \in S
  <2>. SUFFICES ASSUME NEW code \in Code
                PROVE  encoding_below[n][code] = {entry(code, w) : w \in words[n]}
    OBVIOUS
  <2>. DEFINE w == <<tree_memory[n].byte, <<>>>>
  <2>1. words[n] = {w}
    BY <1>1, WordsIs, ZenonT(30)
  <2>2. code.encoded_byte \in uint8_t /\ code.num_bits \in Byte
    BY DEF Code
  <2>3. shifted(code.encoded_byte, <<>>) = code.encoded_byte
    BY <2>2 DEF shifted, uint8_t
  <2>4. low(code.num_bits + Len(<<>>)) = code.num_bits
    BY <2>2, Bytes, LowHigh
  <2>5. w[1] = tree_memory[n].byte /\ w[2] = <<>>
    OBVIOUS
  <2>. HIDE DEF w
  <2>6. entry(code, w) = [byte |-> tree_memory[n].byte,
                          encoded_byte |-> code.encoded_byte, num_bits |-> code.num_bits]
    BY <2>3, <2>4, <2>5, ZenonT(30) DEF entry
  <2>7. encoding_below[n][code] = {entry(code, w)}
    BY <1>1, <2>6, EncodingIs, ZenonT(30)
  <2>. QED
    BY <2>1, <2>7
<1>2. ASSUME NEW n \in Nodes, ~ IsLeaf(n), left(n) \in S, right(n) \in S PROVE n \in S
  <2>. SUFFICES ASSUME NEW code \in Code
                PROVE  encoding_below[n][code] = {entry(code, w) : w \in words[n]}
    OBVIOUS
  <2>1. shift_in(code, 0) \in Code /\ shift_in(code, 1) \in Code
    BY ShiftInCode, ZenonT(30)
  <2>2. encoding_below[n][code] = {entry(shift_in(code, 0), v) : v \in words[left(n)]}
                                    \cup {entry(shift_in(code, 1), v) : v \in words[right(n)]}
    <3>1. encoding_below[n][code] = encoding_below[left(n)][shift_in(code, 0)]
                                      \cup encoding_below[right(n)][shift_in(code, 1)]
      BY <1>2, EncodingIs, ZenonT(30)
    <3>. QED
      BY <1>2, <2>1, <3>1, Zenon
  <2>3. words[left(n)] \subseteq Word /\ words[right(n)] \subseteq Word
    BY <1>2, WordsType
  <2>4. ASSUME NEW bit \in {0, 1}, NEW W, W \subseteq Word
        PROVE  {entry(shift_in(code, bit), v) : v \in W} = {entry(code, w) : w \in via(bit, W)}
    <3>1. \A v \in W : entry(shift_in(code, bit), v) = entry(code, <<v[1], <<bit>> \o v[2]>>)
      BY <2>4, EntryOfShifted
    <3>2. ASSUME NEW v \in W
          PROVE  entry(shift_in(code, bit), v) \in {entry(code, w) : w \in via(bit, W)}
      <4>1. <<v[1], <<bit>> \o v[2]>> \in via(bit, W)
        BY DEF via
      <4>. QED
        BY <3>1, <4>1
    <3>3. ASSUME NEW w \in via(bit, W)
          PROVE  entry(code, w) \in {entry(shift_in(code, bit), v) : v \in W}
      <4>1. PICK v \in W : w = <<v[1], <<bit>> \o v[2]>>
        BY DEF via
      <4>. QED
        BY <3>1, <4>1
    <3>. QED
      BY <3>2, <3>3
  <2>5. words[n] = via(0, words[left(n)]) \cup via(1, words[right(n)])
    BY <1>2, WordsIs, Zenon
  <2>6. /\ {entry(shift_in(code, 0), v) : v \in words[left(n)]} =
             {entry(code, w) : w \in via(0, words[left(n)])}
        /\ {entry(shift_in(code, 1), v) : v \in words[right(n)]} =
             {entry(code, w) : w \in via(1, words[right(n)])}
    BY <2>3, <2>4, ZenonT(30)
  <2>. QED
    BY <2>2, <2>5, <2>6
<1>. HIDE DEF S
<1>3. \A n \in Nodes : n \in S
  BY <1>1, <1>2, WalkInduction
<1>. QED
  BY <1>3 DEF S

\* The three parts of a concatenation.
LEMMA ThreeParts ==
  ASSUME NEW S, NEW h \in Seq(S), NEW a \in Seq(S), NEW b \in Seq(S), NEW s, s = h \o a \o b
  PROVE  /\ s \in Seq(S) /\ Len(h) \in Nat /\ Len(a) \in Nat /\ Len(b) \in Nat
         /\ Len(s) = Len(h) + Len(a) + Len(b)
         /\ \A k \in 1..Len(h) : s[k] = h[k]
         /\ \A k \in 1..Len(a) : s[Len(h) + k] = a[k]
         /\ \A k \in 1..Len(b) : s[Len(h) + Len(a) + k] = b[k]
<1>1. PICK u : u = h \o a
  BY Zenon
<1>2. /\ u \in Seq(S) /\ Len(u) = Len(h) + Len(a) /\ Len(h) \in Nat /\ Len(a) \in Nat
      /\ \A k \in 1..Len(h) : u[k] = h[k]
      /\ \A k \in 1..Len(a) : u[Len(h) + k] = a[k]
  BY <1>1
<1>3. /\ s \in Seq(S) /\ Len(s) = Len(u) + Len(b) /\ Len(b) \in Nat
      /\ \A k \in 1..Len(u) : s[k] = u[k]
      /\ \A k \in 1..Len(b) : s[Len(u) + k] = b[k]
  BY <1>1, <1>2
<1>4. (\A k \in 1..Len(h) : k \in 1..Len(u)) /\ (\A k \in 1..Len(a) : Len(h) + k \in 1..Len(u))
  BY <1>2
<1>. QED
  BY <1>2, <1>3, <1>4

\* A star and the two subtrees behind it.
LEMMA StarParts ==
  ASSUME NEW S, NEW c \in S, NEW a \in Seq(S), NEW b \in Seq(S), NEW s, s = <<c>> \o a \o b
  PROVE  /\ s \in Seq(S) /\ Len(a) \in Nat /\ Len(b) \in Nat /\ Len(s) = 1 + Len(a) + Len(b)
         /\ s[1] = c
         /\ \A k \in 1..Len(a) : s[1 + k] = a[k]
         /\ \A k \in 1..Len(b) : s[1 + Len(a) + k] = b[k]
<1>1. PICK h : h = <<c>>
  OBVIOUS
<1>2. h \in Seq(S) /\ Len(h) = 1 /\ h[1] = c
  BY <1>1
<1>3. s = h \o a \o b
  BY <1>1
<1>4. /\ s \in Seq(S) /\ Len(a) \in Nat /\ Len(b) \in Nat
      /\ Len(s) = Len(h) + Len(a) + Len(b)
      /\ \A k \in 1..Len(h) : s[k] = h[k]
      /\ \A k \in 1..Len(a) : s[Len(h) + k] = a[k]
      /\ \A k \in 1..Len(b) : s[Len(h) + Len(a) + k] = b[k]
  BY <1>2, <1>3, ThreeParts
<1>5. s[1] = c
  <2>1. 1 \in 1..Len(h)
    BY <1>2
  <2>. QED
    BY <1>2, <1>4, <2>1
<1>. QED
  BY <1>2, <1>4, <1>5, Zenon

Marks == Alphabet \cup {STAR}

\* serialize_tree writes as many bytes as tree_get_size counts nodes, none of them
\* the mark of a NULL pointer.
LEMMA SerializeType ==
  ASSUME IInv
  PROVE  \A n \in Nodes : /\ serialize_tree[n] \in Seq(Marks)
                          /\ Len(serialize_tree[n]) = tree_size[n] /\ tree_size[n] \in Nat \ {0}
<1>. DEFINE S == {n \in Nodes : /\ serialize_tree[n] \in Seq(Marks)
                                /\ Len(serialize_tree[n]) = tree_size[n]
                                /\ tree_size[n] \in Nat \ {0}}
<1>1. ASSUME NEW n \in Nodes, IsLeaf(n) PROVE n \in S
  <2>1. serialize_tree[n] = <<tree_memory[n].byte>> /\ tree_memory[n].byte \in Marks
    BY <1>1, SerializeIs, NodeCases, Zenon DEF Marks
  <2>2. tree_size[n] = 1
    BY <1>1, TreeSizeIs, NodeCases
  <2>3. \A x \in Marks : <<x>> \in Seq(Marks) /\ Len(<<x>>) = 1
    OBVIOUS
  <2>4. serialize_tree[n] \in Seq(Marks) /\ Len(serialize_tree[n]) = 1
    BY <2>1, <2>3, Zenon
  <2>5. tree_size[n] \in Nat \ {0}
    BY <2>2
  <2>. QED
    BY <2>2, <2>4, <2>5, Zenon
<1>2. ASSUME NEW n \in Nodes, ~ IsLeaf(n), left(n) \in S, right(n) \in S PROVE n \in S
  <2>1. serialize_tree[n] = <<STAR>> \o serialize_tree[left(n)] \o serialize_tree[right(n)]
    BY <1>2, SerializeIs, Zenon
  <2>2. /\ serialize_tree[n] \in Seq(Marks)
        /\ Len(serialize_tree[n]) = 1 + Len(serialize_tree[left(n)]) + Len(serialize_tree[right(n)])
    BY <1>2, <2>1, StarParts DEF Marks
  <2>3. tree_size[n] = tree_size[left(n)] + tree_size[right(n)] + 1
    BY TreeSizeIs
  <2>4. /\ Len(serialize_tree[left(n)]) = tree_size[left(n)] /\ tree_size[left(n)] \in Nat
        /\ Len(serialize_tree[right(n)]) = tree_size[right(n)] /\ tree_size[right(n)] \in Nat
    BY <1>2
  <2>5. Len(serialize_tree[n]) = tree_size[n] /\ tree_size[n] \in Nat \ {0}
    BY <2>2, <2>3, <2>4, SMTT(30)
  <2>. QED
    BY <2>2, <2>5
<1>. HIDE DEF S
<1>3. \A n \in Nodes : n \in S
  BY <1>1, <1>2, WalkInduction
<1>. QED
  BY <1>3 DEF S

\* tree_get_size counts the nodes below a node.
LEMMA SizeCountsNodes ==
  ASSUME IInv
  PROVE  \A n \in Nodes : IsFiniteSet(below[n]) /\ Cardinality(below[n]) = tree_size[n]
<1>. DEFINE S == {n \in Nodes : IsFiniteSet(below[n]) /\ Cardinality(below[n]) = tree_size[n]}
<1>1. ASSUME NEW n \in Nodes, IsLeaf(n) PROVE n \in S
  <2>1. below[n] = {n}
    BY <1>1, BelowIs, NodeCases DEF left, right
  <2>2. tree_size[n] = 1
    BY <1>1, TreeSizeIs, NodeCases
  <2>. QED
    BY <2>1, <2>2, FS_Singleton, Zenon
<1>2. ASSUME NEW n \in Nodes, ~ IsLeaf(n), left(n) \in S, right(n) \in S PROVE n \in S
  <2>. DEFINE A == below[left(n)]
              B == below[right(n)]
  <2>1. below[n] = (A \cup B) \cup {n} /\ A \cap B = {} /\ n \notin A \cup B
    BY <1>2, BelowIs, BelowDisjoint, SMTT(30) DEF left, right
  <2>2. /\ IsFiniteSet(A) /\ Cardinality(A) = tree_size[left(n)] /\ tree_size[left(n)] \in Nat
        /\ IsFiniteSet(B) /\ Cardinality(B) = tree_size[right(n)] /\ tree_size[right(n)] \in Nat
    BY <1>2, SerializeType
  <2>. HIDE DEF A, B
  <2>3. /\ IsFiniteSet(A \cup B)
        /\ Cardinality(A \cup B) = Cardinality(A) + Cardinality(B) - Cardinality(A \cap B)
    BY <2>2, FS_Union, Zenon
  <2>4. Cardinality(A \cup B) = tree_size[left(n)] + tree_size[right(n)]
    BY <2>1, <2>2, <2>3, FS_EmptySet
  <2>5. IsFiniteSet(below[n]) /\ Cardinality(below[n]) = Cardinality(A \cup B) + 1
    BY <2>1, <2>3, FS_AddElement, ZenonT(30)
  <2>6. tree_size[n] = tree_size[left(n)] + tree_size[right(n)] + 1
    BY TreeSizeIs
  <2>. QED
    BY <2>2, <2>4, <2>5, <2>6, SMTT(30)
<1>. HIDE DEF S
<1>3. \A n \in Nodes : n \in S
  BY <1>1, <1>2, WalkInduction
<1>. QED
  BY <1>3 DEF S

\* The string s occurs in t from position p on.
Placed(t, s, p) ==
  p \in Nat \ {0} /\ p + Len(s) <= Len(t) + 1 /\ \A k \in 1..Len(s) : t[p + k - 1] = s[k]

\* Where the children of a node are written, and what stands at a node.
LEMMA PlacedChildren ==
  ASSUME IInv, NEW n \in Nodes, NEW t, Len(t) \in Nat, NEW p, Placed(t, serialize_tree[n], p)
  PROVE  /\ p \in 1..Len(t)
         /\ IsLeaf(n) => t[p] = tree_memory[n].byte /\ t[p] \in Alphabet
         /\ ~ IsLeaf(n) => /\ t[p] = STAR
                           /\ Placed(t, serialize_tree[left(n)], p + 1)
                           /\ Placed(t, serialize_tree[right(n)], p + 1 + Len(serialize_tree[left(n)]))
                           /\ Len(serialize_tree[n]) = 1 + Len(serialize_tree[left(n)])
                                                         + Len(serialize_tree[right(n)])
<1>. DEFINE s == serialize_tree[n]
<1>1. Len(s) \in Nat \ {0}
  BY SerializeType
<1>2. p \in Nat \ {0} /\ p + Len(s) <= Len(t) + 1 /\ \A k \in 1..Len(s) : t[p + k - 1] = s[k]
  BY DEF Placed
<1>3. t[p] = s[1] /\ p \in 1..Len(t)
  <2>1. 1 \in 1..Len(s) /\ p + 1 - 1 = p
    BY <1>1, <1>2
  <2>. QED
    BY <1>1, <1>2, <2>1
<1>4. CASE IsLeaf(n)
  <2>1. s = <<tree_memory[n].byte>> /\ tree_memory[n].byte \in Alphabet
    BY <1>4, SerializeIs, NodeCases, Zenon
  <2>. QED
    BY <1>3, <1>4, <2>1
<1>5. CASE ~ IsLeaf(n)
  <2>. DEFINE a == serialize_tree[left(n)]
              b == serialize_tree[right(n)]
  <2>1. a \in Seq(Marks) /\ b \in Seq(Marks) /\ STAR \in Marks /\ s = <<STAR>> \o a \o b
    BY <1>5, SerializeIs, SerializeType, NodeCases, Zenon DEF Marks
  <2>. HIDE DEF a, b, s
  <2>2. /\ Len(a) \in Nat /\ Len(b) \in Nat /\ Len(s) = 1 + Len(a) + Len(b) /\ s[1] = STAR
        /\ \A k \in 1..Len(a) : s[1 + k] = a[k]
        /\ \A k \in 1..Len(b) : s[1 + Len(a) + k] = b[k]
    BY <2>1, StarParts, SMTT(30)
  <2>3. Placed(t, a, p + 1)
    <3>1. ASSUME NEW k \in 1..Len(a) PROVE t[(p + 1) + k - 1] = a[k]
      <4>1. 1 + k \in 1..Len(s) /\ p + (1 + k) - 1 = (p + 1) + k - 1
        BY <1>2, <2>2, SMTT(30)
      <4>2. t[p + (1 + k) - 1] = s[1 + k]
        BY <1>2, <4>1, SMTT(30)
      <4>. QED
        BY <2>2, <4>1, <4>2, ZenonT(30)
    <3>. QED
      BY <1>2, <2>2, <3>1 DEF Placed
  <2>4. Placed(t, b, p + 1 + Len(a))
    <3>1. ASSUME NEW k \in 1..Len(b) PROVE t[(p + 1 + Len(a)) + k - 1] = b[k]
      <4>1. 1 + Len(a) + k \in 1..Len(s) /\ p + (1 + Len(a) + k) - 1 = (p + 1 + Len(a)) + k - 1
        BY <1>2, <2>2, SMTT(30)
      <4>2. t[p + (1 + Len(a) + k) - 1] = s[1 + Len(a) + k]
        BY <1>2, <4>1, ZenonT(30)
      <4>. QED
        BY <2>2, <4>1, <4>2, ZenonT(30)
    <3>2. p + 1 + Len(a) \in Nat \ {0} /\ (p + 1 + Len(a)) + Len(b) <= Len(t) + 1
      BY <1>2, <2>2
    <3>. QED
      BY <3>1, <3>2, ZenonT(30) DEF Placed
  <2>. QED
    BY <1>3, <1>5, <2>2, <2>3, <2>4, Zenon DEF a, b, s
<1>. QED
  BY <1>3, <1>4, <1>5, Zenon

\* A function that gives for every position from p on the end of the subtree there.
Ends(f, p) ==
  \A x \in p..Len(out_data) + 1 :
    /\ f[x] \in x..Len(out_data) + 1
    /\ f[x] = IF x > Len(out_data) THEN x ELSE IF out_data[x] = STAR THEN f[f[x + 1]] ELSE x + 1

\* Going back by one position, a subtree is read by way of those behind it.
LEMMA EndsBefore ==
  ASSUME Len(out_data) \in Nat, NEW p \in Nat, p <= Len(out_data),
         NEW g, g \in [p + 1..Len(out_data) + 1 -> Nat], Ends(g, p + 1)
  PROVE  \E f : f \in [p..Len(out_data) + 1 -> Nat] /\ Ends(f, p)
<1>. DEFINE M == Len(out_data) + 1
            e == IF out_data[p] = STAR THEN g[g[p + 1]] ELSE p + 1
            f == [x \in p..M |-> IF x = p THEN e ELSE g[x]]
<1>1. M \in Nat /\ M - 1 = Len(out_data) /\ p < M
  OBVIOUS
<1>2. \A x \in p + 1..M :
        /\ g[x] \in x..M
        /\ g[x] = IF x > Len(out_data) THEN x ELSE IF out_data[x] = STAR THEN g[g[x + 1]] ELSE x + 1
  BY DEF Ends
<1>3. e \in p + 1..M
  <2>1. p + 1 \in p + 1..M
    BY <1>1
  <2>2. g[p + 1] \in p + 1..M
    BY <1>2, <2>1
  <2>3. g[g[p + 1]] \in g[p + 1]..M
    BY <1>2, <2>2
  <2>4. g[g[p + 1]] \in p + 1..M
    BY <1>1, <2>2, <2>3
  <2>. QED
    BY <2>1, <2>4
<1>. HIDE DEF M
<1>4. f \in [p..M -> Nat] /\ f[p] = e /\ \A x \in p + 1..M : f[x] = g[x] /\ f[x] \in x..M
  <2>1. p \in p..M /\ \A x \in p + 1..M : x \in p..M /\ x # p
    BY <1>1
  <2>2. e \in Nat /\ \A x \in p..M : x # p => x \in p + 1..M
    BY <1>1, <1>3
  <2>. HIDE DEF e
  <2>. QED
    BY <1>2, <2>1, <2>2, ZenonT(30) DEF M
<1>. HIDE DEF f
<1>5. ASSUME NEW x \in p..M
      PROVE  /\ f[x] \in x..M
             /\ f[x] = IF x > Len(out_data) THEN x ELSE IF out_data[x] = STAR THEN f[f[x + 1]] ELSE x + 1
  <2>1. CASE x = p
    <3>1. f[p] \in p..M
      BY <1>1, <1>3, <1>4
    <3>2. p + 1 \in p + 1..M
      BY <1>1
    <3>3. f[p + 1] = g[p + 1] /\ g[p + 1] \in p + 1..M
      BY <1>2, <1>4, <3>2
    <3>4. f[f[p + 1]] = g[g[p + 1]]
      BY <1>4, <3>3
    <3>5. f[p] = IF out_data[p] = STAR THEN f[f[p + 1]] ELSE p + 1
      BY <1>4, <3>4
    <3>6. ~ (p > Len(out_data))
      OBVIOUS
    <3>. QED
      BY <2>1, <3>1, <3>5, <3>6
  <2>2. CASE x # p
    <3>1. x \in p + 1..M /\ x \in Nat
      BY <1>1, <2>2
    <3>2. f[x] = g[x] /\ f[x] \in x..M
      BY <1>4, <3>1
    <3>3. CASE x > Len(out_data)
      BY <1>2, <3>1, <3>2, <3>3
    <3>4. CASE x <= Len(out_data)
      <4>1. x + 1 \in p + 1..M
        BY <1>1, <3>1, <3>4
      <4>2. f[x + 1] = g[x + 1] /\ g[x + 1] \in x + 1..M
        BY <1>2, <1>4, <4>1
      <4>3. g[x + 1] \in p + 1..M
        BY <1>1, <3>1, <4>2
      <4>4. f[f[x + 1]] = g[g[x + 1]]
        BY <1>4, <4>2, <4>3, Zenon
      <4>5. ~ (x > Len(out_data))
        BY <3>1, <3>4
      <4>6. g[x] = IF out_data[x] = STAR THEN g[g[x + 1]] ELSE x + 1
        BY <1>2, <3>1, <4>5
      <4>. QED
        BY <3>2, <4>4, <4>5, <4>6
    <3>5. x > Len(out_data) \/ x <= Len(out_data)
      BY <3>1
    <3>. QED
      BY <3>3, <3>4, <3>5
  <2>. QED
    BY <2>1, <2>2
<1>6. Ends(f, p)
  BY <1>5 DEF Ends, M
<1>. QED
  BY <1>4, <1>6 DEF M

\* deserialize_tree reads a subtree by reading the subtrees behind its first byte.
LEMMA DeserializeIs ==
  ASSUME Len(out_data) \in Nat, Len(out_data) >= 3
  PROVE  \A p \in TREE..Len(out_data) + 1 :
           deserialize_tree[p] =
             IF p > Len(out_data) THEN p
             ELSE IF out_data[p] = STAR THEN deserialize_tree[deserialize_tree[p + 1]]
             ELSE p + 1
<1>. DEFINE M == Len(out_data) + 1
            S == {p \in TREE..M : \E f : f \in [p..M -> Nat] /\ Ends(f, p)}
<1>1. M \in Nat /\ TREE \in Nat /\ TREE \in TREE..M
  BY DEF TREE
<1>2. ASSUME NEW p \in TREE..M, \A k \in p + 1..M : k \in S PROVE p \in S
  <2>1. CASE p = M
    <3>. DEFINE f == [x \in p..M |-> M]
    <3>1. f \in [p..M -> Nat] /\ \A x \in p..M : x = M /\ f[x] = M
      BY <1>1, <2>1
    <3>2. Ends(f, p)
      BY <1>1, <3>1 DEF Ends
    <3>. QED
      BY <3>1, <3>2
  <2>2. CASE p # M
    <3>1. p \in Nat /\ p <= Len(out_data) /\ p + 1 \in p + 1..M
      BY <1>1, <2>2 DEF TREE
    <3>2. PICK g : g \in [p + 1..M -> Nat] /\ Ends(g, p + 1)
      BY <1>2, <3>1, ZenonT(30)
    <3>3. \E f : f \in [p..M -> Nat] /\ Ends(f, p)
      BY <3>1, <3>2, EndsBefore
    <3>. QED
      BY <3>3
  <2>. QED
    BY <2>1, <2>2
<1>3. \A p \in TREE..M : p \in S
  <2>. HIDE DEF S, M
  <2>. QED
    BY <1>1, <1>2, Downwards, ZenonT(30)
<1>4. PICK f : f \in [TREE..M -> Nat] /\ Ends(f, TREE)
  BY <1>1, <1>3
<1>. DEFINE E(g, p) == IF p > Len(out_data) THEN p
                       ELSE IF out_data[p] = STAR THEN g[g[p + 1]] ELSE p + 1
<1>5. f = [p \in TREE..M |-> E(f, p)]
  <2>1. \A p \in TREE..M : f[p] = E(f, p)
    BY <1>4 DEF Ends
  <2>. HIDE DEF E, M
  <2>. QED
    BY <1>4, <2>1
<1>6. deserialize_tree = [p \in TREE..M |-> E(deserialize_tree, p)]
  BY <1>5, ZenonT(30) DEF deserialize_tree
<1>7. ASSUME NEW p \in TREE..M PROVE deserialize_tree[p] = E(deserialize_tree, p)
  <2>. HIDE DEF E, M
  <2>. QED
    BY <1>6, ZenonT(30)
<1>. QED
  BY <1>7, Zenon

\* The marks of the serialized tree are no letters.
LEMMA LettersAndMarks == \A x \in Alphabet : x \in Byte /\ x # 0 /\ x # STAR /\ x # DASH
<1>1. Alphabet \subseteq 1..255 \ {STAR, DASH}
  BY CodecAssumption
<1>. QED
  BY <1>1, Bytes

\* deserialize_tree reads what serialize_tree wrote, to its end and no further.
LEMMA SubtreeEnd ==
  ASSUME IInv, Len(out_data) \in Nat, Len(out_data) >= 3
  PROVE  \A n \in Nodes : \A p \in TREE..Len(out_data) + 1 :
           Placed(out_data, serialize_tree[n], p) => deserialize_tree[p] = p + Len(serialize_tree[n])
<1>. DEFINE D == TREE..Len(out_data) + 1
            S == {n \in Nodes : \A p \in D :
                    Placed(out_data, serialize_tree[n], p) =>
                      deserialize_tree[p] = p + Len(serialize_tree[n])}
<1>0. \A n \in Nodes : Len(serialize_tree[n]) \in Nat \ {0}
  BY SerializeType
<1>1. ASSUME NEW n \in Nodes, IsLeaf(n) PROVE n \in S
  <2>. SUFFICES ASSUME NEW p \in D, Placed(out_data, serialize_tree[n], p)
                PROVE  deserialize_tree[p] = p + Len(serialize_tree[n])
    OBVIOUS
  <2>1. p \in 1..Len(out_data) /\ out_data[p] \in Alphabet
    BY <1>1, PlacedChildren, Zenon
  <2>2. out_data[p] # STAR
    BY <2>1, LettersAndMarks
  <2>3. Len(serialize_tree[n]) = 1
    <3>1. serialize_tree[n] = <<tree_memory[n].byte>>
      BY <1>1, SerializeIs, ZenonT(30)
    <3>. QED
      BY <3>1
  <2>. QED
    BY <2>1, <2>2, <2>3, DeserializeIs
<1>2. ASSUME NEW n \in Nodes, ~ IsLeaf(n), left(n) \in S, right(n) \in S PROVE n \in S
  <2>. SUFFICES ASSUME NEW p \in D, Placed(out_data, serialize_tree[n], p)
                PROVE  deserialize_tree[p] = p + Len(serialize_tree[n])
    OBVIOUS
  <2>. DEFINE a == serialize_tree[left(n)]
              b == serialize_tree[right(n)]
              q == p + 1
              r == p + 1 + Len(a)
  <2>0. ~ IsLeaf(n)
    BY <1>2
  <2>1. /\ p \in 1..Len(out_data) /\ out_data[p] = STAR /\ Placed(out_data, a, q)
        /\ Placed(out_data, b, r)
        /\ Len(serialize_tree[n]) = 1 + Len(a) + Len(b)
    BY <2>0, PlacedChildren, Zenon
  <2>2. Len(a) \in Nat \ {0} /\ Len(b) \in Nat \ {0}
    BY <1>0, <1>2
  <2>3. q \in D /\ r \in D
    <3>1. r + Len(b) <= Len(out_data) + 1 /\ r \in Nat
      BY <2>1, Zenon DEF Placed
    <3>2. p \in Nat /\ p >= 4
      BY DEF TREE
    <3>. HIDE DEF a, b
    <3>. QED
      BY <2>1, <2>2, <3>1, <3>2 DEF TREE
  <2>. HIDE DEF D
  <2>4. deserialize_tree[q] = q + Len(a) /\ deserialize_tree[r] = r + Len(b)
    BY <1>2, <2>1, <2>3, ZenonT(30)
  <2>5. deserialize_tree[p] = deserialize_tree[deserialize_tree[p + 1]]
    <3>1. ~ (p > Len(out_data))
      BY <2>1
    <3>. QED
      BY <2>1, <3>1, DeserializeIs DEF D
  <2>. HIDE DEF a, b
  <2>6. q + Len(a) = r /\ r + Len(b) = p + (1 + Len(a) + Len(b))
    BY <2>1, <2>2
  <2>. QED
    BY <2>1, <2>4, <2>5, <2>6
<1>. HIDE DEF S
<1>3. \A n \in Nodes : n \in S
  BY <1>1, <1>2, WalkInduction
<1>. QED
  BY <1>3 DEF S

-----------------------------------------------------------------------------
(* The tree as huffman_compress hands it to the encoder                    *)

ZeroCode == [encoded_byte |-> ZERO, num_bits |-> 0]

\* The root has all the nodes below it, no more than a byte counts, and it is a leaf
\* only if the block has one letter.
LEMMA RootFacts ==
  ASSUME IInv, TreeBuilt
  PROVE  /\ root \in Nodes /\ tree_size[root] = Len(tree_memory) /\ Len(tree_memory) \in Nat
         /\ Len(tree_memory) # 0 /\ Len(tree_memory) <= 255
         /\ IsLeaf(root) <=> Cardinality(Leaves) = 1
<1>1. root \in Nodes /\ below[root] = Nodes
  BY BelowRoot
<1>2. Len(tree_memory) \in Nat /\ Nodes = 1..Len(tree_memory) /\ root \in 1..Len(tree_memory)
  BY <1>1, NodeCases, Zenon
<1>n. Len(tree_memory) \in Nat
  BY <1>2
<1>3. Cardinality(Nodes) = Len(tree_memory) /\ Len(tree_memory) # 0
  <2>1. \A m \in Nat : Cardinality(1..m) = m
    BY FS_Interval
  <2>. QED
    BY <1>2, <2>1
<1>4. tree_size[root] = Len(tree_memory)
  BY <1>1, <1>3, SizeCountsNodes
<1>5. Len(tree_memory) + 1 = 2 * Cardinality(Leaves) /\ Cardinality(Leaves) \in Nat
  BY LeavesWithinAlphabet DEF IInv, NodeAccounting, TreeBuilt
<1>6. Len(tree_memory) <= 255
  <2>1. Cardinality(Alphabet) \in Nat /\ Cardinality(Alphabet) <= 128
    BY LeavesWithinAlphabet, CodecAssumption DEF ALPHABET_SIZE
  <2>2. Len(tree_memory) <= Cardinality(Alphabet) * 2 - 1
    BY NodesWithinBound DEF TreeMemoryBound, TREE_MAX_SIZE, ALPHABET_SIZE
  <2>. QED
    BY <1>2, <2>1, <2>2
<1>7. ASSUME IsLeaf(root) PROVE Cardinality(Leaves) = 1
  <2>1. below[root] = {root}
    BY <1>1, <1>7, BelowIs, NodeCases, Zenon DEF left, right
  <2>2. Cardinality(Nodes) = 1
    BY <1>1, <2>1, FS_Singleton, Zenon
  <2>. QED
    BY <1>3, <1>5, <2>2
<1>8. ASSUME Cardinality(Leaves) = 1, ~ IsLeaf(root) PROVE FALSE
  <2>1. left(root) \in Nodes /\ left(root) < root
    BY <1>1, <1>8, NodeCases, ZenonT(30)
  <2>2. Len(tree_memory) + 1 = 2 * 1
    BY <1>5, <1>8
  <2>3. Len(tree_memory) = 1
    <3>1. \A T \in Nat : T + 1 = 2 * 1 => T = 1
      OBVIOUS
    <3>. QED
      BY <1>n, <2>2, <3>1, Zenon
  <2>. QED
    BY <1>2, <2>1, <2>3
<1>. QED
  BY <1>1, <1>n, <1>3, <1>4, <1>6, <1>7, <1>8, Zenon

CodeWord(w) ==
  /\ w \in Word /\ w[1] \in Alphabet /\ w[2] \in Seq({0, 1}) /\ Len(w[2]) \in Nat
  /\ Len(w[2]) <= 254

\* The codes are shorter than 255 bits, and empty for a block of one letter only.
LEMMA RootWords ==
  ASSUME IInv, TreeBuilt, NEW w \in words[root]
  PROVE  CodeWord(w) /\ (IsLeaf(root) <=> Len(w[2]) = 0)
<1>1. /\ root \in Nodes /\ Len(tree_memory) \in Nat /\ Len(tree_memory) # 0
      /\ Len(tree_memory) <= 255
      /\ Nodes = 1..Len(tree_memory)
  BY RootFacts, NodeCases
<1>2. w \in Word /\ w[1] \in Alphabet /\ w[2] \in Seq({0, 1})
  <2>1. w \in Word
    BY <1>1, WordsType
  <2>. QED
    BY <2>1 DEF Word
<1>3. Len(w[2]) \in Nat /\ Len(w[2]) < root
  BY <1>1, WordLength
<1>4. ASSUME IsLeaf(root) PROVE Len(w[2]) = 0
  <2>1. w = <<tree_memory[root].byte, <<>>>>
    BY <1>1, <1>4, WordsIs, ZenonT(30)
  <2>. QED
    BY <2>1
<1>5. ASSUME ~ IsLeaf(root) PROVE Len(w[2]) # 0
  <2>1. PICK bit \in {0, 1} : \E v \in words[branch(root, bit)] :
           Len(v[2]) \in Nat /\ Len(w[2]) = Len(v[2]) + 1
    BY <1>1, <1>5, WordBit, ZenonT(30)
  <2>. QED
    BY <2>1
<1>6. CodeWord(w)
  BY <1>1, <1>2, <1>3 DEF CodeWord
<1>. QED
  BY <1>4, <1>5, <1>6

\* Every byte of the block has a code.
LEMMA BlockWords ==
  ASSUME IInv, Weighed, TreeBuilt, NEW j \in 1..Len(data)
  PROVE  \E w \in words[root] : w[1] = data[j]
<1>1. root \in Nodes /\ below[root] = Nodes
  BY BelowRoot
<1>2. data[j] \in {tree_memory[n].byte : n \in Leaves}
  BY Zenon DEF Weighed, TreeBuilt
<1>3. PICK n \in Nodes : IsLeaf(n) /\ data[j] = tree_memory[n].byte
  BY <1>2, Zenon DEF Leaves
<1>. QED
  BY <1>1, <1>3, LeafWord, ZenonT(30)

\* A node has more leaves below it than a code of them has bits.
LEMMA WordLeaves ==
  ASSUME IInv
  PROVE  \A n \in Nodes : /\ IsFiniteSet(below[n] \cap Leaves)
                          /\ Cardinality(below[n] \cap Leaves) \in Nat
                          /\ \A w \in words[n] : Len(w[2]) < Cardinality(below[n] \cap Leaves)
<1>. DEFINE A(n) == below[n] \cap Leaves
            S == {n \in Nodes : /\ IsFiniteSet(A(n)) /\ Cardinality(A(n)) \in Nat \ {0}
                                /\ \A w \in words[n] : Len(w[2]) < Cardinality(A(n))}
<1>1. ASSUME NEW n \in Nodes, IsLeaf(n) PROVE n \in S
  <2>1. below[n] = {n} /\ words[n] = {<<tree_memory[n].byte, <<>>>>}
    BY <1>1, BelowIs, NodeCases, WordsIs, Zenon DEF left, right
  <2>2. A(n) = {n}
    BY <1>1, <2>1, Zenon DEF Leaves
  <2>3. IsFiniteSet(A(n)) /\ Cardinality(A(n)) = 1
    BY <2>2, FS_Singleton, Zenon
  <2>4. \A w \in words[n] : Len(w[2]) = 0
    BY <2>1
  <2>. HIDE DEF A
  <2>5. Cardinality(A(n)) \in Nat \ {0} /\ \A w \in words[n] : Len(w[2]) < Cardinality(A(n))
    BY <2>3, <2>4, SMTT(30)
  <2>. QED
    BY <2>3, <2>5, Zenon
<1>2. ASSUME NEW n \in Nodes, ~ IsLeaf(n), left(n) \in S, right(n) \in S PROVE n \in S
  <2>1. below[n] = {n} \cup below[left(n)] \cup below[right(n)]
    BY BelowIs, Zenon DEF left, right
  <2>2. below[left(n)] \cap below[right(n)] = {}
    BY <1>2, BelowDisjoint, ZenonT(30) DEF left, right
  <2>3. A(n) = A(left(n)) \cup A(right(n)) /\ A(left(n)) \cap A(right(n)) = {}
    BY <1>2, <2>1, <2>2 DEF Leaves
  <2>4. /\ IsFiniteSet(A(left(n))) /\ Cardinality(A(left(n))) \in Nat \ {0}
        /\ IsFiniteSet(A(right(n))) /\ Cardinality(A(right(n))) \in Nat \ {0}
        /\ \A w \in words[left(n)] : Len(w[2]) < Cardinality(A(left(n)))
        /\ \A w \in words[right(n)] : Len(w[2]) < Cardinality(A(right(n)))
    BY <1>2, ZenonT(30)
  <2>. HIDE DEF A, S
  <2>5. /\ IsFiniteSet(A(n))
        /\ Cardinality(A(n)) = Cardinality(A(left(n))) + Cardinality(A(right(n)))
    <3>1. /\ IsFiniteSet(A(left(n)) \cup A(right(n)))
          /\ Cardinality(A(left(n)) \cup A(right(n))) =
               Cardinality(A(left(n))) + Cardinality(A(right(n))) - Cardinality(A(left(n)) \cap A(right(n)))
      BY <2>4, FS_Union, Zenon
    <3>2. Cardinality(A(left(n)) \cap A(right(n))) = 0
      BY <2>3, FS_EmptySet, SMTT(30)
    <3>. QED
      BY <2>3, <2>4, <3>1, <3>2
  <2>6. ASSUME NEW w \in words[n] PROVE Len(w[2]) < Cardinality(A(n))
    <3>1. PICK bit \in {0, 1} : \E v \in words[branch(n, bit)] :
            Len(v[2]) \in Nat /\ Len(w[2]) = Len(v[2]) + 1
      BY <1>2, WordBit, ZenonT(30)
    <3>2. PICK v \in words[branch(n, bit)] : Len(v[2]) \in Nat /\ Len(w[2]) = Len(v[2]) + 1
      BY <3>1
    <3>3. v \in words[left(n)] \/ v \in words[right(n)]
      BY <3>2 DEF branch
    <3>. QED
      BY <2>4, <2>5, <3>2, <3>3, SMTT(30)
  <2>. QED
    BY <2>4, <2>5, <2>6 DEF S
<1>. HIDE DEF S
<1>3. \A n \in Nodes : n \in S
  BY <1>1, <1>2, WalkInduction
<1>. QED
  BY <1>3, ZenonT(30) DEF S

\* A block of at most nine letters has short codes.
LEMMA NineLetters ==
  ASSUME IInv, TreeBuilt, Cardinality(Leaves) <= 9, NEW w \in words[root]
  PROVE  Len(w[2]) <= 8
<1>1. root \in Nodes /\ below[root] = Nodes
  BY BelowRoot
<1>2. below[root] \cap Leaves = Leaves
  BY <1>1 DEF Leaves
<1>3. Cardinality(Leaves) \in Nat /\ Len(w[2]) < Cardinality(Leaves)
  BY <1>1, <1>2, WordLeaves, ZenonT(30)
<1>4. Len(w[2]) \in Nat
  BY RootWords DEF CodeWord
<1>. QED
  BY <1>3, <1>4
==============================================================================
