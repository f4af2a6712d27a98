------------------------- MODULE HuffmanCodec_proofs -------------------------
(***************************************************************************)
(* What huffman_compress and huffman_inflate do to a block, proved for     *)
(* every alphabet, every block and every outcome of the undefined shift.   *)
(* HuffmanTree_proofs relates the walks of the tree to words, the bit      *)
(* strings on the way from a node down to its leaves: here the encoder     *)
(* emits the words of the block, and the decoder follows them.             *)
(***************************************************************************)
EXTENDS HuffmanTree_proofs

-----------------------------------------------------------------------------
(* What the encoder writes                                                 *)

\* The lookup of a byte that has a code.
LEMMA Found ==
  ASSUME NEW T, NEW b, NEW x \in T, x.byte = b
  PROVE  find_encoded_byte(T, b) \in T /\ find_encoded_byte(T, b).byte = b
<1>. DEFINE f == CHOOSE info \in T : info.byte = b
<1>1. f \in T /\ f.byte = b
  OBVIOUS
<1>2. find_encoded_byte(T, b) = f
  BY DEF find_encoded_byte
<1>. QED
  BY <1>1, <1>2

\* The table entry of a word whose length fits a byte.
LEMMA EntryIs ==
  ASSUME NEW w, CodeWord(w)
  PROVE  /\ entry(ZeroCode, w).byte = w[1]
         /\ entry(ZeroCode, w).encoded_byte = shifted(ZERO, w[2])
         /\ entry(ZeroCode, w).num_bits = Len(w[2])
<1>1. low(0 + Len(w[2])) = Len(w[2])
  <2>1. PICK L \in Nat : L = Len(w[2]) /\ L <= 254
    BY DEF CodeWord
  <2>2. low(0 + L) = L
    BY <2>1, LowHigh
  <2>. QED
    BY <2>1, <2>2, Zenon
<1>. QED
  BY <1>1, Zenon DEF entry, ZeroCode

\* It is an encoding_info_t.
LEMMA EntryType ==
  ASSUME NEW w, CodeWord(w)
  PROVE  entry(ZeroCode, w) \in Entry
<1>1. PICK e : e = entry(ZeroCode, w)
  OBVIOUS
<1>2. /\ e = [byte |-> e.byte, encoded_byte |-> e.encoded_byte, num_bits |-> e.num_bits]
      /\ e.byte = w[1] /\ e.encoded_byte = shifted(ZERO, w[2]) /\ e.num_bits = Len(w[2])
  <2>1. e.byte = w[1] /\ e.encoded_byte = shifted(ZERO, w[2]) /\ e.num_bits = Len(w[2])
    BY <1>1, EntryIs
  <2>. QED
    BY <1>1, <2>1 DEF entry
<1>3. w[1] \in Alphabet /\ w[2] \in Seq({0, 1}) /\ Len(w[2]) \in Byte
  <2>1. w[1] \in Alphabet /\ w[2] \in Seq({0, 1}) /\ Len(w[2]) \in Nat /\ Len(w[2]) <= 254
    BY DEF CodeWord
  <2>2. \A x \in Nat : x <= 254 => x \in Byte
    BY Bytes, SMTT(30)
  <2>. QED
    BY <2>1, <2>2
<1>4. shifted(ZERO, w[2]) \in uint8_t
  <2>1. PICK s \in Seq({0, 1}) : s = w[2]
    BY <1>3
  <2>2. ASSUME NEW k \in 0..7
        PROVE  (IF k < Len(s) THEN s[Len(s) - k] ELSE ZERO[k - Len(s)]) \in {0, 1}
    <3>1. CASE k < Len(s)
      <4>1. Len(s) - k \in 1..Len(s)
        BY <3>1
      <4>. QED
        BY <3>1, <4>1
    <3>2. CASE ~ k < Len(s)
      <4>1. k - Len(s) \in 0..7
        BY <3>2
      <4>. QED
        BY <3>2, <4>1 DEF ZERO
    <3>. QED
      BY <3>1, <3>2
  <2>. QED
    BY <2>1, <2>2 DEF shifted, uint8_t
<1>. QED
  BY <1>1, <1>2, <1>3, <1>4, Zenon DEF Entry

\* The bits that the loop of encode_data appends for a byte: as many as its code
\* has, and the code itself if it is short.
LEMMA Emitted ==
  ASSUME NEW w, CodeWord(w), NEW undef \in uint8_t,
         NEW e, e = put_bits(reverse_bits(shifted(ZERO, w[2]), Len(w[2]), undef), Len(w[2]))
  PROVE  /\ e \in Seq({0, 1}) /\ Len(e) = Len(w[2])
         /\ Len(w[2]) <= 8 => e = w[2]
<1>1. PICK s \in Seq({0, 1}), L \in Nat : s = w[2] /\ L = Len(s)
  BY DEF CodeWord
<1>2. CASE L <= 8
  <2>1. e = s
    BY <1>1, <1>2, PutWord
  <2>. QED
    BY <1>1, <2>1, SMTT(30)
<1>3. CASE L > 8
  <2>1. reverse_bits(shifted(ZERO, s), L, undef) = undef
    BY <1>3, ZenonT(30) DEF reverse_bits
  <2>2. e = put_bits(undef, L)
    BY <1>1, <2>1, SMTT(30)
  <2>3. e = [k \in 1..L |-> IF k <= 8 THEN undef[k - 1] ELSE 0]
    BY <2>2 DEF put_bits
  <2>4. \A k \in 1..L : (IF k <= 8 THEN undef[k - 1] ELSE 0) \in {0, 1}
    BY DEF uint8_t
  <2>5. e \in Seq({0, 1}) /\ Len(e) = L
    BY <2>3, <2>4
  <2>. QED
    BY <1>1, <1>3, <2>5
<1>. QED
  BY <1>2, <1>3

\* The stream o for the tree and the bits b: the three bytes in front, the tree, and
\* where each bit is.
Written(o, b) ==
  /\ o \in Seq(Byte) /\ Len(o) \in Nat
  /\ o[1] = tree_size[root] /\ o[2] * 256 + o[3] = Len(b)
  /\ Len(o) = 3 + tree_size[root] + (Len(b) + 7) \div 8
  /\ Placed(o, serialize_tree[root], TREE)
  /\ \A m \in 0..Len(b) - 1 :
       LET p == TREE + tree_size[root] + m \div 8
       IN  p \in 1..Len(o) /\ (o[p] \div 2^(m % 8)) % 2 = b[m + 1]

\* A small number is its own low byte.
LEMMA SmallByte ==
  ASSUME NEW x \in Nat, x <= 255
  PROVE  low(x) = x /\ x \in Byte
  BY Bytes, LowHigh

\* The bit count fits the two bytes that hold it.
LEMMA BitCount ==
  ASSUME NEW B \in Nat, B < WORD
  PROVE  B % WORD = B /\ high(B) \in Byte /\ low(B) \in Byte /\ high(B) * 256 + low(B) = B
<1>1. B < 65536
  BY CodecAssumption, WordAssumption
<1>2. B % WORD = B
  BY SmallMod
<1>. QED
  BY <1>1, <1>2, LowHigh

\* What stands in front of the tree.
Header(h, N, B) == h \in Seq(Byte) /\ Len(h) = 3 /\ h[1] = N /\ h[2] * 256 + h[3] = B

\* The stream is its header h, the tree a and the payload c.
Parts(o, h, a, c) ==
  /\ o \in Seq(Byte) /\ Len(o) = Len(h) + Len(a) + Len(c)
  /\ \A k \in 1..Len(h) : o[k] = h[k]
  /\ \A k \in 1..Len(a) : o[Len(h) + k] = a[k]
  /\ \A k \in 1..Len(c) : o[Len(h) + Len(a) + k] = c[k]

\* The three parts that huffman_compress writes one after the other.
LEMMA ConcatParts ==
  ASSUME NEW h \in Seq(Byte), NEW a \in Seq(Byte), NEW c \in Seq(Byte)
  PROVE  Parts(h \o a \o c, h, a, c)
<1>1. PICK o : o = h \o a \o c
  BY ZenonT(30)
<1>. HIDE <1>1
<1>2. /\ o \in Seq(Byte) /\ Len(o) = Len(h) + Len(a) + Len(c)
      /\ \A k \in 1..Len(h) : o[k] = h[k]
      /\ \A k \in 1..Len(a) : o[Len(h) + k] = a[k]
      /\ \A k \in 1..Len(c) : o[Len(h) + Len(a) + k] = c[k]
  BY <1>1, ThreeParts
<1>. QED
  BY <1>1, <1>2, Zenon DEF Parts

\* A header, the serialized tree and the packed bits make a stream.
LEMMA PartsWritten ==
  ASSUME NEW N \in Nat, N \in Byte, N = tree_size[root], NEW b \in Seq({0, 1}),
         NEW B \in Nat, B = Len(b),
         NEW h, Header(h, N, B),
         NEW a, a = serialize_tree[root], Len(a) = N,
         NEW c, c = pack(b), NEW o, Parts(o, h, a, c)
  PROVE  Written(o, b)
<1>1. /\ Len(c) = (B + 7) \div 8 /\ Len(c) \in Nat
      /\ \A m \in 0..B - 1 : /\ m \div 8 \in Nat /\ (m \div 8) + 1 \in 1..Len(c)
                             /\ (c[(m \div 8) + 1] \div 2^(m % 8)) % 2 = b[m + 1]
  BY PackIs, SMTT(30)
<1>2. o \in Seq(Byte) /\ Len(o) = 3 + N + Len(c)
  BY DEF Parts, Header
<1>3. \A k \in 1..3 : o[k] = h[k]
  BY ZenonT(30) DEF Parts, Header
<1>4. \A k \in 1..N : o[3 + k] = a[k]
  BY DEF Parts, Header
<1>5. \A k \in 1..Len(c) : o[3 + N + k] = c[k]
  BY DEF Parts, Header
<1>6. Len(o) = 3 + N + (B + 7) \div 8 /\ Len(o) \in Nat
  BY <1>1, <1>2
<1>7. o[1] = N /\ o[2] * 256 + o[3] = B
  BY <1>3 DEF Header
<1>8. Placed(o, a, TREE)
  <2>1. \A k \in 1..N : TREE + k - 1 = 3 + k
    BY DEF TREE
  <2>2. TREE \in Nat \ {0} /\ TREE + N <= Len(o) + 1
    <3>1. \A x, y \in Nat : TREE \in Nat \ {0} /\ TREE + x <= (3 + x + y) + 1
      BY DEF TREE
    <3>. QED
      BY <1>1, <1>2, <3>1, ZenonT(30)
  <2>. QED
    BY <1>4, <2>1, <2>2, SMTT(30) DEF Placed
<1>9. ASSUME NEW m \in 0..B - 1, NEW p, p = TREE + N + m \div 8
      PROVE  p \in 1..Len(o) /\ (o[p] \div 2^(m % 8)) % 2 = b[m + 1]
  <2>1. PICK j \in 1..Len(c) : j = (m \div 8) + 1
    BY <1>1
  <2>2. m \div 8 \in Nat /\ p = 3 + N + j
    <3>1. \A x, y \in Nat : TREE + x + y = 3 + x + (y + 1)
      BY DEF TREE
    <3>. QED
      BY <1>1, <1>9, <2>1, <3>1, Zenon
  <2>3. p \in 1..Len(o)
    <3>1. \A x, y \in Nat : \A z \in 1..y : 3 + x + z \in 1..3 + x + y
      OBVIOUS
    <3>. QED
      BY <1>1, <1>2, <2>2, <3>1, ZenonT(30)
  <2>4. o[p] = c[j]
    BY <1>5, <2>2, Zenon
  <2>. QED
    BY <1>1, <2>1, <2>3, <2>4
<1>. QED
  BY <1>2, <1>6, <1>7, <1>8, <1>9, ZenonT(30) DEF Written

\* huffman_compress writes such a stream.
LEMMA StreamWritten ==
  ASSUME IInv, TreeBuilt, NEW b \in Seq({0, 1}), Len(b) < WORD
  PROVE  Written(<<low(tree_get_size(root)), high(Len(b) % WORD), low(Len(b) % WORD)>>
                   \o serialize_tree[root] \o pack(b), b)
<1>1. PICK N \in Nat : N = tree_size[root] /\ N <= 255
  BY RootFacts
<1>2. PICK B \in Nat : B = Len(b)
  OBVIOUS
<1>3. B % WORD = B /\ high(B) \in Byte /\ low(B) \in Byte /\ high(B) * 256 + low(B) = B
  BY <1>2, BitCount
<1>4. low(N) = N /\ N \in Byte
  BY <1>1, SmallByte
<1>5. PICK h : h = <<N, high(B), low(B)>>
  BY Zenon
<1>6. h = <<low(tree_get_size(root)), high(Len(b) % WORD), low(Len(b) % WORD)>>
  BY <1>1, <1>2, <1>3, <1>4, <1>5, Zenon DEF tree_get_size
<1>7. Header(h, N, B) /\ h \in Seq(Byte)
  BY <1>3, <1>4, <1>5 DEF Header
<1>8. PICK a : a = serialize_tree[root]
  OBVIOUS
<1>9. a \in Seq(Byte) /\ Len(a) = N
  <2>1. a \in Seq(Marks) /\ Len(a) = N
    BY <1>1, <1>8, SerializeType, RootFacts
  <2>2. Marks \subseteq Byte
    BY LettersAndMarks, Bytes DEF Marks, STAR
  <2>. QED
    BY <2>1, <2>2
<1>10. PICK c : c = pack(b)
  OBVIOUS
<1>11. c \in Seq(Byte)
  BY <1>10, PackIs
<1>12. PICK o : o = h \o a \o c
  BY ZenonT(30)
<1>. HIDE <1>5, <1>6, <1>12
<1>13. Parts(o, h, a, c)
  BY <1>7, <1>9, <1>11, <1>12, ConcatParts, Zenon
<1>14. Written(o, b)
  BY <1>1, <1>2, <1>4, <1>7, <1>8, <1>9, <1>10, <1>13, PartsWritten, ZenonT(30)
<1>. QED
  BY <1>6, <1>8, <1>10, <1>12, <1>14, ZenonT(30)

-----------------------------------------------------------------------------
(* What the decoder reads                                                  *)

\* The subtree of node n stands at position p of the serialized tree.
At(n, p) ==
  /\ p \in Nat /\ TREE <= p /\ Placed(out_data, serialize_tree[n], p)
  /\ p + Len(serialize_tree[n]) <= TREE + tree_size[root]

\* e is the deserialized tree.
Deserialized(e) ==
  /\ DOMAIN e = TREE..TREE + tree_size[root] - 1
  /\ \A n \in Nodes : \A p \in TREE..TREE + tree_size[root] - 1 :
       At(n, p) => e[p] = p + Len(serialize_tree[n])

\* Positions of the serialized tree.
LEMMA AtFacts ==
  ASSUME IInv, TreeBuilt, Written(out_data, bitstream), NEW n \in Nodes, NEW p, At(n, p)
  PROVE  /\ p \in TREE..TREE + tree_size[root] - 1 /\ p \in 1..Len(out_data)
         /\ IsLeaf(n) => out_data[p] = tree_memory[n].byte /\ out_data[p] \in Alphabet
         /\ out_data[p] = STAR <=> ~ IsLeaf(n)
         /\ out_data[p] # DASH
<1>1. PICK N \in Nat : N = tree_size[root]
  BY RootFacts
<1>2. PICK L \in Nat \ {0} : L = Len(serialize_tree[n])
  BY SerializeType
<1>3. p \in Nat /\ TREE <= p /\ p + L <= TREE + N /\ Placed(out_data, serialize_tree[n], p)
  BY <1>1, <1>2, Zenon DEF At
<1>4. p \in TREE..TREE + N - 1
  BY <1>1, <1>2, <1>3, SMTT(30) DEF TREE
<1>5. Len(out_data) \in Nat
  BY DEF Written
<1>6. /\ p \in 1..Len(out_data)
      /\ IsLeaf(n) => out_data[p] = tree_memory[n].byte /\ out_data[p] \in Alphabet
      /\ ~ IsLeaf(n) => out_data[p] = STAR
  BY <1>3, <1>5, PlacedChildren, ZenonT(30)
<1>7. STAR # DASH
  BY DEF STAR, DASH
<1>. QED
  BY <1>1, <1>4, <1>6, <1>7, LettersAndMarks, ZenonT(30)

\* The whole tree stands at TREE.
LEMMA RootAt ==
  ASSUME IInv, TreeBuilt, Written(out_data, bitstream)
  PROVE  At(root, TREE)
<1>1. tree_size[root] \in Nat /\ Len(serialize_tree[root]) = tree_size[root]
  BY RootFacts, SerializeType
<1>2. TREE \in Nat /\ TREE <= TREE /\ \A x \in Nat : TREE + x <= TREE + x
  BY DEF TREE
<1>. QED
  BY <1>1, <1>2, Zenon DEF At, Written

\* deserialize_tree finds the end of the tree and the end of each subtree.
LEMMA DeserializedTree ==
  ASSUME IInv, TreeBuilt, Written(out_data, bitstream)
  PROVE  Deserialized([p \in TREE..deserialize_tree[TREE] - 1 |-> deserialize_tree[p]])
<1>1. PICK N \in Nat : N = tree_size[root] /\ N # 0
  BY RootFacts
<1>2. Len(out_data) \in Nat /\ Len(out_data) >= 3
  <2>1. PICK x \in Nat : x = (Len(bitstream) + 7) \div 8 /\ Len(out_data) = 3 + N + x
    <3>1. Len(out_data) \in Nat /\ Len(out_data) = 3 + N + (Len(bitstream) + 7) \div 8
      BY <1>1 DEF Written
    <3>2. out_data[2] * 256 + out_data[3] = Len(bitstream)
      BY DEF Written
    <3>3. out_data[2] \in Nat /\ out_data[3] \in Nat
      <4>1. out_data \in Seq(Byte) /\ 2 \in 1..Len(out_data) /\ 3 \in 1..Len(out_data)
        BY <3>1 DEF Written
      <4>. QED
        BY <4>1, Bytes, SMTT(30)
    <3>. QED
      BY <3>1, <3>2, <3>3
  <2>. QED
    BY <2>1
<1>3. ASSUME NEW n \in Nodes, NEW p, At(n, p)
      PROVE  deserialize_tree[p] = p + Len(serialize_tree[n])
  <2>1. p \in 1..Len(out_data) /\ TREE <= p /\ Placed(out_data, serialize_tree[n], p)
    BY <1>3, AtFacts DEF At
  <2>2. p \in TREE..Len(out_data) + 1
    BY <1>2, <2>1 DEF TREE
  <2>. QED
    BY <1>2, <2>1, <2>2, SubtreeEnd
<1>4. deserialize_tree[TREE] = TREE + N
  BY <1>1, <1>3, RootAt, RootFacts, SerializeType, SMTT(30)
<1>. DEFINE e == [p \in TREE..TREE + N - 1 |-> deserialize_tree[p]]
<1>5. DOMAIN e = TREE..TREE + N - 1
  OBVIOUS
<1>6. ASSUME NEW n \in Nodes, NEW p \in TREE..TREE + N - 1, At(n, p)
      PROVE  e[p] = p + Len(serialize_tree[n])
  BY <1>3, <1>6, Zenon
<1>7. e = [p \in TREE..deserialize_tree[TREE] - 1 |-> deserialize_tree[p]]
  <2>1. TREE + N - 1 = deserialize_tree[TREE] - 1
    BY <1>4 DEF TREE
  <2>. QED
    BY <2>1, ZenonT(30)
<1>. HIDE DEF e
<1>8. Deserialized(e)
  BY <1>1, <1>5, <1>6, ZenonT(30) DEF Deserialized
<1>. QED
  BY <1>7, <1>8, Zenon

\* Where the payload starts.
LEMMA PayloadAt ==
  ASSUME IInv, TreeBuilt, Written(out_data, bitstream), Deserialized(subtree_end)
  PROVE  payload = TREE + tree_size[root]
<1>1. At(root, TREE) /\ TREE \in TREE..TREE + tree_size[root] - 1 /\ root \in Nodes
  BY RootAt, AtFacts, RootFacts
<1>2. subtree_end[TREE] = TREE + Len(serialize_tree[root])
  BY <1>1, ZenonT(30) DEF Deserialized
<1>. QED
  BY <1>1, <1>2, SerializeType DEF payload

\* A step down the deserialized tree is one down the tree that was serialized.
LEMMA ChildAt ==
  ASSUME IInv, TreeBuilt, Written(out_data, bitstream), Deserialized(subtree_end),
         NEW n \in Nodes, ~ IsLeaf(n), NEW p, At(n, p), NEW bit \in {0, 1}
  PROVE  /\ branch(n, bit) \in Nodes /\ At(branch(n, bit), child(p, bit))
         /\ child(p, bit) # NULL /\ child(p, bit) # TREE /\ child(p, bit) > p
<1>1. PICK N \in Nat : N = tree_size[root]
  BY RootFacts
<1>2. left(n) \in Nodes /\ right(n) \in Nodes
  BY NodeCases
<1>3. PICK L \in Nat \ {0} : L = Len(serialize_tree[left(n)])
  BY <1>2, SerializeType
<1>4. PICK R \in Nat \ {0} : R = Len(serialize_tree[right(n)])
  BY <1>2, SerializeType
<1>5. /\ p \in Nat /\ TREE <= p /\ Placed(out_data, serialize_tree[n], p)
      /\ p + Len(serialize_tree[n]) <= TREE + N
  BY <1>1, ZenonT(30) DEF At
<1>6. Len(out_data) \in Nat
  BY DEF Written
<1>7. /\ out_data[p] = STAR
      /\ Placed(out_data, serialize_tree[left(n)], p + 1)
      /\ Placed(out_data, serialize_tree[right(n)], p + 1 + L)
      /\ Len(serialize_tree[n]) = 1 + L + R
  BY <1>3, <1>4, <1>5, <1>6, PlacedChildren, ZenonT(30)
<1>8. /\ p + 1 \in Nat /\ TREE <= p + 1 /\ (p + 1) + L <= TREE + N
      /\ p + 1 + L \in Nat /\ TREE <= p + 1 + L /\ (p + 1 + L) + R <= TREE + N
  <2>1. p + (1 + L + R) <= TREE + N
    BY <1>5, <1>7
  <2>. QED
    BY <1>5, <2>1 DEF TREE
<1>9. At(left(n), p + 1) /\ At(right(n), p + 1 + L)
  BY <1>1, <1>3, <1>4, <1>7, <1>8, Zenon DEF At
<1>10. subtree_end[p + 1] = p + 1 + L
  <2>1. p + 1 \in TREE..TREE + tree_size[root] - 1
    BY <1>2, <1>9, AtFacts
  <2>. QED
    BY <1>2, <1>3, <1>9, <2>1, Zenon DEF Deserialized
<1>11. out_data[p + 1] # DASH /\ out_data[p + 1 + L] # DASH
  BY <1>2, <1>9, AtFacts
<1>12. /\ p + 1 # NULL /\ p + 1 + L # NULL /\ p + 1 # TREE /\ p + 1 + L # TREE
       /\ p + 1 > p /\ p + 1 + L > p
  BY <1>5 DEF NULL, TREE
<1>13. CASE bit = 0
  <2>1. child(p, bit) = p + 1 /\ branch(n, bit) = left(n)
    BY <1>7, <1>11, <1>13 DEF child, branch
  <2>. QED
    BY <1>2, <1>9, <1>12, <2>1
<1>14. CASE bit = 1
  <2>1. child(p, bit) = p + 1 + L /\ branch(n, bit) = right(n)
    BY <1>7, <1>10, <1>11, <1>14 DEF child, branch
  <2>. QED
    BY <1>2, <1>9, <1>12, <2>1
<1>. QED
  BY <1>13, <1>14

\* A leaf has no children to go to.
LEMMA LeafChild ==
  ASSUME IInv, TreeBuilt, Written(out_data, bitstream), NEW n \in Nodes, IsLeaf(n),
         NEW p, At(n, p), NEW bit
  PROVE  child(p, bit) = NULL
<1>1. out_data[p] # STAR
  BY AtFacts
<1>. QED
  BY <1>1 DEF child

\* The shift counts of the decoder.
LEMMA PowersOfTwo == \A k \in 0..7 : 2^k \in Nat \ {0}
<1>. SUFFICES ASSUME NEW k \in 0..7 PROVE 2^k \in Nat \ {0}
  BY Zenon
<1>1. k = 0 \/ k = 1 \/ k = 2 \/ k = 3 \/ k = 4 \/ k = 5 \/ k = 6 \/ k = 7
  OBVIOUS
<1>2. CASE k = 0
  <2>1. 2^0 = 1
    OBVIOUS
  <2>. QED
    BY <1>2, <2>1
<1>3. CASE k = 1
  <2>1. 2^1 = 2
    OBVIOUS
  <2>. QED
    BY <1>3, <2>1
<1>4. CASE k = 2
  <2>1. 2^2 = 4
    OBVIOUS
  <2>. QED
    BY <1>4, <2>1
<1>5. CASE k = 3
  <2>1. 2^3 = 8
    OBVIOUS
  <2>. QED
    BY <1>5, <2>1
<1>6. CASE k = 4
  <2>1. 2^4 = 16
    OBVIOUS
  <2>. QED
    BY <1>6, <2>1
<1>7. CASE k = 5
  <2>1. 2^5 = 32
    OBVIOUS
  <2>. QED
    BY <1>7, <2>1
<1>8. CASE k = 6
  <2>1. 2^6 = 64
    OBVIOUS
  <2>. QED
    BY <1>8, <2>1
<1>9. CASE k = 7
  <2>1. 2^7 = 128
    OBVIOUS
  <2>. QED
    BY <1>9, <2>1
<1>. QED
  BY <1>1, <1>2, <1>3, <1>4, <1>5, <1>6, <1>7, <1>8, <1>9, SMTT(30)

\* The payload gives back the bits that were put into it.
LEMMA ReadBit ==
  ASSUME IInv, TreeBuilt, Written(out_data, bitstream), Deserialized(subtree_end), NEW k \in Nat
  PROVE  /\ read_bit(k) \in {0, 1}
         /\ (k \in 0..Len(bitstream) - 1 => read_bit(k) = bitstream[k + 1])
<1>1. PICK p : p = payload + k \div 8
  OBVIOUS
<1>2. PICK N \in Nat : N = tree_size[root] /\ payload = TREE + N
  BY RootFacts, PayloadAt
<1>3. p \in Nat /\ p # 0 /\ p = TREE + N + k \div 8
  BY <1>1, <1>2 DEF TREE
<1>4. ASSUME k \in 0..Len(bitstream) - 1 PROVE read_bit(k) = bitstream[k + 1]
  <2>1. p \in 1..Len(out_data) /\ (out_data[p] \div 2^(k % 8)) % 2 = bitstream[k + 1]
    BY <1>2, <1>3, <1>4, Zenon DEF Written
  <2>2. p <= Len(out_data)
    BY <2>1
  <2>. QED
    BY <1>1, <2>1, <2>2 DEF read_bit
<1>5. read_bit(k) \in {0, 1}
  <2>1. CASE p <= Len(out_data)
    <3>1. out_data \in Seq(Byte) /\ p \in 1..Len(out_data)
      BY <1>3, <2>1 DEF Written
    <3>2. PICK x \in Nat : x = out_data[p]
      BY <3>1, Bytes
    <3>3. PICK j \in 0..7 : j = k % 8
      OBVIOUS
    <3>4. 2^j \in Nat \ {0}
      BY PowersOfTwo, ZenonT(30)
    <3>5. (x \div 2^j) % 2 \in {0, 1}
      BY <3>4
    <3>. QED
      BY <1>1, <2>1, <3>2, <3>3, <3>5, SMTT(30) DEF read_bit
  <2>2. CASE ~ p <= Len(out_data)
    BY <1>1, <2>2 DEF read_bit
  <2>. QED
    BY <2>1, <2>2
<1>. QED
  BY <1>4, <1>5

-----------------------------------------------------------------------------
(* The invariants of the two calls                                         *)

TreeInv == IInv /\ Weighed /\ data \in Blocks

Table == {entry(ZeroCode, w) : w \in words[root]}

\* The encoder works on the finished tree, with the table made from it.
EncodeInv ==
  /\ stage \in {"build", "encode", "encoded", "decode", "decoded"}
  /\ stage = "build" => encoding_table = {} /\ encoded = 0 /\ Len(bitstream) = 0
  /\ stage # "build" => TreeBuilt /\ encoding_table = Table /\ (IsLeaf(root) => Len(bitstream) = 0)
  /\ encoded \in Nat /\ encoded <= Len(data)
  /\ bitstream \in Seq({0, 1}) /\ Len(bitstream) \in Nat /\ Len(bitstream) <= 255 * encoded

\* The decoder works on the finished stream, at a node of the tree.
StreamInv ==
  /\ stage \in {"build", "encode"} => out_data = <<>>
  /\ stage \in {"encoded", "decode", "decoded"} => encoded = Len(data) /\ Written(out_data, bitstream)
  /\ bits_read \in Nat /\ curr \in Nat /\ inflated \in Seq(Byte \ {0})
  /\ stage \in {"build", "encode", "encoded"} => curr = TREE /\ bits_read = 0 /\ inflated = <<>>
  /\ stage = "decode" => Deserialized(subtree_end) /\ \E n \in Nodes : At(n, curr)

\* Whatever is read off the tree stays when the tree stays.
LEMMA SameTree ==
  ASSUME UNCHANGED treeVars
  PROVE  /\ serialize_tree' = serialize_tree /\ tree_size' = tree_size /\ words' = words
         /\ root' = root /\ Nodes' = Nodes /\ Leaves' = Leaves /\ data' = data
         /\ TreeBuilt' <=> TreeBuilt
         /\ \A n : IsLeaf(n)' <=> IsLeaf(n)
<1>1. tree_memory' = tree_memory /\ queue' = queue /\ data' = data /\ i' = i
  BY DEF treeVars
<1>2. serialize_tree' = serialize_tree
  BY <1>1, Zenon DEF serialize_tree, left, right, IsLeaf
<1>3. tree_size' = tree_size
  BY <1>1, ZenonT(30) DEF tree_size, left, right
<1>4. words' = words
  BY <1>1, Zenon DEF words, left, right, IsLeaf
<1>5. /\ root' = root /\ Nodes' = Nodes
      /\ (TreeBuilt' <=> TreeBuilt) /\ \A n : IsLeaf(n)' <=> IsLeaf(n)
  BY <1>1 DEF root, Nodes, TreeBuilt, IsLeaf
<1>6. Leaves' = Leaves
  BY <1>1, <1>5, Zenon DEF Leaves
<1>. QED
  BY <1>1, <1>2, <1>3, <1>4, <1>5, <1>6, Zenon

\* A stream stays one as long as the tree stays.
LEMMA SameWritten ==
  ASSUME UNCHANGED treeVars, Written(out_data', bitstream')
  PROVE  Written(out_data, bitstream)'
<1>1. serialize_tree' = serialize_tree /\ tree_size' = tree_size /\ root' = root
  BY SameTree
<1>. QED
  BY <1>1, Zenon DEF Written, Placed

\* A subtree stays where it stands in the stream.
LEMMA SameAt ==
  ASSUME UNCHANGED treeVars, UNCHANGED out_data, NEW n
  PROVE  \A p : At(n, p)' <=> At(n, p)
<1>1. serialize_tree' = serialize_tree /\ tree_size' = tree_size /\ root' = root
  BY SameTree
<1>. QED
  BY <1>1, Zenon DEF At, Placed

\* A deserialized tree stays one.
LEMMA SameDeserialized ==
  ASSUME UNCHANGED treeVars, UNCHANGED out_data, Deserialized(subtree_end')
  PROVE  Deserialized(subtree_end)'
<1>1. /\ serialize_tree' = serialize_tree /\ tree_size' = tree_size /\ root' = root
      /\ Nodes' = Nodes
  BY SameTree
<1>2. \A n, p : At(n, p)' <=> At(n, p)
  BY SameAt
<1>. QED
  BY <1>1, <1>2, Zenon DEF Deserialized

\* The tree is built as HuffmanTree says, and stays as it is once the encoder starts.
LEMMA TreeSteps == [CodecNext]_vars => [Next]_treeVars
<1>1. BuildStep => Next
  BY DEF BuildStep
<1>2. \/ StartEncoding \/ EncodeByte \/ FinishEncoding \/ StartDecoding \/ DecodeBit \/ FinishDecoding
      \/ UNCHANGED vars
      => UNCHANGED treeVars
  BY ZenonT(30) DEF StartEncoding, EncodeByte, FinishEncoding, StartDecoding, DecodeBit,
     FinishDecoding, vars
<1>. QED
  BY <1>1, <1>2 DEF CodecNext

\* What is known of the tree holds throughout the two calls.
LEMMA StepTreeInv == TreeInv /\ [CodecNext]_vars => TreeInv'
<1>. SUFFICES ASSUME TreeInv, [CodecNext]_vars PROVE TreeInv'
  OBVIOUS
<1>1. [Next]_treeVars
  BY TreeSteps
<1>2. IInv' /\ Weighed'
  BY <1>1, StepIInv, StepWeighed DEF TreeInv
<1>3. data' = data
  BY <1>1 DEF Next, CountSeen, CountNew, Merge, treeVars
<1>. QED
  BY <1>2, <1>3 DEF TreeInv

\* The table of a finished tree: one entry for each word.
LEMMA TableOfRoot ==
  ASSUME IInv, TreeBuilt
  PROVE  /\ build_encoding_table(root) = Table
         /\ \A info \in Table : \E w \in words[root] :
              /\ CodeWord(w)
              /\ info = entry(ZeroCode, w) /\ info.byte = w[1]
              /\ info.encoded_byte = shifted(ZERO, w[2]) /\ info.num_bits = Len(w[2])
<1>1. root \in Nodes
  BY RootFacts
<1>2. ZeroCode \in Code
  <2>1. ZERO \in uint8_t
    BY SMTT(30) DEF ZERO, uint8_t
  <2>2. 0 \in Byte
    BY Bytes
  <2>. QED
    BY <2>1, <2>2, Zenon DEF ZeroCode, Code
<1>3. build_encoding_table(root) = Table
  BY <1>1, <1>2, TableIs, Zenon DEF build_encoding_table, Table, ZeroCode
<1>4. ASSUME NEW info \in Table
      PROVE  \E w \in words[root] :
              /\ CodeWord(w)
              /\ info = entry(ZeroCode, w) /\ info.byte = w[1]
              /\ info.encoded_byte = shifted(ZERO, w[2]) /\ info.num_bits = Len(w[2])
  <2>1. PICK w \in words[root] : info = entry(ZeroCode, w)
    BY Zenon DEF Table
  <2>2. CodeWord(w)
    BY RootWords, Zenon
  <2>3. /\ entry(ZeroCode, w).byte = w[1]
        /\ entry(ZeroCode, w).encoded_byte = shifted(ZERO, w[2])
        /\ entry(ZeroCode, w).num_bits = Len(w[2])
    BY <2>2, EntryIs, Zenon
  <2>. QED
    BY <2>1, <2>2, <2>3, Zenon
<1>. QED
  BY <1>3, <1>4, Zenon

\* What the encoder appends to the stream for the next byte.
LEMMA EncodeByteFacts ==
  ASSUME TreeInv, EncodeInv, EncodeByte
  PROVE  \E w \in words[root] : \E e \in Seq({0, 1}) :
           /\ CodeWord(w) /\ w[1] = data[encoded + 1]
           /\ bitstream' = bitstream \o e
           /\ Len(e) = Len(w[2]) /\ (Len(w[2]) <= 8 => e = w[2])
<1>1. /\ IInv /\ Weighed /\ TreeBuilt /\ encoding_table = Table /\ stage = "encode"
      /\ encoded < Len(data)
      /\ encoded \in Nat
  BY ZenonT(30) DEF TreeInv, EncodeInv, EncodeByte
<1>2. encoded + 1 \in 1..Len(data)
  <2>1. Len(data) \in Nat
    BY <1>1 DEF IInv, TypeOK
  <2>. QED
    BY <1>1, <2>1
<1>3. PICK w0 \in words[root] : w0[1] = data[encoded + 1]
  BY <1>1, <1>2, BlockWords
<1>4. entry(ZeroCode, w0) \in Table /\ entry(ZeroCode, w0).byte = data[encoded + 1]
  <2>1. entry(ZeroCode, w0).byte = w0[1]
    BY ZenonT(30) DEF entry
  <2>. QED
    BY <1>3, <2>1, Zenon DEF Table
<1>5. PICK info : info = find_encoded_byte(encoding_table, data[encoded + 1])
  OBVIOUS
<1>6. info \in Table /\ info.byte = data[encoded + 1]
  BY <1>1, <1>4, <1>5, Found, Zenon
<1>7. PICK w \in words[root] :
        /\ CodeWord(w)
        /\ info.byte = w[1] /\ info.encoded_byte = shifted(ZERO, w[2])
        /\ info.num_bits = Len(w[2])
  BY <1>1, <1>6, TableOfRoot, ZenonT(30)
<1>8. PICK undef \in ShiftResults :
        bitstream' =
          bitstream \o put_bits(reverse_bits(info.encoded_byte, info.num_bits, undef), info.num_bits)
  BY <1>5, ZenonT(30) DEF EncodeByte
<1>9. undef \in uint8_t
  BY ShiftAssumption
<1>10. PICK e : e = put_bits(reverse_bits(shifted(ZERO, w[2]), Len(w[2]), undef), Len(w[2]))
  OBVIOUS
<1>11. bitstream' = bitstream \o e
  BY <1>7, <1>8, <1>10, ZenonT(30)
<1>12. e \in Seq({0, 1}) /\ Len(e) = Len(w[2]) /\ (Len(w[2]) <= 8 => e = w[2])
  BY <1>7, <1>9, <1>10, Emitted, SMTT(30)
<1>. QED
  BY <1>6, <1>7, <1>11, <1>12, Zenon

\* Bits appended to the stream.
LEMMA Appended ==
  ASSUME NEW S, NEW s \in Seq(S), NEW e \in Seq(S), NEW u, u = s \o e
  PROVE  /\ u \in Seq(S) /\ Len(u) = Len(s) + Len(e)
         /\ \A k \in 1..Len(s) : u[k] = s[k]
         /\ \A k \in 1..Len(e) : u[Len(s) + k] = e[k]
  OBVIOUS

\* huffman_compress keeps its invariant.
LEMMA StepEncodeInv == TreeInv /\ EncodeInv /\ [CodecNext]_vars => EncodeInv'
<1>. SUFFICES ASSUME TreeInv, EncodeInv, [CodecNext]_vars PROVE EncodeInv'
  OBVIOUS
<1>1. ASSUME UNCHANGED <<treeVars, encodeVars>>, stage # "build", stage' # "build",
             stage' \in {"build", "encode", "encoded", "decode", "decoded"}
      PROVE  EncodeInv'
  <2>1. /\ words' = words /\ root' = root
        /\ (TreeBuilt' <=> TreeBuilt) /\ (\A n : IsLeaf(n)' <=> IsLeaf(n))
        /\ data' = data
    BY <1>1, SameTree, Zenon
  <2>2. encoding_table' = encoding_table /\ encoded' = encoded /\ bitstream' = bitstream
    BY <1>1 DEF encodeVars
  <2>3. Table' = Table
    BY <2>1, Zenon DEF Table
  <2>. QED
    BY <1>1, <2>1, <2>2, <2>3, Zenon DEF EncodeInv
<1>2. CASE BuildStep
  <2>1. stage = "build" /\ stage' = "build" /\ UNCHANGED <<encoding_table, encoded, bitstream>>
    BY <1>2 DEF BuildStep, encodeVars
  <2>2. data' = data
    BY <1>2 DEF BuildStep, Next, CountSeen, CountNew, Merge
  <2>. QED
    BY <2>1, <2>2, Zenon DEF EncodeInv
<1>3. CASE StartEncoding
  <2>1. /\ stage = "build" /\ stage' = "encode" /\ TreeBuilt
        /\ encoding_table' = build_encoding_table(root)
        /\ UNCHANGED treeVars /\ UNCHANGED <<encoded, bitstream>>
    BY <1>3 DEF StartEncoding
  <2>2. words' = words /\ root' = root /\ (TreeBuilt' <=> TreeBuilt) /\ data' = data
    BY <2>1, SameTree, ZenonT(30)
  <2>3. Table' = Table
    BY <2>2, Zenon DEF Table
  <2>4. encoding_table' = Table
    BY <2>1, TableOfRoot DEF TreeInv
  <2>5. stage' # "build" /\ stage' \in {"build", "encode", "encoded", "decode", "decoded"}
    BY <2>1
  <2>. QED
    BY <2>1, <2>2, <2>3, <2>4, <2>5, Zenon DEF EncodeInv
<1>4. CASE EncodeByte
  <2>1. /\ stage = "encode" /\ stage' = "encode" /\ encoded < Len(data)
        /\ encoded' = encoded + 1
        /\ UNCHANGED treeVars /\ encoding_table' = encoding_table
    BY <1>4, ZenonT(30) DEF EncodeByte
  <2>2. /\ words' = words /\ root' = root
        /\ (TreeBuilt' <=> TreeBuilt) /\ (\A n : IsLeaf(n)' <=> IsLeaf(n))
        /\ data' = data
    BY <2>1, SameTree, ZenonT(30)
  <2>3. Table' = Table
    BY <2>2, Zenon DEF Table
  <2>4. PICK w \in words[root] : \E e \in Seq({0, 1}) :
          CodeWord(w) /\ bitstream' = bitstream \o e /\ Len(e) = Len(w[2])
    BY <1>4, EncodeByteFacts, ZenonT(30)
  <2>5. PICK e \in Seq({0, 1}) : CodeWord(w) /\ bitstream' = bitstream \o e /\ Len(e) = Len(w[2])
    BY <2>4
  <2>6. /\ TreeBuilt /\ bitstream \in Seq({0, 1}) /\ Len(bitstream) \in Nat
        /\ Len(bitstream) <= 255 * encoded
        /\ encoded \in Nat /\ (IsLeaf(root) => Len(bitstream) = 0) /\ encoding_table = Table
    BY <2>1 DEF EncodeInv
  <2>7. bitstream' \in Seq({0, 1}) /\ Len(bitstream') = Len(bitstream) + Len(w[2])
    <3>1. PICK s \in Seq({0, 1}) : s = bitstream
      BY <2>6
    <3>2. PICK u : u = s \o e
      BY ZenonT(30)
    <3>3. u \in Seq({0, 1}) /\ Len(u) = Len(s) + Len(e)
      BY <3>2, Appended
    <3>4. bitstream' = u
      BY <2>5, <3>1, <3>2, Zenon
    <3>. QED
      BY <2>5, <3>1, <3>3, <3>4, ZenonT(30)
  <2>8. Len(w[2]) \in Nat /\ Len(w[2]) <= 254
    BY <2>5 DEF CodeWord
  <2>9. IsLeaf(root) => Len(w[2]) = 0
    BY <2>6, RootWords DEF TreeInv
  <2>10. Len(bitstream') \in Nat /\ Len(bitstream') <= 255 * (encoded + 1)
    <3>1. \A x, y, z \in Nat : x <= 255 * z /\ y <= 254 => x + y \in Nat /\ x + y <= 255 * (z + 1)
      OBVIOUS
    <3>. QED
      BY <2>6, <2>7, <2>8, <3>1, SMTT(30)
  <2>11. IsLeaf(root) => Len(bitstream') = 0
    BY <2>6, <2>7, <2>9
  <2>12. encoded + 1 \in Nat /\ encoded + 1 <= Len(data)
    <3>1. Len(data) \in Nat
      BY DEF TreeInv, IInv, TypeOK
    <3>. QED
      BY <2>1, <2>6, <3>1
  <2>13. stage' # "build" /\ stage' \in {"build", "encode", "encoded", "decode", "decoded"}
    BY <2>1
  <2>. QED
    BY <2>1, <2>2, <2>3, <2>6, <2>7, <2>10, <2>11, <2>12, <2>13, SMTT(30) DEF EncodeInv
<1>5. CASE FinishEncoding
  BY <1>1, <1>5 DEF FinishEncoding
<1>6. CASE StartDecoding
  BY <1>1, <1>6 DEF StartDecoding
<1>7. CASE DecodeBit
  <2>1. stage = "decode" /\ stage' = stage /\ UNCHANGED <<treeVars, encodeVars>>
    BY <1>7 DEF DecodeBit
  <2>. QED
    BY <1>1, <2>1
<1>8. CASE FinishDecoding
  BY <1>1, <1>8 DEF FinishDecoding
<1>9. CASE UNCHANGED vars
  <2>1. UNCHANGED treeVars /\ UNCHANGED encodeVars /\ stage' = stage
    BY <1>9 DEF vars
  <2>2. CASE stage = "build"
    <3>1. data' = data /\ UNCHANGED <<encoding_table, encoded, bitstream>>
      BY <2>1 DEF treeVars, encodeVars
    <3>. QED
      BY <2>1, <2>2, <3>1, ZenonT(30) DEF EncodeInv
  <2>3. CASE stage # "build"
    BY <1>1, <2>1, <2>3 DEF EncodeInv
  <2>. QED
    BY <2>2, <2>3
<1>. QED
  BY <1>2, <1>3, <1>4, <1>5, <1>6, <1>7, <1>8, <1>9, SMTT(30) DEF CodecNext

\* The bit count of a block fits a uint16_t.
LEMMA BitsFit == TreeInv /\ EncodeInv => Len(bitstream) < WORD
<1>. SUFFICES ASSUME TreeInv, EncodeInv PROVE Len(bitstream) < WORD
  OBVIOUS
<1>1. PICK n, e, b \in Nat : n = Len(data) /\ e = encoded /\ b = Len(bitstream)
  <2>1. Len(data) \in Nat
    BY DEF TreeInv, IInv, TypeOK
  <2>2. encoded \in Nat /\ Len(bitstream) \in Nat
    BY DEF EncodeInv
  <2>. QED
    BY <2>1, <2>2, Zenon
<1>2. e <= n /\ b <= 255 * e
  BY <1>1 DEF EncodeInv
<1>3. 256 * n <= WORD /\ n # 0
  BY <1>1, CodecAssumption DEF TreeInv, IInv, TypeOK
<1>4. WORD \in Nat
  BY WordAssumption
<1>5. b < WORD
  BY <1>2, <1>3, <1>4
<1>. QED
  BY <1>1, <1>5

\* One bit of deserialize_next_char, seen on the tree that was serialized.
LEMMA DecodeBitFacts ==
  ASSUME TreeInv, EncodeInv, StreamInv, DecodeBit, NEW n \in Nodes, At(n, curr),
         NEW bit, bit = read_bit(bits_read)
  PROVE  /\ bit \in {0, 1}
         /\ IsLeaf(n) => curr' = TREE /\ inflated' = Append(inflated, QMARK)
         /\ ~ IsLeaf(n) =>
              /\ branch(n, bit) \in Nodes
              /\ IsLeaf(branch(n, bit)) =>
                   /\ tree_memory[branch(n, bit)].byte \in Alphabet /\ curr' = TREE
                   /\ inflated' = Append(inflated, tree_memory[branch(n, bit)].byte)
              /\ ~ IsLeaf(branch(n, bit)) =>
                   /\ At(branch(n, bit), curr') /\ curr' # TREE /\ curr' > curr
                   /\ inflated' = inflated
<1>1. /\ IInv /\ TreeBuilt /\ Written(out_data, bitstream) /\ Deserialized(subtree_end)
      /\ bits_read \in Nat
  BY DEF TreeInv, EncodeInv, StreamInv, DecodeBit
<1>2. bit \in {0, 1}
  BY <1>1, ReadBit, Zenon
<1>3. PICK next : next = child(curr, bit)
  OBVIOUS
<1>4. IF next # NULL /\ out_data[next] = STAR
      THEN curr' = next /\ inflated' = inflated
      ELSE /\ curr' = TREE
           /\ inflated' = Append(inflated, IF next = NULL THEN QMARK ELSE out_data[next])
  BY <1>3, Zenon DEF DecodeBit
<1>5. ASSUME IsLeaf(n) PROVE curr' = TREE /\ inflated' = Append(inflated, QMARK)
  <2>1. next = NULL
    BY <1>1, <1>3, <1>5, LeafChild, Zenon
  <2>. QED
    BY <1>4, <2>1, Zenon
<1>6. ASSUME ~ IsLeaf(n), NEW m, m = branch(n, bit)
      PROVE  /\ m \in Nodes
             /\ IsLeaf(m) => /\ tree_memory[m].byte \in Alphabet /\ curr' = TREE
                             /\ inflated' = Append(inflated, tree_memory[m].byte)
             /\ ~ IsLeaf(m) => /\ At(m, curr') /\ curr' # TREE /\ curr' > curr
                               /\ inflated' = inflated
  <2>1. m \in Nodes /\ At(m, next) /\ next # NULL /\ next # TREE /\ next > curr
    BY <1>1, <1>2, <1>3, <1>6, ChildAt, SMTT(30)
  <2>2. /\ IsLeaf(m) => out_data[next] = tree_memory[m].byte /\ out_data[next] \in Alphabet
        /\ out_data[next] = STAR <=> ~ IsLeaf(m)
    BY <1>1, <2>1, AtFacts, Zenon
  <2>. QED
    BY <1>4, <2>1, <2>2, Zenon
<1>. QED
  BY <1>2, <1>5, <1>6, Zenon

\* What the decoder may append is a byte and not 0.
LEMMA AppendedByte ==
  ASSUME NEW s \in Seq(Byte \ {0}), NEW x, x \in Alphabet \/ x = QMARK
  PROVE  Append(s, x) \in Seq(Byte \ {0})
<1>1. x \in Byte \ {0}
  BY LettersAndMarks, Bytes DEF QMARK
<1>. QED
  BY <1>1

\* huffman_inflate keeps its invariant.
LEMMA StepStreamInv == TreeInv /\ EncodeInv /\ StreamInv /\ [CodecNext]_vars => StreamInv'
<1>. SUFFICES ASSUME TreeInv, EncodeInv, StreamInv, [CodecNext]_vars PROVE StreamInv'
  OBVIOUS
<1>1. CASE BuildStep
  <2>1. stage = "build" /\ stage' = stage /\ UNCHANGED <<out_data, curr, bits_read, inflated>>
    BY <1>1 DEF BuildStep, decodeVars
  <2>2. /\ stage' \in {"build", "encode"} /\ stage' \notin {"encoded", "decode", "decoded"}
        /\ stage' # "decode"
        /\ stage' \in {"build", "encode", "encoded"}
    BY <2>1
  <2>. QED
    BY <2>1, <2>2, Zenon DEF StreamInv
<1>2. CASE StartEncoding \/ EncodeByte
  <2>1. /\ stage \in {"build", "encode"} /\ stage' = "encode"
        /\ UNCHANGED <<out_data, curr, bits_read, inflated>>
    BY <1>2 DEF StartEncoding, EncodeByte, decodeVars
  <2>2. /\ stage' \in {"build", "encode"} /\ stage' \notin {"encoded", "decode", "decoded"}
        /\ stage' # "decode"
        /\ stage' \in {"build", "encode", "encoded"} /\ stage \in {"build", "encode", "encoded"}
    BY <2>1
  <2>. QED
    BY <2>1, <2>2, ZenonT(30) DEF StreamInv
<1>3. CASE FinishEncoding
  <2>1. /\ stage = "encode" /\ stage' = "encoded" /\ encoded = Len(data) /\ UNCHANGED treeVars
        /\ UNCHANGED <<encoded, bitstream, curr, bits_read, inflated>>
    BY <1>3 DEF FinishEncoding, decodeVars, encodeVars
  <2>2. out_data' = <<low(tree_get_size(root)), high(Len(bitstream) % WORD), low(Len(bitstream) % WORD)>>
                      \o serialize_tree[root] \o pack(bitstream)
    BY <1>3, Zenon DEF FinishEncoding
  <2>. HIDE <2>2
  <2>3. IInv /\ TreeBuilt /\ bitstream \in Seq({0, 1}) /\ Len(bitstream) < WORD
    BY <2>1, BitsFit DEF TreeInv, EncodeInv
  <2>4. Written(out_data', bitstream)
    BY <2>2, <2>3, StreamWritten, Zenon
  <2>5. Written(out_data, bitstream)'
    BY <2>1, <2>4, SameWritten, Zenon
  <2>6. encoded' = Len(data')
    BY <2>1, SameTree, Zenon
  <2>7. /\ stage' \notin {"build", "encode"} /\ stage' # "decode"
        /\ stage \in {"build", "encode", "encoded"}
    BY <2>1
  <2>. QED
    BY <2>1, <2>5, <2>6, <2>7, Zenon DEF StreamInv
<1>4. CASE StartDecoding
  <2>1. /\ stage = "encoded" /\ stage' = "decode" /\ UNCHANGED treeVars /\ curr' = TREE
        /\ UNCHANGED <<encoded, bitstream, out_data, bits_read, inflated>>
        /\ subtree_end' = [p \in TREE..deserialize_tree[TREE] - 1 |-> deserialize_tree[p]]
    BY <1>4 DEF StartDecoding, encodeVars
  <2>2. IInv /\ TreeBuilt /\ Written(out_data, bitstream) /\ encoded = Len(data)
    BY <2>1 DEF TreeInv, EncodeInv, StreamInv
  <2>3. Written(out_data, bitstream)'
    BY <2>1, <2>2, SameWritten, Zenon
  <2>4. Deserialized(subtree_end)'
    BY <2>1, <2>2, DeserializedTree, SameDeserialized, ZenonT(30)
  <2>5. PICK r \in Nodes : At(r, TREE)
    BY <2>2, RootAt, RootFacts, Zenon
  <2>6. r \in Nodes' /\ At(r, TREE)' /\ data' = data
    BY <2>1, <2>5, SameTree, SameAt, Zenon
  <2>7. stage' \notin {"build", "encode"} /\ stage' \notin {"build", "encode", "encoded"}
    BY <2>1
  <2>8. TREE \in Nat
    BY DEF TREE
  <2>9. \E n \in Nodes' : At(n, curr)'
    BY <2>1, <2>6, Zenon DEF At
  <2>. QED
    BY <2>1, <2>2, <2>3, <2>4, <2>6, <2>7, <2>8, <2>9, Zenon DEF StreamInv
<1>5. CASE DecodeBit
  <2>1. /\ stage = "decode" /\ stage' = stage /\ UNCHANGED treeVars
        /\ bits_read' = bits_read + 1
        /\ UNCHANGED <<encoded, bitstream, out_data, subtree_end>>
    BY <1>5 DEF DecodeBit, encodeVars
  <2>2. /\ IInv /\ TreeBuilt /\ Written(out_data, bitstream) /\ encoded = Len(data)
        /\ bits_read \in Nat
        /\ Deserialized(subtree_end) /\ inflated \in Seq(Byte \ {0})
    BY <2>1 DEF TreeInv, EncodeInv, StreamInv
  <2>3. PICK n \in Nodes : At(n, curr)
    BY <2>1 DEF StreamInv
  <2>4. root \in Nodes /\ At(root, TREE)
    BY <2>2, RootAt, RootFacts, Zenon
  <2>5. (\E m \in Nodes : At(m, curr')) /\ inflated' \in Seq(Byte \ {0})
    <3>1. PICK bit : bit = read_bit(bits_read)
      OBVIOUS
    <3>2. CASE IsLeaf(n)
      <4>1. curr' = TREE /\ inflated' = Append(inflated, QMARK)
        BY <1>5, <2>3, <3>1, <3>2, DecodeBitFacts, Zenon
      <4>. QED
        BY <2>2, <2>4, <4>1, AppendedByte, Zenon
    <3>3. CASE ~ IsLeaf(n) /\ IsLeaf(branch(n, bit))
      <4>1. PICK x \in Alphabet : curr' = TREE /\ inflated' = Append(inflated, x)
        BY <1>5, <2>3, <3>1, <3>3, DecodeBitFacts, Zenon
      <4>. QED
        BY <2>2, <2>4, <4>1, AppendedByte, SMTT(30)
    <3>4. CASE ~ IsLeaf(n) /\ ~ IsLeaf(branch(n, bit))
      <4>1. branch(n, bit) \in Nodes /\ At(branch(n, bit), curr') /\ inflated' = inflated
        BY <1>5, <2>3, <3>1, <3>4, DecodeBitFacts, Zenon
      <4>. QED
        BY <2>2, <4>1
    <3>. QED
      BY <3>2, <3>3, <3>4, Zenon
  <2>6. Written(out_data, bitstream)' /\ Deserialized(subtree_end)'
    BY <2>1, <2>2, SameWritten, SameDeserialized, ZenonT(30)
  <2>7. data' = data /\ \E m \in Nodes' : At(m, curr)'
    <3>1. PICK m \in Nodes : At(m, curr')
      BY <2>5
    <3>2. /\ serialize_tree' = serialize_tree /\ tree_size' = tree_size /\ root' = root
          /\ Nodes' = Nodes
          /\ data' = data
      BY <2>1, SameTree, Zenon
    <3>3. At(m, curr)'
      BY <2>1, <3>1, <3>2, Zenon DEF At, Placed
    <3>. QED
      BY <3>2, <3>3, Zenon
  <2>8. stage' \notin {"build", "encode"} /\ stage' \notin {"build", "encode", "encoded"}
    BY <2>1
  <2>9. curr' \in Nat /\ bits_read + 1 \in Nat
    BY <2>2, <2>5 DEF At
  <2>. QED
    BY <2>1, <2>2, <2>5, <2>6, <2>7, <2>8, <2>9, Zenon DEF StreamInv
<1>6. CASE FinishDecoding
  <2>1. /\ stage = "decode" /\ stage' = "decoded" /\ UNCHANGED treeVars
        /\ UNCHANGED <<encoded, bitstream, out_data, curr, bits_read, inflated>>
    BY <1>6 DEF FinishDecoding, encodeVars, decodeVars
  <2>2. Written(out_data, bitstream) /\ encoded = Len(data)
    BY <2>1 DEF StreamInv
  <2>3. Written(out_data, bitstream)' /\ data' = data
    BY <2>1, <2>2, SameWritten, SameTree, Zenon
  <2>4. /\ stage' \notin {"build", "encode"} /\ stage' \notin {"build", "encode", "encoded"}
        /\ stage' # "decode"
    BY <2>1
  <2>. QED
    BY <2>1, <2>2, <2>3, <2>4, Zenon DEF StreamInv
<1>7. CASE UNCHANGED vars
  <2>1. /\ UNCHANGED treeVars /\ stage' = stage
        /\ UNCHANGED <<encoded, bitstream, out_data, subtree_end, curr, bits_read, inflated>>
    BY <1>7 DEF vars, encodeVars, decodeVars
  <2>2. Nodes' = Nodes /\ data' = data /\ \A n, p : At(n, p)' <=> At(n, p)
    BY <2>1, SameTree, SameAt, Zenon
  <2>3. /\ Written(out_data, bitstream) => Written(out_data, bitstream)'
        /\ Deserialized(subtree_end) => Deserialized(subtree_end)'
    BY <2>1, SameWritten, SameDeserialized, Zenon
  <2>4. \A n : At(n, curr) => At(n, curr)'
    BY <2>1, <2>2, Zenon DEF At
  <2>. QED
    BY <2>1, <2>2, <2>3, <2>4, Zenon DEF StreamInv
<1>. QED
  BY <1>1, <1>2, <1>3, <1>4, <1>5, <1>6, <1>7, SMTT(30) DEF CodecNext

\* The calls start with nothing encoded and nothing decoded.
LEMMA InitCodec == CodecInit => TreeInv /\ EncodeInv /\ StreamInv
<1>. SUFFICES ASSUME CodecInit PROVE TreeInv /\ EncodeInv /\ StreamInv
  OBVIOUS
<1>1. /\ Init /\ stage = "build" /\ encoding_table = {} /\ encoded = 0 /\ bitstream = <<>>
      /\ out_data = <<>>
      /\ curr = TREE /\ bits_read = 0 /\ inflated = <<>>
  BY DEF CodecInit
<1>2. TreeInv
  BY <1>1, InitIInv, InitWeighed, SMTT(30) DEF TreeInv, Init
<1>3. EncodeInv
  <2>1. Len(data) \in Nat
    BY <1>2 DEF TreeInv, IInv, TypeOK
  <2>2. bitstream \in Seq({0, 1}) /\ Len(bitstream) = 0
    BY <1>1
  <2>. QED
    BY <1>1, <2>1, <2>2, SMTT(30) DEF EncodeInv
<1>4. StreamInv
  BY <1>1 DEF StreamInv, TREE
<1>. QED
  BY <1>2, <1>3, <1>4

\* The invariants of huffman_compress and huffman_inflate hold at every step of the
\* two calls, for every alphabet and block.
THEOREM CodecInvariance == CodecSpec => [](TreeInv /\ EncodeInv /\ StreamInv)
<1>1. TreeInv /\ EncodeInv /\ StreamInv /\ [CodecNext]_vars
        => (TreeInv /\ EncodeInv /\ StreamInv)'
  BY StepTreeInv, StepEncodeInv, StepStreamInv
<1>. QED
  BY InitCodec, <1>1, PTL DEF CodecSpec

\* huffman_compress builds its tree as HuffmanTree describes, and neither the
\* encoder nor the decoder changes it.
THEOREM CodecBuildsTree == CodecSpec => Init /\ [][Next]_treeVars
<1>1. CodecInit => Init
  BY DEF CodecInit
<1>. QED
  BY <1>1, TreeSteps, PTL DEF CodecSpec

\* Whatever block is compressed and inflated, the tree keeps its types,
\* the encoder emits bits and bytes only, the table holds codes of a byte, and the
\* decoder hands out no byte 0.
THEOREM CodecTypeCorrect == CodecSpec => []CodecTypeOK
<1>1. TreeInv /\ EncodeInv /\ StreamInv => CodecTypeOK
  <2>. SUFFICES ASSUME TreeInv, EncodeInv, StreamInv PROVE CodecTypeOK
    OBVIOUS
  <2>1. encoding_table \subseteq Entry
    <3>1. CASE stage = "build"
      BY <3>1 DEF EncodeInv
    <3>2. CASE stage # "build"
      <4>1. IInv /\ TreeBuilt /\ encoding_table = Table
        BY <3>2 DEF TreeInv, EncodeInv
      <4>2. ASSUME NEW info \in Table PROVE info \in Entry
        <5>1. PICK w \in words[root] : CodeWord(w) /\ info = entry(ZeroCode, w)
          BY <4>1, TableOfRoot, Zenon
        <5>. QED
          BY <5>1, EntryType
      <4>. QED
        BY <4>1, <4>2
    <3>. QED
      BY <3>1, <3>2
  <2>2. encoded \in 0..Len(data)
    <3>1. Len(data) \in Nat /\ encoded \in Nat /\ encoded <= Len(data)
      BY DEF TreeInv, IInv, TypeOK, EncodeInv
    <3>. QED
      BY <3>1
  <2>3. out_data \in Seq(Byte)
    <3>1. CASE stage \in {"build", "encode"}
      BY <3>1 DEF StreamInv
    <3>2. CASE stage \in {"encoded", "decode", "decoded"}
      BY <3>2 DEF StreamInv, Written
    <3>. QED
      BY <3>1, <3>2 DEF EncodeInv
  <2>4. inflated \in Seq(Byte \ {0})
    BY DEF StreamInv
  <2>5. /\ stage \in {"build", "encode", "encoded", "decode", "decoded"}
        /\ bitstream \in Seq({0, 1})
        /\ curr \in Nat /\ bits_read \in Nat
    BY DEF EncodeInv, StreamInv
  <2>6. TypeOK
    BY DEF TreeInv, IInv
  <2>. QED
    BY <2>1, <2>2, <2>3, <2>4, <2>5, <2>6, Zenon DEF CodecTypeOK, Entry
<1>. QED
  BY <1>1, CodecInvariance, PTL

\* Whatever block is compressed, the stream describes itself: the decoder finds the
\* payload where the encoder put it, and the counts in front are the tree's size and
\* the number of bits.
THEOREM StreamLayoutCorrect == CodecSpec => []StreamLayout
<1>1. TreeInv /\ EncodeInv /\ StreamInv => StreamLayout
  <2>. SUFFICES ASSUME TreeInv, EncodeInv, StreamInv, stage = "decode"
                PROVE  /\ payload = TREE + out_data[1]
                       /\ Cardinality({p \in DOMAIN subtree_end : out_data[p] # DASH}) = out_data[1]
                       /\ total_bits = Len(bitstream)
                       /\ Len(out_data) = 3 + out_data[1] + (total_bits + 7) \div 8
    BY DEF StreamLayout
  <2>1. IInv /\ TreeBuilt /\ Written(out_data, bitstream) /\ Deserialized(subtree_end)
    BY DEF TreeInv, EncodeInv, StreamInv
  <2>2. PICK N \in Nat : N = tree_size[root] /\ N # 0
    BY <2>1, RootFacts
  <2>3. out_data[1] = N
    BY <2>1, <2>2 DEF Written
  <2>4. total_bits = Len(bitstream)
    BY <2>1 DEF Written, total_bits
  <2>5. Len(out_data) = 3 + N + (total_bits + 7) \div 8
    BY <2>1, <2>2, <2>4 DEF Written
  <2>6. payload = TREE + N
    BY <2>1, <2>2, PayloadAt
  <2>7. DOMAIN subtree_end = TREE..TREE + N - 1
    BY <2>1, <2>2, Zenon DEF Deserialized
  <2>8. ASSUME NEW p \in TREE..TREE + N - 1 PROVE out_data[p] # DASH
    <3>1. root \in Nodes /\ serialize_tree[root] \in Seq(Marks) /\ Len(serialize_tree[root]) = N
      BY <2>1, <2>2, RootFacts, SerializeType
    <3>2. PICK k \in 1..N : TREE + k - 1 = p
      <4>1. p - TREE + 1 \in 1..N /\ TREE + (p - TREE + 1) - 1 = p
        BY <2>2 DEF TREE
      <4>. QED
        BY <4>1
    <3>3. out_data[p] = serialize_tree[root][k]
      BY <2>1, <3>1, <3>2, Zenon DEF Written, Placed
    <3>4. serialize_tree[root][k] \in Marks
      BY <3>1, <3>2
    <3>5. DASH \notin Marks
      BY LettersAndMarks DEF Marks, STAR, DASH
    <3>. QED
      BY <3>3, <3>4, <3>5, Zenon
  <2>9. {p \in DOMAIN subtree_end : out_data[p] # DASH} = TREE..TREE + N - 1
    BY <2>7, <2>8, Zenon
  <2>10. Cardinality(TREE..TREE + N - 1) = N
    <3>1. \A a, b \in Int : Cardinality(a..b) = IF a > b THEN 0 ELSE b - a + 1
      BY FS_Interval
    <3>2. /\ TREE \in Int /\ TREE + N - 1 \in Int /\ ~ TREE > TREE + N - 1
          /\ (TREE + N - 1) - TREE + 1 = N
      BY <2>2 DEF TREE
    <3>. QED
      BY <3>1, <3>2, Zenon
  <2>. QED
    BY <2>3, <2>4, <2>5, <2>6, <2>9, <2>10, Zenon
<1>. QED
  BY <1>1, CodecInvariance, PTL

-----------------------------------------------------------------------------
(* The round trip                                                          *)

\* The bits b spell the first m bytes of the block d in words of W, the word of byte
\* j ending at off[j].
Spells(off, W, d, m, b) ==
  /\ off \in [0..m -> Nat] /\ off[0] = 0 /\ off[m] = Len(b)
  /\ \A j \in 1..m :
       /\ off[j] <= 8 * j
       /\ \E w \in W : /\ w[1] = d[j] /\ Placed(b, w[2], off[j - 1] + 1)
                      /\ off[j] = off[j - 1] + Len(w[2])

\* The decoder, at position p of the tree, with r bits read and the bytes s written,
\* has read a prefix of the block and is on the way to the next byte.
Reading(off, p, r, s) ==
  /\ Len(s) \in Nat /\ Len(s) <= Len(data) /\ \A k \in 1..Len(s) : s[k] = data[k]
  /\ Len(s) = Len(data) => p = TREE /\ r = Len(bitstream)
  /\ Len(s) < Len(data) =>
       /\ p = TREE => r <= 8 * Len(s)
       /\ \E n \in Nodes : \E w \in words[n] :
            /\ ~ IsLeaf(n) /\ At(n, p) /\ w[1] = data[Len(s) + 1]
            /\ Placed(bitstream, w[2], r + 1) /\ r + Len(w[2]) = off[Len(s) + 1]

RoundInv ==
  stage # "build" /\ ShortCodes =>
    /\ \E off : /\ Spells(off, words[root], data, encoded, bitstream)
                /\ stage = "decode" /\ ~ IsLeaf(root) => Reading(off, curr, bits_read, inflated)
    /\ stage = "decode" /\ IsLeaf(root) => curr = TREE /\ bits_read = 0 /\ inflated = <<>>
    /\ stage = "decoded" =>
         bits_read <= Len(bitstream) /\ inflated = IF IsLeaf(root) THEN <<>> ELSE data

\* One more word at the end of the bits.
LEMMA SpellsMore ==
  ASSUME NEW W, NEW d, NEW m \in Nat, NEW b \in Seq({0, 1}), NEW off, Spells(off, W, d, m, b),
         \A v \in W : Len(v[2]) \in Nat,
         NEW w \in W, w[1] = d[m + 1], NEW e \in Seq({0, 1}), e = w[2],
         Len(e) <= 8, NEW u, u = b \o e
  PROVE  \E o : Spells(o, W, d, m + 1, u)
<1>1. PICK B, L \in Nat : B = Len(b) /\ L = Len(e)
  OBVIOUS
<1>2. Len(u) = B + L /\ (\A k \in 1..B : u[k] = b[k]) /\ (\A k \in 1..L : u[B + k] = e[k])
  BY <1>1, Appended
<1>3. /\ off \in [0..m -> Nat] /\ off[0] = 0 /\ off[m] = B
      /\ \A j \in 1..m :
           /\ off[j] <= 8 * j
           /\ \E v \in W : /\ v[1] = d[j] /\ Placed(b, v[2], off[j - 1] + 1)
                          /\ off[j] = off[j - 1] + Len(v[2])
  BY <1>1, Zenon DEF Spells
<1>. DEFINE o == [j \in 0..m + 1 |-> IF j <= m THEN off[j] ELSE B + L]
<1>4. o \in [0..m + 1 -> Nat] /\ o[0] = 0 /\ o[m + 1] = Len(u) /\ o[m] = B
      /\ \A j \in 0..m : o[j] = off[j]
  BY <1>1, <1>2, <1>3, SMTT(30)
<1>. HIDE DEF o
<1>5. ASSUME NEW j \in 1..m + 1
      PROVE  /\ o[j] <= 8 * j
             /\ \E v \in W : /\ v[1] = d[j] /\ Placed(u, v[2], o[j - 1] + 1)
                            /\ o[j] = o[j - 1] + Len(v[2])
  <2>1. CASE j <= m
    <3>1. j \in 1..m /\ j \in 0..m /\ j - 1 \in 0..m
      BY <2>1
    <3>2. o[j] = off[j] /\ o[j - 1] = off[j - 1] /\ off[j] <= 8 * j
      BY <1>3, <1>4, <3>1, Zenon
    <3>3. PICK v \in W : /\ v[1] = d[j] /\ Placed(b, v[2], off[j - 1] + 1)
                        /\ off[j] = off[j - 1] + Len(v[2])
      BY <1>3, <3>1, Zenon
    <3>4. Placed(u, v[2], off[j - 1] + 1)
      <4>1. PICK p \in Nat \ {0} : p = off[j - 1] + 1
        BY <1>3, <3>1
      <4>2. PICK s : s = v[2]
        OBVIOUS
      <4>3. p + Len(s) <= B + 1 /\ \A k \in 1..Len(s) : b[p + k - 1] = s[k]
        BY <1>1, <3>3, <4>1, <4>2, Zenon DEF Placed
      <4>4. Len(s) \in Nat
        BY <4>2
      <4>5. ASSUME NEW k \in 1..Len(s) PROVE u[p + k - 1] = s[k]
        <5>1. p + k - 1 \in 1..B
          BY <4>3, <4>4
        <5>. QED
          BY <1>2, <4>3, <5>1, ZenonT(30)
      <4>6. p + Len(s) <= Len(u) + 1
        BY <1>2, <4>3, <4>4
      <4>. QED
        BY <4>1, <4>2, <4>5, <4>6, ZenonT(30) DEF Placed
    <3>. QED
      BY <3>2, <3>3, <3>4, Zenon
  <2>2. CASE ~ j <= m
    <3>1. j = m + 1 /\ j - 1 = m
      BY <2>2
    <3>2. Placed(u, e, B + 1)
      <4>1. \A x \in Nat : \A k \in 1..L : x + 1 + k - 1 = x + k
        OBVIOUS
      <4>2. \A x, y \in Nat : x + 1 \in Nat \ {0} /\ (x + 1) + y <= (x + y) + 1
        OBVIOUS
      <4>3. B + 1 \in Nat \ {0} /\ (B + 1) + Len(e) <= Len(u) + 1
        BY <1>1, <1>2, <4>2, Zenon
      <4>4. \A k \in 1..Len(e) : u[B + 1 + k - 1] = e[k]
        BY <1>1, <1>2, <4>1, ZenonT(30)
      <4>. QED
        BY <4>3, <4>4, Zenon DEF Placed
    <3>3. o[j] = B + L /\ o[j - 1] = B
      BY <1>2, <1>4, <3>1, SMTT(30)
    <3>4. B <= 8 * m
      <4>1. CASE m = 0
        BY <1>3, <4>1
      <4>2. CASE m # 0
        BY <1>3, <4>2
      <4>. QED
        BY <4>1, <4>2
    <3>5. o[j] <= 8 * j
      BY <1>1, <3>1, <3>3, <3>4
    <3>. QED
      BY <1>1, <3>1, <3>2, <3>3, <3>5, ZenonT(30)
  <2>. QED
    BY <2>1, <2>2
<1>6. Spells(o, W, d, m + 1, u)
  BY <1>4, <1>5, Zenon DEF Spells
<1>. QED
  BY <1>6

\* The bit string u, placed, starts with a bit and goes on with the bit string s.
LEMMA PlacedRest ==
  ASSUME NEW t, Len(t) \in Nat, NEW r \in Nat, NEW u, NEW bit, NEW s, StartsWith(u, bit, s),
         Placed(t, u, r + 1)
  PROVE  /\ r \in 0..Len(t) - 1 /\ t[r + 1] = bit
         /\ Placed(t, s, (r + 1) + 1) /\ r + Len(u) = (r + 1) + Len(s)
<1>1. PICK L, T \in Nat : L = Len(s) /\ T = Len(t)
  BY DEF StartsWith
<1>2. Len(u) = L + 1 /\ u[1] = bit /\ \A k \in 1..L : u[k + 1] = s[k]
  BY <1>1 DEF StartsWith
<1>3. (r + 1) + (L + 1) <= T + 1 /\ \A k \in 1..L + 1 : t[(r + 1) + k - 1] = u[k]
  BY <1>1, <1>2, Zenon DEF Placed
<1>. HIDE DEF Placed
<1>4. r \in 0..T - 1 /\ r + (L + 1) = (r + 1) + L
  BY <1>3
<1>5. t[r + 1] = bit
  <2>1. 1 \in 1..L + 1 /\ (r + 1) + 1 - 1 = r + 1
    OBVIOUS
  <2>. QED
    BY <1>2, <1>3, <2>1, Zenon
<1>6. ASSUME NEW k \in 1..L PROVE t[((r + 1) + 1) + k - 1] = s[k]
  <2>1. k + 1 \in 1..L + 1 /\ (r + 1) + (k + 1) - 1 = ((r + 1) + 1) + k - 1
    OBVIOUS
  <2>. QED
    BY <1>2, <1>3, <2>1, Zenon
<1>7. (r + 1) + 1 \in Nat \ {0} /\ ((r + 1) + 1) + L <= T + 1
  BY <1>3
<1>. QED
  BY <1>1, <1>2, <1>4, <1>5, <1>6, <1>7, Zenon DEF Placed

\* At the end of a byte the decoder is at the start of the next one.
LEMMA NextByte ==
  ASSUME IInv, TreeBuilt, Written(out_data, bitstream), ~ IsLeaf(root),
         NEW off, Spells(off, words[root], data, Len(data), bitstream),
         NEW s, Len(s) \in Nat, Len(s) <= Len(data), \A k \in 1..Len(s) : s[k] = data[k]
  PROVE  Reading(off, TREE, off[Len(s)], s)
<1>1. PICK m, D \in Nat : m = Len(s) /\ D = Len(data)
  BY DEF IInv, TypeOK
<1>2. /\ off \in [0..D -> Nat] /\ off[0] = 0 /\ off[D] = Len(bitstream)
      /\ \A j \in 1..D :
           /\ off[j] <= 8 * j
           /\ \E w \in words[root] : /\ w[1] = data[j] /\ Placed(bitstream, w[2], off[j - 1] + 1)
                                     /\ off[j] = off[j - 1] + Len(w[2])
  BY <1>1, Zenon DEF Spells
<1>3. ASSUME m < D
      PROVE  /\ off[m] <= 8 * m
             /\ \E n \in Nodes : \E w \in words[n] :
                  /\ ~ IsLeaf(n) /\ At(n, TREE) /\ w[1] = data[m + 1]
                  /\ Placed(bitstream, w[2], off[m] + 1) /\ off[m] + Len(w[2]) = off[m + 1]
  <2>1. off[m] <= 8 * m
    <3>1. CASE m = 0
      BY <1>2, <3>1
    <3>2. CASE m # 0
      <4>1. m \in 1..D
        BY <1>3, <3>2
      <4>. QED
        BY <1>2, <4>1, Zenon
    <3>. QED
      BY <3>1, <3>2, ZenonT(30)
  <2>2. m + 1 \in 1..D /\ (m + 1) - 1 = m
    BY <1>3
  <2>3. PICK w \in words[root] : /\ w[1] = data[m + 1] /\ Placed(bitstream, w[2], off[m] + 1)
                                 /\ off[m + 1] = off[m] + Len(w[2])
    BY <1>2, <2>2, Zenon
  <2>4. root \in Nodes /\ At(root, TREE)
    BY RootAt, RootFacts, ZenonT(30)
  <2>. QED
    BY <2>1, <2>3, <2>4, Zenon
<1>4. m = D => off[m] = Len(bitstream)
  BY <1>2, Zenon
<1>. QED
  BY <1>1, <1>3, <1>4, Zenon DEF Reading

\* A bit on the way to a byte leads on, or to the byte.
LEMMA ReadingBit ==
  ASSUME TreeInv, EncodeInv, StreamInv, DecodeBit, ~ IsLeaf(root),
         NEW off, Spells(off, words[root], data, Len(data), bitstream),
         Reading(off, curr, bits_read, inflated)
  PROVE  Reading(off, curr', bits_read', inflated')
<1>1. /\ IInv /\ TreeBuilt /\ Written(out_data, bitstream) /\ Deserialized(subtree_end)
      /\ bits_read \in Nat
      /\ inflated \in Seq(Byte \ {0}) /\ Len(bitstream) \in Nat
  BY ZenonT(30) DEF TreeInv, EncodeInv, StreamInv, DecodeBit
<1>2. PICK m, D, r \in Nat : m = Len(inflated) /\ D = Len(data) /\ r = bits_read
  BY <1>1 DEF IInv, TypeOK
<1>3. m <= D /\ (\A k \in 1..m : inflated[k] = data[k])
  BY <1>2, Zenon DEF Reading
<1>4. m # D
  <2>. SUFFICES ASSUME m = D PROVE FALSE
    OBVIOUS
  <2>1. curr = TREE /\ r = Len(bitstream)
    BY <1>2, Zenon DEF Reading
  <2>2. r < total_bits /\ total_bits = Len(bitstream)
    BY <1>1, <1>2, <2>1, ZenonT(30) DEF DecodeBit, MoreBits, Written, total_bits
  <2>. QED
    BY <2>1, <2>2
<1>5. m < D
  BY <1>3, <1>4
<1>6. PICK n \in Nodes : \E w \in words[n] :
        /\ ~ IsLeaf(n) /\ At(n, curr) /\ w[1] = data[m + 1]
        /\ Placed(bitstream, w[2], r + 1) /\ r + Len(w[2]) = off[m + 1]
  BY <1>2, <1>5, Zenon DEF Reading
<1>7. PICK w \in words[n] :
        /\ ~ IsLeaf(n) /\ At(n, curr) /\ w[1] = data[m + 1]
        /\ Placed(bitstream, w[2], r + 1) /\ r + Len(w[2]) = off[m + 1]
  BY <1>6, Zenon
<1>8. PICK bit \in {0, 1} : \E v \in words[branch(n, bit)] :
        w[1] = v[1] /\ StartsWith(w[2], bit, v[2])
  BY <1>1, <1>7, WordBit, Zenon DEF StartsWith
<1>9. PICK v \in words[branch(n, bit)] : w[1] = v[1] /\ StartsWith(w[2], bit, v[2])
  BY <1>8, Zenon
<1>10. /\ r \in 0..Len(bitstream) - 1 /\ bitstream[r + 1] = bit
       /\ Placed(bitstream, v[2], (r + 1) + 1) /\ r + Len(w[2]) = (r + 1) + Len(v[2])
  <2>1. PICK u, s : u = w[2] /\ s = v[2]
    BY ZenonT(30)
  <2>2. StartsWith(u, bit, s) /\ Placed(bitstream, u, r + 1)
    BY <1>7, <1>9, <2>1, Zenon
  <2>3. /\ r \in 0..Len(bitstream) - 1 /\ bitstream[r + 1] = bit
        /\ Placed(bitstream, s, (r + 1) + 1) /\ r + Len(u) = (r + 1) + Len(s)
    <3>1. Len(bitstream) \in Nat
      BY <1>1
    <3>. QED
      BY <2>2, <3>1, PlacedRest, SMTT(30)
  <2>. QED
    BY <2>1, <2>3, Zenon
<1>11. read_bit(bits_read) = bit
  BY <1>1, <1>2, <1>10, ReadBit, Zenon
<1>12. bits_read' = r + 1
  BY <1>2 DEF DecodeBit
<1>13. branch(n, bit) \in Nodes
  BY <1>7, <1>11, DecodeBitFacts, ZenonT(30)
<1>14. CASE ~ IsLeaf(branch(n, bit))
  <2>1. At(branch(n, bit), curr') /\ curr' # TREE /\ inflated' = inflated
    BY <1>7, <1>11, <1>14, DecodeBitFacts, ZenonT(30)
  <2>2. /\ v[1] = data[m + 1] /\ Placed(bitstream, v[2], (r + 1) + 1)
        /\ (r + 1) + Len(v[2]) = off[m + 1]
    BY <1>7, <1>9, <1>10, Zenon
  <2>. QED
    BY <1>2, <1>3, <1>4, <1>12, <1>13, <1>14, <2>1, <2>2, Zenon DEF Reading
<1>15. CASE IsLeaf(branch(n, bit))
  <2>1. PICK x : /\ x = tree_memory[branch(n, bit)].byte /\ curr' = TREE
                 /\ inflated' = Append(inflated, x)
    BY <1>7, <1>11, <1>15, DecodeBitFacts, ZenonT(30)
  <2>2. v = <<x, <<>>>>
    BY <1>1, <1>9, <1>13, <1>15, <2>1, WordsIs, ZenonT(30)
  <2>3. x = data[m + 1] /\ Len(v[2]) = 0
    BY <1>7, <1>9, <2>2, ZenonT(30)
  <2>. HIDE <2>2
  <2>4. off[m + 1] = r + 1
    BY <1>7, <1>10, <2>3
  <2>5. Len(inflated') = m + 1 /\ \A k \in 1..m + 1 : inflated'[k] = data[k]
    <3>1. PICK s \in Seq(Byte \ {0}) : s = inflated
      BY <1>1, ZenonT(30)
    <3>2. Len(s) = m /\ Len(Append(s, x)) = m + 1 /\ \A k \in 1..m : Append(s, x)[k] = s[k]
      BY <1>2, <3>1, SMTT(30)
    <3>3. Append(s, x)[m + 1] = x
      BY <1>2, <3>1, SMTT(30)
    <3>4. \A k \in 1..m + 1 : k \in 1..m \/ k = m + 1
      OBVIOUS
    <3>. QED
      BY <1>3, <2>1, <2>3, <3>1, <3>2, <3>3, <3>4, ZenonT(30)
  <2>6. m + 1 \in Nat /\ m + 1 <= D
    BY <1>5, SMTT(30)
  <2>7. Reading(off, TREE, off[m + 1], inflated')
    BY <1>1, <1>2, <2>5, <2>6, NextByte, SMTT(30)
  <2>. QED
    BY <1>12, <2>1, <2>4, <2>7, ZenonT(30)
<1>. QED
  BY <1>14, <1>15, ZenonT(30)

\* When the decoder stops it has read the whole block.
LEMMA ReadingEnds ==
  ASSUME TreeInv, EncodeInv, StreamInv, FinishDecoding, NEW off,
         Reading(off, curr, bits_read, inflated)
  PROVE  bits_read = Len(bitstream) /\ inflated = data
<1>1. /\ IInv /\ TreeBuilt /\ Written(out_data, bitstream) /\ bits_read \in Nat
      /\ curr = TREE /\ ~ MoreBits
      /\ inflated \in Seq(Byte \ {0}) /\ Len(bitstream) \in Nat /\ data \in Seq(Alphabet)
  BY Zenon DEF TreeInv, EncodeInv, StreamInv, FinishDecoding, IInv, TypeOK
<1>2. PICK m, D, r \in Nat : m = Len(inflated) /\ D = Len(data) /\ r = bits_read
  BY <1>1
<1>3. m <= D /\ (\A k \in 1..m : inflated[k] = data[k])
  BY <1>2, Zenon DEF Reading
<1>4. ASSUME m < D PROVE FALSE
  <2>1. PICK n \in Nodes : \E w \in words[n] : ~ IsLeaf(n) /\ Placed(bitstream, w[2], r + 1)
    BY <1>2, <1>4, Zenon DEF Reading
  <2>2. PICK w \in words[n] : ~ IsLeaf(n) /\ Placed(bitstream, w[2], r + 1)
    BY <2>1, Zenon
  <2>3. PICK bit \in {0, 1} : \E v \in words[branch(n, bit)] : StartsWith(w[2], bit, v[2])
    BY <1>1, <2>2, WordBit, ZenonT(30) DEF StartsWith
  <2>4. PICK s : StartsWith(w[2], bit, s)
    BY <2>3, Zenon
  <2>5. r \in 0..Len(bitstream) - 1
    BY <1>1, <2>2, <2>4, PlacedRest, Zenon
  <2>6. r <= 8 * m
    BY <1>1, <1>2, <1>4, Zenon DEF Reading
  <2>7. r \div 8 < D
    BY <1>4, <2>6, SMTT(30)
  <2>8. total_bits = Len(bitstream)
    BY <1>1 DEF Written, total_bits
  <2>9. r < Len(bitstream)
    BY <1>1, <2>5
  <2>. QED
    BY <1>1, <1>2, <2>7, <2>8, <2>9, Zenon DEF MoreBits
<1>5. m = D
  BY <1>3, <1>4
<1>6. bits_read = Len(bitstream)
  BY <1>2, <1>5, Zenon DEF Reading
<1>7. inflated = data
  <2>1. inflated = [k \in 1..m |-> inflated[k]] /\ data = [k \in 1..D |-> data[k]]
    BY <1>1, <1>2
  <2>. QED
    BY <1>3, <1>5, <2>1
<1>. QED
  BY <1>6, <1>7

\* The codes of the block are short.
LEMMA ShortWords ==
  ASSUME IInv, TreeBuilt, encoding_table = Table, ShortCodes, NEW w \in words[root]
  PROVE  Len(w[2]) <= 8
<1>1. entry(ZeroCode, w) \in encoding_table
  BY Zenon DEF Table
<1>2. entry(ZeroCode, w).num_bits = Len(w[2])
  BY RootWords, EntryIs, ZenonT(30)
<1>. QED
  BY <1>1, <1>2, Zenon DEF ShortCodes

\* What RoundInv says of the decoder stays when nothing that it speaks of changes.
LEMMA SameReading ==
  ASSUME UNCHANGED treeVars, UNCHANGED <<bitstream, out_data>>, NEW off,
         Reading(off, curr', bits_read', inflated')
  PROVE  Reading(off, curr, bits_read, inflated)'
<1>1. /\ words' = words /\ Nodes' = Nodes /\ data' = data /\ (\A n : IsLeaf(n)' <=> IsLeaf(n))
      /\ serialize_tree' = serialize_tree /\ tree_size' = tree_size /\ root' = root
  BY SameTree, Zenon
<1>2. \A n : At(n, curr') => At(n, curr)'
  BY <1>1, ZenonT(30) DEF At, Placed
<1>. QED
  BY <1>1, <1>2, Zenon DEF Reading, Placed

\* Compressing and inflating keep the round trip on its way.
LEMMA StepRoundInv ==
  TreeInv /\ EncodeInv /\ StreamInv /\ RoundInv /\ [CodecNext]_vars => RoundInv'
<1>. SUFFICES ASSUME TreeInv, EncodeInv, StreamInv, RoundInv, [CodecNext]_vars,
                     stage' # "build", ShortCodes'
              PROVE  /\ \E off : /\ Spells(off, words'[root'], data', encoded', bitstream')
                                 /\ stage' = "decode" /\ ~ IsLeaf(root)'
                                    => Reading(off, curr, bits_read, inflated)'
                     /\ stage' = "decode" /\ IsLeaf(root)'
                        => curr' = TREE /\ bits_read' = 0 /\ inflated' = <<>>
                     /\ stage' = "decoded" =>
                          /\ bits_read' <= Len(bitstream')
                          /\ inflated' = IF IsLeaf(root)' THEN <<>> ELSE data'
  BY Zenon DEF RoundInv
<1>1. CASE BuildStep
  BY <1>1, ZenonT(30) DEF BuildStep
<1>2. ASSUME UNCHANGED treeVars
      PROVE  words'[root'] = words[root] /\ data' = data /\ (IsLeaf(root)' <=> IsLeaf(root))
  <2>1. words' = words /\ root' = root /\ data' = data
    BY <1>2, SameTree, Zenon
  <2>2. tree_memory' = tree_memory
    BY <1>2 DEF treeVars
  <2>. QED
    BY <2>1, <2>2, Zenon DEF IsLeaf
<1>3. CASE StartEncoding
  <2>1. /\ UNCHANGED treeVars /\ stage = "build" /\ stage' # "decode" /\ stage' # "decoded"
        /\ encoded' = encoded /\ bitstream' = bitstream
    BY <1>3 DEF StartEncoding
  <2>2. encoded = 0 /\ Len(bitstream) = 0
    BY <2>1, ZenonT(30) DEF EncodeInv
  <2>. DEFINE o == [j \in 0..0 |-> 0]
  <2>3. o \in [0..0 -> Nat] /\ o[0] = 0 /\ 1..0 = {}
    OBVIOUS
  <2>. HIDE DEF o
  <2>4. Spells(o, words[root], data, encoded, bitstream)
    BY <2>2, <2>3, ZenonT(30) DEF Spells
  <2>. QED
    BY <1>2, <2>1, <2>4, Zenon
<1>4. CASE EncodeByte
  <2>1. /\ UNCHANGED treeVars /\ stage # "build" /\ stage' # "decode" /\ stage' # "decoded"
        /\ encoded' = encoded + 1 /\ encoding_table' = encoding_table
    BY <1>4 DEF EncodeByte
  <2>2. /\ IInv /\ TreeBuilt /\ encoding_table = Table /\ encoded \in Nat
        /\ bitstream \in Seq({0, 1})
    BY <2>1, ZenonT(30) DEF TreeInv, EncodeInv
  <2>3. ShortCodes
    BY <2>1 DEF ShortCodes
  <2>4. PICK off : Spells(off, words[root], data, encoded, bitstream)
    BY <2>1, <2>3, Zenon DEF RoundInv
  <2>5. PICK w \in words[root] : \E e \in Seq({0, 1}) :
          /\ w[1] = data[encoded + 1] /\ bitstream' = bitstream \o e
          /\ Len(e) = Len(w[2]) /\ (Len(w[2]) <= 8 => e = w[2])
    BY <1>4, EncodeByteFacts, Zenon
  <2>6. PICK e \in Seq({0, 1}) :
          /\ w[1] = data[encoded + 1] /\ bitstream' = bitstream \o e
          /\ Len(e) = Len(w[2]) /\ (Len(w[2]) <= 8 => e = w[2])
    BY <2>5, Zenon
  <2>7. Len(w[2]) <= 8
    BY <2>2, <2>3, ShortWords, ZenonT(30)
  <2>8. e = w[2] /\ Len(e) <= 8
    BY <2>6, <2>7, Zenon
  <2>9. \A v \in words[root] : Len(v[2]) \in Nat
    BY <2>2, RootWords, Zenon DEF CodeWord
  <2>10. PICK u : u = bitstream \o e
    BY Zenon
  <2>11. \E o : Spells(o, words[root], data, encoded + 1, u)
    <3>1. PICK b \in Seq({0, 1}) : b = bitstream
      BY <2>2
    <3>2. Spells(off, words[root], data, encoded, b) /\ u = b \o e
      BY <2>4, <2>10, <3>1, Zenon
    <3>. QED
      BY <2>2, <2>6, <2>8, <2>9, <3>2, SpellsMore, ZenonT(30)
  <2>12. bitstream' = u
    BY <2>6, <2>10, Zenon
  <2>. QED
    BY <1>2, <2>1, <2>11, <2>12, ZenonT(30)
<1>5. CASE FinishEncoding
  <2>1. /\ UNCHANGED treeVars /\ stage # "build" /\ stage' # "decode" /\ stage' # "decoded"
        /\ UNCHANGED <<encoding_table, encoded, bitstream>>
    BY <1>5 DEF FinishEncoding, encodeVars
  <2>2. ShortCodes
    BY <2>1 DEF ShortCodes
  <2>. QED
    BY <1>2, <2>1, <2>2, Zenon DEF RoundInv
<1>6. CASE StartDecoding
  <2>1. /\ UNCHANGED treeVars /\ stage = "encoded" /\ stage' = "decode"
        /\ UNCHANGED <<encoding_table, encoded, bitstream, out_data, bits_read, inflated>>
        /\ curr' = TREE
    BY <1>6, ZenonT(30) DEF StartDecoding, encodeVars
  <2>2. ShortCodes /\ stage # "build"
    BY <2>1 DEF ShortCodes
  <2>3. /\ IInv /\ TreeBuilt /\ Written(out_data, bitstream) /\ encoded = Len(data)
        /\ bits_read = 0 /\ inflated = <<>>
    BY <2>1, ZenonT(30) DEF TreeInv, EncodeInv, StreamInv
  <2>4. PICK off : Spells(off, words[root], data, Len(data), bitstream)
    BY <2>2, <2>3, Zenon DEF RoundInv
  <2>5. ASSUME ~ IsLeaf(root) PROVE Reading(off, curr, bits_read, inflated)'
    <3>1. Len(inflated) = 0 /\ off[0] = 0 /\ Len(data) \in Nat
      BY <2>3, <2>4 DEF Spells, IInv, TypeOK
    <3>2. Len(inflated) \in Nat /\ Len(inflated) <= Len(data) /\ 1..Len(inflated) = {}
      BY <3>1
    <3>3. Reading(off, TREE, off[Len(inflated)], inflated)
      BY <2>3, <2>4, <2>5, <3>2, NextByte, ZenonT(30)
    <3>4. Reading(off, curr', bits_read', inflated')
      BY <2>1, <2>3, <3>1, <3>3, Zenon
    <3>. QED
      BY <2>1, <3>4, SameReading, Zenon
  <2>6. stage' # "decoded"
    BY <2>1
  <2>. QED
    BY <1>2, <2>1, <2>3, <2>4, <2>5, <2>6, ZenonT(30)
<1>7. CASE DecodeBit
  <2>1. /\ UNCHANGED treeVars /\ stage = "decode" /\ stage' = "decode"
        /\ UNCHANGED <<encoding_table, encoded, bitstream, out_data>>
    BY <1>7 DEF DecodeBit, encodeVars
  <2>2. ShortCodes /\ stage # "build"
    BY <2>1 DEF ShortCodes
  <2>3. encoded = Len(data) /\ Written(out_data, bitstream) /\ TreeBuilt
    BY <2>1, ZenonT(30) DEF StreamInv, EncodeInv
  <2>4. PICK off : /\ Spells(off, words[root], data, Len(data), bitstream)
                   /\ ~ IsLeaf(root) => Reading(off, curr, bits_read, inflated)
    BY <2>1, <2>2, <2>3, ZenonT(30) DEF RoundInv
  <2>5. ~ IsLeaf(root)
    <3>. SUFFICES ASSUME IsLeaf(root) PROVE FALSE
      OBVIOUS
    <3>1. curr = TREE /\ bits_read = 0
      BY <2>1, <2>2, Zenon DEF RoundInv
    <3>2. Len(bitstream) = 0
      BY <2>2, ZenonT(30) DEF EncodeInv
    <3>3. total_bits = Len(bitstream)
      BY <2>3 DEF Written, total_bits
    <3>. QED
      BY <1>7, <3>1, <3>2, <3>3, SMTT(30) DEF DecodeBit, MoreBits
  <2>6. Reading(off, curr', bits_read', inflated')
    BY <1>7, <2>4, <2>5, ReadingBit, ZenonT(30)
  <2>7. Reading(off, curr, bits_read, inflated)'
    BY <2>1, <2>6, SameReading, ZenonT(30)
  <2>8. stage' # "decoded"
    BY <2>1
  <2>. QED
    BY <1>2, <2>1, <2>3, <2>4, <2>5, <2>7, <2>8, Zenon
<1>8. CASE FinishDecoding
  <2>1. /\ UNCHANGED treeVars /\ stage = "decode" /\ stage' # "decode"
        /\ UNCHANGED <<encoding_table, encoded, bitstream, bits_read, inflated>>
    BY <1>8, ZenonT(30) DEF FinishDecoding, encodeVars, decodeVars
  <2>2. ShortCodes /\ stage # "build"
    BY <2>1, ZenonT(30) DEF ShortCodes
  <2>3. PICK off : /\ Spells(off, words[root], data, encoded, bitstream)
                   /\ ~ IsLeaf(root) => Reading(off, curr, bits_read, inflated)
    BY <2>1, <2>2, ZenonT(30) DEF RoundInv
  <2>4. bits_read <= Len(bitstream) /\ inflated = IF IsLeaf(root) THEN <<>> ELSE data
    <3>1. CASE IsLeaf(root)
      <4>1. bits_read = 0 /\ inflated = <<>>
        BY <2>1, <2>2, <3>1, ZenonT(30) DEF RoundInv
      <4>2. Len(bitstream) = 0
        BY <2>2, <3>1, ZenonT(30) DEF EncodeInv
      <4>. QED
        BY <3>1, <4>1, <4>2, SMTT(30)
    <3>2. CASE ~ IsLeaf(root)
      <4>1. bits_read = Len(bitstream) /\ inflated = data
        BY <1>8, <2>3, <3>2, ReadingEnds, ZenonT(30)
      <4>2. Len(bitstream) \in Nat
        BY ZenonT(30) DEF EncodeInv
      <4>. QED
        BY <3>2, <4>1, <4>2, SMTT(30)
    <3>. QED
      BY <3>1, <3>2, ZenonT(30)
  <2>. QED
    BY <1>2, <2>1, <2>3, <2>4, Zenon
<1>9. CASE UNCHANGED vars
  <2>1. /\ UNCHANGED treeVars /\ stage' = stage
        /\ UNCHANGED <<encoding_table, encoded, bitstream, out_data, curr, bits_read, inflated>>
    BY <1>9 DEF vars, encodeVars, decodeVars
  <2>2. ShortCodes /\ stage # "build"
    BY <2>1, ZenonT(30) DEF ShortCodes
  <2>3. PICK off : /\ Spells(off, words[root], data, encoded, bitstream)
                   /\ stage = "decode" /\ ~ IsLeaf(root)
                      => Reading(off, curr, bits_read, inflated)
    BY <2>2, Zenon DEF RoundInv
  <2>4. Reading(off, curr, bits_read, inflated) => Reading(off, curr, bits_read, inflated)'
    BY <2>1, SameReading, Zenon
  <2>5. /\ stage = "decode" /\ IsLeaf(root) => curr = TREE /\ bits_read = 0 /\ inflated = <<>>
        /\ stage = "decoded" =>
             bits_read <= Len(bitstream) /\ inflated = IF IsLeaf(root) THEN <<>> ELSE data
    BY <2>2, Zenon DEF RoundInv
  <2>. QED
    BY <1>2, <2>1, <2>3, <2>4, <2>5, Zenon
<1>. QED
  BY <1>1, <1>3, <1>4, <1>5, <1>6, <1>7, <1>8, <1>9, ZenonT(30) DEF CodecNext

\* The offsets of the words and the way of the decoder through them exist at every
\* step of compressing and inflating, for every alphabet and block.
THEOREM RoundInvariance == CodecSpec => [](TreeInv /\ EncodeInv /\ StreamInv /\ RoundInv)
<1>1. CodecInit => RoundInv
  BY DEF CodecInit, RoundInv
<1>2. TreeInv /\ EncodeInv /\ StreamInv /\ RoundInv /\ [CodecNext]_vars => RoundInv'
  BY StepRoundInv
<1>. QED
  BY <1>1, <1>2, CodecInvariance, PTL DEF CodecSpec

\* What the decoder has written at the end of a block with short codes.
LEMMA DecodedText ==
  ASSUME TreeInv, EncodeInv, RoundInv, ShortCodes, stage = "decoded"
  PROVE  inflated = IF Cardinality(Leaves) = 1 THEN <<>> ELSE data
<1>1. IInv /\ TreeBuilt /\ stage # "build"
  BY DEF TreeInv, EncodeInv
<1>2. IsLeaf(root) <=> Cardinality(Leaves) = 1
  BY <1>1, RootFacts, Zenon
<1>3. inflated = IF IsLeaf(root) THEN <<>> ELSE data
  BY <1>1, Zenon DEF RoundInv
<1>. QED
  BY <1>2, <1>3, Zenon

\* A tree of at most nine leaves is at most eight high, whatever the weights are.
LEMMA NineLettersShort ==
  ASSUME TreeInv, EncodeInv, Cardinality(Leaves) <= 9 PROVE ShortCodes
<1>1. CASE stage = "build"
  BY <1>1 DEF EncodeInv, ShortCodes
<1>2. CASE stage # "build"
  <2>1. IInv /\ TreeBuilt /\ encoding_table = Table
    BY <1>2 DEF TreeInv, EncodeInv
  <2>2. ASSUME NEW info \in Table PROVE info.num_bits <= 8
    <3>1. PICK w \in words[root] : info.num_bits = Len(w[2])
      BY <2>1, TableOfRoot, Zenon
    <3>2. Len(w[2]) <= 8
      BY <2>1, NineLetters
    <3>. QED
      BY <3>1, <3>2
  <2>. QED
    BY <2>1, <2>2, Zenon DEF ShortCodes
<1>. QED
  BY <1>1, <1>2

\* Inflating a compressed block of two letters or more gives the block back, for
\* every alphabet, block and outcome of the undefined shift, as long as no code is
\* longer than 8 bits.
THEOREM RoundTripCorrect == CodecSpec => [](ShortCodes => RoundTrip)
<1>1. TreeInv /\ EncodeInv /\ RoundInv => (ShortCodes => RoundTrip)
  BY DecodedText DEF RoundTrip
<1>. QED
  BY <1>1, RoundInvariance, PTL

\* A block of two to nine different letters survives compressing and inflating,
\* since its codes are short whatever the weights are.
THEOREM NineLettersSurvive ==
  CodecSpec => [](stage = "decoded" /\ Cardinality(Leaves) \in 2..9 => inflated = data)
<1>1. ASSUME TreeInv, EncodeInv, RoundInv, stage = "decoded", Cardinality(Leaves) \in 2..9
      PROVE  inflated = data
  <2>1. Cardinality(Leaves) <= 9 /\ Cardinality(Leaves) # 1
    BY <1>1
  <2>. QED
    BY <1>1, <2>1, NineLettersShort, DecodedText, Zenon
<1>2. TreeInv /\ EncodeInv /\ RoundInv =>
        (stage = "decoded" /\ Cardinality(Leaves) \in 2..9 => inflated = data)
  BY <1>1
<1>. QED
  BY <1>2, RoundInvariance, PTL

\* A block of one letter, for which build_encoding_table has a code of no bits,
\* inflates to nothing, however long it is: the expansion does not reverse the
\* encoding there.
THEOREM OneLetterLost ==
  CodecSpec => [](stage = "decoded" /\ Cardinality(Leaves) = 1 => inflated = <<>>)
<1>1. ASSUME TreeInv, EncodeInv, RoundInv, stage = "decoded", Cardinality(Leaves) = 1
      PROVE  inflated = <<>>
  <2>1. Cardinality(Leaves) <= 9
    BY <1>1
  <2>. QED
    BY <1>1, <2>1, NineLettersShort, DecodedText, Zenon
<1>2. TreeInv /\ EncodeInv /\ RoundInv =>
        (stage = "decoded" /\ Cardinality(Leaves) = 1 => inflated = <<>>)
  BY <1>1
<1>. QED
  BY <1>2, RoundInvariance, PTL

\* The decoder, which looks at the bit count between two bytes only, never reads past
\* the last bit of a stream of short codes.
THEOREM ReadsWithinCorrect == CodecSpec => []ReadsWithinStream
<1>1. TreeInv /\ EncodeInv /\ StreamInv /\ RoundInv => ReadsWithinStream
  <2>. SUFFICES ASSUME TreeInv, EncodeInv, StreamInv, RoundInv, ShortCodes
                PROVE  bits_read <= Len(bitstream)
    BY DEF ReadsWithinStream
  <2>1. bits_read \in Nat /\ Len(bitstream) \in Nat
    BY DEF EncodeInv, StreamInv
  <2>2. CASE stage \in {"build", "encode", "encoded"}
    <3>1. bits_read = 0
      BY <2>2 DEF StreamInv
    <3>. QED
      BY <2>1, <3>1
  <2>3. CASE stage = "decoded"
    BY <2>3 DEF RoundInv
  <2>4. CASE stage = "decode"
    <3>1. CASE IsLeaf(root)
      <4>1. bits_read = 0
        BY <2>4, <3>1, ZenonT(30) DEF RoundInv
      <4>. QED
        BY <2>1, <4>1
    <3>2. CASE ~ IsLeaf(root)
      <4>1. PICK off : Reading(off, curr, bits_read, inflated)
        BY <2>4, <3>2, Zenon DEF RoundInv
      <4>2. PICK m, D \in Nat : m = Len(inflated) /\ D = Len(data) /\ m <= D
        BY <4>1 DEF Reading, TreeInv, IInv, TypeOK
      <4>3. CASE m = D
        <5>1. bits_read = Len(bitstream)
          BY <4>1, <4>2, <4>3, Zenon DEF Reading
        <5>. QED
          BY <2>1, <5>1
      <4>4. CASE m < D
        <5>1. PICK n \in Nodes : \E w \in words[n] : Placed(bitstream, w[2], bits_read + 1)
          BY <4>1, <4>2, <4>4, Zenon DEF Reading
        <5>2. PICK w \in words[n] : Placed(bitstream, w[2], bits_read + 1)
          BY <5>1, Zenon
        <5>3. Len(w[2]) \in Nat
          BY WordLength DEF TreeInv
        <5>4. (bits_read + 1) + Len(w[2]) <= Len(bitstream) + 1
          BY <5>2, Zenon DEF Placed
        <5>5. \A x, y, z \in Nat : (x + 1) + y <= z + 1 => x <= z
          OBVIOUS
        <5>. QED
          BY <2>1, <5>3, <5>4, <5>5, ZenonT(30)
      <4>. QED
        BY <4>2, <4>3, <4>4
    <3>. QED
      BY <3>1, <3>2, SMTT(30)
  <2>. QED
    BY <2>2, <2>3, <2>4 DEF EncodeInv
<1>. QED
  BY <1>1, RoundInvariance, PTL

-----------------------------------------------------------------------------
(* How far the decoder can run                                             *)

\* Within a byte the decoder has read no more bits behind the stream than it has gone
\* down positions of the serialized tree; between bytes, than the tree has nodes.
ReadInv ==
  /\ bits_read <= Len(bitstream) + 255
  /\ stage = "decode" /\ curr # TREE => bits_read <= Len(bitstream) + (curr - TREE)

\* A bit read takes the decoder down the tree, or is the last one of a byte.
LEMMA DecodeBitReadInv == TreeInv /\ EncodeInv /\ StreamInv /\ ReadInv /\ DecodeBit => ReadInv'
<1>. SUFFICES ASSUME TreeInv, EncodeInv, StreamInv, ReadInv, DecodeBit PROVE ReadInv'
  OBVIOUS
<1>1. /\ IInv /\ TreeBuilt /\ Written(out_data, bitstream)
      /\ stage = "decode" /\ bits_read \in Nat /\ Len(bitstream) \in Nat
  BY DEF TreeInv, EncodeInv, StreamInv, DecodeBit
<1>2. PICK n \in Nodes : At(n, curr)
  BY <1>1 DEF StreamInv
<1>3. PICK N \in Nat : N = tree_size[root] /\ N <= 255
  BY <1>1, RootFacts
<1>4. curr \in TREE..TREE + N - 1
  BY <1>1, <1>2, <1>3, AtFacts, Zenon
<1>5. bits_read' = bits_read + 1 /\ bitstream' = bitstream
  BY DEF DecodeBit, encodeVars
<1>6. curr' = TREE \/ (curr' \in Nat /\ TREE <= curr' /\ curr' > curr)
  <2>1. PICK bit : bit = read_bit(bits_read)
    OBVIOUS
  <2>2. CASE IsLeaf(n)
    BY <1>2, <2>1, <2>2, DecodeBitFacts, Zenon
  <2>3. CASE ~ IsLeaf(n) /\ IsLeaf(branch(n, bit))
    BY <1>2, <2>1, <2>3, DecodeBitFacts, Zenon
  <2>4. CASE ~ IsLeaf(n) /\ ~ IsLeaf(branch(n, bit))
    <3>1. At(branch(n, bit), curr') /\ curr' > curr
      BY <1>2, <2>1, <2>4, DecodeBitFacts, Zenon
    <3>2. curr' \in Nat /\ TREE <= curr'
      BY <3>1, Zenon DEF At
    <3>. QED
      BY <3>1, <3>2
  <2>. QED
    BY <2>2, <2>3, <2>4, ZenonT(30)
<1>7. CASE curr = TREE
  <2>1. bits_read < Len(bitstream)
    BY <1>1, <1>7, ZenonT(30) DEF DecodeBit, MoreBits, Written, total_bits
  <2>. QED
    BY <1>1, <1>5, <1>6, <2>1, SMTT(30) DEF ReadInv, TREE
<1>8. CASE curr # TREE
  <2>1. bits_read <= Len(bitstream) + (curr - TREE)
    BY <1>1, <1>8 DEF ReadInv
  <2>. QED
    BY <1>1, <1>3, <1>4, <1>5, <1>6, <2>1, SMTT(30) DEF ReadInv, TREE
<1>. QED
  BY <1>7, <1>8

\* Every step of the two calls keeps the decoder within its bound.
LEMMA StepReadInv ==
  TreeInv /\ EncodeInv /\ StreamInv /\ ReadInv /\ [CodecNext]_vars => ReadInv'
<1>. SUFFICES ASSUME TreeInv, EncodeInv, StreamInv, ReadInv, [CodecNext]_vars PROVE ReadInv'
  OBVIOUS
<1>1. EncodeInv' /\ StreamInv'
  BY StepEncodeInv, StepStreamInv
<1>2. Len(bitstream) \in Nat /\ Len(bitstream') \in Nat
  BY <1>1, ZenonT(30) DEF EncodeInv
<1>3. CASE stage' \in {"build", "encode", "encoded"}
  <2>1. bits_read' = 0
    BY <1>1, <1>3, ZenonT(30) DEF StreamInv
  <2>. QED
    BY <1>2, <1>3, <2>1, SMTT(30) DEF ReadInv
<1>4. CASE StartDecoding
  <2>1. bits_read' = 0 /\ curr' = TREE
    BY <1>4, ZenonT(30) DEF StartDecoding, StreamInv
  <2>. QED
    BY <1>2, <2>1 DEF ReadInv
<1>5. CASE DecodeBit
  BY <1>5, DecodeBitReadInv
<1>6. CASE FinishDecoding
  <2>1. stage' = "decoded" /\ bits_read' = bits_read /\ bitstream' = bitstream
    BY <1>6, ZenonT(30) DEF FinishDecoding, encodeVars, decodeVars
  <2>. QED
    BY <2>1, ZenonT(30) DEF ReadInv
<1>7. CASE UNCHANGED vars
  <2>1. UNCHANGED <<stage, bits_read, bitstream, curr>>
    BY <1>7, SMTT(30) DEF vars, encodeVars, decodeVars
  <2>. QED
    BY <2>1, ZenonT(30) DEF ReadInv
<1>8. BuildStep \/ StartEncoding \/ EncodeByte \/ FinishEncoding
        => stage' \in {"build", "encode", "encoded"}
  BY DEF BuildStep, StartEncoding, EncodeByte, FinishEncoding
<1>. QED
  BY <1>3, <1>4, <1>5, <1>6, <1>7, <1>8, Zenon DEF CodecNext

\* The decoder starts at the first bit and stays within its bound.
THEOREM ReadInvariance == CodecSpec => [](TreeInv /\ EncodeInv /\ StreamInv /\ ReadInv)
<1>1. CodecInit => ReadInv
  BY DEF CodecInit, ReadInv
<1>. QED
  BY <1>1, StepReadInv, CodecInvariance, PTL DEF CodecSpec

\* Whatever the codes, inflating never reads more than 255 bits behind the last one
\* that the encoder wrote: deserialize_next_char stops at a leaf, and a tree that the
\* size byte can describe has no longer way down.
THEOREM OverrunBounded == CodecSpec => [](bits_read <= Len(bitstream) + 255)
<1>1. ReadInv => bits_read <= Len(bitstream) + 255
  BY DEF ReadInv
<1>. QED
  BY <1>1, ReadInvariance, PTL

\* A bound on the steps that the present loop still takes.
StepsLeft ==
  CASE stage = "build" -> BuildLeft
    [] stage = "encode" -> Len(data) - encoded
    [] stage = "decode" -> (Len(bitstream) + 255) - bits_read
    [] OTHER -> 0

\* A step takes a loop nearer to its end or goes on to the next loop.
Progress ==
  \/ stage' = stage /\ StepsLeft' \in Nat /\ StepsLeft' < StepsLeft
  \/ <<stage, stage'>> \in {<<"build", "encode">>, <<"encode", "encoded">>,
                            <<"encoded", "decode">>, <<"decode", "decoded">>}

\* The loops of huffman_compress and huffman_inflate are bounded: no step, whatever
\* the block, the codes and the undefined shift, leaves as much to do as there was.
THEOREM CodecProgress == CodecSpec => [][Progress]_vars
<1>1. ASSUME TreeInv, EncodeInv, StreamInv, ReadInv, ReadInv', CodecNext PROVE Progress
  <2>1. CASE BuildStep
    <3>1. stage = "build" /\ stage' = "build"
      BY <2>1 DEF BuildStep
    <3>2. BuildLeft' \in Nat /\ BuildLeft' < BuildLeft
      BY <1>1, <2>1, BuildAdvances, Zenon DEF BuildStep, TreeInv
    <3>. QED
      BY <3>1, <3>2 DEF Progress, StepsLeft
  <2>2. CASE EncodeByte
    <3>1. /\ stage = "encode" /\ stage' = "encode" /\ encoded < Len(data)
          /\ encoded' = encoded + 1 /\ data' = data
      BY <2>2 DEF EncodeByte, treeVars
    <3>2. encoded \in Nat /\ Len(data) \in Nat
      BY <1>1 DEF EncodeInv, TreeInv, IInv, TypeOK
    <3>. QED
      BY <3>1, <3>2, SMTT(30) DEF Progress, StepsLeft
  <2>3. CASE DecodeBit
    <3>1. /\ stage = "decode" /\ stage' = "decode"
          /\ bits_read' = bits_read + 1 /\ bitstream' = bitstream
      BY <2>3 DEF DecodeBit, encodeVars
    <3>2. bits_read \in Nat /\ Len(bitstream) \in Nat
      BY <1>1, ZenonT(30) DEF EncodeInv, StreamInv
    <3>3. bits_read' <= Len(bitstream') + 255
      BY <1>1 DEF ReadInv
    <3>. QED
      BY <3>1, <3>2, <3>3, SMTT(30) DEF Progress, StepsLeft
  <2>4. StartEncoding \/ FinishEncoding \/ StartDecoding \/ FinishDecoding => Progress
    BY DEF StartEncoding, FinishEncoding, StartDecoding, FinishDecoding, Progress
  <2>. QED
    BY <1>1, <2>1, <2>2, <2>3, <2>4, Zenon DEF CodecNext
<1>2. TreeInv /\ EncodeInv /\ StreamInv /\ ReadInv /\ ReadInv' /\ [CodecNext]_vars
      => [Progress]_vars
  BY <1>1, Zenon
<1>. QED
  BY <1>2, ReadInvariance, PTL DEF CodecSpec
=============================================================================
