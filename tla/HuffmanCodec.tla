---------------------------- MODULE HuffmanCodec ----------------------------
(***************************************************************************)
(* The whole of huffman_compress and huffman_inflate (main/huffman.c),     *)
(* called one after the other as huffman/main.c does.  HuffmanTree builds  *)
(* the tree; StartEncoding, EncodeByte and FinishEncoding write the tree   *)
(* and the bit stream into out_data, which the callers have zeroed;        *)
(* StartDecoding, DecodeBit and FinishDecoding read it back.  One action   *)
(* is one iteration of a loop of the code, or the code between two loops.  *)
(*                                                                         *)
(* The walks of the tree are recursive functions on node indices, a child  *)
(* being older than its parent.  A deserialized node is identified with    *)
(* the position of its byte in the serialized tree.  A byte that is        *)
(* shifted is the vector of its bits, any other a number.                  *)
(***************************************************************************)
EXTENDS HuffmanTree

CONSTANT ShiftResults   \* what the undefined shift of reverse_bits may yield

uint8_t == [0..7 -> {0, 1}]   \* lowest bit first
Byte == 0..255                \* its values

\* The two bytes of a uint16_t.
low(x) == x % 256
high(x) == x \div 256

STAR == 42    \* '*', an internal node in the serialized tree
DASH == 45    \* '-', a NULL pointer
QMARK == 63   \* '?', what a bit string outside the code decodes to

ASSUME ShiftAssumption == ShiftResults # {} /\ ShiftResults \subseteq uint8_t

\* The marks of the serialized tree are no letters, its size fits a byte, and the
\* callers count a block in a byte, so that the number of its bits fits a uint16_t.
ASSUME CodecAssumption ==
  /\ Alphabet \subseteq 1..255 \ {STAR, DASH} /\ ALPHABET_SIZE <= 128
  /\ WORD <= 65536 /\ \A d \in Blocks : 256 * Len(d) <= WORD

VARIABLES stage,            \* where the two calls are
          encoding_table,   \* the encoding_info_t entries
          encoded,          \* bytes of the block encoded so far
          bitstream,        \* the bits written so far
          out_data,         \* the bytes that huffman_compress hands back
          subtree_end,      \* the tree that huffman_inflate deserialized
          curr,             \* where deserialize_next_char is in it
          bits_read,        \* bits decoded so far
          inflated          \* the bytes that huffman_inflate wrote

encodeVars == <<encoding_table, encoded, bitstream>>
decodeVars == <<subtree_end, curr, bits_read, inflated>>
vars == <<treeVars, stage, encodeVars, out_data, decodeVars>>

-----------------------------------------------------------------------------
(* Compressing.                                                            *)

left(n) == tree_memory[n].left
right(n) == tree_memory[n].right

\* Mutation: the node itself is not counted when it is a leaf.
tree_get_size_internal(t) ==
  Cardinality({n \in 1..t : tree_memory[n].byte = 0})

tree_size[n \in 0..Len(tree_memory)] ==
  IF n = NULL THEN 0 ELSE tree_size[left(n)] + tree_size[right(n)] + 1

tree_get_size(t) == tree_size[t]

serialize_tree[n \in 0..Len(tree_memory)] ==
  IF n = NULL THEN <<DASH>>
  ELSE IF IsLeaf(n) THEN <<tree_memory[n].byte>>
  ELSE <<STAR>> \o serialize_tree[left(n)] \o serialize_tree[right(n)]

\* A code, and the code with a bit shifted in; its length is a uint8_t.
Code == [encoded_byte : uint8_t, num_bits : Byte]

shift_in(code, bit) ==
  [encoded_byte |-> [k \in 0..7 |-> IF k = 0 THEN bit ELSE code.encoded_byte[k - 1]],
   num_bits |-> low(code.num_bits + 1)]

\* The encoding_info_t entries for the leaves below n, the code of n given.
encoding_below[n \in 0..Len(tree_memory)] ==
  [code \in Code |->
     IF n = NULL THEN {}
     ELSE IF IsLeaf(n)
     THEN {[byte |-> tree_memory[n].byte,
            encoded_byte |-> code.encoded_byte, num_bits |-> code.num_bits]}
     ELSE encoding_below[left(n)][shift_in(code, 0)]
            \cup encoding_below[right(n)][shift_in(code, 1)]]

ZERO == [k \in 0..7 |-> 0]

build_encoding_table(t) == encoding_below[t][[encoded_byte |-> ZERO, num_bits |-> 0]]

find_encoded_byte(info_arr, b) ==
  IF \E info \in info_arr : info.byte = b
  THEN CHOOSE info \in info_arr : info.byte = b
  ELSE [byte |-> b, encoded_byte |-> ZERO, num_bits |-> 0]

\* Mutation: the code is emitted as the table holds it.
reverse_bits_not(b, num_bits, undef) == b

\* The three exchanges (nibbles, bit pairs, bits) and the final shift, whose
\* count 8 - num_bits is negative for a code of more than 8 bits: undefined.
reverse_bits(b, num_bits, undef) ==
  LET exchange(x, w) == [k \in 0..7 |-> IF (k \div w) % 2 = 0 THEN x[k + w] ELSE x[k - w]]
      x == exchange(exchange(exchange(b, 4), 2), 1)
  IN  IF num_bits > 8 THEN undef
      ELSE [k \in 0..7 |-> IF k < num_bits THEN x[k + (8 - num_bits)] ELSE 0]

value(b) ==
  b[0] + 2 * b[1] + 4 * b[2] + 8 * b[3] + 16 * b[4] + 32 * b[5] + 64 * b[6] + 128 * b[7]

\* Mutation: the bits above the lowest are not masked off.
put_bits_unmasked(byte, num_bits) == [k \in 1..num_bits |-> value(byte) \div 2^(k - 1)]

\* bitstream_put_bits emits the low num_bits bits, lowest first.
put_bits(byte, num_bits) == [k \in 1..num_bits |-> IF k <= 8 THEN byte[k - 1] ELSE 0]

\* bitstream_put_bit fills each byte of the buffer from its lowest bit.
pack(bits) ==
  [j \in 1..(Len(bits) + 7) \div 8 |->
     value([k \in 0..7 |->
              IF 8 * (j - 1) + k < Len(bits) THEN bits[8 * (j - 1) + k + 1] ELSE 0])]

StartEncoding ==
  /\ stage = "build"
  /\ TreeBuilt
  /\ encoding_table' = build_encoding_table(root)
  /\ stage' = "encode"
  /\ UNCHANGED <<treeVars, encoded, bitstream, out_data, decodeVars>>

EncodeByte ==
  /\ stage = "encode"
  /\ encoded < Len(data)
  /\ \E undef \in ShiftResults :
       LET info == find_encoded_byte(encoding_table, data[encoded + 1])
           code == reverse_bits(info.encoded_byte, info.num_bits, undef)
       IN  bitstream' = bitstream \o put_bits(code, info.num_bits)
  /\ encoded' = encoded + 1
  /\ UNCHANGED <<treeVars, stage, encoding_table, out_data, decodeVars>>

FinishEncoding ==
  /\ stage = "encode"
  /\ encoded = Len(data)
  /\ LET num_bits == Len(bitstream) % WORD
     IN  out_data' = <<low(tree_get_size(root)), high(num_bits), low(num_bits)>>
                       \o serialize_tree[root] \o pack(bitstream)
  /\ stage' = "encoded"
  /\ UNCHANGED <<treeVars, encodeVars, decodeVars>>

-----------------------------------------------------------------------------
(* Inflating.  The tree starts at position 4 of out_data.                  *)

TREE == 4

\* For every position the one after the serialized subtree that starts there.
deserialize_tree[p \in TREE..Len(out_data) + 1] ==
  IF p > Len(out_data) THEN p
  ELSE IF out_data[p] = STAR THEN deserialize_tree[deserialize_tree[p + 1]]
  ELSE p + 1

payload == subtree_end[TREE]
total_bits == out_data[2] * 256 + out_data[3]

child(p, bit) ==
  LET c == IF bit = 0 THEN p + 1 ELSE subtree_end[p + 1]
  IN  IF out_data[p] # STAR \/ out_data[c] = DASH THEN NULL ELSE c

\* Bit k of the payload; the buffer is zero behind the stream.
read_bit(k) ==
  LET p == payload + k \div 8
  IN  IF p <= Len(out_data) THEN (out_data[p] \div 2^(k % 8)) % 2 ELSE 0

StartDecoding ==
  /\ stage = "encoded"
  /\ subtree_end' = [p \in TREE..deserialize_tree[TREE] - 1 |-> deserialize_tree[p]]
  /\ curr' = TREE
  /\ stage' = "decode"
  /\ UNCHANGED <<treeVars, encodeVars, out_data, bits_read, inflated>>

\* Mutation: the loop goes on when all bits are read.
MoreBits_inclusive == bits_read <= total_bits /\ bits_read \div 8 < Len(data)

\* huffman/main.c passes the length of the uncompressed block as data_size.
MoreBits == bits_read < total_bits /\ bits_read \div 8 < Len(data)

\* One bit of deserialize_next_char.  inflate_data tests for more bits between the
\* characters only.
DecodeBit ==
  /\ stage = "decode"
  /\ curr = TREE => MoreBits
  /\ LET next == child(curr, read_bit(bits_read))
     IN  IF next # NULL /\ out_data[next] = STAR
         THEN curr' = next /\ UNCHANGED inflated
         ELSE /\ curr' = TREE
              /\ inflated' = Append(inflated, IF next = NULL THEN QMARK ELSE out_data[next])
  /\ bits_read' = bits_read + 1
  /\ UNCHANGED <<treeVars, stage, encodeVars, out_data, subtree_end>>

FinishDecoding ==
  /\ stage = "decode"
  /\ curr = TREE /\ ~ MoreBits
  /\ stage' = "decoded"
  /\ UNCHANGED <<treeVars, encodeVars, out_data, decodeVars>>

CodecInit ==
  /\ Init
  /\ stage = "build"
  /\ encoding_table = {}
  /\ encoded = 0
  /\ bitstream = <<>>
  /\ out_data = <<>>
  /\ subtree_end = <<>> /\ curr = TREE
  /\ bits_read = 0
  /\ inflated = <<>>

BuildStep ==
  stage = "build" /\ Next /\ UNCHANGED <<stage, encodeVars, out_data, decodeVars>>

CodecNext ==
  \/ BuildStep
  \/ StartEncoding \/ EncodeByte \/ FinishEncoding
  \/ StartDecoding \/ DecodeBit \/ FinishDecoding

\* The two calls are sequential code.
CodecSpec == CodecInit /\ [][CodecNext]_vars /\ WF_vars(CodecNext)

-----------------------------------------------------------------------------

\* The tree keeps its types, the codec writes bytes only, and the counters stay in
\* their ranges.
CodecTypeOK ==
  /\ TypeOK
  /\ stage \in {"build", "encode", "encoded", "decode", "decoded"}
  /\ encoding_table \subseteq [byte : Alphabet, encoded_byte : uint8_t, num_bits : Byte]
  /\ encoded \in 0..Len(data)
  /\ bitstream \in Seq({0, 1})
  /\ out_data \in Seq(Byte)
  /\ curr \in Nat /\ bits_read \in Nat
  /\ inflated \in Seq(Byte \ {0})

\* No code of the block is longer than the byte that the encoder keeps it in.
ShortCodes == \A info \in encoding_table : info.num_bits <= 8

\* The decoder, which descends the tree without looking at the bit count, stops at
\* the last bit of a stream of short codes.
ReadsWithinStream == ShortCodes => bits_read <= Len(bitstream)

\* "data expansion reversing the huffman encoding" (main/main.c): inflating a
\* compressed block of two letters or more gives the block back, byte for byte.
\* (A block of one letter is lost, see OneLetterLost.)
RoundTrip == stage = "decoded" /\ Cardinality(Leaves) > 1 => inflated = data

\* The stream describes itself: the tree that the decoder reads ends where the
\* encoder put the payload, it takes exactly the nodes that the size byte makes
\* the decoder reserve, and the payload is as long as the bit count says.
StreamLayout ==
  stage = "decode" =>
    /\ payload = TREE + out_data[1]
    /\ Cardinality({p \in DOMAIN subtree_end : out_data[p] # DASH}) = out_data[1]
    /\ total_bits = Len(bitstream)
    /\ Len(out_data) = 3 + out_data[1] + (total_bits + 7) \div 8

\* Compressing and inflating a block both come to an end.
CodecTerminates == <>(stage = "decoded")
==============================================================================
