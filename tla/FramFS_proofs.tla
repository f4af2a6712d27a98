---------------------------- MODULE FramFS_proofs ----------------------------
(***************************************************************************)
(* The input file on the FRAM implements DurableLog, for every size of the *)
(* FRAM, of the files and of the chunks, with a power failure at any step. *)
(* FSInv relates the extents in RAM to the recorded ones at each point of  *)
(* the calls.                                                              *)
(***************************************************************************)
EXTENDS FramFS, TLAPS

Memory == [0..SIZE - 1 -> Byte]

\* The sizes and places that main.c and i2c_master.c fix, without the remainders.
LEMMA Sizes ==
  /\ SIZE \in Nat /\ FORMATTED \in Nat /\ INPUT \in Nat /\ OUTPUT \in Nat
  /\ CHUNK \in Nat /\ LIMIT \in Nat
  /\ 8 <= INPUT /\ INPUT <= OUTPUT /\ OUTPUT < SIZE /\ 8 <= FORMATTED
  /\ FORMATTED <= SIZE /\ LIMIT <= SIZE /\ SIZE < 256 * 256 /\ CHUNK > 0
BY LayoutAssumption

-----------------------------------------------------------------------------
(* Put, Get and Word                                                       *)

\* An address of the chip within its size is taken as it is.
LEMMA ModIs ==
  ASSUME NEW m \in Nat, NEW x \in Int
  PROVE  /\ 0 <= x /\ x < m => x % m = x
         /\ x < 0 /\ 0 <= x + m => x % m = x + m
OBVIOUS

\* i2c_writeReg changes the bytes it writes and no others.
LEMMA PutIs ==
  ASSUME NEW mem \in Memory, NEW a \in Nat, NEW bytes \in Seq(Byte),
         a + Len(bytes) <= SIZE
  PROVE  /\ Put(mem, a, bytes) \in Memory
         /\ \A k \in 0..SIZE - 1 :
              Put(mem, a, bytes)[k] = IF a <= k /\ k < a + Len(bytes)
                                      THEN bytes[k - a + 1] ELSE mem[k]
<1>0. SIZE \in Nat
  BY Sizes
<1>1. ASSUME NEW k \in 0..SIZE - 1
      PROVE  Put(mem, a, bytes)[k] = IF a <= k /\ k < a + Len(bytes)
                                      THEN bytes[k - a + 1] ELSE mem[k]
  <2>1. Put(mem, a, bytes)[k] = IF (k - a) % SIZE < Len(bytes)
                                THEN bytes[1 + ((k - a) % SIZE)] ELSE mem[k]
    BY DEF Put, Memory
  <2>2. CASE a <= k
    <3>0. k - a \in Int /\ 0 <= k - a /\ k - a < SIZE
      BY <1>0, <2>2
    <3>1. (k - a) % SIZE = k - a
      BY <1>0, <3>0, ModIs
    <3>. QED
      BY <1>0, <2>1, <2>2, <3>1
  <2>3. CASE k < a
    <3>0. k - a \in Int /\ k - a < 0 /\ 0 <= k - a + SIZE
      BY <1>0, <2>3
    <3>1. (k - a) % SIZE = k - a + SIZE
      BY Zenon, <1>0, <3>0, ModIs
    <3>2. ~ (k - a + SIZE < Len(bytes))
      BY <1>0, <2>3
    <3>. QED
      BY <1>0, <2>1, <2>3, <3>1, <3>2
  <2>. QED
    BY <1>0, <2>2, <2>3
<1>2. ASSUME NEW k \in 0..SIZE - 1
      PROVE  Put(mem, a, bytes)[k] \in Byte
  BY <1>0, <1>1, SMTT(30) DEF Memory
<1>3. Put(mem, a, bytes) = [k \in 0..SIZE - 1 |-> Put(mem, a, bytes)[k]]
  BY DEF Put, Memory
<1>. QED
  BY <1>1, <1>2, <1>3 DEF Memory

\* What a concatenation holds, index by index.
LEMMA ConcatIs ==
  ASSUME NEW S, NEW s \in Seq(S), NEW t \in Seq(S)
  PROVE  /\ s \o t \in Seq(S)
         /\ Len(s \o t) = Len(s) + Len(t)
         /\ \A i \in Nat : 1 <= i /\ i <= Len(s) => (s \o t)[i] = s[i]
         /\ \A i \in Nat : Len(s) < i /\ i <= Len(s) + Len(t) => (s \o t)[i] = t[i - Len(s)]
OBVIOUS

\* PutIs, for a byte that is written.
LEMMA PutIn ==
  ASSUME NEW mem \in Memory, NEW a \in Nat, NEW bytes \in Seq(Byte),
         a + Len(bytes) <= SIZE,
         NEW k \in Nat, a <= k, k < a + Len(bytes)
  PROVE  Put(mem, a, bytes)[k] = bytes[k - a + 1]
<1>1. k \in 0..SIZE - 1
  BY Sizes
<1>. QED
  BY <1>1, PutIs

\* PutIs, for a byte that is not written.
LEMMA PutOut ==
  ASSUME NEW mem \in Memory, NEW a \in Nat, NEW bytes \in Seq(Byte),
         a + Len(bytes) <= SIZE,
         NEW k \in Nat, k < SIZE, k < a \/ a + Len(bytes) <= k
  PROVE  Put(mem, a, bytes)[k] = mem[k]
<1>1. k \in 0..SIZE - 1 /\ ~ (a <= k /\ k < a + Len(bytes))
  BY Sizes
<1>. QED
  BY <1>1, PutIs

\* i2c_readReg reads consecutive bytes.
LEMMA GetIs ==
  ASSUME NEW mem \in Memory, NEW a \in Nat, NEW n \in Nat, a + n <= SIZE
  PROVE  /\ Get(mem, a, n) \in Seq(Byte)
         /\ Len(Get(mem, a, n)) = n
         /\ \A k \in 1..n : Get(mem, a, n)[k] = mem[a + k - 1]
<1>0. SIZE \in Nat
  BY Sizes
<1>1. ASSUME NEW k \in 1..n
      PROVE  (a + k - 1) % SIZE = a + k - 1 /\ a + k - 1 \in 0..SIZE - 1
  BY <1>0, ModIs
<1>2. Get(mem, a, n) = [k \in 1..n |-> mem[a + k - 1]]
  BY Zenon, <1>1 DEF Get
<1>3. ASSUME NEW k \in 1..n PROVE mem[a + k - 1] \in Byte
  BY <1>1 DEF Memory
<1>. QED
  BY <1>2, <1>3

\* A byte, without the interval.
LEMMA ByteIs == \A n : n \in Byte <=> n \in Nat /\ n < 256
BY DEF Byte

\* What a word encodes comes back.
LEMMA WordIs ==
  ASSUME NEW n \in Nat, n < 256 * 256
  PROVE  /\ Word(n) \in Seq(Byte) /\ Len(Word(n)) = 2
         /\ Word(n)[1] + 256 * Word(n)[2] = n
<1>1. n % 256 \in Nat /\ n % 256 < 256
  OBVIOUS
<1>2. n \div 256 \in Nat /\ n \div 256 < 256
  OBVIOUS
<1>3. (n % 256) + 256 * (n \div 256) = n
  OBVIOUS
<1>4. n % 256 \in Byte /\ n \div 256 \in Byte
  BY <1>1, <1>2, ByteIs
<1>. QED
  BY <1>3, <1>4 DEF Word

\* The bytes of the metadata are numbers.
LEMMA MemIs == ASSUME NEW mem \in Memory, NEW k \in Nat, k < 8 PROVE mem[k] \in Nat
<1>1. k \in 0..SIZE - 1
  BY Sizes
<1>. QED
  BY <1>1, ByteIs DEF Memory

\* What initialize_fs reads are four numbers.
LEMMA ExtentsType ==
  ASSUME NEW mem \in Memory
  PROVE  Extents(mem) \in [input : [start : Nat, end : Nat], output : [start : Nat, end : Nat]]
<1>1. /\ mem[0] \in Nat /\ mem[0 + 1] \in Nat /\ mem[2] \in Nat /\ mem[2 + 1] \in Nat
      /\ mem[4] \in Nat /\ mem[4 + 1] \in Nat /\ mem[6] \in Nat /\ mem[6 + 1] \in Nat
  BY MemIs
<1>. QED
  BY <1>1 DEF Extents, WordAt

\* A write behind the metadata leaves the recorded extents alone.
LEMMA ExtentsBehind ==
  ASSUME NEW mem \in Memory, NEW a \in Nat, NEW bytes \in Seq(Byte),
         8 <= a, a + Len(bytes) <= SIZE
  PROVE  Extents(Put(mem, a, bytes)) = Extents(mem)
<1>1. ASSUME NEW k \in 0..7 PROVE Put(mem, a, bytes)[k] = mem[k]
  <2>1. k \in Nat /\ k < SIZE /\ k < a
    BY Sizes
  <2>. QED
    BY <2>1, PutOut
<1>. QED
  BY <1>1 DEF Extents, WordAt

\* input_datastream records the end of the file and nothing else.
LEMMA RecordIs ==
  ASSUME NEW mem \in Memory, NEW n \in Nat, n < 256 * 256
  PROVE  Extents(Put(mem, 2, Word(n))) = [Extents(mem) EXCEPT !.input.end = n]
<1>. DEFINE W == Word(n)
            new == Put(mem, 2, W)
<1>1. W \in Seq(Byte) /\ Len(W) = 2
  BY WordIs
<1>2. W[1] + 256 * W[2] = n
  BY WordIs
<1>. HIDE DEF W
<1>3. 2 + Len(W) <= SIZE
  BY <1>1, Sizes
<1>4. /\ new[0] = mem[0] /\ new[1] = mem[1] /\ new[2] = W[1] /\ new[3] = W[2]
      /\ new[4] = mem[4] /\ new[5] = mem[5] /\ new[6] = mem[6] /\ new[7] = mem[7]
  <2>1. ASSUME NEW k \in Nat, k < 8, k < 2 \/ 2 + Len(W) <= k PROVE new[k] = mem[k]
    <3>1. k < SIZE /\ 2 \in Nat
      BY <2>1, Sizes
    <3>. QED
      BY Zenon, <1>1, <1>3, <2>1, <3>1, PutOut
  <2>2. ASSUME NEW k \in Nat, 2 <= k, k < 2 + Len(W) PROVE new[k] = W[k - 2 + 1]
    BY Zenon, <1>1, <1>3, <2>2, PutIn
  <2>. HIDE DEF new
  <2>3. new[2] = W[2 - 2 + 1] /\ new[3] = W[3 - 2 + 1]
    BY <1>1, <2>2
  <2>4. /\ new[0] = mem[0] /\ new[1] = mem[1] /\ new[4] = mem[4] /\ new[5] = mem[5]
        /\ new[6] = mem[6] /\ new[7] = mem[7]
    BY <1>1, <2>1
  <2>. QED
    BY <2>3, <2>4
<1>. HIDE DEF new
<1>5. Extents(new) = [Extents(mem) EXCEPT !.input.end = n]
  BY <1>2, <1>4 DEF Extents, WordAt
<1>. QED
  BY <1>5 DEF new, W

\* format_storage ends with two empty files.
LEMMA MetadataIs ==
  ASSUME NEW mem \in Memory
  PROVE  /\ metadata \in Seq(Byte) /\ Len(metadata) = 8
         /\ Extents(Put(mem, 0, metadata)) =
              [input |-> [start |-> INPUT, end |-> INPUT], output |-> [start |-> OUTPUT, end |-> OUTPUT]]
<1>. DEFINE new == Put(mem, 0, metadata)
            I == Word(INPUT)
            O == Word(OUTPUT)
            II == I \o I
            IIO == II \o O
<1>1. /\ I \in Seq(Byte) /\ Len(I) = 2 /\ O \in Seq(Byte) /\ Len(O) = 2
  BY WordIs, Sizes
<1>2. I[1] + 256 * I[2] = INPUT /\ O[1] + 256 * O[2] = OUTPUT
  BY WordIs, Sizes
<1>3. metadata = IIO \o O
  BY DEF metadata
<1>. HIDE DEF I, O
<1>4. II \in Seq(Byte) /\ Len(II) = 4 /\ II[1] = I[1] /\ II[2] = I[2] /\ II[3] = I[1] /\ II[4] = I[2]
  BY <1>1, ConcatIs, SMTT(30)
<1>. HIDE DEF II
<1>5. /\ IIO \in Seq(Byte) /\ Len(IIO) = 6 /\ IIO[1] = I[1] /\ IIO[2] = I[2]
      /\ IIO[3] = I[1] /\ IIO[4] = I[2] /\ IIO[5] = O[1] /\ IIO[6] = O[2]
  <2>1. /\ IIO \in Seq(Byte) /\ Len(IIO) = Len(II) + Len(O)
        /\ \A i \in Nat : 1 <= i /\ i <= Len(II) => IIO[i] = II[i]
        /\ \A i \in Nat : Len(II) < i /\ i <= Len(II) + Len(O) => IIO[i] = O[i - Len(II)]
    BY ZenonT(60), <1>1, <1>4, ConcatIs
  <2>. HIDE DEF IIO
  <2>2. IIO[1] = II[1] /\ IIO[2] = II[2] /\ IIO[3] = II[3] /\ IIO[4] = II[4]
    BY <1>4, <2>1
  <2>3. IIO[5] = O[5 - 4] /\ IIO[6] = O[6 - 4]
    BY <1>1, <1>4, <2>1
  <2>. QED
    BY <1>1, <1>4, <2>1, <2>2, <2>3
<1>. HIDE DEF IIO
<1>6. /\ metadata \in Seq(Byte) /\ Len(metadata) = 8
      /\ metadata[1] = I[1] /\ metadata[2] = I[2] /\ metadata[3] = I[1] /\ metadata[4] = I[2]
      /\ metadata[5] = O[1] /\ metadata[6] = O[2] /\ metadata[7] = O[1] /\ metadata[8] = O[2]
  <2>1. /\ metadata \in Seq(Byte) /\ Len(metadata) = Len(IIO) + Len(O)
        /\ \A i \in Nat : 1 <= i /\ i <= Len(IIO) => metadata[i] = IIO[i]
        /\ \A i \in Nat : Len(IIO) < i /\ i <= Len(IIO) + Len(O) => metadata[i] = O[i - Len(IIO)]
    BY ZenonT(60), <1>1, <1>3, <1>5, ConcatIs
  <2>2. /\ metadata[1] = IIO[1] /\ metadata[2] = IIO[2] /\ metadata[3] = IIO[3]
        /\ metadata[4] = IIO[4] /\ metadata[5] = IIO[5] /\ metadata[6] = IIO[6]
    BY <1>5, <2>1
  <2>3. metadata[7] = O[7 - 6] /\ metadata[8] = O[8 - 6]
    BY <1>1, <1>5, <2>1
  <2>. QED
    BY <1>1, <1>5, <2>1, <2>2, <2>3
<1>7. /\ new[0] = I[1] /\ new[1] = I[2] /\ new[2] = I[1] /\ new[3] = I[2]
      /\ new[4] = O[1] /\ new[5] = O[2] /\ new[6] = O[1] /\ new[7] = O[2]
  <2>1. 0 + Len(metadata) <= SIZE
    BY <1>6, Sizes
  <2>2. ASSUME NEW k \in Nat, 0 <= k, k < 0 + Len(metadata) PROVE new[k] = metadata[k - 0 + 1]
    BY Zenon, <1>6, <2>1, <2>2, PutIn
  <2>. HIDE DEF new
  <2>3. /\ new[0] = metadata[1] /\ new[1] = metadata[2] /\ new[2] = metadata[3]
        /\ new[3] = metadata[4] /\ new[4] = metadata[5] /\ new[5] = metadata[6]
        /\ new[6] = metadata[7] /\ new[7] = metadata[8]
    BY <1>6, <2>2
  <2>. QED
    BY <1>6, <2>3
<1>. HIDE DEF new
<1>8. Extents(new) =
        [input |-> [start |-> INPUT, end |-> INPUT], output |-> [start |-> OUTPUT, end |-> OUTPUT]]
  BY <1>2, <1>7 DEF Extents, WordAt
<1>. QED
  BY <1>6, <1>8 DEF new

zeros == <<0, 0, 0, 0>>

\* The two writes of format_storage that erase the metadata.
LEMMA ZeroIs ==
  ASSUME NEW mem \in Memory
  PROVE  /\ zeros \in Seq(Byte) /\ Len(zeros) = 4
         /\ Extents(Put(mem, 0, zeros)) = [Extents(mem) EXCEPT !.input = [start |-> 0, end |-> 0]]
         /\ Extents(Put(mem, 4, zeros)) = [Extents(mem) EXCEPT !.output = [start |-> 0, end |-> 0]]
<1>. DEFINE low == Put(mem, 0, zeros)
            high == Put(mem, 4, zeros)
<1>1. /\ zeros \in Seq(Byte) /\ Len(zeros) = 4
      /\ \A i \in 1..4 : zeros[i] = 0
  BY ByteIs DEF zeros
<1>2. 0 + Len(zeros) <= SIZE /\ 4 + Len(zeros) <= SIZE
  BY <1>1, Sizes
<1>3. ASSUME NEW k \in Nat, k < 8
      PROVE  /\ k < 4 => low[k] = 0 /\ high[k] = mem[k]
             /\ 4 <= k => low[k] = mem[k] /\ high[k] = 0
  <2>1. k < SIZE
    BY <1>3, Sizes
  <2>2. CASE k < 4
    <3>0. 0 <= k /\ k < 0 + Len(zeros) /\ 0 \in Nat
      BY <1>1, <2>2
    <3>1. low[k] = zeros[k - 0 + 1]
      BY Zenon, <1>1, <1>2, <3>0, PutIn
    <3>2. high[k] = mem[k]
      BY ZenonT(60), <1>1, <1>2, <2>1, <2>2, PutOut
    <3>. QED
      BY <1>1, <2>2, <3>1, <3>2
  <2>3. CASE 4 <= k
    <3>0. 4 \in Nat /\ k < 4 + Len(zeros) /\ 0 \in Nat /\ 0 + Len(zeros) <= k
      BY <1>1, <1>3, <2>3
    <3>1. high[k] = zeros[k - 4 + 1]
      BY Zenon, <1>1, <1>2, <2>3, <3>0, PutIn
    <3>2. low[k] = mem[k]
      BY Zenon, <1>1, <1>2, <2>1, <3>0, PutOut
    <3>. QED
      BY <1>1, <1>3, <2>3, <3>1, <3>2
  <2>. QED
    BY <2>2, <2>3
<1>. HIDE DEF low, high
<1>4. /\ low[0] = 0 /\ low[1] = 0 /\ low[2] = 0 /\ low[3] = 0
      /\ low[4] = mem[4] /\ low[5] = mem[5] /\ low[6] = mem[6] /\ low[7] = mem[7]
  BY <1>3
<1>5. /\ high[4] = 0 /\ high[5] = 0 /\ high[6] = 0 /\ high[7] = 0
      /\ high[0] = mem[0] /\ high[1] = mem[1] /\ high[2] = mem[2] /\ high[3] = mem[3]
  BY <1>3
<1>6. Extents(low) = [Extents(mem) EXCEPT !.input = [start |-> 0, end |-> 0]]
  BY <1>4 DEF Extents, WordAt
<1>7. Extents(high) = [Extents(mem) EXCEPT !.output = [start |-> 0, end |-> 0]]
  BY <1>5 DEF Extents, WordAt
<1>. QED
  BY <1>1, <1>6, <1>7 DEF low, high

-----------------------------------------------------------------------------
(* The invariant                                                           *)

Blank == [start |-> 0, end |-> 0]

\* A file of the given extents, without a NUL.
Whole(f) ==
  /\ f.start = INPUT /\ INPUT <= f.end /\ f.end <= SIZE
  /\ \A a \in INPUT..f.end - 1 : fram[a] # 0

FSType ==
  /\ fram \in Memory
  /\ _fs \in [input : [start : Nat, end : Nat], output : [start : Nat, end : Nat]]
  /\ pc \in {"off", "idle", "zeroing", "metadata", "input", "flag", "chunk", "record", "output"}
  /\ buffer \in Chunks \cup {<<>>}
  /\ address \in Nat
  /\ file \in {"input", "output"}

ExtentsOK ==
  /\ recorded = Blank \/ Whole(recorded)
  /\ Extents(fram).output \in {Blank, [start |-> OUTPUT, end |-> OUTPUT]}
  /\ _fs.input = Blank \/ (_fs.input.start = INPUT /\ INPUT <= _fs.input.end /\ _fs.input.end <= SIZE)
  /\ _fs.output \in {Blank, [start |-> OUTPUT, end |-> OUTPUT]}

InputOK ==
  /\ InInput => Whole(recorded) /\ Whole(_fs.input) /\ recorded.end <= _fs.input.end
  /\ pc = "flag" => _fs.input.end = INPUT /\ buffer[1] # HASH
  /\ pc = "chunk" => _fs.input.end # INPUT \/ buffer[1] = HASH
  /\ pc = "flag" => buffer \in Chunks /\ _fs.input.end + 1 + Len(buffer) <= LIMIT
  /\ pc = "chunk" => buffer \in Chunks /\ _fs.input.end + Len(buffer) <= LIMIT

FormatOK ==
  /\ pc = "zeroing" => address % 4 = 0 /\ address < FORMATTED
  /\ pc = "zeroing" /\ address # 0 => recorded = Blank
  /\ pc = "zeroing" /\ 8 <= address => Extents(fram).output = Blank
  /\ pc = "metadata" => recorded = Blank

FSInv == FSType /\ ExtentsOK /\ InputOK /\ FormatOK

\* A chunk that fgets returns is text and not empty.
LEMMA ChunkIs ==
  ASSUME NEW c \in Chunks
  PROVE  c \in Seq(Byte) /\ Len(c) \in Nat /\ Len(c) > 0 /\ \A i \in 1..Len(c) : c[i] # 0
<1>1. c \in Seq(Byte \ {0, 37}) /\ Len(c) > 0
  BY ChunksAssumption, Sizes
<1>. QED
  BY <1>1

\* Steps that leave the FRAM and the extents in RAM alone.
LEMMA QuietStep ==
  ASSUME FSInv, UNCHANGED <<fram, _fs>>
  PROVE  /\ fram' \in Memory /\ ExtentsOK'
         /\ recorded' = recorded /\ Extents(fram)' = Extents(fram)
         /\ Whole(recorded)' <=> Whole(recorded)
         /\ Whole(_fs.input)' <=> Whole(_fs.input)
BY DEF FSInv, FSType, ExtentsOK, recorded, Whole

\* A write to the input file, at its end, leaves what is recorded alone.
LEMMA WriteStep ==
  ASSUME FSInv, InInput, NEW bytes \in Seq(Byte), Len(bytes) > 0,
         \A i \in 1..Len(bytes) : bytes[i] # 0,
         _fs.input.end + Len(bytes) <= SIZE,
         fram' = Put(fram, _fs.input.end, bytes),
         _fs' = [_fs EXCEPT !.input.end = @ + Len(bytes)]
  PROVE  /\ fram' \in Memory /\ ExtentsOK' /\ Extents(fram') = Extents(fram)
         /\ _fs' \in [input : [start : Nat, end : Nat], output : [start : Nat, end : Nat]]
         /\ Whole(recorded)' /\ Whole(_fs.input)' /\ (recorded.end <= _fs.input.end)'
<1>. DEFINE e == _fs.input.end
            n == Len(bytes)
<1>1. /\ e \in Nat /\ n \in Nat /\ INPUT <= e /\ e + n <= SIZE /\ fram \in Memory
      /\ _fs \in [input : [start : Nat, end : Nat], output : [start : Nat, end : Nat]]
      /\ _fs.input.start = INPUT
  BY DEF FSInv, FSType, InputOK, Whole
<1>2. 8 <= e
  BY <1>1, Sizes, SMTT(30)
<1>3. fram' \in Memory /\ Extents(fram') = Extents(fram)
  BY <1>1, <1>2, PutIs, ExtentsBehind, Zenon
<1>4. /\ _fs' \in [input : [start : Nat, end : Nat], output : [start : Nat, end : Nat]]
      /\ _fs'.input.start = INPUT /\ _fs'.input.end = e + n /\ _fs'.output = _fs.output
  BY <1>1
<1>5. ASSUME NEW a \in INPUT..e + n - 1 PROVE fram'[a] # 0
  <2>1. a \in Nat /\ a < SIZE /\ INPUT <= a /\ a < e + n
    BY SMTT(30), <1>1, Sizes
  <2>2. CASE a < e
    <3>1. fram'[a] = fram[a]
      BY <1>1, <2>1, <2>2, PutOut
    <3>2. a \in INPUT.._fs.input.end - 1
      BY <1>1, <2>1, <2>2, Sizes, SMTT(30)
    <3>. QED
      BY <3>1, <3>2 DEF FSInv, InputOK, Whole
  <2>3. CASE e <= a
    <3>1. fram'[a] = bytes[a - e + 1]
      BY <1>1, <2>1, <2>3, PutIn
    <3>2. a - e + 1 \in 1..Len(bytes)
      BY <1>1, <2>1, <2>3, SMTT(30)
    <3>. QED
      BY <3>1, <3>2
  <2>. QED
    BY <1>1, <2>1, <2>2, <2>3
<1>6. Whole(_fs.input)'
  BY SMTT(30), <1>1, <1>4, <1>5, Sizes DEF Whole
<1>7. recorded' = recorded
  BY <1>3 DEF recorded
<1>8. recorded.start = INPUT /\ INPUT <= recorded.end /\ recorded.end <= e /\ recorded.end \in Nat
  <2>1. recorded.end \in Nat
    BY <1>1, ExtentsType DEF recorded
  <2>. QED
    BY <2>1 DEF FSInv, InputOK, Whole
<1>9. Whole(recorded)'
  <2>1. \A a \in INPUT..recorded.end - 1 : a \in INPUT..e + n - 1
    <3>1. INPUT \in Nat /\ recorded.end \in Nat /\ e \in Nat /\ n \in Nat /\ recorded.end <= e + n
      BY <1>1, <1>8, Sizes, SMTT(30)
    <3>. QED
      BY <3>1
  <2>. QED
    BY <1>1, <1>5, <1>7, <1>8, <2>1, Sizes, SMTT(30) DEF Whole
<1>10. (recorded.end <= _fs.input.end)'
  BY <1>1, <1>4, <1>7, <1>8
<1>11. ExtentsOK'
  <2>1. Extents(fram').output \in {Blank, [start |-> OUTPUT, end |-> OUTPUT]}
    BY <1>3 DEF FSInv, ExtentsOK
  <2>2. _fs'.output \in {Blank, [start |-> OUTPUT, end |-> OUTPUT]}
    BY <1>4 DEF FSInv, ExtentsOK
  <2>3. INPUT <= e + n
    BY <1>1, Sizes, SMTT(30)
  <2>. QED
    BY <1>1, <1>4, <1>9, <2>1, <2>2, <2>3 DEF ExtentsOK
<1>. QED
  BY <1>3, <1>4, <1>6, <1>9, <1>10, <1>11

Extent == [start : Nat, end : Nat]

\* A step of format_storage: the metadata is blank from the first write on.
LEMMA ZeroStep ==
  ASSUME FSInv, ZeroCell
  PROVE  FSInv' /\ recorded' = Blank
<1>1. /\ fram \in Memory /\ address \in Nat /\ address < FORMATTED /\ address % 4 = 0
      /\ fram' = Put(fram, address, zeros) /\ address' = address + 4
      /\ pc = "zeroing" /\ pc' = IF address' < FORMATTED THEN "zeroing" ELSE "metadata"
      /\ UNCHANGED <<_fs, buffer, file>>
  BY DEF FSInv, FSType, FormatOK, ZeroCell, zeros
<1>2. zeros \in Seq(Byte) /\ Len(zeros) = 4
  BY <1>1, ZeroIs
<1>3. address' <= FORMATTED /\ address' \in Nat /\ address' % 4 = 0
  <2>1. FORMATTED % 4 = 0 /\ FORMATTED \in Nat
    BY LayoutAssumption
  <2>. QED
    BY <1>1, <2>1
<1>4. address + Len(zeros) <= SIZE
  BY <1>1, <1>2, <1>3, Sizes
<1>5. fram' \in Memory
  BY Zenon, <1>1, <1>2, <1>4, PutIs
<1>6. /\ Extents(fram').input = Blank
      /\ Extents(fram').output \in {Extents(fram).output, Blank}
      /\ 4 <= address => Extents(fram').output = Blank
  <2>0. Extents(fram) \in [input : Extent, output : Extent]
    BY <1>1, ExtentsType DEF Extent
  <2>1. CASE address = 0
    <3>1. Extents(fram') = [Extents(fram) EXCEPT !.input = [start |-> 0, end |-> 0]]
      BY <1>1, <2>1, ZeroIs
    <3>. QED
      BY <2>0, <2>1, <3>1 DEF Blank
  <2>2. CASE address = 4
    <3>1. Extents(fram') = [Extents(fram) EXCEPT !.output = [start |-> 0, end |-> 0]]
      BY <1>1, <2>2, ZeroIs
    <3>2. Extents(fram).input = Blank
      BY <1>1, <2>2 DEF FSInv, FormatOK, recorded
    <3>. QED
      BY <2>0, <2>2, <3>1, <3>2 DEF Blank
  <2>3. CASE 8 <= address
    <3>1. Extents(fram') = Extents(fram)
      BY Zenon, <1>1, <1>2, <1>4, <2>3, ExtentsBehind
    <3>2. Extents(fram).input = Blank /\ Extents(fram).output = Blank
      BY <1>1, <2>3 DEF FSInv, FormatOK, recorded
    <3>. QED
      BY <3>1, <3>2
  <2>4. address = 0 \/ address = 4 \/ 8 <= address
    BY <1>1
  <2>. QED
    BY <2>1, <2>2, <2>3, <2>4
<1>7. FSType'
  BY <1>1, <1>3, <1>5 DEF FSInv, FSType
<1>8. ExtentsOK'
  BY <1>1, <1>6 DEF FSInv, ExtentsOK, recorded
<1>9. InputOK'
  BY <1>1 DEF InputOK, InInput
<1>10. FormatOK'
  BY <1>1, <1>3, <1>6 DEF FormatOK, recorded
<1>. QED
  BY <1>6, <1>7, <1>8, <1>9, <1>10 DEF FSInv, recorded

\* The last step of format_storage.
LEMMA MetadataStep ==
  ASSUME FSInv, WriteMetadata
  PROVE  FSInv' /\ recorded' = [start |-> INPUT, end |-> INPUT]
<1>1. /\ fram \in Memory /\ fram' = Put(fram, 0, metadata) /\ pc' = "idle"
      /\ UNCHANGED <<_fs, buffer, address, file>>
  BY DEF FSInv, FSType, WriteMetadata
<1>2. metadata \in Seq(Byte) /\ Len(metadata) = 8
  BY <1>1, MetadataIs
<1>3. fram' \in Memory
  <2>1. 0 + Len(metadata) <= SIZE /\ 0 \in Nat
    BY <1>2, Sizes
  <2>. QED
    BY Zenon, <1>1, <1>2, <2>1, PutIs
<1>4. /\ Extents(fram').input = [start |-> INPUT, end |-> INPUT]
      /\ Extents(fram').output = [start |-> OUTPUT, end |-> OUTPUT]
  BY <1>1, MetadataIs
<1>5. Whole(recorded)'
  BY <1>4, Sizes DEF Whole, recorded
<1>6. FSType'
  BY <1>1, <1>3 DEF FSInv, FSType
<1>7. ExtentsOK'
  BY <1>1, <1>4, <1>5 DEF FSInv, ExtentsOK
<1>8. InputOK' /\ FormatOK'
  BY <1>1 DEF InputOK, FormatOK, InInput
<1>. QED
  BY <1>4, <1>6, <1>7, <1>8 DEF FSInv, recorded

\* input_datastream records the end: the file is now all that was written.
LEMMA RecordStep ==
  ASSUME FSInv, RecordEnd
  PROVE  /\ FSInv' /\ recorded' = _fs.input /\ Whole(_fs.input)'
         /\ \A k \in Nat : INPUT <= k /\ k < SIZE => fram'[k] = fram[k]
<1>1. /\ fram \in Memory /\ pc = "record" /\ pc' = "output" /\ file' = "input"
      /\ fram' = Put(fram, 2, Word(_fs.input.end)) /\ address' = _fs.input.start
      /\ UNCHANGED <<_fs, buffer>>
      /\ _fs \in [input : Extent, output : Extent]
  BY DEF FSInv, FSType, RecordEnd, Extent
<1>2. Whole(recorded) /\ Whole(_fs.input)
  BY <1>1 DEF FSInv, InputOK, InInput
<1>3. _fs.input.end \in Nat /\ _fs.input.start \in Nat /\ _fs.input.end < 256 * 256
  BY <1>1, <1>2, Sizes DEF Whole, Extent
<1>. DEFINE W == Word(_fs.input.end)
<1>4. W \in Seq(Byte) /\ Len(W) = 2
  BY <1>3, WordIs
<1>. HIDE DEF W
<1>5. 2 + Len(W) <= SIZE /\ 2 \in Nat
  BY <1>4, Sizes
<1>6. fram' \in Memory
  BY Zenon, <1>1, <1>4, <1>5, PutIs DEF W
<1>7. Extents(fram') = [Extents(fram) EXCEPT !.input.end = _fs.input.end]
  BY <1>1, <1>3, RecordIs
<1>8. recorded' = _fs.input /\ Extents(fram').output = Extents(fram).output
  <2>1. Extents(fram) \in [input : Extent, output : Extent]
    BY <1>1, ExtentsType DEF Extent
  <2>2. Extents(fram).input.start = _fs.input.start
    BY <1>2 DEF Whole, recorded
  <2>. QED
    BY <1>1, <1>7, <2>1, <2>2 DEF recorded, Extent
<1>9. \A k \in Nat : INPUT <= k /\ k < SIZE => fram'[k] = fram[k]
  <2>1. \A k \in Nat : INPUT <= k => 2 + Len(W) <= k
    BY <1>4, Sizes
  <2>. QED
    BY Zenon, <1>1, <1>4, <1>5, <2>1, PutOut DEF W
<1>10. Whole(_fs.input)'
  <2>1. \A a \in INPUT.._fs.input.end - 1 : a \in Nat /\ INPUT <= a /\ a < SIZE
    BY <1>2, <1>3, Sizes DEF Whole
  <2>. QED
    BY <1>1, <1>2, <1>9, <2>1 DEF Whole
<1>11. Whole(recorded)'
  BY <1>1, <1>8, <1>10 DEF Whole
<1>12. FSType'
  BY <1>1, <1>3, <1>6 DEF FSInv, FSType
<1>13. ExtentsOK'
  BY <1>1, <1>8, <1>11 DEF FSInv, ExtentsOK
<1>14. InputOK' /\ FormatOK'
  BY <1>1 DEF InputOK, FormatOK, InInput
<1>. QED
  BY <1>8, <1>9, <1>10, <1>12, <1>13, <1>14 DEF FSInv

\* A board that was formatted once.
LEMMA FSInit == Init => FSInv
<1>. SUFFICES ASSUME Init PROVE FSInv
  OBVIOUS
<1>. DEFINE empty == [k \in 0..SIZE - 1 |-> 0]
<1>1. empty \in Memory
  BY ByteIs DEF Memory
<1>. HIDE DEF empty
<1>2. fram = Put(empty, 0, metadata)
  BY DEF Init, empty
<1>3. metadata \in Seq(Byte) /\ Len(metadata) = 8
  BY <1>1, MetadataIs
<1>4. fram \in Memory
  <2>1. 0 + Len(metadata) <= SIZE /\ 0 \in Nat
    BY <1>3, Sizes
  <2>. QED
    BY Zenon, <1>1, <1>2, <1>3, <2>1, PutIs
<1>5. /\ Extents(fram).input = [start |-> INPUT, end |-> INPUT]
      /\ Extents(fram).output = [start |-> OUTPUT, end |-> OUTPUT]
  BY <1>1, <1>2, MetadataIs
<1>6. Whole(recorded)
  BY <1>5, Sizes DEF Whole, recorded
<1>7. _fs.input = Blank /\ _fs.output = Blank
  BY DEF Init, Unknown, Blank
<1>8. FSType
  BY <1>4 DEF Init, FSType, Unknown
<1>9. ExtentsOK
  BY <1>5, <1>6, <1>7 DEF ExtentsOK
<1>10. InputOK /\ FormatOK
  BY DEF Init, InputOK, FormatOK, InInput
<1>. QED
  BY <1>8, <1>9, <1>10 DEF FSInv

\* Every step keeps the extents in RAM and in the FRAM in step.
LEMMA FSStep ==
  ASSUME CarefulUse, FSInv, [Next]_vars
  PROVE  FSInv'
<1>. USE DEF FSInv
<1>1. CASE initialize_fs
  <2>1. /\ UNCHANGED <<fram, buffer, address, file>> /\ _fs' = Extents(fram) /\ pc' = "idle"
    BY <1>1 DEF initialize_fs
  <2>2. FSType'
    BY <2>1, ExtentsType DEF FSType
  <2>3. ExtentsOK'
    BY <2>1 DEF ExtentsOK, recorded, Whole
  <2>. QED
    BY <2>1, <2>2, <2>3 DEF InputOK, FormatOK, InInput
<1>2. CASE PowerLoss
  <2>1. /\ UNCHANGED fram /\ _fs' = Unknown /\ pc' = "off" /\ buffer' = <<>>
        /\ address' = 0 /\ file' = "input"
    BY <1>2 DEF PowerLoss
  <2>2. FSType'
    BY <2>1 DEF FSType, Unknown
  <2>3. ExtentsOK'
    BY <2>1 DEF ExtentsOK, recorded, Whole, Unknown, Blank
  <2>. QED
    BY <2>1, <2>2, <2>3 DEF InputOK, FormatOK, InInput
<1>3. CASE StartFormat
  <2>1. ExtentsOK'
    BY <1>3, QuietStep DEF StartFormat
  <2>2. FSType' /\ InputOK'
    BY <1>3 DEF StartFormat, FSType, InputOK, InInput
  <2>3. FormatOK'
    BY <1>3, Sizes DEF StartFormat, FormatOK
  <2>. QED
    BY <2>1, <2>2, <2>3
<1>4. CASE ZeroCell
  BY <1>4, ZeroStep
<1>5. CASE WriteMetadata
  BY <1>5, MetadataStep
<1>6. CASE StartInput
  <2>1. Sound /\ pc' = "input" /\ UNCHANGED <<fram, _fs, buffer, address, file>>
    BY <1>6 DEF StartInput
  <2>2. Whole(recorded) /\ _fs.input = recorded
    BY <2>1, Sizes DEF Sound, recorded, ExtentsOK, Blank
  <2>3. Whole(recorded)' /\ Whole(_fs.input)' /\ (recorded.end <= _fs.input.end)'
    <3>1. recorded.end \in Nat
      BY ExtentsType DEF recorded, FSType
    <3>. QED
      BY <2>1, <2>2, <3>1, QuietStep
  <2>4. ExtentsOK'
    BY <2>1, QuietStep
  <2>5. FSType' /\ FormatOK'
    BY <2>1 DEF FSType, FormatOK
  <2>6. InputOK'
    BY <2>1, <2>3 DEF InputOK
  <2>. QED
    BY <2>4, <2>5, <2>6
<1>7. CASE fgets
  <2>1. /\ pc = "input" /\ UNCHANGED <<fram, _fs, address, file>> /\ buffer' \in Chunks
        /\ _fs.input.end + 1 + Len(buffer') <= LIMIT
        /\ pc' = IF _fs.input.end = _fs.input.start /\ buffer'[1] # HASH THEN "flag" ELSE "chunk"
    BY <1>7 DEF fgets
  <2>2. Whole(recorded) /\ Whole(_fs.input) /\ recorded.end <= _fs.input.end
    BY <2>1 DEF InputOK, InInput
  <2>3. Whole(recorded)' /\ Whole(_fs.input)' /\ (recorded.end <= _fs.input.end)'
    BY <2>1, <2>2, QuietStep
  <2>4. ExtentsOK'
    BY <2>1, QuietStep
  <2>5. FSType' /\ FormatOK'
    BY <2>1 DEF FSType, FormatOK
  <2>6. /\ _fs.input.start = INPUT
        /\ _fs.input.end + Len(buffer') <= LIMIT
    BY <2>1, <2>2, ChunkIs, Sizes DEF Whole, FSType
  <2>7. InputOK'
    BY <2>1, <2>3, <2>6 DEF InputOK
  <2>. QED
    BY <2>4, <2>5, <2>7
<1>8. CASE WriteFlag
  <2>1. /\ pc = "flag" /\ pc' = "chunk" /\ UNCHANGED <<buffer, address, file>>
        /\ fram' = Put(fram, _fs.input.end, <<STAR>>)
        /\ _fs' = [_fs EXCEPT !.input.end = @ + 1]
    BY <1>8 DEF WriteFlag
  <2>2. InInput /\ _fs.input.end = INPUT /\ _fs.input.end + 1 + Len(buffer) <= LIMIT /\ buffer \in Chunks
    BY <2>1 DEF InputOK, InInput
  <2>3. /\ <<STAR>> \in Seq(Byte) /\ Len(<<STAR>>) = 1
        /\ \A i \in 1..Len(<<STAR>>) : <<STAR>>[i] # 0
    BY ByteIs DEF STAR
  <2>4. _fs.input.end + Len(<<STAR>>) <= SIZE /\ Len(<<STAR>>) > 0
    BY <2>2, <2>3, ChunkIs, Sizes
  <2>5. _fs' = [_fs EXCEPT !.input.end = @ + Len(<<STAR>>)]
    BY <2>1, <2>3
  <2>6. /\ fram' \in Memory /\ ExtentsOK'
        /\ _fs' \in [input : [start : Nat, end : Nat], output : [start : Nat, end : Nat]]
        /\ Whole(recorded)' /\ Whole(_fs.input)' /\ (recorded.end <= _fs.input.end)'
    BY Zenon, <2>1, <2>2, <2>3, <2>4, <2>5, WriteStep
  <2>7. _fs'.input.end = INPUT + 1
    BY <2>1, <2>2 DEF FSType
  <2>8. INPUT + 1 # INPUT /\ INPUT + 1 + Len(buffer) <= LIMIT
    BY <2>2, Sizes
  <2>9. InputOK'
    BY <2>1, <2>2, <2>6, <2>7, <2>8 DEF InputOK
  <2>10. FSType' /\ FormatOK'
    BY <2>1, <2>6 DEF FSType, FormatOK
  <2>. QED
    BY <2>6, <2>9, <2>10
<1>9. CASE WriteChunk
  <2>1. /\ pc = "chunk" /\ pc' = "input" /\ UNCHANGED <<buffer, address, file>>
        /\ fram' = Put(fram, _fs.input.end, buffer)
        /\ _fs' = [_fs EXCEPT !.input.end = @ + Len(buffer)]
    BY <1>9 DEF WriteChunk
  <2>2. InInput /\ _fs.input.end + Len(buffer) <= LIMIT /\ buffer \in Chunks
    BY <2>1 DEF InputOK, InInput
  <2>3. /\ buffer \in Seq(Byte) /\ Len(buffer) > 0
        /\ \A i \in 1..Len(buffer) : buffer[i] # 0
    BY <2>2, ChunkIs
  <2>4. _fs.input.end + Len(buffer) <= SIZE
    BY <2>2, <2>3, Sizes DEF FSType
  <2>5. /\ fram' \in Memory /\ ExtentsOK'
        /\ _fs' \in [input : [start : Nat, end : Nat], output : [start : Nat, end : Nat]]
        /\ Whole(recorded)' /\ Whole(_fs.input)' /\ (recorded.end <= _fs.input.end)'
    BY Zenon, <2>1, <2>2, <2>3, <2>4, WriteStep
  <2>6. InputOK' /\ FSType' /\ FormatOK'
    BY <2>1, <2>5 DEF InputOK, FSType, FormatOK
  <2>. QED
    BY <2>5, <2>6
<1>10. CASE EndOfInput
  <2>1. pc = "input" /\ pc' = "record" /\ UNCHANGED <<fram, _fs, buffer, address, file>>
    BY <1>10 DEF EndOfInput
  <2>2. Whole(recorded) /\ Whole(_fs.input) /\ recorded.end <= _fs.input.end
    BY <2>1 DEF InputOK, InInput
  <2>3. Whole(recorded)' /\ Whole(_fs.input)' /\ (recorded.end <= _fs.input.end)' /\ ExtentsOK'
    BY <2>1, <2>2, QuietStep
  <2>. QED
    BY <2>1, <2>3 DEF InputOK, FSType, FormatOK
<1>11. CASE RecordEnd
  BY <1>11, RecordStep
<1>12. CASE StartOutput
  <2>1. pc' = "output" /\ file' = "output" /\ address' = _fs.output.start
        /\ UNCHANGED <<fram, _fs, buffer>>
    BY <1>12 DEF StartOutput
  <2>2. ExtentsOK'
    BY <2>1, QuietStep
  <2>. QED
    BY <2>1, <2>2 DEF InputOK, InInput, FSType, FormatOK
<1>13. CASE PrintChunk \/ EndOutput
  <2>0. address \in Nat /\ address + CHUNK \in Nat
    BY Sizes DEF FSType
  <2>1. /\ pc' \in {"output", "idle"} /\ address' \in Nat
        /\ UNCHANGED <<fram, _fs, buffer, file>>
    BY <1>13, <2>0, Zenon DEF PrintChunk, EndOutput
  <2>2. ExtentsOK'
    BY <2>1, QuietStep
  <2>. QED
    BY Zenon, <2>1, <2>2 DEF InputOK, InInput, FSType, FormatOK
<1>14. CASE UNCHANGED vars
  <2>1. UNCHANGED <<fram, _fs, pc, buffer, address, file>>
    BY <1>14 DEF vars
  <2>2. ExtentsOK' /\ recorded' = recorded /\ Extents(fram)' = Extents(fram)
        /\ (Whole(recorded)' <=> Whole(recorded)) /\ (Whole(_fs.input)' <=> Whole(_fs.input))
    BY <2>1, QuietStep
  <2>. QED
    BY <2>1, <2>2 DEF InputOK, InInput, FSType, FormatOK
<1>. QED
  BY <1>1, <1>2, <1>3, <1>4, <1>5, <1>6, <1>7, <1>8, <1>9, <1>10, <1>11, <1>12, <1>13, <1>14, SMTT(30)
     DEF Next, Calls, Serial, Steps

-----------------------------------------------------------------------------
(* The refinement                                                          *)

\* Sequences with the same elements are the same.
LEMMA SameSeq ==
  ASSUME NEW S, NEW s \in Seq(S), NEW t \in Seq(S), Len(s) = Len(t),
         \A i \in 1..Len(s) : s[i] = t[i]
  PROVE  s = t
OBVIOUS

\* An i2c_readReg of nothing.
LEMMA GetNone ==
  ASSUME NEW mem \in Memory, NEW a \in Nat, a <= SIZE
  PROVE  Get(mem, a, 0) = <<>>
<1>1. Get(mem, a, 0) \in Seq(Byte) /\ Len(Get(mem, a, 0)) = 0
  <2>1. a + 0 <= SIZE /\ 0 \in Nat
    OBVIOUS
  <2>. QED
    BY <2>1, GetIs
<1>. QED
  BY <1>1

\* An i2c_readReg of bytes that were not written.
LEMMA GetSame ==
  ASSUME NEW mem \in Memory, NEW new \in Memory, NEW a \in Nat, NEW n \in Nat, a + n <= SIZE,
         \A k \in Nat : a <= k /\ k < a + n => new[k] = mem[k]
  PROVE  Get(new, a, n) = Get(mem, a, n)
<1>1. /\ Get(mem, a, n) \in Seq(Byte) /\ Len(Get(mem, a, n)) = n
      /\ \A k \in 1..n : Get(mem, a, n)[k] = mem[a + k - 1]
  BY GetIs
<1>2. /\ Get(new, a, n) \in Seq(Byte) /\ Len(Get(new, a, n)) = n
      /\ \A k \in 1..n : Get(new, a, n)[k] = new[a + k - 1]
  BY GetIs
<1>3. ASSUME NEW k \in 1..n PROVE new[a + k - 1] = mem[a + k - 1]
  <2>1. a + k - 1 \in Nat /\ a <= a + k - 1 /\ a + k - 1 < a + n
    OBVIOUS
  <2>. QED
    BY <2>1
<1>. QED
  BY Zenon, <1>1, <1>2, <1>3, SameSeq

\* An i2c_readReg returns what an i2c_writeReg wrote.
LEMMA GetPut ==
  ASSUME NEW mem \in Memory, NEW a \in Nat, NEW bytes \in Seq(Byte), a + Len(bytes) <= SIZE
  PROVE  Get(Put(mem, a, bytes), a, Len(bytes)) = bytes
<1>. DEFINE new == Put(mem, a, bytes)
            n == Len(bytes)
<1>0. new \in Memory /\ n \in Nat
  BY PutIs
<1>1. ASSUME NEW k \in 1..n PROVE new[a + k - 1] = bytes[k]
  <2>1. a + k - 1 \in Nat /\ a <= a + k - 1 /\ a + k - 1 < a + Len(bytes)
    BY <1>0
  <2>2. new[a + k - 1] = bytes[a + k - 1 - a + 1]
    BY <2>1, PutIn
  <2>. QED
    BY <1>0, <2>2
<1>. HIDE DEF new
<1>2. /\ Get(new, a, n) \in Seq(Byte) /\ Len(Get(new, a, n)) = n
      /\ \A k \in 1..n : Get(new, a, n)[k] = new[a + k - 1]
  BY <1>0, GetIs
<1>3. Get(new, a, n) = bytes
  BY <1>0, <1>1, <1>2, SameSeq
<1>. QED
  BY <1>3 DEF new

\* Concatenation, as a name that the provers do not look into.
Joined(s, t) == s \o t

\* Two reads in a row are one read.
LEMMA GetConcat ==
  ASSUME NEW mem \in Memory, NEW a \in Nat, NEW n \in Nat, NEW m \in Nat, a + n + m <= SIZE,
         NEW b, b = a + n, NEW l, l = n + m
  PROVE  Get(mem, a, l) = Joined(Get(mem, a, n), Get(mem, b, m))
<1>. DEFINE front == Get(mem, a, n)
            back == Get(mem, a + n, m)
            all == Get(mem, a, n + m)
<1>0. a + n \in Nat /\ n + m \in Nat /\ a + n <= SIZE /\ a + (n + m) <= SIZE
  BY Sizes
<1>1. /\ front \in Seq(Byte) /\ Len(front) = n /\ \A k \in 1..n : front[k] = mem[a + k - 1]
  BY <1>0, GetIs
<1>2. /\ back \in Seq(Byte) /\ Len(back) = m /\ \A k \in 1..m : back[k] = mem[a + n + k - 1]
  BY Zenon, <1>0, GetIs
<1>3. /\ all \in Seq(Byte) /\ Len(all) = n + m /\ \A k \in 1..n + m : all[k] = mem[a + k - 1]
  BY <1>0, GetIs, ZenonT(30)
<1>. HIDE DEF front, back, all
<1>4. /\ front \o back \in Seq(Byte) /\ Len(front \o back) = n + m
      /\ \A i \in Nat : 1 <= i /\ i <= n => (front \o back)[i] = front[i]
      /\ \A i \in Nat : n < i /\ i <= n + m => (front \o back)[i] = back[i - n]
  <2>1. front \in Seq(Byte) /\ back \in Seq(Byte) /\ Len(front) = n /\ Len(back) = m
    BY <1>1, <1>2
  <2>2. /\ front \o back \in Seq(Byte) /\ Len(front \o back) = Len(front) + Len(back)
        /\ \A i \in Nat : 1 <= i /\ i <= Len(front) => (front \o back)[i] = front[i]
        /\ \A i \in Nat : Len(front) < i /\ i <= Len(front) + Len(back) => (front \o back)[i] = back[i - Len(front)]
    BY <2>1, SMTT(30)
  <2>. QED
    BY SMTT(30), <2>1, <2>2
<1>5. ASSUME NEW k \in 1..n + m PROVE all[k] = (front \o back)[k]
  <2>1. CASE k <= n
    <3>1. k \in 1..n /\ k \in Nat /\ 1 <= k
      BY <2>1
    <3>2. all[k] = mem[a + k - 1]
      BY <1>3
    <3>3. front[k] = mem[a + k - 1]
      BY <1>1, <3>1
    <3>4. (front \o back)[k] = front[k]
      BY <1>4, <2>1, <3>1
    <3>. QED
      BY <3>2, <3>3, <3>4
  <2>2. CASE n < k
    <3>1. k - n \in 1..m /\ a + n + (k - n) - 1 = a + k - 1 /\ k \in Nat /\ k <= n + m
      BY <2>2
    <3>2. back[k - n] = mem[a + n + (k - n) - 1]
      BY <1>2, <3>1, SMTT(30)
    <3>3. (front \o back)[k] = back[k - n]
      BY <1>4, <2>2, <3>1, Zenon
    <3>4. all[k] = mem[a + k - 1]
      BY <1>3
    <3>. QED
      BY <3>1, <3>2, <3>3, <3>4
  <2>3. k <= n \/ n < k
    OBVIOUS
  <2>. QED
    BY Zenon, <2>1, <2>2, <2>3
<1>6. all = front \o back
  BY Zenon, <1>3, <1>4, <1>5, SameSeq
<1>. QED
  BY <1>6 DEF front, back, all, Joined

\* A read across the place where a write begins.
LEMMA GetWritten ==
  ASSUME NEW mem \in Memory, NEW a \in Nat, NEW n \in Nat, NEW bytes \in Seq(Byte),
         NEW b \in Nat, b = a + n, b + Len(bytes) <= SIZE
  PROVE  Get(Put(mem, b, bytes), a, n + Len(bytes)) = Joined(Get(mem, a, n), bytes)
<1>. DEFINE new == Put(mem, b, bytes)
            m == Len(bytes)
            c == n + m
<1>1. new \in Memory /\ m \in Nat /\ n <= c /\ c \in Nat
  BY PutIs
<1>2. Get(new, b, m) = bytes
  BY GetPut
<1>3. Get(new, a, n) = Get(mem, a, n)
  <2>1. ASSUME NEW k \in Nat, a <= k, k < a + n PROVE new[k] = mem[k]
    <3>1. k < SIZE /\ k < b
      BY <1>1, <2>1, Sizes
    <3>. QED
      BY <3>1, PutOut
  <2>2. a + n <= SIZE
    BY <1>1, Sizes
  <2>. HIDE DEF new
  <2>. QED
    BY <1>1, <2>1, <2>2, GetSame
<1>. HIDE DEF new
<1>4. a + n + m <= SIZE /\ c = n + m
  BY <1>1
<1>. HIDE DEF m, c
<1>5. Get(new, a, c) = Joined(Get(new, a, n), Get(new, b, m))
  BY <1>1, <1>4, GetConcat
<1>6. Get(new, a, c) = Joined(Get(mem, a, n), bytes)
  BY <1>2, <1>3, <1>5
<1>. QED
  BY <1>6 DEF new, m, c

\* What the log and its tail are while input_datastream runs.
LEMMA LogIs ==
  ASSUME FSInv, InInput
  PROVE  \E e, n, m \in Nat :
           /\ e = _fs.input.end /\ e = INPUT + n + m /\ e <= SIZE
           /\ recorded.end = INPUT + n
           /\ committed = Get(fram, INPUT, n) /\ received = Get(fram, INPUT + n, m)
<1>1. /\ fram \in Memory /\ _fs \in [input : Extent, output : Extent]
      /\ Whole(recorded) /\ Whole(_fs.input) /\ recorded.end <= _fs.input.end
  BY DEF FSInv, FSType, InputOK, Extent
<1>2. recorded.end \in Nat /\ _fs.input.end \in Nat /\ INPUT \in Nat
  BY <1>1, ExtentsType, Sizes DEF recorded, Extent
<1>. DEFINE n == recorded.end - INPUT
            m == _fs.input.end - recorded.end
<1>3. n \in Nat /\ m \in Nat /\ recorded.end = INPUT + n /\ _fs.input.end = INPUT + n + m
  BY <1>1, <1>2 DEF Whole
<1>4. committed = Get(fram, INPUT, n)
  BY <1>1 DEF committed, Content, Whole
<1>5. received = Get(fram, INPUT + n, m)
  BY <1>3 DEF received
<1>6. _fs.input.end <= SIZE
  BY <1>1 DEF Whole
<1>. QED
  BY <1>2, <1>3, <1>4, <1>5, <1>6

\* A write at the end of the input file extends the tail.
LEMMA WriteExtends ==
  ASSUME FSInv, InInput, InInput', NEW bytes \in Seq(Byte), Len(bytes) > 0,
         \A i \in 1..Len(bytes) : bytes[i] # 0,
         _fs.input.end + Len(bytes) <= SIZE,
         fram' = Put(fram, _fs.input.end, bytes),
         _fs' = [_fs EXCEPT !.input.end = @ + Len(bytes)]
  PROVE  committed' = committed /\ received' = received \o bytes
<1>1. PICK e, n, m \in Nat :
           /\ e = _fs.input.end /\ e = INPUT + n + m /\ e <= SIZE
           /\ recorded.end = INPUT + n
           /\ committed = Get(fram, INPUT, n) /\ received = Get(fram, INPUT + n, m)
  BY LogIs
<1>2. fram' \in Memory /\ Extents(fram') = Extents(fram) /\ fram \in Memory
  BY Zenon, WriteStep DEF FSInv, FSType
<1>. DEFINE l == Len(bytes)
<1>3. /\ l \in Nat /\ INPUT \in Nat /\ INPUT + n \in Nat /\ e + l <= SIZE
      /\ INPUT + n <= SIZE /\ INPUT + n + m <= SIZE /\ INPUT + n + m + l <= SIZE
  BY <1>1, Sizes, SMTT(30)
<1>4. ASSUME NEW k \in Nat, k < e PROVE fram'[k] = fram[k]
  <2>1. k < SIZE
    BY <1>1, <1>4, Sizes, SMTT(30)
  <2>. QED
    BY <1>1, <1>2, <1>4, <2>1, PutOut
<1>5. Get(fram', INPUT, n) = Get(fram, INPUT, n)
  <2>1. \A k \in Nat : INPUT <= k /\ k < INPUT + n => fram'[k] = fram[k]
    BY <1>1, <1>3, <1>4
  <2>. QED
    BY ZenonT(60), <1>2, <1>3, <2>1, GetSame
<1>8. Get(fram', INPUT + n, m + l) = Joined(Get(fram, INPUT + n, m), bytes)
  <2>1. /\ INPUT + n \in Nat /\ m \in Nat /\ e \in Nat /\ e = (INPUT + n) + m
        /\ e + Len(bytes) <= SIZE /\ fram' = Put(fram, e, bytes)
    BY <1>1, <1>3
  <2>. QED
    BY <1>2, <2>1, GetWritten
<1>9. recorded' = recorded /\ recorded.start = INPUT
  BY <1>2 DEF recorded, FSInv, InputOK, Whole
<1>10. committed' = Get(fram', INPUT, n)
  <2>1. recorded.end - recorded.start = n
    BY <1>1, <1>3, <1>9
  <2>. QED
    BY <1>9, <2>1 DEF committed, Content
<1>11. received' = Get(fram', INPUT + n, m + l)
  <2>1. _fs'.input.end = e + l
    BY <1>1 DEF FSInv, FSType
  <2>2. _fs'.input.end - recorded'.end = m + l
    BY <1>1, <1>3, <1>9, <2>1
  <2>. QED
    BY <1>1, <1>9, <2>2 DEF received
<1>. QED
  BY Zenon, <1>1, <1>5, <1>8, <1>10, <1>11 DEF Joined

\* A formatted board starts with an empty log.
LEMMA LogInit == Init => Log!Init
<1>. SUFFICES ASSUME Init PROVE Log!Init
  OBVIOUS
<1>. DEFINE empty == [k \in 0..SIZE - 1 |-> 0]
<1>1. empty \in Memory
  BY ByteIs DEF Memory
<1>. HIDE DEF empty
<1>2. fram = Put(empty, 0, metadata) /\ pc = "off" /\ fram \in Memory
  BY FSInit DEF Init, empty, FSInv, FSType
<1>3. recorded = [start |-> INPUT, end |-> INPUT]
  BY <1>1, <1>2, MetadataIs DEF recorded
<1>4. committed = <<>>
  <2>1. INPUT \in Nat /\ INPUT <= SIZE /\ INPUT - INPUT = 0
    BY Sizes
  <2>2. committed = Get(fram, INPUT, 0)
    BY <1>3, <2>1 DEF committed, Content
  <2>. QED
    BY <1>2, <2>1, <2>2, GetNone
<1>. QED
  BY <1>2, <1>4 DEF Log!Init, received, atHand, InInput

\* Every step of the code is a step of the log, or none.
LEMMA LogStep ==
  ASSUME CarefulUse, FSInv, FSInv', [Next]_vars
  PROVE  [Log!Next]_Log!vars
<1>0. /\ fram \in Memory /\ fram' \in Memory
      /\ _fs \in [input : Extent, output : Extent]
      /\ Extents(fram) \in [input : Extent, output : Extent]
  <2>1. fram \in Memory
    BY DEF FSInv, FSType
  <2>. QED
    BY <2>1, ExtentsType DEF FSInv, FSType, Extent
<1>. USE DEF Log!Next, Log!vars
<1>1. CASE initialize_fs \/ StartFormat \/ StartOutput \/ PrintChunk \/ EndOutput
  <2>1. UNCHANGED fram /\ ~ InInput /\ ~ InInput'
    BY <1>1, Zenon DEF initialize_fs, StartFormat, StartOutput, PrintChunk, EndOutput, InInput
  <2>. QED
    BY <2>1 DEF committed, received, atHand, recorded, InInput
<1>2. CASE PowerLoss
  <2>1. UNCHANGED fram /\ pc' = "off"
    BY <1>2 DEF PowerLoss
  <2>2. Log!Crash
    BY <2>1 DEF Log!Crash, committed, received, atHand, recorded, InInput
  <2>. QED
    BY <2>2
<1>3. CASE ZeroCell
  <2>1. recorded' = Blank /\ ~ InInput /\ ~ InInput'
    BY <1>3, ZeroStep DEF ZeroCell, InInput
  <2>2. committed' = <<>>
    <3>1. committed' = Get(fram', 0, 0)
      BY <2>1 DEF committed, Content, Blank
    <3>2. 0 \in Nat /\ 0 <= SIZE
      BY Sizes
    <3>. QED
      BY <1>0, <3>1, <3>2, GetNone
  <2>3. Log!Clear
    BY <2>1, <2>2 DEF Log!Clear, received, atHand, InInput
  <2>. QED
    BY <2>3
<1>4. CASE WriteMetadata
  <2>1. recorded' = [start |-> INPUT, end |-> INPUT] /\ ~ InInput /\ ~ InInput'
    BY <1>4, MetadataStep DEF WriteMetadata, InInput
  <2>2. committed' = <<>>
    <3>1. INPUT \in Nat /\ INPUT <= SIZE /\ INPUT - INPUT = 0
      BY Sizes
    <3>2. committed' = Get(fram', INPUT, 0)
      BY <2>1, <3>1 DEF committed, Content
    <3>. QED
      BY <1>0, <3>1, <3>2, GetNone
  <2>3. Log!Clear
    BY <2>1, <2>2 DEF Log!Clear, received, atHand, InInput
  <2>. QED
    BY <2>3
<1>5. CASE StartInput
  <2>1. UNCHANGED <<fram, _fs>> /\ pc = "idle" /\ pc' = "input" /\ Sound
    BY <1>5 DEF StartInput
  <2>2. recorded.end = _fs.input.end /\ recorded.end \in Nat /\ recorded.end <= SIZE
    <3>1. recorded.end \in Nat /\ recorded = _fs.input
      BY <1>0, <2>1 DEF recorded, Sound, Extent
    <3>2. recorded.end <= SIZE
      BY <3>1, Sizes DEF FSInv, ExtentsOK, Blank
    <3>. QED
      BY <3>1, <3>2
  <2>3. _fs.input.end - recorded.end = 0
    BY <2>2
  <2>4. received' = <<>>
    BY <1>0, <2>1, <2>2, <2>3, GetNone DEF received, recorded, InInput
  <2>. QED
    BY <2>1, <2>4 DEF committed, received, atHand, recorded, InInput
<1>6. CASE fgets
  <2>1. UNCHANGED <<fram, _fs>> /\ pc = "input" /\ pc' \in {"flag", "chunk"} /\ buffer' \in Chunks
    BY <1>6 DEF fgets
  <2>2. Log!Receive
    BY <2>1 DEF Log!Receive, committed, received, atHand, recorded, InInput
  <2>. QED
    BY <2>2
<1>7. CASE WriteFlag
  <2>1. /\ pc = "flag" /\ pc' = "chunk" /\ UNCHANGED buffer
        /\ fram' = Put(fram, _fs.input.end, <<STAR>>)
        /\ _fs' = [_fs EXCEPT !.input.end = @ + 1]
    BY <1>7 DEF WriteFlag
  <2>2. /\ InInput /\ InInput' /\ _fs.input.end = INPUT /\ buffer \in Chunks /\ buffer[1] # HASH
        /\ _fs.input.end + 1 + Len(buffer) <= LIMIT
    BY <2>1 DEF FSInv, InputOK, InInput
  <2>3. PICK e, n, m \in Nat :
           /\ e = _fs.input.end /\ e = INPUT + n + m /\ e <= SIZE
           /\ recorded.end = INPUT + n
           /\ committed = Get(fram, INPUT, n) /\ received = Get(fram, INPUT + n, m)
    BY <2>2, LogIs
  <2>4. n = 0 /\ m = 0 /\ INPUT \in Nat /\ INPUT + n = INPUT
    BY <2>2, <2>3, Sizes
  <2>5. committed = <<>> /\ received = <<>>
    BY <1>0, <2>2, <2>3, <2>4, GetNone
  <2>6. /\ <<STAR>> \in Seq(Byte) /\ Len(<<STAR>>) = 1
        /\ \A i \in 1..Len(<<STAR>>) : <<STAR>>[i] # 0
    BY ByteIs DEF STAR
  <2>7. _fs.input.end + Len(<<STAR>>) <= SIZE /\ Len(<<STAR>>) > 0
    BY <2>2, <2>6, ChunkIs, Sizes
  <2>8. _fs' = [_fs EXCEPT !.input.end = @ + Len(<<STAR>>)]
    BY <2>1, <2>6
  <2>9. committed' = committed /\ received' = received \o <<STAR>>
    BY Zenon, <2>1, <2>2, <2>6, <2>7, <2>8, WriteExtends
  <2>10. received' = <<STAR>>
    BY <2>5, <2>6, <2>9
  <2>11. atHand = buffer /\ atHand' = buffer /\ buffer # <<>>
    BY <2>1, <2>2, ChunkIs DEF atHand
  <2>12. Log!Flag
    BY <2>2, <2>5, <2>9, <2>10, <2>11 DEF Log!Flag, Log!Flagged
  <2>. QED
    BY <2>12
<1>8. CASE WriteChunk
  <2>1. /\ pc = "chunk" /\ pc' = "input" /\ UNCHANGED buffer
        /\ fram' = Put(fram, _fs.input.end, buffer)
        /\ _fs' = [_fs EXCEPT !.input.end = @ + Len(buffer)]
    BY <1>8 DEF WriteChunk
  <2>2. /\ InInput /\ InInput' /\ buffer \in Chunks /\ _fs.input.end + Len(buffer) <= LIMIT
        /\ _fs.input.end # INPUT \/ buffer[1] = HASH
    BY <2>1 DEF FSInv, InputOK, InInput
  <2>3. PICK e, n, m \in Nat :
           /\ e = _fs.input.end /\ e = INPUT + n + m /\ e <= SIZE
           /\ recorded.end = INPUT + n
           /\ committed = Get(fram, INPUT, n) /\ received = Get(fram, INPUT + n, m)
    BY <2>2, LogIs
  <2>4. _fs.input.end # INPUT => committed # <<>> \/ received # <<>>
    <3>1. INPUT \in Nat /\ INPUT + n \in Nat /\ INPUT + n <= SIZE /\ INPUT + n + m <= SIZE
      BY <2>3, Sizes
    <3>2. Len(Get(fram, INPUT, n)) = n /\ Len(Get(fram, INPUT + n, m)) = m
      BY <1>0, <3>1, GetIs
    <3>3. e # INPUT => n > 0 \/ m > 0
      BY <2>3, <3>1
    <3>. QED
      BY <2>3, <3>2, <3>3
  <2>5. /\ buffer \in Seq(Byte) /\ Len(buffer) > 0 /\ buffer # <<>>
        /\ \A i \in 1..Len(buffer) : buffer[i] # 0
    BY <2>2, ChunkIs, SMTT(30)
  <2>6. _fs.input.end + Len(buffer) <= SIZE
    BY <2>2, <2>3, <2>5, Sizes, SMTT(30)
  <2>7. committed' = committed /\ received' = received \o buffer
    BY Zenon, <2>1, <2>2, <2>5, <2>6, WriteExtends
  <2>8. atHand = buffer /\ atHand' = <<>>
    BY <2>1 DEF atHand
  <2>9. Log!Extend
    BY <2>2, <2>4, <2>5, <2>7, <2>8 DEF Log!Extend, Log!Flagged
  <2>. QED
    BY <2>9
<1>9. CASE EndOfInput
  <2>1. UNCHANGED <<fram, _fs>> /\ pc = "input" /\ pc' = "record"
    BY <1>9 DEF EndOfInput
  <2>. QED
    BY <2>1 DEF committed, received, atHand, recorded, InInput
<1>10. CASE RecordEnd
  <2>1. pc = "record" /\ pc' = "output" /\ UNCHANGED _fs
    BY <1>10, SMTT(30) DEF RecordEnd
  <2>2. /\ recorded' = _fs.input /\ InInput /\ ~ InInput' /\ _fs.input.start = INPUT
        /\ \A k \in Nat : INPUT <= k /\ k < SIZE => fram'[k] = fram[k]
    BY <1>10, <2>1, RecordStep, SMTT(30) DEF InInput, FSInv, InputOK, Whole
  <2>3. PICK e, n, m \in Nat :
           /\ e = _fs.input.end /\ e = INPUT + n + m /\ e <= SIZE
           /\ recorded.end = INPUT + n
           /\ committed = Get(fram, INPUT, n) /\ received = Get(fram, INPUT + n, m)
    BY <2>2, LogIs, Zenon
  <2>. DEFINE l == n + m
              b == INPUT + n
  <2>4. /\ INPUT \in Nat /\ l \in Nat /\ e - INPUT = l /\ INPUT + l <= SIZE
        /\ INPUT + n + m <= SIZE /\ l = n + m /\ b = INPUT + n /\ n \in Nat /\ m \in Nat
    BY <2>3, Sizes
  <2>5. committed' = Get(fram', INPUT, l)
    BY <2>2, <2>3, <2>4 DEF committed, Content
  <2>. HIDE DEF l, b
  <2>6. Get(fram', INPUT, l) = Get(fram, INPUT, l)
    <3>1. \A k \in Nat : INPUT <= k /\ k < INPUT + l => fram'[k] = fram[k]
      BY <2>2, <2>4, Sizes
    <3>. QED
      BY <1>0, <2>4, <3>1, GetSame
  <2>7. Get(fram, INPUT, l) = Joined(Get(fram, INPUT, n), Get(fram, b, m))
    BY <1>0, <2>4, GetConcat
  <2>8. committed' = committed \o received
    BY <2>3, <2>5, <2>6, <2>7 DEF Joined, b
  <2>9. received' = <<>> /\ atHand = <<>> /\ atHand' = <<>>
    BY <2>1, <2>2 DEF received, atHand
  <2>10. Log!Commit
    BY <2>8, <2>9 DEF Log!Commit
  <2>. QED
    BY <2>10
<1>11. CASE UNCHANGED vars
  BY <1>11 DEF vars, committed, received, atHand, recorded, InInput
<1>. QED
  BY <1>1, <1>2, <1>3, <1>4, <1>5, <1>6, <1>7, <1>8, <1>9, <1>10, <1>11
     DEF Next, Calls, Serial, Steps

\* DurableInput, for a FRAM, files and chunks of any size: the input file that
\* input_datastream writes and format_storage empties is a durable log, with a
\* power failure between any two writes, if nothing is input between a format
\* and a restart.
THEOREM DurableInputHolds ==
  ASSUME CarefulUse
  PROVE  Spec => DurableInput
<1>1. FSInv /\ [Next]_vars => FSInv'
  BY FSStep
<1>2. FSInv /\ FSInv' /\ [Next]_vars => [Log!Next]_Log!vars
  BY LogStep
<1>. QED
  BY FSInit, LogInit, <1>1, <1>2, PTL DEF Spec, DurableInput, Log!Spec

-----------------------------------------------------------------------------
(* What is printed                                                         *)

Text == Byte \ {0}

\* printf(buffer) puts out the whole of a buffer without a NUL.
LEMMA CStringIs ==
  ASSUME NEW s \in Seq(Text)
  PROVE  CString(s) = s
<1>. DEFINE l == Len(s)
            Ends(n) == (\A i \in 1..n : s[i] # 0) /\ (n < l => s[n + 1] = 0)
            c == CHOOSE n \in 0..l : Ends(n)
<1>1. l \in Nat /\ \A i \in 1..l : s[i] # 0
  BY DEF Text
<1>2. l \in 0..l /\ Ends(l)
  BY <1>1
<1>3. c \in 0..l /\ Ends(c)
  <2>. HIDE DEF Ends
  <2>. QED
    BY <1>2, Zenon
<1>4. CString(s) = SubSeq(s, 1, c)
  BY DEF CString
<1>. HIDE DEF c
<1>5. c = l
  BY <1>1, <1>3
<1>. QED
  BY <1>4, <1>5

\* A read of bytes other than NUL is text.
LEMMA GetText ==
  ASSUME NEW mem \in Memory, NEW a \in Nat, NEW n \in Nat, a + n <= SIZE,
         \A k \in Nat : a <= k /\ k < a + n => mem[k] # 0
  PROVE  Get(mem, a, n) \in Seq(Text)
<1>1. /\ Get(mem, a, n) \in Seq(Byte) /\ Len(Get(mem, a, n)) = n
      /\ \A k \in 1..n : Get(mem, a, n)[k] = mem[a + k - 1]
  BY GetIs
<1>2. ASSUME NEW k \in 1..n PROVE mem[a + k - 1] # 0
  <2>1. a + k - 1 \in Nat /\ a <= a + k - 1 /\ a + k - 1 < a + n
    OBVIOUS
  <2>. QED
    BY <2>1
<1>3. \A k \in 1..n : Get(mem, a, n)[k] \in Text
  BY <1>1, <1>2 DEF Text
<1>. QED
  BY <1>1, <1>3

\* How far output_datastream has come, at most to the end of the file.
Reached == IF address < _fs[file].end THEN address ELSE _fs[file].end

PrintOK ==
  /\ printed \in Seq(Text)
  /\ address <= SIZE + CHUNK
  /\ pc = "output" =>
       /\ _fs[file].start <= address /\ _fs[file].start <= _fs[file].end
       /\ file = "input" => Whole(_fs.input)
       /\ printed = Get(fram, _fs[file].start, Reached - _fs[file].start)

\* A chunk that output_datastream prints extends what is printed by what comes next in the file.
LEMMA PrintStep ==
  ASSUME FSInv, PrintOK, PrintChunk
  PROVE  PrintOK'
<1>1. /\ pc = "output" /\ address < _fs[file].end /\ address' = address + CHUNK
      /\ UNCHANGED <<fram, _fs, pc, file>> /\ fram \in Memory /\ address \in Nat
      /\ file \in {"input", "output"} /\ _fs \in [input : Extent, output : Extent]
  BY Zenon DEF PrintChunk, FSInv, FSType, Extent
<1>2. _fs[file].start \in Nat /\ _fs[file].end \in Nat
  BY <1>1 DEF Extent
<1>3. file = "input" /\ Whole(_fs.input)
  <2>1. ASSUME file = "output" PROVE FALSE
    <3>1. _fs.output.start = _fs.output.end
      BY DEF FSInv, ExtentsOK, Blank
    <3>2. _fs[file].start <= address
      BY <1>1 DEF PrintOK
    <3>. QED
      BY <1>1, <1>2, <2>1, <3>1, <3>2
  <2>2. file = "input"
    BY <1>1, <2>1
  <2>. QED
    BY <1>1, <2>2 DEF PrintOK
<1>. DEFINE e == _fs.input.end
            left == e - address
            n == IF left > CHUNK THEN CHUNK ELSE left
            text == Get(fram, address, n)
            d == address - INPUT
            l == d + n
<1>4. /\ e \in Nat /\ _fs.input.start = INPUT /\ e <= SIZE /\ INPUT <= address /\ address < e
      /\ printed = Get(fram, INPUT, d)
  <2>1. Reached = address
    BY <1>1, <1>2 DEF Reached
  <2>. QED
    BY <1>1, <1>2, <1>3, <2>1, Zenon DEF PrintOK, Whole
<1>5. /\ n \in Nat /\ address + n <= e /\ address + n <= SIZE /\ d \in Nat /\ l \in Nat
      /\ INPUT + d + n <= SIZE /\ address = INPUT + d /\ INPUT \in Nat /\ INPUT + l <= e
  BY <1>1, <1>4, Sizes
<1>6. (IF address + CHUNK < e THEN address + CHUNK ELSE e) - INPUT = l
  BY <1>1, <1>4, <1>5, Sizes
<1>. HIDE DEF e, n
<1>7. ASSUME NEW k \in Nat, INPUT <= k, k < e PROVE fram[k] # 0
  BY <1>3, <1>4, <1>7, Sizes DEF Whole, e
<1>8. text \in Seq(Text)
  <2>1. \A k \in Nat : address <= k /\ k < address + n => fram[k] # 0
    BY <1>1, <1>4, <1>5, <1>7
  <2>. QED
    BY <1>1, <1>5, <2>1, GetText
<1>9. Get(fram, INPUT, l) \in Seq(Text)
  <2>. HIDE DEF l
  <2>1. \A k \in Nat : INPUT <= k /\ k < INPUT + l => fram[k] # 0
    BY <1>4, <1>5, <1>7
  <2>2. INPUT + l <= SIZE
    BY <1>4, <1>5, Sizes
  <2>. QED
    BY <1>1, <1>5, <2>1, <2>2, GetText
<1>10. CString(text) = text
  BY <1>8, CStringIs
<1>11. ~ (address + CHUNK = INPUT)
  BY <1>1, <1>4, Sizes
<1>12. printed' = printed \o text
  <2>1. _fs[file].end = e /\ _fs[file].start = INPUT
    BY <1>3, <1>4 DEF e
  <2>2. printed' = printed \o CString(Get(fram, address, IF e - address > CHUNK THEN CHUNK ELSE e - address))
    BY <1>11, <2>1 DEF PrintChunk
  <2>. QED
    BY <1>10, <2>2 DEF n
<1>13. Get(fram, INPUT, l) = Joined(Get(fram, INPUT, d), Get(fram, address, n))
  <2>1. l = d + n
    OBVIOUS
  <2>. HIDE DEF l, d
  <2>. QED
    BY <1>1, <1>5, <2>1, GetConcat
<1>14. printed' = Get(fram, INPUT, l)
  BY <1>4, <1>12, <1>13 DEF Joined
<1>. HIDE DEF l
<1>15. (printed = Get(fram, _fs[file].start, Reached - _fs[file].start))'
  BY <1>1, <1>3, <1>4, <1>6, <1>14 DEF Reached, e
<1>16. address' <= SIZE + CHUNK
  BY <1>1, <1>4, Sizes
<1>17. (_fs[file].start <= address /\ _fs[file].start <= _fs[file].end)'
  BY <1>1, <1>2, Sizes DEF PrintOK
<1>18. Whole(_fs.input)'
  BY <1>1, <1>3 DEF Whole
<1>. QED
  BY <1>9, <1>14, <1>15, <1>16, <1>17, <1>18, Zenon DEF PrintOK

\* FSInv and PrintOK together.
PrintInv == FSInv /\ PrintOK

\* The invariant of output_datastream holds at first.
LEMMA PrintInit == Init => PrintInv
<1>. SUFFICES ASSUME Init PROVE PrintInv
  OBVIOUS
<1>1. printed \in Seq(Text) /\ address <= SIZE + CHUNK /\ pc # "output"
  BY Sizes DEF Init
<1>. QED
  BY <1>1, FSInit DEF PrintInv, PrintOK

\* Every step keeps the invariant of output_datastream.
LEMMA PrintInvStep ==
  ASSUME CarefulUse, PrintInv, [Next]_vars
  PROVE  PrintInv'
<1>0. FSInv /\ PrintOK /\ FSInv'
  BY FSStep DEF PrintInv
<1>1. SUFFICES PrintOK'
  BY <1>0 DEF PrintInv
<1>2. /\ fram' \in Memory /\ SIZE \in Nat /\ CHUNK \in Nat
      /\ _fs \in [input : Extent, output : Extent]
  BY <1>0, Sizes DEF FSInv, FSType, Extent
<1>3. CASE initialize_fs \/ WriteMetadata \/ StartInput \/ fgets \/ WriteFlag
           \/ WriteChunk \/ EndOfInput \/ EndOutput
  <2>1. UNCHANGED <<address, printed>> /\ pc' # "output"
    BY <1>3 DEF initialize_fs, WriteMetadata, StartInput, fgets, WriteFlag,
                WriteChunk, EndOfInput, EndOutput
  <2>. QED
    BY <1>0, <2>1 DEF PrintOK
<1>4. CASE PowerLoss
  <2>1. address' = 0 /\ printed' = <<>> /\ pc' # "output"
    BY <1>4 DEF PowerLoss
  <2>. QED
    BY <1>2, <2>1 DEF PrintOK
<1>5. CASE StartFormat
  <2>1. address' = 0 /\ UNCHANGED printed /\ pc' # "output"
    BY <1>5 DEF StartFormat
  <2>. QED
    BY <1>0, <1>2, <2>1 DEF PrintOK
<1>6. CASE ZeroCell
  <2>1. UNCHANGED printed /\ pc' # "output" /\ address' = address + 4
    BY <1>6 DEF ZeroCell
  <2>2. address' <= SIZE + CHUNK
    <3>1. address \in Nat /\ address % 4 = 0 /\ address < FORMATTED
      BY <1>0, <1>6 DEF FSInv, FSType, FormatOK, ZeroCell
    <3>2. FORMATTED % 4 = 0 /\ FORMATTED \in Nat
      BY LayoutAssumption
    <3>3. address + 4 <= FORMATTED
      BY <3>1, <3>2
    <3>. QED
      BY <1>2, <2>1, <3>1, <3>3, Sizes
  <2>. QED
    BY <1>0, <2>1, <2>2, Zenon DEF PrintOK
<1>7. CASE RecordEnd
  <2>1. /\ printed' = <<>> /\ file' = "input" /\ address' = _fs.input.start /\ UNCHANGED _fs
        /\ Whole(_fs.input)'
    BY <1>0, <1>7, RecordStep DEF RecordEnd
  <2>2. _fs.input.start = INPUT /\ INPUT <= _fs.input.end /\ _fs.input.end \in Nat
    BY <1>2, <2>1 DEF Whole, Extent
  <2>3. (Reached - _fs[file].start)' = 0
    BY <2>1, <2>2, Sizes DEF Reached
  <2>4. Get(fram', INPUT, 0) = <<>>
    BY <1>2, GetNone, Sizes
  <2>5. INPUT <= SIZE + CHUNK /\ INPUT <= INPUT /\ printed' \in Seq(Text)
    BY <2>1, Sizes
  <2>. QED
    BY <2>1, <2>2, <2>3, <2>4, <2>5 DEF PrintOK
<1>8. CASE StartOutput
  <2>1. printed' = <<>> /\ file' = "output" /\ address' = _fs.output.start /\ UNCHANGED _fs
    BY <1>8 DEF StartOutput
  <2>2. _fs.output.start = _fs.output.end /\ _fs.output.end \in Nat /\ _fs.output.end <= SIZE
    BY <1>0, Sizes DEF FSInv, ExtentsOK, Blank
  <2>3. (Reached - _fs[file].start)' = 0
    BY <2>1, <2>2 DEF Reached
  <2>4. Get(fram', _fs.output.start, 0) = <<>>
    BY <1>2, <2>2, GetNone
  <2>5. /\ _fs.output.start <= SIZE + CHUNK /\ _fs.output.start <= _fs.output.start
        /\ printed' \in Seq(Text)
    BY <2>1, <2>2, Sizes
  <2>. QED
    BY <2>1, <2>2, <2>3, <2>4, <2>5 DEF PrintOK
<1>9. CASE PrintChunk
  BY <1>0, <1>9, PrintStep, SMTT(30)
<1>10. CASE UNCHANGED vars
  BY <1>0, <1>10 DEF vars, PrintOK, Reached, Whole
<1>. QED
  BY <1>3, <1>4, <1>5, <1>6, <1>7, <1>8, <1>9, <1>10
     DEF Next, Calls, Serial, Steps

\* TypeOK, for a FRAM, files and chunks of any size: the extents that
\* initialize_fs reads and input_datastream moves stay within the FRAM.
THEOREM TypeCorrect ==
  ASSUME CarefulUse
  PROVE  Spec => []TypeOK
<1>1. PrintInv /\ [Next]_vars => PrintInv'
  BY PrintInvStep
<1>2. PrintInv => TypeOK
  <2>. SUFFICES ASSUME PrintInv PROVE TypeOK
    OBVIOUS
  <2>1. /\ 0 <= _fs.input.start /\ _fs.input.start <= _fs.input.end /\ _fs.input.end <= SIZE
    BY Sizes DEF PrintInv, FSInv, FSType, ExtentsOK, Blank
  <2>2. /\ 0 <= _fs.output.start /\ _fs.output.start <= _fs.output.end /\ _fs.output.end <= SIZE
    BY Sizes DEF PrintInv, FSInv, FSType, ExtentsOK, Blank
  <2>3. address \in 0..SIZE + CHUNK
    BY Sizes DEF PrintInv, PrintOK, FSInv, FSType
  <2>. QED
    BY <2>1, <2>2, <2>3 DEF TypeOK, PrintInv, PrintOK, FSInv, FSType, Memory, Text
<1>. QED
  BY PrintInit, <1>1, <1>2, PTL DEF Spec

\* What output_datastream has printed when it is done.
LEMMA AllPrinted ==
  ASSUME PrintInv, pc = "output", address >= _fs[file].end
  PROVE  printed = Content(fram, _fs[file])
<1>1. address \in Nat /\ _fs[file].end \in Nat
  BY DEF PrintInv, FSInv, FSType
<1>2. Reached = _fs[file].end
  BY <1>1 DEF Reached
<1>. QED
  BY <1>2 DEF PrintInv, PrintOK, Content

\* PrintedIsFile, for a FRAM, files and chunks of any size: output_datastream
\* prints the whole text, although it reads CHUNK bytes at a time, as C strings.
THEOREM PrintedIsFileHolds ==
  ASSUME CarefulUse
  PROVE  Spec => []PrintedIsFile
<1>1. PrintInv /\ [Next]_vars => PrintInv'
  BY PrintInvStep
<1>2. PrintInv => PrintedIsFile
  BY AllPrinted, Zenon DEF PrintedIsFile
<1>. QED
  BY PrintInit, <1>1, <1>2, PTL DEF Spec

\* The raw text flag is never removed, against the comment "remove raw_text flag" of
\* output_datastream: what is printed of a flagged file begins with the flag, since
\* address has moved on when it is compared with the start of the file.
THEOREM FlagIsPrinted ==
  ASSUME CarefulUse
  PROVE  Spec => [](pc = "output" /\ address >= _fs[file].end =>
                      printed = Content(fram, _fs[file]))
<1>1. PrintInv /\ [Next]_vars => PrintInv'
  BY PrintInvStep
<1>2. PrintInv => (pc = "output" /\ address >= _fs[file].end =>
                     printed = Content(fram, _fs[file]))
  BY AllPrinted, Zenon
<1>. QED
  BY PrintInit, <1>1, <1>2, PTL DEF Spec
==============================================================================
