----------------------------- MODULE HuffmanTree -----------------------------
(***************************************************************************)
(* The first half of huffman_compress (main/huffman.c): build_queue counts *)
(* the bytes of a block into a linked queue of leaves, build_tree then     *)
(* merges the first two nodes of the queue until one node, the root, is    *)
(* left.  One action is one iteration of a loop of the code.               *)
(*                                                                         *)
(* A node_t is a record and a node pointer is its index in tree_memory, 0  *)
(* for NULL.  tree_ptr and allocated_tree_size are Len(tree_memory).  The  *)
(* linked list of queue_t cells is the sequence of the nodes it holds; the *)
(* cells are never reused, so the cells taken are counted on their own.    *)
(***************************************************************************)
EXTENDS Integers, Sequences, FiniteSets

CONSTANTS Alphabet,   \* the byte values that a block may contain
          Blocks,     \* the blocks that huffman_compress may be called with
          WORD        \* a uint16_t weight is counted modulo WORD (2^16)

\* A byte 0 marks an internal node, so it is no letter.
ASSUME AlphabetAssumption == IsFiniteSet(Alphabet) /\ Alphabet \subseteq Nat \ {0}

ASSUME WordAssumption == WORD \in Nat \ {0}

\* data_size is a uint16_t.
ASSUME BlocksAssumption ==
  Blocks \subseteq Seq(Alphabet) \ {<<>>} /\ \A d \in Blocks : Len(d) < WORD

VARIABLES data,                  \* the block
          i,                     \* bytes of it that build_queue has counted
          tree_memory,           \* the nodes allocated so far
          queue,                 \* the nodes in the queue, head first
          allocated_queue_size   \* queue cells taken so far

treeVars == <<data, i, tree_memory, queue, allocated_queue_size>>

NULL == 0

ALPHABET_SIZE == Cardinality(Alphabet)

\* Mutation: one node too few.
TREE_MAX_SIZE_short == ALPHABET_SIZE * 2 - 2

TREE_MAX_SIZE == ALPHABET_SIZE * 2 - 1
QUEUE_MAX_SIZE == ALPHABET_SIZE

Node == [left : Nat, right : Nat, weight : 0..WORD - 1, byte : Alphabet \cup {0}]

Nodes == 1..Len(tree_memory)

\* Mutation: tree_alloc is called with weight 0.
leaf_weightless(b) == [left |-> NULL, right |-> NULL, weight |-> 0, byte |-> b]

leaf(b) == [left |-> NULL, right |-> NULL, weight |-> 1 % WORD, byte |-> b]

internal(mem, a, b) ==
  [left |-> a, right |-> b,
   weight |-> (mem[a].weight + mem[b].weight) % WORD, byte |-> 0]

\* The list with node el linked in before the first node heavier than it.
queue_add_element(mem, q, el) ==
  LET heavier == {k \in DOMAIN q : mem[q[k]].weight > mem[el].weight}
      p == CHOOSE k \in heavier \cup {Len(q) + 1} : \A j \in heavier : k <= j
  IN  SubSeq(q, 1, p - 1) \o <<el>> \o SubSeq(q, p, Len(q))

Init ==
  /\ data \in Blocks
  /\ i = 0
  /\ tree_memory = <<>>
  /\ queue = <<>>
  /\ allocated_queue_size = 0

\* Mutation: the leaf is queued anew, in a fresh cell.
CountSeen_requeued ==
  /\ i < Len(data)
  /\ \E k \in DOMAIN queue :
       /\ tree_memory[queue[k]].byte = data[i + 1]
       /\ tree_memory' =
            [tree_memory EXCEPT ![queue[k]].weight = (@ + 1) % WORD]
  /\ i' = i + 1
  /\ allocated_queue_size' = allocated_queue_size + 1
  /\ UNCHANGED <<data, queue>>

CountSeen ==
  /\ i < Len(data)
  /\ \E k \in DOMAIN queue :
       /\ tree_memory[queue[k]].byte = data[i + 1]
       /\ tree_memory' =
            [tree_memory EXCEPT ![queue[k]].weight = (@ + 1) % WORD]
  /\ i' = i + 1
  /\ UNCHANGED <<data, queue, allocated_queue_size>>

\* Mutation: the search of build_queue starts behind the head.
CountNew_skipping_head ==
  /\ i < Len(data)
  /\ \A k \in DOMAIN queue \ {1} : tree_memory[queue[k]].byte # data[i + 1]
  /\ tree_memory' = Append(tree_memory, leaf(data[i + 1]))
  /\ queue' = queue_add_element(tree_memory', queue, Len(tree_memory) + 1)
  /\ allocated_queue_size' = allocated_queue_size + 1
  /\ i' = i + 1
  /\ UNCHANGED data

CountNew ==
  /\ i < Len(data)
  /\ \A k \in DOMAIN queue : tree_memory[queue[k]].byte # data[i + 1]
  /\ tree_memory' = Append(tree_memory, leaf(data[i + 1]))
  /\ queue' = queue_add_element(tree_memory', queue, Len(tree_memory) + 1)
  /\ allocated_queue_size' = allocated_queue_size + 1
  /\ i' = i + 1
  /\ UNCHANGED data

\* Mutation: queue_pop2 takes only the head off the list.
Merge_popping_one ==
  /\ i = Len(data)
  /\ Len(queue) >= 2
  /\ tree_memory' =
       Append(tree_memory, internal(tree_memory, queue[1], queue[2]))
  /\ queue' = queue_add_element(tree_memory', Tail(queue), Len(tree_memory) + 1)
  /\ allocated_queue_size' = allocated_queue_size + 1
  /\ UNCHANGED <<data, i>>

\* Mutation: the loop of build_tree tests queue_size(head) > 2.
Merge_stopping_early ==
  /\ i = Len(data)
  /\ Len(queue) > 2
  /\ tree_memory' =
       Append(tree_memory, internal(tree_memory, queue[1], queue[2]))
  /\ queue' = queue_add_element(tree_memory', SubSeq(queue, 3, Len(queue)),
                                Len(tree_memory) + 1)
  /\ allocated_queue_size' = allocated_queue_size + 1
  /\ UNCHANGED <<data, i>>

Merge ==
  /\ i = Len(data)
  /\ Len(queue) >= 2
  /\ tree_memory' =
       Append(tree_memory, internal(tree_memory, queue[1], queue[2]))
  /\ queue' = queue_add_element(tree_memory', SubSeq(queue, 3, Len(queue)),
                                Len(tree_memory) + 1)
  /\ allocated_queue_size' = allocated_queue_size + 1
  /\ UNCHANGED <<data, i>>

Next == CountSeen \/ CountNew \/ Merge

\* The code is sequential: it goes on as long as it has a step to take.
Spec == Init /\ [][Next]_treeVars /\ WF_treeVars(Next)

-----------------------------------------------------------------------------

TreeBuilt == i = Len(data) /\ Len(queue) = 1
root == queue[1]

IsLeaf(n) == tree_memory[n].byte # 0
Leaves == {n \in Nodes : IsLeaf(n)}
Queued(n) == \E k \in DOMAIN queue : queue[k] = n
Parent(m, n) == n = tree_memory[m].left \/ n = tree_memory[m].right

\* Every variable has its type: the queue and the children point into
\* tree_memory, and the block is one the compressor may be called with.
TypeOK ==
  /\ data \in Seq(Alphabet) \ {<<>>}
  /\ i \in 0..Len(data)
  /\ tree_memory \in Seq(Node)
  /\ queue \in Seq(Nodes)
  /\ allocated_queue_size \in Nat

\* The queue and the child pointers form a forest: a leaf has no child and an
\* internal node two different older ones, so that the recursive walks of the
\* tree end; and each node hangs in the queue once or below one parent, never
\* both, so that no node is lost or shared while build_tree relinks them.
Forest ==
  /\ \A j, k \in DOMAIN queue : queue[j] = queue[k] => j = k
  /\ \A n \in Nodes :
       LET t == tree_memory[n]
       IN  IF IsLeaf(n) THEN t.left = NULL /\ t.right = NULL
           ELSE t.left \in 1..n-1 /\ t.right \in 1..n-1 /\ t.left # t.right
  /\ \A n \in Nodes : Queued(n) <=> ~ \E m \in Nodes : Parent(m, n)
  /\ \A m1, m2, n \in Nodes : Parent(m1, n) /\ Parent(m2, n) => m1 = m2

\* tree_alloc never runs past the TREE_MAX_SIZE nodes that huffman_compress
\* reserves on its stack, whatever block of the alphabet it is given.
TreeMemoryBound == Len(tree_memory) <= TREE_MAX_SIZE

\* How the nodes and the queue cells add up: every node took one cell, each
\* merge shortens the queue by as much as it lengthens tree_memory, a byte of
\* the alphabet has at most one leaf, and until the last byte is counted every
\* node is still in the queue, so that the search of build_queue finds it.
NodeAccounting ==
  /\ allocated_queue_size = Len(tree_memory)
  /\ Len(tree_memory) + Len(queue) = 2 * Cardinality(Leaves)
  /\ \A n \in Leaves : tree_memory[n].byte \in Alphabet
  /\ \A m, n \in Leaves : tree_memory[m].byte = tree_memory[n].byte => m = n
  /\ i < Len(data) => \A n \in Nodes : Queued(n) /\ IsLeaf(n)
  /\ IF i = 0 THEN tree_memory = <<>> ELSE queue # <<>>

\* Each byte counted so far has exactly one leaf, weighing as often as the byte
\* occurred, and a merged node weighs what its two children weigh: the root
\* therefore weighs the whole block.
WeightsCount ==
  /\ \A n \in Nodes :
       tree_memory[n].weight =
         IF IsLeaf(n)
         THEN Cardinality({j \in 1..i : data[j] = tree_memory[n].byte})
         ELSE tree_memory[tree_memory[n].left].weight
                + tree_memory[tree_memory[n].right].weight
  /\ {data[j] : j \in 1..i} = {tree_memory[n].byte : n \in Leaves}
  /\ TreeBuilt => tree_memory[root].weight = Len(data)

\* "queue_memory[QUEUE_MAX_SIZE]": queue_alloc, which never reuses a cell, stays
\* within those that huffman_compress reserves, as long as the block uses no more
\* than half of the alphabet.
QueueMemoryBound ==
  2 * Cardinality(Leaves) <= ALPHABET_SIZE + 1 => allocated_queue_size <= QUEUE_MAX_SIZE
==============================================================================
