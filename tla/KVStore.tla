------------------------------- MODULE KVStore -------------------------------
(***************************************************************************)
(* The bucket chains of the hash table (cache/kv_store/store.h, node.h):   *)
(* the pointer operations that the hash map runs under its locks.  A node  *)
(* is named by its key, since a key has at most one node; a chain that a   *)
(* wrong pointer ties into a loop is cut at the number of keys.            *)
(***************************************************************************)
EXTENDS Integers, FiniteSets, SequencesExt

CONSTANTS Keys, Values,
          NoNode,   \* nullptr
          NoValue,  \* no entry
          DefaultValue,  \* the value-initialized value of get_or_add
          Hash      \* external: std::hash, key -> hash

ASSUME KVStoreAssumption ==
    /\ IsFiniteSet(Keys)
    /\ NoNode \notin Keys
    /\ NoValue \notin Values
    /\ DefaultValue \in Values
    /\ Hash \in [Keys -> Nat]

Node == Keys \cup {NoNode}

Buckets(s) == 0 .. s.capacity - 1
IsStore(s) ==
    /\ s.capacity \in Nat \ {0}
    /\ s.heads \in [Buckets(s) -> Node] /\ s.tails \in [Buckets(s) -> Node]
    /\ s.lengths \in [Buckets(s) -> Nat]
    /\ s.next \in [Keys -> Node] /\ s.value \in [Keys -> Values \cup {NoValue}]

IsPowerOfTwo(n) == \E i \in 0 .. n : n = 2 ^ i

compute_bucket_index(s, k) == Hash[k] % s.capacity

\* The nodes met from a pointer on, at most so many of them.
Walk(s) ==
    LET from[fuel \in 0 .. Cardinality(Keys)] ==
            [n \in Node |-> IF n = NoNode \/ fuel = 0 THEN <<>>
                            ELSE <<n>> \o from[fuel - 1][s.next[n]]]
    IN  from

\* The nodes from the head of a bucket, in chain order.
Chain(s, b) == Walk(s)[Cardinality(Keys)][s.heads[b]]

Bucket(s, k) == Chain(s, compute_bucket_index(s, k))

find_in_bucket(s, k) == Contains(Bucket(s, k), k)

Contents(s) == [k \in Keys |-> IF find_in_bucket(s, k) THEN s.value[k] ELSE NoValue]
NumNodes(s) == Cardinality({k \in Keys : find_in_bucket(s, k)})

Position(c, k) == CHOOSE i \in DOMAIN c : c[i] = k

\* An unlink that leaves the tail of the bucket as it is.
unlink_keeping_tail(s, k) ==
    LET c == Bucket(s, k)
        b == compute_bucket_index(s, k)
        i == Position(c, k)
    IN  IF i = 1 THEN [s EXCEPT !.heads[b] = s.next[k], !.lengths[b] = @ - 1]
                 ELSE [s EXCEPT !.next[c[i - 1]] = s.next[k], !.lengths[b] = @ - 1]

unlink_from_bucket_chain(s, k) ==
    LET c == Bucket(s, k)
        b == compute_bucket_index(s, k)
        i == Position(c, k)
        prev == IF i = 1 THEN NoNode ELSE c[i - 1]
        relinked == IF prev = NoNode THEN [s EXCEPT !.heads[b] = s.next[k]]
                                     ELSE [s EXCEPT !.next[prev] = s.next[k]]
    IN  [relinked EXCEPT !.tails[b] = IF s.next[k] = NoNode THEN prev ELSE @,
                         !.lengths[b] = @ - 1]

\* An insertion that counts the node only when the bucket has others.
insert_miscounted(s, k) ==
    LET b == compute_bucket_index(s, k)
        cleared == [s EXCEPT !.next[k] = NoNode]
        linked == IF s.heads[b] = NoNode THEN [cleared EXCEPT !.heads[b] = k]
                                         ELSE [cleared EXCEPT !.next[s.tails[b]] = k, !.lengths[b] = @ + 1]
    IN  [linked EXCEPT !.tails[b] = k]

\* Appends a node whose next pointer is null.
insert_into_bucket(s, k) ==
    LET b == compute_bucket_index(s, k)
        cleared == [s EXCEPT !.next[k] = NoNode]
        linked == IF s.heads[b] = NoNode THEN [cleared EXCEPT !.heads[b] = k]
                                         ELSE [cleared EXCEPT !.next[s.tails[b]] = k]
    IN  [linked EXCEPT !.tails[b] = k, !.lengths[b] = @ + 1]

insert_node(s, k, v) == [insert_into_bucket(s, k) EXCEPT !.value[k] = v]

\* An empty table of n buckets; the nodes keep their pointers and values.
reset_to_capacity(s, n) ==
    [capacity |-> n,
     heads |-> [b \in 0 .. n - 1 |-> NoNode],
     tails |-> [b \in 0 .. n - 1 |-> NoNode],
     lengths |-> [b \in 0 .. n - 1 |-> 0],
     next |-> s.next, value |-> s.value]

EmptyStore(n) ==
    reset_to_capacity([next |-> [k \in Keys |-> NoNode], value |-> [k \in Keys |-> NoValue]], n)

\* The nodes of the first so many buckets, bucket by bucket.
Nodes(s) ==
    LET collected[i \in 0 .. s.capacity] ==
            IF i = 0 THEN <<>> ELSE collected[i - 1] \o Chain(s, i - 1)
    IN  collected

\* A table after the first so many nodes of a list have been inserted.
Inserted(s, nodes) ==
    LET inserted[i \in 0 .. Len(nodes)] ==
            IF i = 0 THEN s ELSE insert_into_bucket(inserted[i - 1], nodes[i])
    IN  inserted

\* A resize that walks the buckets only up to the last but one.
resize_short(s, n) ==
    LET nodes == Nodes(s)[s.capacity - 1]
    IN  Inserted(reset_to_capacity(s, n), nodes)[Len(nodes)]

\* All nodes, bucket by bucket, are inserted anew.
resize(s, n) ==
    LET nodes == Nodes(s)[s.capacity]
    IN  Inserted(reset_to_capacity(s, n), nodes)[Len(nodes)]

-----------------------------------------------------------------------------
(* Every bucket's pointers describe one chain: its nodes hash to it, are all  *)
(* different and as many as its length, and its tail is the last of them.     *)
WellFormed(s) ==
    \A b \in Buckets(s) :
        LET c == Chain(s, b)
        IN  /\ IsInjective(c)
            /\ Len(c) = s.lengths[b]
            /\ \A i \in DOMAIN c : compute_bucket_index(s, c[i]) = b
            /\ s.tails[b] = IF c = <<>> THEN NoNode ELSE Last(c)
            /\ c # <<>> => s.next[Last(c)] = NoNode

=============================================================================
