---------------------------- MODULE HashMapProofs ----------------------------
(***************************************************************************)
(* Theorems about KVStore and HashMap for any threads, keys, values, hash  *)
(* function, slices, capacity and number of operations, proved with TLAPS: *)
(* first what the pointer operations do to the chains of a table, then the *)
(* locks, and that the whole is an atomic map.                             *)
(***************************************************************************)
EXTENDS HashMap, FiniteSetTheorems, SequenceTheorems, TLAPS


-----------------------------------------------------------------------------
(* Induction and recursion, stated with sets of numbers                       *)

\* A set with zero that is closed under the successor has every number.
LEMMA EveryNumber ==
    ASSUME NEW S, 0 \in S, \A n \in Nat : n \in S => n + 1 \in S
    PROVE  \A n \in Nat : n \in S
<1> SUFFICES ASSUME NEW n \in Nat, n \notin S PROVE FALSE
  OBVIOUS
<1> DEFINE Missing == {m \in 0 .. n : m \notin S}
           Less == OpToRel(<, Nat)
<1>1. Missing \subseteq Nat /\ Missing # {}
  OBVIOUS
<1>2. PICK m \in Missing : \A k \in Missing : <<k, m>> \notin Less
  BY <1>1, NatLessThanWellFounded, WFMin
<1>3. m # 0 /\ m - 1 \in Nat /\ m - 1 \in 0 .. n
  OBVIOUS
<1>4. m - 1 \notin S
  BY <1>3
<1>5. <<m - 1, m>> \in Less
  BY <1>3 DEF OpToRel
<1> QED
  BY <1>2, <1>3, <1>4, <1>5

Iterates(f, n, S, base, step) ==
    /\ f \in [0 .. n -> S]
    /\ f[0] = base
    /\ \A i \in 1 .. n : f[i] = step[i][f[i - 1]]

\* A value and a step determine a function on 0 .. n.
LEMMA RecursionExists ==
    ASSUME NEW n \in Nat, NEW S, NEW base \in S, NEW step \in [1 .. n -> [S -> S]]
    PROVE  \E f : Iterates(f, n, S, base, step)
<1> DEFINE Upto(m) == {f \in [0 .. m -> S] :
                          f[0] = base /\ \A i \in 1 .. m : f[i] = step[i][f[i - 1]]}
           Defined == {m \in Nat : m <= n => Upto(m) # {}}
<1>1. 0 \in Defined
  <2>1. [i \in 0 .. 0 |-> base] \in Upto(0)
    OBVIOUS
  <2> QED
    BY <2>1
<1>2. ASSUME NEW m \in Nat, m \in Defined
      PROVE  m + 1 \in Defined
  <2> SUFFICES ASSUME m + 1 <= n PROVE Upto(m + 1) # {}
    OBVIOUS
  <2>1. PICK f \in Upto(m) : TRUE
    BY <1>2
  <2>2. step[m + 1] \in [S -> S] /\ f[m] \in S
    BY <2>1
  <2> DEFINE g == [i \in 0 .. m + 1 |-> IF i = m + 1 THEN step[m + 1][f[m]] ELSE f[i]]
  <2>3. g \in [0 .. m + 1 -> S]
    BY <2>1, <2>2
  <2>4. g[0] = base
    BY <2>1
  <2>5. ASSUME NEW i \in 1 .. m + 1 PROVE g[i] = step[i][g[i - 1]]
    BY <2>1
  <2>6. g \in Upto(m + 1)
    BY <2>3, <2>4, <2>5
  <2> QED
    BY <2>6
<1>3. n \in Defined
  <2> HIDE DEF Defined
  <2> QED
    BY <1>1, <1>2, EveryNumber
<1> QED
  BY <1>3 DEF Iterates

-----------------------------------------------------------------------------
(* Walking the chains                                                         *)

\* The walk from a pointer gives its node and goes on from the next one.
LEMMA WalkStep ==
    ASSUME NEW s, s.next \in [Keys -> Node]
    PROVE  /\ Cardinality(Keys) \in Nat
           /\ \A fuel \in 0 .. Cardinality(Keys), n \in Node :
                 Walk(s)[fuel][n] = IF n = NoNode \/ fuel = 0 THEN <<>>
                                    ELSE <<n>> \o Walk(s)[fuel - 1][s.next[n]]
<1> DEFINE N == Cardinality(Keys)
           S == [Node -> Seq(Keys)]
           base == [n \in Node |-> <<>>]
           next(w) == [n \in Node |-> IF n = NoNode THEN <<>> ELSE <<n>> \o w[s.next[n]]]
           step == [fuel \in 1 .. N |-> [w \in S |-> next(w)]]
           Eq(f) == [fuel \in 0 .. N |->
                        [n \in Node |-> IF n = NoNode \/ fuel = 0 THEN <<>>
                                        ELSE <<n>> \o f[fuel - 1][s.next[n]]]]
<1>1. N \in Nat
  BY KVStoreAssumption, FS_CardinalityType
<1>2. base \in S
  OBVIOUS
<1>3. ASSUME NEW w \in S PROVE next(w) \in S
  BY DEF Node
<1>4. step \in [1 .. N -> [S -> S]]
  BY <1>3
<1> HIDE DEF N
<1>5. PICK f : Iterates(f, N, S, base, step)
  <2> HIDE DEF S, base, step
  <2> QED
    BY <1>1, <1>2, <1>4, RecursionExists
<1>6. f = Eq(f)
  <2>1. ASSUME NEW i \in 0 .. N PROVE f[i] = Eq(f)[i]
    <3>1. CASE i = 0
      BY <1>5, <3>1 DEF Iterates
    <3>2. CASE i # 0
      <4>1. f[i - 1] \in S /\ i \in 1 .. N
        BY <1>1, <1>5, <3>2 DEF Iterates
      <4>2. f[i] = next(f[i - 1])
        BY <1>5, <4>1 DEF Iterates
      <4> QED
        BY <4>2, <3>2
    <3> QED
      BY <3>1, <3>2
  <2> HIDE DEF S
  <2> QED
    BY <1>5, <2>1 DEF Iterates
<1>7. Walk(s) = CHOOSE g : g = Eq(g)
  BY DEF Walk, N
<1>8. Walk(s) = Eq(Walk(s))
  <2> HIDE DEF Eq
  <2> QED
    BY <1>6, <1>7
<1> HIDE DEF S, base, step
<1>9. ASSUME NEW fuel \in 0 .. N, NEW n \in Node
      PROVE  Walk(s)[fuel][n] = IF n = NoNode \/ fuel = 0 THEN <<>>
                                ELSE <<n>> \o Walk(s)[fuel - 1][s.next[n]]
  <2> DEFINE W == Walk(s)
  <2> HIDE DEF W
  <2>1. W = Eq(W)
    BY <1>8 DEF W
  <2>2. W[fuel] = [m \in Node |-> IF m = NoNode \/ fuel = 0 THEN <<>>
                                  ELSE <<m>> \o W[fuel - 1][s.next[m]]]
    BY <2>1
  <2> QED
    BY <2>2 DEF W
<1> QED
  BY <1>1, <1>9 DEF N

\* The pointers of a bucket describe this chain of nodes.
Linked(s, b, c) ==
    /\ c \in Seq(Keys)
    /\ \A i, j \in 1 .. Len(c) : c[i] = c[j] => i = j
    /\ \A i \in 1 .. Len(c) : compute_bucket_index(s, c[i]) = b
    /\ s.heads[b] = IF Len(c) = 0 THEN NoNode ELSE c[1]
    /\ s.tails[b] = IF Len(c) = 0 THEN NoNode ELSE c[Len(c)]
    /\ s.lengths[b] = Len(c)
    /\ \A i \in 1 .. Len(c) - 1 : s.next[c[i]] = c[i + 1]
    /\ Len(c) # 0 => s.next[c[Len(c)]] = NoNode

\* Every bucket has its chain.
Tidy(s) == \A b \in Buckets(s) : Linked(s, b, Chain(s, b))

LEMMA NodeFacts == NoNode \in Node /\ Keys \subseteq Node /\ NoNode \notin Keys
BY KVStoreAssumption DEF Node

\* A bucket has no more nodes than there are keys.
LEMMA ChainFits ==
    ASSUME NEW c \in Seq(Keys), \A i, j \in 1 .. Len(c) : c[i] = c[j] => i = j
    PROVE  Len(c) \in 0 .. Cardinality(Keys)
<1>1. c \in Injection(1 .. Len(c), Keys)
  BY LenProperties DEF Injection, IsInjective
<1>2. Cardinality(1 .. Len(c)) <= Cardinality(Keys)
  BY <1>1, KVStoreAssumption, FS_Injection
<1>3. Cardinality(1 .. Len(c)) = Len(c)
  BY FS_Interval
<1>4. Cardinality(Keys) \in Nat
  BY KVStoreAssumption, FS_CardinalityType
<1> QED
  BY <1>2, <1>3, <1>4

\* The walk from the head of a bucket meets the chain that its pointers describe.
LEMMA ChainIs ==
    ASSUME NEW s, s.next \in [Keys -> Node], NEW b, NEW c, Linked(s, b, c)
    PROVE  Chain(s, b) = c
<1> DEFINE N == Cardinality(Keys)
           m == Len(c)
           at(j) == IF j = 0 THEN NoNode ELSE c[m - j + 1]
           Met == {j \in Nat : j <= m => \A fuel \in j .. N :
                       Walk(s)[fuel][at(j)] = SubSeq(c, m - j + 1, m)}
<1>1. c \in Seq(Keys) /\ m \in Nat /\ N \in Nat /\ m <= N
  BY ChainFits, WalkStep DEF Linked
<1> HIDE DEF N
<1>2. 0 \in Met
  <2>1. \A fuel \in 0 .. N : Walk(s)[fuel][NoNode] = <<>>
    BY WalkStep, NodeFacts DEF N
  <2>2. SubSeq(c, m + 1, m) = <<>>
    BY <1>1, SubSeqEmpty
  <2>3. m - 0 + 1 = m + 1
    BY <1>1
  <2> QED
    BY <2>1, <2>2, <2>3
<1>3. ASSUME NEW j \in Nat, j \in Met PROVE j + 1 \in Met
  <2>0. m - (j + 1) + 1 = m - j /\ j + 1 \in Nat
    BY <1>1
  <2> SUFFICES ASSUME j + 1 <= m, NEW fuel \in j + 1 .. N
               PROVE  Walk(s)[fuel][at(j + 1)] = SubSeq(c, m - j, m)
    <3> HIDE DEF at, m
    <3> QED
      BY <2>0
  <2>1. at(j + 1) = c[m - j] /\ c[m - j] \in Keys /\ m - j \in 1 .. m /\ m \in m - j .. m
    BY <1>1
  <2>2. s.next[c[m - j]] = at(j)
    <3>1. CASE j = 0
      BY <1>1, <3>1 DEF Linked
    <3>2. CASE j # 0
      <4>1. m - j \in 1 .. m - 1 /\ (m - j) + 1 = m - j + 1
        BY <1>1, <3>2
      <4> QED
        BY <3>2, <4>1 DEF Linked
    <3> QED
      BY <3>1, <3>2
  <2>3. fuel \in 0 .. N /\ fuel # 0 /\ fuel - 1 \in j .. N
    BY <1>1
  <2>4. Walk(s)[fuel][c[m - j]] = <<c[m - j]>> \o Walk(s)[fuel - 1][at(j)]
    <3> HIDE DEF at, m
    <3>1. c[m - j] \in Node /\ c[m - j] # NoNode
      BY <2>1, NodeFacts
    <3>2. \A i \in 0 .. N, node \in Node :
              i # 0 /\ node # NoNode =>
                  Walk(s)[i][node] = <<node>> \o Walk(s)[i - 1][s.next[node]]
      BY WalkStep DEF N
    <3> QED
      BY ONLY <2>2, <2>3, <3>1, <3>2
  <2>5. Walk(s)[fuel - 1][at(j)] = SubSeq(c, m - j + 1, m)
    <3>1. \A f \in j .. N : Walk(s)[f][at(j)] = SubSeq(c, m - j + 1, m)
      <4>1. j <= m
        BY <1>1
      <4> HIDE DEF at, m
      <4> QED
        BY <1>3, <4>1
    <3> HIDE DEF at, m
    <3> QED
      BY <2>3, <3>1
  <2>6. SubSeq(c, m - j, m) = <<c[m - j]>> \o SubSeq(c, m - j + 1, m)
    BY <1>1, <2>1, SubSeqRecursiveFirst
  <2> QED
    BY <2>1, <2>4, <2>5, <2>6
<1>4. m \in Met
  <2> HIDE DEF Met, m
  <2> QED
    BY <1>1, <1>2, <1>3, EveryNumber
<1>5. m - m + 1 = 1
  BY <1>1
<1>6. Walk(s)[N][at(m)] = SubSeq(c, 1, m)
  <2>1. \A fuel \in m .. N : Walk(s)[fuel][at(m)] = SubSeq(c, m - m + 1, m)
    <3> HIDE DEF m, at
    <3> QED
      BY <1>1, <1>4
  <2>2. N \in m .. N
    BY <1>1
  <2> HIDE DEF m, at
  <2> QED
    BY <2>1, <2>2, <1>5
<1>7. at(m) = s.heads[b]
  <2> HIDE DEF m
  <2>1. at(m) = IF m = 0 THEN NoNode ELSE c[1]
    BY <1>5
  <2> QED
    BY <2>1 DEF Linked, m
<1> QED
  BY <1>1, <1>6, <1>7, SubSeqFull DEF Chain, N

-----------------------------------------------------------------------------
(* Buckets                                                                    *)

\* Every key hashes to a bucket.
LEMMA BucketOfKey ==
    ASSUME NEW s, s.capacity \in Nat \ {0}, NEW k \in Keys
    PROVE  compute_bucket_index(s, k) \in Buckets(s)
<1>1. Hash[k] \in Nat
  BY KVStoreAssumption
<1>2. \A m \in Nat, n \in Nat \ {0} : m % n \in 0 .. n - 1
  OBVIOUS
<1> QED
  BY <1>1, <1>2 DEF compute_bucket_index, Buckets

\* A key is found exactly if it is a node of its chain, and is then a node of
\* no other.
LEMMA FoundInChain ==
    ASSUME NEW s, IsStore(s), Tidy(s), NEW k \in Keys
    PROVE  /\ find_in_bucket(s, k) <=>
                 \E i \in 1 .. Len(Bucket(s, k)) : Bucket(s, k)[i] = k
           /\ \A b \in Buckets(s) : \A i \in 1 .. Len(Chain(s, b)) :
                 Chain(s, b)[i] = k => b = compute_bucket_index(s, k) /\ find_in_bucket(s, k)
<1>1. find_in_bucket(s, k) <=> \E i \in 1 .. Len(Bucket(s, k)) : Bucket(s, k)[i] = k
  BY DEF find_in_bucket, Contains
<1>2. ASSUME NEW b \in Buckets(s), NEW i \in 1 .. Len(Chain(s, b)), Chain(s, b)[i] = k
      PROVE  b = compute_bucket_index(s, k) /\ find_in_bucket(s, k)
  BY <1>1, <1>2 DEF Tidy, Linked, Bucket
<1> QED
  BY <1>1, <1>2

\* The empty table is in order and holds nothing.
LEMMA ResetTidy ==
    ASSUME NEW n \in Nat \ {0}, NEW s, s.next \in [Keys -> Node],
           s.value \in [Keys -> Values \cup {NoValue}]
    PROVE  LET new == reset_to_capacity(s, n)
           IN  /\ IsStore(new) /\ new.capacity = n /\ new.value = s.value
               /\ Tidy(new)
               /\ \A k \in Keys : ~find_in_bucket(new, k)
<1> DEFINE new == reset_to_capacity(s, n)
<1>1. IsStore(new) /\ new.capacity = n /\ new.value = s.value /\ new.next = s.next
  BY NodeFacts DEF IsStore, Buckets, reset_to_capacity
<1>2. ASSUME NEW b \in Buckets(new) PROVE Linked(new, b, <<>>) /\ Chain(new, b) = <<>>
  <2>1. Linked(new, b, <<>>)
    BY <1>1, <1>2 DEF Linked, Buckets, reset_to_capacity
  <2> HIDE DEF new
  <2> QED
    BY <1>1, <2>1, ChainIs
<1> HIDE DEF new
<1>3. Tidy(new)
  BY <1>2 DEF Tidy
<1>4. ASSUME NEW k \in Keys PROVE ~find_in_bucket(new, k)
  BY <1>1, <1>2, <1>3, BucketOfKey, FoundInChain DEF Bucket
<1> QED
  BY <1>1, <1>3, <1>4 DEF new

-----------------------------------------------------------------------------
(* Insertion                                                                  *)

\* What an insertion writes.
LEMMA InsertFields ==
    ASSUME NEW s, IsStore(s), NEW k \in Keys
    PROVE  LET new == insert_into_bucket(s, k)
               b == compute_bucket_index(s, k)
           IN  /\ IsStore(new) /\ new.capacity = s.capacity /\ new.value = s.value
               /\ new.heads = [s.heads EXCEPT ![b] = IF @ = NoNode THEN k ELSE @]
               /\ new.tails = [s.tails EXCEPT ![b] = k]
               /\ new.lengths = [s.lengths EXCEPT ![b] = @ + 1]
               /\ new.next = IF s.heads[b] = NoNode THEN [s.next EXCEPT ![k] = NoNode]
                             ELSE [s.next EXCEPT ![k] = NoNode, ![s.tails[b]] = k]
<1> DEFINE new == insert_into_bucket(s, k)
           b == compute_bucket_index(s, k)
<1>1. b \in Buckets(s)
  BY BucketOfKey DEF IsStore
<1>2. new.capacity = s.capacity /\ new.value = s.value
  BY DEF insert_into_bucket
<1>3. new.heads = [s.heads EXCEPT ![b] = IF @ = NoNode THEN k ELSE @]
  BY <1>1 DEF insert_into_bucket, IsStore
<1>4. new.tails = [s.tails EXCEPT ![b] = k]
  BY DEF insert_into_bucket
<1>5. new.lengths = [s.lengths EXCEPT ![b] = @ + 1]
  BY DEF insert_into_bucket
<1>6. new.next = IF s.heads[b] = NoNode THEN [s.next EXCEPT ![k] = NoNode]
                 ELSE [s.next EXCEPT ![k] = NoNode, ![s.tails[b]] = k]
  BY DEF insert_into_bucket
<1> HIDE DEF new, b
<1>7. IsStore(new)
  <2>1. Buckets(new) = Buckets(s)
    BY <1>2 DEF Buckets
  <2>2. new.heads \in [Buckets(s) -> Node] /\ new.tails \in [Buckets(s) -> Node]
    BY <1>1, <1>3, <1>4, NodeFacts DEF IsStore
  <2>3. new.lengths \in [Buckets(s) -> Nat]
    <3>1. s.lengths[b] \in Nat
      BY <1>1 DEF IsStore
    <3>2. s.lengths[b] + 1 \in Nat
      BY <3>1
    <3> QED
      BY <1>5, <3>2 DEF IsStore
  <2>4. new.next \in [Keys -> Node]
    <3>1. [s.next EXCEPT ![k] = NoNode] \in [Keys -> Node]
      BY NodeFacts DEF IsStore
    <3>2. [s.next EXCEPT ![k] = NoNode, ![s.tails[b]] = k] \in [Keys -> Node]
      BY NodeFacts DEF IsStore
    <3> QED
      BY <1>6, <3>1, <3>2
  <2> QED
    BY <1>2, <2>1, <2>2, <2>3, <2>4 DEF IsStore
<1> QED
  BY <1>2, <1>3, <1>4, <1>5, <1>6, <1>7 DEF new, b

\* An insertion appends the node to the chain of its bucket and touches no other.
LEMMA InsertTidy ==
    ASSUME NEW s, IsStore(s), Tidy(s), NEW k \in Keys, ~find_in_bucket(s, k)
    PROVE  LET new == insert_into_bucket(s, k)
           IN  /\ Tidy(new)
               /\ \A j \in Keys : find_in_bucket(new, j) <=> j = k \/ find_in_bucket(s, j)
<1> DEFINE new == insert_into_bucket(s, k)
           b == compute_bucket_index(s, k)
           c == Chain(s, b)
           d == Append(c, k)
<1>1. b \in Buckets(s) /\ s.next \in [Keys -> Node] /\ s.heads \in [Buckets(s) -> Node]
      /\ s.tails \in [Buckets(s) -> Node] /\ s.lengths \in [Buckets(s) -> Nat]
  BY BucketOfKey DEF IsStore
<1>2. Linked(s, b, c) /\ c \in Seq(Keys) /\ Len(c) \in Nat
  BY <1>1 DEF Tidy, Linked
<1>3. \A i \in 1 .. Len(c) : c[i] # k
  BY <1>1, FoundInChain
<1>4. d \in Seq(Keys) /\ Len(d) = Len(c) + 1 /\ d[Len(c) + 1] = k
      /\ \A i \in 1 .. Len(c) : d[i] = c[i]
  BY <1>2
<1>5. /\ IsStore(new) /\ new.capacity = s.capacity /\ new.value = s.value
      /\ new.heads = [s.heads EXCEPT ![b] = IF @ = NoNode THEN k ELSE @]
      /\ new.tails = [s.tails EXCEPT ![b] = k]
      /\ new.lengths = [s.lengths EXCEPT ![b] = @ + 1]
      /\ new.next = IF s.heads[b] = NoNode THEN [s.next EXCEPT ![k] = NoNode]
                    ELSE [s.next EXCEPT ![k] = NoNode, ![s.tails[b]] = k]
  BY InsertFields
<1>6. \A j \in Keys : compute_bucket_index(new, j) = compute_bucket_index(s, j)
  BY <1>5 DEF compute_bucket_index
<1>7. Buckets(new) = Buckets(s)
  BY <1>5 DEF Buckets
<1> HIDE DEF new, b, c, d
<1>8. Len(c) = 0 <=> s.heads[b] = NoNode
  <2>1. Len(c) # 0 => c[1] \in Keys
    BY <1>2
  <2> QED
    BY <1>2, <2>1, NodeFacts DEF Linked
<1>9. Linked(new, b, d)
  <2>1. \A i, j \in 1 .. Len(d) : d[i] = d[j] => i = j
    BY <1>2, <1>3, <1>4 DEF Linked
  <2>2. \A i \in 1 .. Len(d) : compute_bucket_index(new, d[i]) = b
    BY <1>2, <1>4, <1>6 DEF Linked, b
  <2>3. new.heads[b] = d[1]
    BY <1>1, <1>2, <1>4, <1>5, <1>8 DEF Linked
  <2>4. new.tails[b] = k /\ new.lengths[b] = Len(d)
    BY <1>1, <1>2, <1>4, <1>5 DEF Linked
  <2>5. ASSUME NEW i \in 1 .. Len(d) - 1 PROVE new.next[d[i]] = d[i + 1]
    <3>1. i \in 1 .. Len(c) /\ d[i] = c[i] /\ c[i] \in Keys /\ c[i] # k /\ Len(c) # 0
      BY <1>2, <1>3, <1>4
    <3>2. new.next = [s.next EXCEPT ![k] = NoNode, ![c[Len(c)]] = k]
      BY <1>2, <1>5, <1>8, <3>1 DEF Linked
    <3>3. CASE i = Len(c)
      BY <1>1, <1>4, <3>1, <3>2, <3>3
    <3>4. CASE i # Len(c)
      <4>1. i \in 1 .. Len(c) - 1 /\ i + 1 \in 1 .. Len(c) /\ Len(c) \in 1 .. Len(c)
        BY <1>2, <3>1, <3>4
      <4>2. c[i] # c[Len(c)] /\ s.next[c[i]] = c[i + 1]
        BY <1>2, <3>1, <3>4, <4>1 DEF Linked
      <4> QED
        BY <1>1, <1>4, <3>1, <3>2, <4>1, <4>2
    <3> QED
      BY <3>3, <3>4
  <2>6. new.next[k] = NoNode
    <3>1. CASE Len(c) = 0
      BY <1>1, <1>5, <1>8, <3>1
    <3>2. CASE Len(c) # 0
      BY <1>1, <1>2, <1>3, <1>5, <1>8, <3>2 DEF Linked
    <3> QED
      BY <3>1, <3>2
  <2> QED
    BY <1>2, <1>4, <2>1, <2>2, <2>3, <2>4, <2>5, <2>6 DEF Linked
<1>10. ASSUME NEW a \in Buckets(s), a # b PROVE Linked(new, a, Chain(s, a))
  <2> DEFINE e == Chain(s, a)
  <2>1. Linked(s, a, e) /\ e \in Seq(Keys) /\ Len(e) \in Nat
    BY DEF Tidy, Linked
  <2>2. \A i \in 1 .. Len(e) : e[i] \in Keys /\ e[i] # k
    BY <1>10, <2>1, FoundInChain DEF b
  <2>3. Len(c) # 0 => \A i \in 1 .. Len(e) : e[i] # s.tails[b]
    <3> SUFFICES ASSUME Len(c) # 0, NEW i \in 1 .. Len(e), e[i] = s.tails[b] PROVE FALSE
      OBVIOUS
    <3>1. e[i] = c[Len(c)] /\ Len(c) \in 1 .. Len(c)
      BY <1>2 DEF Linked
    <3>2. compute_bucket_index(s, e[i]) = a /\ compute_bucket_index(s, c[Len(c)]) = b
      BY <1>2, <2>1, <3>1 DEF Linked
    <3> QED
      BY <1>10, <3>1, <3>2
  <2> HIDE DEF e
  <2>4. \A i \in 1 .. Len(e) : new.next[e[i]] = s.next[e[i]]
    BY <1>1, <1>5, <1>8, <2>2, <2>3
  <2>5. new.heads[a] = s.heads[a] /\ new.tails[a] = s.tails[a] /\ new.lengths[a] = s.lengths[a]
    BY <1>1, <1>5, <1>10
  <2>6. \A i \in 1 .. Len(e) : compute_bucket_index(new, e[i]) = a
    BY <1>6, <2>1, <2>2 DEF Linked
  <2>7. Linked(new, a, e)
    BY <2>1, <2>4, <2>5, <2>6 DEF Linked
  <2> QED
    BY <2>7 DEF e
<1>11. \A a \in Buckets(s) : Chain(new, a) = IF a = b THEN d ELSE Chain(s, a)
  BY <1>5, <1>9, <1>10, ChainIs DEF IsStore
<1>12. Tidy(new)
  BY <1>7, <1>9, <1>10, <1>11 DEF Tidy
<1>13. ASSUME NEW j \in Keys
       PROVE  find_in_bucket(new, j) <=> j = k \/ find_in_bucket(s, j)
  <2> DEFINE a == compute_bucket_index(s, j)
  <2>1. a \in Buckets(s) /\ Bucket(s, j) = Chain(s, a) /\ Bucket(new, j) = Chain(new, a)
    BY <1>6, BucketOfKey DEF Bucket, IsStore
  <2>2. /\ find_in_bucket(s, j) <=> \E i \in 1 .. Len(Chain(s, a)) : Chain(s, a)[i] = j
        /\ find_in_bucket(new, j) <=> \E i \in 1 .. Len(Chain(new, a)) : Chain(new, a)[i] = j
    BY <1>5, <1>12, <2>1, FoundInChain
  <2>3. j = k => a = b
    BY DEF b
  <2> HIDE DEF a
  <2>4. CASE a = b
    <3>1. Chain(s, a) = c /\ Chain(new, a) = d
      BY <1>11, <2>1, <2>4 DEF c
    <3>2. (\E i \in 1 .. Len(d) : d[i] = j) <=> j = k \/ \E i \in 1 .. Len(c) : c[i] = j
      BY <1>2, <1>4
    <3> QED
      BY <2>2, <3>1, <3>2
  <2>5. CASE a # b
    BY <1>11, <2>1, <2>2, <2>3, <2>5
  <2> QED
    BY <2>4, <2>5
<1> QED
  BY <1>12, <1>13 DEF new

-----------------------------------------------------------------------------
(* Removal                                                                    *)

\* What unlinking the node k, the i-th of its chain c, writes.
Unlinks(s, k, i, c, new) ==
    LET b == compute_bucket_index(s, k)
    IN  /\ IsStore(new) /\ new.capacity = s.capacity /\ new.value = s.value
        /\ new.heads = IF i = 1 THEN [s.heads EXCEPT ![b] = s.next[k]] ELSE s.heads
        /\ new.next = IF i = 1 THEN s.next ELSE [s.next EXCEPT ![c[i - 1]] = s.next[k]]
        /\ new.tails = [s.tails EXCEPT ![b] = IF s.next[k] # NoNode THEN @
                                              ELSE IF i = 1 THEN NoNode ELSE c[i - 1]]
        /\ new.lengths = [s.lengths EXCEPT ![b] = @ - 1]

LEMMA UnlinkFields ==
    ASSUME NEW s, IsStore(s), Tidy(s), NEW k \in Keys,
           NEW i \in 1 .. Len(Bucket(s, k)), Bucket(s, k)[i] = k
    PROVE  Unlinks(s, k, i, Bucket(s, k), unlink_from_bucket_chain(s, k))
<1> DEFINE new == unlink_from_bucket_chain(s, k)
           b == compute_bucket_index(s, k)
           c == Bucket(s, k)
           before == c[i - 1]
<1>1. b \in Buckets(s) /\ Linked(s, b, c) /\ c \in Seq(Keys) /\ Len(c) \in Nat
  <2>1. b \in Buckets(s)
    BY BucketOfKey DEF IsStore
  <2>2. Linked(s, b, c)
    BY <2>1 DEF Tidy, Bucket
  <2> HIDE DEF b, c
  <2>3. c \in Seq(Keys)
    BY <2>2 DEF Linked
  <2> QED
    BY <2>1, <2>2, <2>3
<1>2. Position(c, k) = i
  <2>1. \A j \in DOMAIN c : c[j] = k => j = i
    BY <1>1 DEF Linked
  <2>2. i \in DOMAIN c /\ c[i] = k
    BY <1>1
  <2> HIDE DEF c
  <2> QED
    BY <2>1, <2>2 DEF Position
<1>3. i # 1 => before \in Keys /\ before # NoNode
  <2>1. i # 1 => i - 1 \in 1 .. Len(c)
    BY <1>1
  <2> QED
    BY <1>1, <2>1, NodeFacts
<1>4. new = LET prev == IF i = 1 THEN NoNode ELSE before
                relinked == IF prev = NoNode THEN [s EXCEPT !.heads[b] = s.next[k]]
                                             ELSE [s EXCEPT !.next[prev] = s.next[k]]
            IN  [relinked EXCEPT !.tails[b] = IF s.next[k] = NoNode THEN prev ELSE @,
                                 !.lengths[b] = @ - 1]
  BY <1>2 DEF unlink_from_bucket_chain
<1> HIDE DEF new, b, c, before
<1>5. new.capacity = s.capacity /\ new.value = s.value
  BY <1>4
<1>6. new.heads = IF i = 1 THEN [s.heads EXCEPT ![b] = s.next[k]] ELSE s.heads
  BY <1>3, <1>4
<1>7. new.next = IF i = 1 THEN s.next ELSE [s.next EXCEPT ![before] = s.next[k]]
  BY <1>3, <1>4
<1>8. new.tails = [s.tails EXCEPT ![b] = IF s.next[k] # NoNode THEN @
                                         ELSE IF i = 1 THEN NoNode ELSE before]
  BY <1>4
<1>9. new.lengths = [s.lengths EXCEPT ![b] = @ - 1]
  BY <1>4
<1>10. IsStore(new)
  <2>1. Buckets(new) = Buckets(s)
    BY <1>5 DEF Buckets
  <2>2. s.next[k] \in Node
    BY DEF IsStore
  <2>3. new.heads \in [Buckets(s) -> Node]
    BY <1>1, <1>6, <2>2 DEF IsStore
  <2>4. new.tails \in [Buckets(s) -> Node]
    BY <1>1, <1>3, <1>8, NodeFacts DEF IsStore
  <2>5. s.lengths[b] \in Nat /\ s.lengths[b] # 0
    BY <1>1 DEF IsStore, Linked, c
  <2>6. s.lengths[b] - 1 \in Nat
    BY <2>5
  <2>7. new.lengths \in [Buckets(s) -> Nat]
    BY <1>9, <2>6 DEF IsStore
  <2>8. new.next \in [Keys -> Node]
    BY <1>7, <2>2 DEF IsStore
  <2> QED
    BY <1>5, <2>1, <2>3, <2>4, <2>7, <2>8 DEF IsStore
<1> QED
  BY <1>5, <1>6, <1>7, <1>8, <1>9, <1>10 DEF new, b, c, before, Unlinks

\* An unlink takes the node out of the chain of its bucket and touches no other.
LEMMA UnlinkTidy ==
    ASSUME NEW s, IsStore(s), Tidy(s), NEW k \in Keys, find_in_bucket(s, k)
    PROVE  LET new == unlink_from_bucket_chain(s, k)
           IN  /\ IsStore(new) /\ new.capacity = s.capacity /\ new.value = s.value
               /\ Tidy(new)
               /\ \A j \in Keys : find_in_bucket(new, j) <=> j # k /\ find_in_bucket(s, j)
<1> DEFINE new == unlink_from_bucket_chain(s, k)
           b == compute_bucket_index(s, k)
           c == Chain(s, b)
<1>1. /\ b \in Buckets(s) /\ s.next \in [Keys -> Node] /\ s.heads \in [Buckets(s) -> Node]
      /\ s.tails \in [Buckets(s) -> Node] /\ s.lengths \in [Buckets(s) -> Nat]
  BY BucketOfKey DEF IsStore
<1>2. Linked(s, b, c) /\ c \in Seq(Keys) /\ Len(c) \in Nat
  BY <1>1 DEF Tidy, Linked
<1>3. c = Bucket(s, k)
  BY DEF Bucket
<1>4. PICK i \in 1 .. Len(c) : c[i] = k
  BY <1>3, FoundInChain
<1> DEFINE d == [j \in 1 .. Len(c) - 1 |-> IF j < i THEN c[j] ELSE c[j + 1]]
<1>5. /\ d \in Seq(Keys) /\ Len(d) = Len(c) - 1
      /\ \A j \in 1 .. Len(d) : d[j] = IF j < i THEN c[j] ELSE c[j + 1]
  <2>1. Len(c) - 1 \in Nat
    BY <1>2
  <2>2. \A j \in 1 .. Len(c) - 1 : j \in 1 .. Len(c) /\ j + 1 \in 1 .. Len(c)
    BY <1>2
  <2>3. d \in [1 .. Len(c) - 1 -> Keys]
    BY <1>2, <2>2
  <2>4. \A n \in Nat : \A f \in [1 .. n -> Keys] : f \in Seq(Keys) /\ Len(f) = n
    OBVIOUS
  <2>5. d \in Seq(Keys) /\ Len(d) = Len(c) - 1
    <3> HIDE DEF d
    <3> QED
      BY <2>1, <2>3, <2>4
  <2> QED
    BY <2>5
<1>6. /\ IsStore(new) /\ new.capacity = s.capacity /\ new.value = s.value
      /\ new.heads = IF i = 1 THEN [s.heads EXCEPT ![b] = s.next[k]] ELSE s.heads
      /\ new.next = IF i = 1 THEN s.next ELSE [s.next EXCEPT ![c[i - 1]] = s.next[k]]
      /\ new.tails = [s.tails EXCEPT ![b] = IF s.next[k] # NoNode THEN @
                                            ELSE IF i = 1 THEN NoNode ELSE c[i - 1]]
      /\ new.lengths = [s.lengths EXCEPT ![b] = @ - 1]
  <2>1. i \in 1 .. Len(Bucket(s, k)) /\ Bucket(s, k)[i] = k
    BY <1>3, <1>4
  <2>2. Unlinks(s, k, i, c, new)
    BY <1>3, <2>1, UnlinkFields
  <2> QED
    BY <2>2 DEF Unlinks
<1>7. \A j \in Keys : compute_bucket_index(new, j) = compute_bucket_index(s, j)
  BY <1>6 DEF compute_bucket_index
<1>8. Buckets(new) = Buckets(s)
  BY <1>6 DEF Buckets
<1> HIDE DEF new, b, c, d
<1>9. s.next[k] = IF i = Len(c) THEN NoNode ELSE c[i + 1]
  BY <1>2, <1>4 DEF Linked
<1>10. \A j \in 1 .. Len(c) : c[j] \in Keys /\ c[j] # NoNode
  BY <1>2, NodeFacts
<1>11. s.next[k] = NoNode <=> i = Len(c)
  <2>1. i # Len(c) => i + 1 \in 1 .. Len(c)
    BY <1>2
  <2> QED
    BY <1>9, <1>10, <2>1
<1>12. Linked(new, b, d)
  <2>1. \A j, m \in 1 .. Len(d) : d[j] = d[m] => j = m
    BY <1>2, <1>5 DEF Linked
  <2>2. \A j \in 1 .. Len(d) : compute_bucket_index(new, d[j]) = b
    BY <1>2, <1>5, <1>7, <1>10 DEF Linked
  <2>3. new.heads[b] = IF Len(d) = 0 THEN NoNode ELSE d[1]
    <3>1. CASE i = 1
      BY <1>1, <1>2, <1>5, <1>6, <1>9, <3>1
    <3>2. CASE i # 1
      BY <1>1, <1>2, <1>5, <1>6, <3>2 DEF Linked
    <3> QED
      BY <3>1, <3>2
  <2>4. new.tails[b] = IF Len(d) = 0 THEN NoNode ELSE d[Len(d)]
    <3>1. CASE i = Len(c)
      BY <1>1, <1>2, <1>5, <1>6, <1>11, <3>1
    <3>2. CASE i # Len(c)
      <4>1. new.tails[b] = c[Len(c)]
        BY <1>1, <1>2, <1>6, <1>11, <3>2 DEF Linked
      <4>2. Len(d) # 0 /\ d[Len(d)] = c[Len(c)]
        BY <1>2, <1>5, <3>2
      <4> QED
        BY <4>1, <4>2
    <3> QED
      BY <3>1, <3>2
  <2>5. new.lengths[b] = Len(d)
    BY <1>1, <1>2, <1>5, <1>6 DEF Linked
  <2>6. ASSUME NEW j \in 1 .. Len(c), j # i
        PROVE  new.next[c[j]] = IF j + 1 = i THEN s.next[k] ELSE s.next[c[j]]
    <3>1. CASE i = 1
      BY <1>2, <1>6, <3>1
    <3>2. CASE i # 1
      <4>1. i - 1 \in 1 .. Len(c)
        BY <1>2, <3>2
      <4>2. c[j] = c[i - 1] <=> j + 1 = i
        BY <1>2, <4>1 DEF Linked
      <4> QED
        BY <1>1, <1>6, <1>10, <3>2, <4>2
    <3> QED
      BY <3>1, <3>2
  <2>7. ASSUME NEW j \in 1 .. Len(d) - 1 PROVE new.next[d[j]] = d[j + 1]
    <3>1. CASE j + 1 < i
      BY <1>2, <1>5, <2>6, <3>1 DEF Linked
    <3>2. CASE j + 1 = i
      BY <1>2, <1>5, <1>9, <2>6, <3>2
    <3>3. CASE j + 1 > i
      <4>1. d[j] = c[j + 1] /\ d[j + 1] = c[j + 2] /\ j + 1 \in 1 .. Len(c) - 1
        BY <1>2, <1>5, <3>3
      <4>2. new.next[c[j + 1]] = s.next[c[j + 1]]
        BY <1>2, <2>6, <3>3, <4>1
      <4>3. (j + 1) + 1 = j + 2
        OBVIOUS
      <4> QED
        BY <1>2, <4>1, <4>2, <4>3 DEF Linked
    <3> QED
      BY <3>1, <3>2, <3>3
  <2>8. Len(d) # 0 => new.next[d[Len(d)]] = NoNode
    <3>1. CASE i = Len(c)
      <4>1. SUFFICES ASSUME Len(d) # 0
                     PROVE  new.next[d[Len(d)]] = NoNode
        OBVIOUS
      <4>2. Len(d) = i - 1 /\ i - 1 \in 1 .. Len(c) /\ i - 1 # i
        BY <1>2, <1>5, <3>1, <4>1
      <4>3. d[Len(d)] = c[i - 1] /\ (i - 1) + 1 = i
        BY <1>2, <1>5, <4>2
      <4>4. new.next[c[i - 1]] = s.next[k]
        BY <2>6, <4>2, <4>3
      <4> QED
        BY <1>9, <3>1, <4>3, <4>4
    <3>2. CASE i # Len(c)
      BY <1>2, <1>5, <2>6, <3>2 DEF Linked
    <3> QED
      BY <3>1, <3>2
  <2> QED
    BY <1>5, <2>1, <2>2, <2>3, <2>4, <2>5, <2>7, <2>8 DEF Linked
<1>13. ASSUME NEW a \in Buckets(s), a # b PROVE Linked(new, a, Chain(s, a))
  <2> DEFINE e == Chain(s, a)
  <2>1. Linked(s, a, e) /\ e \in Seq(Keys) /\ Len(e) \in Nat
    <3>1. Linked(s, a, e)
      BY DEF Tidy
    <3> QED
      BY <3>1 DEF Linked
  <2>2. i # 1 => i - 1 \in 1 .. Len(c)
    BY <1>2
  <2>3. \A m \in 1 .. Len(e), j \in 1 .. Len(c) : e[m] \in Keys /\ e[m] # c[j]
    BY <1>2, <1>13, <2>1 DEF Linked
  <2> HIDE DEF e
  <2>4. \A m \in 1 .. Len(e) : new.next[e[m]] = s.next[e[m]]
    BY <1>1, <1>6, <2>2, <2>3
  <2>5. new.heads[a] = s.heads[a] /\ new.tails[a] = s.tails[a] /\ new.lengths[a] = s.lengths[a]
    BY <1>1, <1>6, <1>13
  <2>6. \A m \in 1 .. Len(e) : compute_bucket_index(new, e[m]) = a
    BY <1>7, <2>1, <2>3, <1>4 DEF Linked
  <2>7. Linked(new, a, e)
    BY <2>1, <2>4, <2>5, <2>6 DEF Linked
  <2> QED
    BY <2>7 DEF e
<1>14. \A a \in Buckets(s) : Chain(new, a) = IF a = b THEN d ELSE Chain(s, a)
  <2>1. new.next \in [Keys -> Node]
    BY <1>6 DEF IsStore
  <2> QED
    BY <1>12, <1>13, <2>1, ChainIs
<1>15. Tidy(new)
  BY <1>8, <1>12, <1>13, <1>14 DEF Tidy
<1>16. ASSUME NEW j \in Keys
       PROVE  find_in_bucket(new, j) <=> j # k /\ find_in_bucket(s, j)
  <2> DEFINE a == compute_bucket_index(s, j)
  <2>1. a \in Buckets(s) /\ Bucket(s, j) = Chain(s, a) /\ Bucket(new, j) = Chain(new, a)
    BY <1>7, BucketOfKey DEF Bucket, IsStore
  <2>2. /\ find_in_bucket(s, j) <=> \E m \in 1 .. Len(Chain(s, a)) : Chain(s, a)[m] = j
        /\ find_in_bucket(new, j) <=> \E m \in 1 .. Len(Chain(new, a)) : Chain(new, a)[m] = j
    BY <1>6, <1>15, <2>1, FoundInChain
  <2>3. j = k => a = b
    BY DEF b
  <2> HIDE DEF a
  <2>4. CASE a = b
    <3>1. Chain(s, a) = c /\ Chain(new, a) = d
      BY <1>14, <2>1, <2>4 DEF c
    <3>2. ASSUME NEW m \in 1 .. Len(d), d[m] = j
          PROVE  j # k /\ \E n \in 1 .. Len(c) : c[n] = j
      BY <1>2, <1>4, <1>5, <3>2 DEF Linked
    <3>3. ASSUME j # k, NEW m \in 1 .. Len(c), c[m] = j
          PROVE  \E n \in 1 .. Len(d) : d[n] = j
      <4>1. CASE m < i
        BY <1>2, <1>5, <3>3, <4>1
      <4>2. CASE m > i
        <5>1. m - 1 \in 1 .. Len(d) /\ d[m - 1] = c[(m - 1) + 1] /\ (m - 1) + 1 = m
          BY <1>2, <1>5, <4>2
        <5> QED
          BY <3>3, <5>1
      <4> QED
        BY <1>4, <3>3, <4>1, <4>2
    <3> QED
      BY <2>2, <3>1, <3>2, <3>3
  <2>5. CASE a # b
    BY <1>14, <2>1, <2>2, <2>3, <2>5
  <2> QED
    BY <2>4, <2>5
<1> QED
  BY <1>6, <1>15, <1>16 DEF new

-----------------------------------------------------------------------------
(* Resizing                                                                   *)

LEMMA ChainType ==
    ASSUME NEW s, Tidy(s), NEW b \in Buckets(s)
    PROVE  Chain(s, b) \in Seq(Keys)
BY DEF Tidy, Linked

\* The list of the nodes grows by a chain at each bucket.
LEMMA NodesStep ==
    ASSUME NEW s, s.capacity \in Nat, Tidy(s)
    PROVE  /\ Nodes(s)[0] = <<>>
           /\ \A i \in 1 .. s.capacity : Nodes(s)[i] = Nodes(s)[i - 1] \o Chain(s, i - 1)
<1> DEFINE n == s.capacity
           S == Seq(Keys)
           step == [i \in 1 .. n |-> [w \in S |-> w \o Chain(s, i - 1)]]
           Eq(f) == [i \in 0 .. n |-> IF i = 0 THEN <<>> ELSE f[i - 1] \o Chain(s, i - 1)]
<1>1. step \in [1 .. n -> [S -> S]]
  <2>1. \A i \in 1 .. n : i - 1 \in Buckets(s)
    BY DEF Buckets
  <2> QED
    BY <2>1, ChainType
<1>2. <<>> \in S
  OBVIOUS
<1>3. PICK f : Iterates(f, n, S, <<>>, step)
  <2> HIDE DEF S, step
  <2> QED
    BY <1>1, <1>2, RecursionExists
<1>4. f = Eq(f)
  <2>1. ASSUME NEW i \in 0 .. n PROVE f[i] = Eq(f)[i]
    <3>1. CASE i = 0
      BY <1>3, <3>1 DEF Iterates
    <3>2. CASE i # 0
      <4>1. f[i - 1] \in S /\ i \in 1 .. n
        BY <1>3, <3>2 DEF Iterates
      <4>2. f[i] = f[i - 1] \o Chain(s, i - 1)
        BY <1>3, <4>1 DEF Iterates
      <4> QED
        BY <4>2, <3>2
    <3> QED
      BY <3>1, <3>2
  <2> HIDE DEF S
  <2> QED
    BY <1>3, <2>1 DEF Iterates
<1>5. Nodes(s) = CHOOSE g : g = Eq(g)
  BY DEF Nodes
<1>6. Nodes(s) = Eq(Nodes(s))
  <2> HIDE DEF Eq
  <2> QED
    BY <1>4, <1>5
<1> DEFINE L == Nodes(s)
<1> HIDE DEF L, S, step
<1>7. L = Eq(L)
  BY <1>6 DEF L
<1>8. L[0] = <<>> /\ \A i \in 1 .. n : L[i] = L[i - 1] \o Chain(s, i - 1)
  BY <1>7
<1> QED
  BY <1>8 DEF L

\* A list of the nodes of the first i buckets, each once.
Lists(s, i, l) ==
    /\ l \in Seq(Keys)
    /\ \A m, n \in 1 .. Len(l) : l[m] = l[n] => m = n
    /\ \A k \in Keys : (\E m \in 1 .. Len(l) : l[m] = k)
                            <=> find_in_bucket(s, k) /\ compute_bucket_index(s, k) < i

LEMMA NodesAre ==
    ASSUME NEW s, IsStore(s), Tidy(s)
    PROVE  \A i \in 0 .. s.capacity : Lists(s, i, Nodes(s)[i])
<1> DEFINE Right == {i \in Nat : i <= s.capacity => Lists(s, i, Nodes(s)[i])}
<1>1. s.capacity \in Nat /\ \A k \in Keys : compute_bucket_index(s, k) \in 0 .. s.capacity - 1
  BY BucketOfKey DEF IsStore, Buckets
<1>2. 0 \in Right
  <2>1. Nodes(s)[0] = <<>>
    BY <1>1, NodesStep
  <2>2. \A k \in Keys : ~(compute_bucket_index(s, k) < 0)
    BY <1>1
  <2>3. Lists(s, 0, <<>>)
    BY <2>2 DEF Lists
  <2> QED
    BY <2>1, <2>3
<1>3. ASSUME NEW i \in Nat, i \in Right PROVE i + 1 \in Right
  <2> SUFFICES ASSUME i + 1 <= s.capacity PROVE Lists(s, i + 1, Nodes(s)[i + 1])
    OBVIOUS
  <2> DEFINE l == Nodes(s)[i]
             c == Chain(s, i)
  <2>1. Lists(s, i, l)
    BY <1>1, <1>3
  <2>2. i \in Buckets(s)
    BY <1>1 DEF Buckets
  <2>3. Linked(s, i, c) /\ c \in Seq(Keys)
    BY <2>2 DEF Tidy, Linked
  <2>4. Nodes(s)[i + 1] = l \o c
    <3>1. i + 1 \in 1 .. s.capacity /\ (i + 1) - 1 = i
      BY <1>1
    <3>2. Nodes(s)[i + 1] = Nodes(s)[(i + 1) - 1] \o Chain(s, (i + 1) - 1)
      BY <1>1, <3>1, NodesStep
    <3> QED
      BY <3>1, <3>2
  <2>5. \A k \in Keys : (\E m \in 1 .. Len(c) : c[m] = k)
                            <=> find_in_bucket(s, k) /\ compute_bucket_index(s, k) = i
    BY <2>2, FoundInChain DEF Bucket
  <2> HIDE DEF l, c
  <2> DEFINE d == l \o c
  <2>6. /\ d \in Seq(Keys) /\ Len(d) = Len(l) + Len(c) /\ Len(l) \in Nat /\ Len(c) \in Nat
        /\ \A m \in 1 .. Len(d) : d[m] = IF m <= Len(l) THEN l[m] ELSE c[m - Len(l)]
    BY <2>1, <2>3, ConcatProperties, LenProperties DEF Lists
  <2> HIDE DEF d
  <2>7. \A m \in 1 .. Len(l) : l[m] \in Keys /\ compute_bucket_index(s, l[m]) < i
    BY <2>1 DEF Lists
  <2>8. \A m \in 1 .. Len(c) : c[m] \in Keys /\ compute_bucket_index(s, c[m]) = i
    BY <2>3 DEF Linked
  <2>9. \A m \in 1 .. Len(l), n \in 1 .. Len(c) : l[m] # c[n]
    BY <2>7, <2>8
  <2>10. ASSUME NEW m \in 1 .. Len(d), NEW n \in 1 .. Len(d), d[m] = d[n] PROVE m = n
    <3>1. \A j \in 1 .. Len(d) :
             \/ j \in 1 .. Len(l) /\ d[j] = l[j]
             \/ j - Len(l) \in 1 .. Len(c) /\ d[j] = c[j - Len(l)]
      BY <2>6
    <3>2. CASE m \in 1 .. Len(l) /\ d[m] = l[m]
      <4>1. n \in 1 .. Len(l) /\ d[n] = l[n]
        BY <2>9, <2>10, <3>1, <3>2
      <4> QED
        BY <2>1, <2>10, <3>2, <4>1 DEF Lists
    <3>3. CASE m - Len(l) \in 1 .. Len(c) /\ d[m] = c[m - Len(l)]
      <4>1. n - Len(l) \in 1 .. Len(c) /\ d[n] = c[n - Len(l)]
        BY <2>9, <2>10, <3>1, <3>3
      <4>2. m - Len(l) = n - Len(l)
        BY <2>3, <2>10, <3>3, <4>1 DEF Linked
      <4> QED
        BY <2>6, <4>2
    <3> QED
      BY <3>1, <3>2, <3>3
  <2>11. ASSUME NEW k \in Keys
         PROVE  (\E m \in 1 .. Len(d) : d[m] = k)
                    <=> find_in_bucket(s, k) /\ compute_bucket_index(s, k) < i + 1
    <3>1. (\E m \in 1 .. Len(d) : d[m] = k)
             <=> (\E m \in 1 .. Len(l) : l[m] = k) \/ (\E m \in 1 .. Len(c) : c[m] = k)
      <4>1. ASSUME NEW m \in 1 .. Len(d), d[m] = k
            PROVE  (\E n \in 1 .. Len(l) : l[n] = k) \/ (\E n \in 1 .. Len(c) : c[n] = k)
        <5>1. CASE m <= Len(l)
          BY <2>6, <4>1, <5>1
        <5>2. CASE ~(m <= Len(l))
          <6>1. m - Len(l) \in 1 .. Len(c) /\ d[m] = c[m - Len(l)]
            BY <2>6, <5>2
          <6> QED
            BY <4>1, <6>1
        <5> QED
          BY <5>1, <5>2
      <4>2. ASSUME NEW m \in 1 .. Len(l), l[m] = k PROVE \E n \in 1 .. Len(d) : d[n] = k
        BY <2>6, <4>2
      <4>3. ASSUME NEW m \in 1 .. Len(c), c[m] = k PROVE \E n \in 1 .. Len(d) : d[n] = k
        <5>1. Len(l) + m \in 1 .. Len(d) /\ ~(Len(l) + m <= Len(l)) /\ (Len(l) + m) - Len(l) = m
          BY <2>6
        <5> QED
          BY <2>6, <4>3, <5>1
      <4> QED
        BY <4>1, <4>2, <4>3
    <3>2. compute_bucket_index(s, k) < i + 1
             <=> compute_bucket_index(s, k) < i \/ compute_bucket_index(s, k) = i
      BY <1>1
    <3> QED
      BY <2>1, <2>5, <3>1, <3>2 DEF Lists
  <2>12. Lists(s, i + 1, d)
    BY <2>6, <2>10, <2>11 DEF Lists
  <2> QED
    BY <2>4, <2>12 DEF d
<1>4. \A i \in Nat : i \in Right
  <2> HIDE DEF Right
  <2> QED
    BY <1>2, <1>3, EveryNumber
<1>5. \A i \in 0 .. s.capacity : Lists(s, i, Nodes(s)[i])
  <2> QED
    BY <1>1, <1>4
<1> QED
  BY <1>5

\* The table after some insertions comes from the one before the last of them.
LEMMA InsertedStep ==
    ASSUME NEW s, NEW nodes \in Seq(Keys)
    PROVE  /\ Inserted(s, nodes)[0] = s
           /\ \A i \in 1 .. Len(nodes) :
                 Inserted(s, nodes)[i] = insert_into_bucket(Inserted(s, nodes)[i - 1], nodes[i])
<1> DEFINE N == Len(nodes)
           Eq(f, n) == [i \in 0 .. n |-> IF i = 0 THEN s
                                         ELSE insert_into_bucket(f[i - 1], nodes[i])]
           Defined == {n \in Nat : \E f : f = Eq(f, n)}
<1>1. N \in Nat
  OBVIOUS
<1>2. 0 \in Defined
  <2> DEFINE f == [i \in 0 .. 0 |-> s]
  <2>1. f = Eq(f, 0)
    OBVIOUS
  <2> QED
    BY <2>1
<1>3. ASSUME NEW n \in Nat, n \in Defined PROVE n + 1 \in Defined
  <2>1. PICK f : f = Eq(f, n)
    BY <1>3
  <2> DEFINE x == insert_into_bucket(f[n], nodes[n + 1])
             g == [i \in 0 .. n + 1 |-> IF i = n + 1 THEN x ELSE f[i]]
  <2>2. ASSUME NEW i \in 0 .. n + 1 PROVE g[i] = Eq(g, n + 1)[i]
    <3>1. CASE i = 0
      BY <2>1, <3>1
    <3>2. CASE i = n + 1
      <4>1. g[i] = insert_into_bucket(f[n], nodes[n + 1])
        BY <3>2
      <4>2. i - 1 = n /\ g[n] = f[n] /\ i # 0
        BY <3>2
      <4>3. Eq(g, n + 1)[i] = insert_into_bucket(g[i - 1], nodes[i])
        BY <4>2
      <4> HIDE DEF g
      <4> QED
        BY <3>2, <4>1, <4>2, <4>3
    <3>3. CASE i # 0 /\ i # n + 1
      <4>1. i \in 0 .. n /\ g[i] = f[i] /\ g[i - 1] = f[i - 1]
        BY <3>3
      <4>2. f[i] = insert_into_bucket(f[i - 1], nodes[i])
        BY <2>1, <3>3, <4>1
      <4>3. Eq(g, n + 1)[i] = insert_into_bucket(g[i - 1], nodes[i])
        BY <3>3
      <4> HIDE DEF g
      <4> QED
        BY <4>1, <4>2, <4>3
    <3> QED
      BY <3>1, <3>2, <3>3
  <2> HIDE DEF x
  <2>3. g = Eq(g, n + 1)
    BY <2>2
  <2> HIDE DEF g, Eq
  <2> QED
    BY <2>3
<1>4. \E f : f = Eq(f, N)
  <2> HIDE DEF Defined
  <2>1. N \in Defined
    BY <1>1, <1>2, <1>3, EveryNumber
  <2> QED
    BY <2>1 DEF Defined
<1>5. Inserted(s, nodes) = CHOOSE f : f = Eq(f, N)
  BY DEF Inserted
<1>6. Inserted(s, nodes) = Eq(Inserted(s, nodes), N)
  <2> HIDE DEF Eq
  <2> QED
    BY <1>4, <1>5
<1> DEFINE T == Inserted(s, nodes)
<1> HIDE DEF T
<1>7. T = Eq(T, N)
  BY <1>6 DEF T
<1>8. T[0] = s /\ \A i \in 1 .. N : T[i] = insert_into_bucket(T[i - 1], nodes[i])
  BY <1>1, <1>7
<1> QED
  BY <1>8 DEF T

\* Inserting a list of different nodes adds these nodes.
LEMMA InsertedTidy ==
    ASSUME NEW s, IsStore(s), Tidy(s), NEW nodes \in Seq(Keys),
           \A m, n \in 1 .. Len(nodes) : nodes[m] = nodes[n] => m = n,
           \A k \in Keys : ~find_in_bucket(s, k)
    PROVE  LET new == Inserted(s, nodes)[Len(nodes)]
           IN  /\ IsStore(new) /\ new.capacity = s.capacity /\ new.value = s.value
               /\ Tidy(new)
               /\ \A k \in Keys : find_in_bucket(new, k)
                                      <=> \E m \in 1 .. Len(nodes) : nodes[m] = k
<1> DEFINE T(i) == Inserted(s, nodes)[i]
           After(t, i) == /\ IsStore(t) /\ t.capacity = s.capacity /\ t.value = s.value
                          /\ Tidy(t)
                          /\ \A k \in Keys : find_in_bucket(t, k)
                                                 <=> \E m \in 1 .. i : nodes[m] = k
           Right == {i \in Nat : i <= Len(nodes) => After(T(i), i)}
<1>1. T(0) = s /\ \A i \in 1 .. Len(nodes) : T(i) = insert_into_bucket(T(i - 1), nodes[i])
  BY InsertedStep
<1> HIDE DEF T
<1>2. 0 \in Right
  <2>1. After(s, 0)
    OBVIOUS
  <2> HIDE DEF After
  <2> QED
    BY <1>1, <2>1
<1>3. ASSUME NEW i \in Nat, i \in Right PROVE i + 1 \in Right
  <2> SUFFICES ASSUME i + 1 <= Len(nodes) PROVE After(T(i + 1), i + 1)
    OBVIOUS
  <2> DEFINE t == T(i)
             k == nodes[i + 1]
             new == insert_into_bucket(t, k)
  <2>1. After(t, i)
    <3> HIDE DEF After
    <3>1. i <= Len(nodes)
      OBVIOUS
    <3> QED
      BY <1>3, <3>1
  <2>2. k \in Keys /\ i + 1 \in 1 .. Len(nodes) /\ (i + 1) - 1 = i
    OBVIOUS
  <2>3. T(i + 1) = new
    BY <1>1, <2>2
  <2>4. \A m \in 1 .. i : nodes[m] # k
    BY <2>2
  <2>5. ~find_in_bucket(t, k)
    BY <2>1, <2>2, <2>4
  <2> HIDE DEF t, k
  <2>6. IsStore(new) /\ new.capacity = t.capacity /\ new.value = t.value
    BY <2>1, <2>2, InsertFields
  <2>7. Tidy(new) /\ \A j \in Keys : find_in_bucket(new, j) <=> j = k \/ find_in_bucket(t, j)
    BY <2>1, <2>2, <2>5, InsertTidy
  <2>8. \A j \in Keys : (\E m \in 1 .. i + 1 : nodes[m] = j)
                            <=> j = k \/ \E m \in 1 .. i : nodes[m] = j
    BY DEF k
  <2> HIDE DEF new
  <2>9. After(new, i + 1)
    BY <2>1, <2>6, <2>7, <2>8
  <2> QED
    BY <2>3, <2>9
<1>4. After(T(Len(nodes)), Len(nodes))
  <2>1. Len(nodes) \in Right
    <3> HIDE DEF Right
    <3> QED
      BY <1>2, <1>3, EveryNumber
  <2> HIDE DEF After
  <2> QED
    BY <2>1
<1> QED
  BY <1>4 DEF T

\* A resize changes neither the keys that are found nor their values.
LEMMA ResizeTidy ==
    ASSUME NEW s, IsStore(s), Tidy(s), NEW n \in Nat \ {0}
    PROVE  LET new == resize(s, n)
           IN  /\ IsStore(new) /\ new.capacity = n /\ new.value = s.value
               /\ Tidy(new)
               /\ \A k \in Keys : find_in_bucket(new, k) <=> find_in_bucket(s, k)
<1> DEFINE nodes == Nodes(s)[s.capacity]
           empty == reset_to_capacity(s, n)
           new == Inserted(empty, nodes)[Len(nodes)]
<1>1. s.capacity \in 0 .. s.capacity
      /\ \A k \in Keys : compute_bucket_index(s, k) < s.capacity
  BY BucketOfKey DEF IsStore, Buckets
<1>2. /\ nodes \in Seq(Keys)
      /\ \A i, j \in 1 .. Len(nodes) : nodes[i] = nodes[j] => i = j
      /\ \A k \in Keys : (\E m \in 1 .. Len(nodes) : nodes[m] = k) <=> find_in_bucket(s, k)
  <2>1. Lists(s, s.capacity, nodes)
    BY <1>1, NodesAre
  <2> QED
    BY <1>1, <2>1 DEF Lists
<1>3. /\ IsStore(empty) /\ empty.capacity = n /\ empty.value = s.value /\ Tidy(empty)
      /\ \A k \in Keys : ~find_in_bucket(empty, k)
  BY ResetTidy DEF IsStore
<1>4. resize(s, n) = new
  BY DEF resize
<1> HIDE DEF nodes, empty
<1>5. /\ IsStore(new) /\ new.capacity = empty.capacity /\ new.value = empty.value
      /\ Tidy(new)
      /\ \A k \in Keys : find_in_bucket(new, k) <=> \E m \in 1 .. Len(nodes) : nodes[m] = k
  BY <1>2, <1>3, InsertedTidy
<1> HIDE DEF new
<1> QED
  BY <1>2, <1>3, <1>4, <1>5

-----------------------------------------------------------------------------
(* The operations as changes of what the table holds                          *)

\* Storing a value leaves every chain as it is.
LEMMA ValueTidy ==
    ASSUME NEW s, IsStore(s), Tidy(s), NEW k \in Keys, NEW v \in Values
    PROVE  LET new == [s EXCEPT !.value[k] = v]
           IN  /\ IsStore(new) /\ new.capacity = s.capacity
               /\ new.value = [s.value EXCEPT ![k] = v]
               /\ Tidy(new)
               /\ \A j \in Keys : find_in_bucket(new, j) <=> find_in_bucket(s, j)
<1> DEFINE new == [s EXCEPT !.value[k] = v]
<1>1. /\ new.capacity = s.capacity /\ new.heads = s.heads /\ new.tails = s.tails
      /\ new.lengths = s.lengths /\ new.next = s.next
      /\ new.value = [s.value EXCEPT ![k] = v]
  OBVIOUS
<1> HIDE DEF new
<1>2. IsStore(new) /\ Buckets(new) = Buckets(s)
  BY <1>1 DEF IsStore, Buckets
<1>3. \A j \in Keys : compute_bucket_index(new, j) = compute_bucket_index(s, j)
  BY <1>1 DEF compute_bucket_index
<1>4. ASSUME NEW b \in Buckets(s) PROVE Chain(new, b) = Chain(s, b) /\ Linked(new, b, Chain(s, b))
  <2> DEFINE c == Chain(s, b)
  <2>1. Linked(s, b, c)
    BY DEF Tidy
  <2> HIDE DEF c
  <2>2. \A i \in 1 .. Len(c) : c[i] \in Keys
    BY <2>1 DEF Linked
  <2>3. Linked(new, b, c)
    BY <1>1, <1>3, <2>1, <2>2 DEF Linked
  <2>4. Chain(new, b) = c
    BY <1>2, <2>3, ChainIs DEF IsStore
  <2> QED
    BY <2>3, <2>4 DEF c
<1>5. Tidy(new)
  BY <1>2, <1>4 DEF Tidy
<1>6. \A j \in Keys : Bucket(new, j) = Bucket(s, j)
  BY <1>3, <1>4, BucketOfKey DEF Bucket, IsStore
<1> QED
  BY <1>1, <1>2, <1>5, <1>6 DEF new, find_in_bucket

LEMMA ContentsAt ==
    ASSUME NEW s, NEW k \in Keys
    PROVE  Contents(s)[k] = IF find_in_bucket(s, k) THEN s.value[k] ELSE NoValue
BY DEF Contents

\* A found entry is overwritten.
LEMMA ValueContents ==
    ASSUME NEW s, IsStore(s), Tidy(s), NEW k \in Keys, NEW v \in Values, find_in_bucket(s, k)
    PROVE  Contents([s EXCEPT !.value[k] = v]) = [Contents(s) EXCEPT ![k] = v]
<1> DEFINE new == [s EXCEPT !.value[k] = v]
<1>1. /\ new.value = [s.value EXCEPT ![k] = v]
      /\ \A j \in Keys : find_in_bucket(new, j) <=> find_in_bucket(s, j)
  BY ValueTidy
<1> HIDE DEF new
<1>2. Contents(new) = [Contents(s) EXCEPT ![k] = v]
  BY <1>1 DEF Contents, IsStore
<1> QED
  BY <1>2 DEF new

\* A new node is added with its value.
LEMMA InsertNodeTidy ==
    ASSUME NEW s, IsStore(s), Tidy(s), NEW k \in Keys, NEW v \in Values, ~find_in_bucket(s, k)
    PROVE  LET new == insert_node(s, k, v)
           IN  /\ IsStore(new) /\ new.capacity = s.capacity
               /\ new.value = [s.value EXCEPT ![k] = v]
               /\ Tidy(new)
               /\ \A j \in Keys : find_in_bucket(new, j) <=> j = k \/ find_in_bucket(s, j)
<1> DEFINE mid == insert_into_bucket(s, k)
           new == insert_node(s, k, v)
<1>1. IsStore(mid) /\ mid.capacity = s.capacity /\ mid.value = s.value
  BY InsertFields
<1>2. Tidy(mid) /\ \A j \in Keys : find_in_bucket(mid, j) <=> j = k \/ find_in_bucket(s, j)
  BY InsertTidy
<1>3. new = [mid EXCEPT !.value[k] = v]
  BY DEF insert_node
<1> HIDE DEF mid, new
<1>4. /\ IsStore(new) /\ new.capacity = mid.capacity /\ new.value = [mid.value EXCEPT ![k] = v]
      /\ Tidy(new)
      /\ \A j \in Keys : find_in_bucket(new, j) <=> find_in_bucket(mid, j)
  BY <1>1, <1>2, <1>3, ValueTidy
<1> QED
  BY <1>1, <1>2, <1>4 DEF new

\* A new entry is held with its value.
LEMMA InsertContents ==
    ASSUME NEW s, IsStore(s), Tidy(s), NEW k \in Keys, NEW v \in Values, ~find_in_bucket(s, k)
    PROVE  Contents(insert_node(s, k, v)) = [Contents(s) EXCEPT ![k] = v]
<1> DEFINE new == insert_node(s, k, v)
<1>1. /\ new.value = [s.value EXCEPT ![k] = v]
      /\ \A j \in Keys : find_in_bucket(new, j) <=> j = k \/ find_in_bucket(s, j)
  BY InsertNodeTidy
<1> HIDE DEF new
<1>2. Contents(new) = [Contents(s) EXCEPT ![k] = v]
  BY <1>1 DEF Contents, IsStore
<1> QED
  BY <1>2 DEF new

\* A found entry is removed.
LEMMA UnlinkContents ==
    ASSUME NEW s, IsStore(s), Tidy(s), NEW k \in Keys, find_in_bucket(s, k)
    PROVE  Contents(unlink_from_bucket_chain(s, k)) = [Contents(s) EXCEPT ![k] = NoValue]
<1> DEFINE new == unlink_from_bucket_chain(s, k)
<1>1. new.value = s.value /\ \A j \in Keys : find_in_bucket(new, j) <=> j # k /\ find_in_bucket(s, j)
  BY UnlinkTidy
<1> HIDE DEF new
<1>2. Contents(new) = [Contents(s) EXCEPT ![k] = NoValue]
  BY <1>1 DEF Contents
<1> QED
  BY <1>2 DEF new

\* A resize changes nothing that is held.
LEMMA ResizeContents ==
    ASSUME NEW s, IsStore(s), Tidy(s), NEW n \in Nat \ {0}
    PROVE  Contents(resize(s, n)) = Contents(s)
<1> DEFINE new == resize(s, n)
<1>1. new.value = s.value /\ \A j \in Keys : find_in_bucket(new, j) <=> find_in_bucket(s, j)
  BY ResizeTidy
<1> HIDE DEF new
<1>2. Contents(new) = Contents(s)
  BY <1>1 DEF Contents
<1> QED
  BY <1>2 DEF new

\* A table in order is well-formed.
LEMMA TidyWellFormed ==
    ASSUME NEW s, Tidy(s)
    PROVE  WellFormed(s)
<1> SUFFICES ASSUME NEW b \in Buckets(s)
             PROVE  LET c == Chain(s, b)
                    IN  /\ IsInjective(c)
                        /\ Len(c) = s.lengths[b]
                        /\ \A i \in DOMAIN c : compute_bucket_index(s, c[i]) = b
                        /\ s.tails[b] = IF c = <<>> THEN NoNode ELSE Last(c)
                        /\ c # <<>> => s.next[Last(c)] = NoNode
  BY DEF WellFormed
<1> DEFINE c == Chain(s, b)
<1>1. Linked(s, b, c)
  BY DEF Tidy
<1> HIDE DEF c
<1>2. c \in Seq(Keys) /\ DOMAIN c = 1 .. Len(c) /\ (c = <<>> <=> Len(c) = 0)
  BY <1>1, EmptySeq DEF Linked
<1>3. /\ IsInjective(c)
      /\ Len(c) = s.lengths[b]
      /\ \A i \in DOMAIN c : compute_bucket_index(s, c[i]) = b
      /\ s.tails[b] = IF c = <<>> THEN NoNode ELSE Last(c)
      /\ c # <<>> => s.next[Last(c)] = NoNode
  BY <1>1, <1>2 DEF Linked, IsInjective, Last
<1> QED
  BY <1>3 DEF c


-----------------------------------------------------------------------------
(* HashMap: the inductive invariant                                          *)

InOperation == {"acquire", "lock_slice", "find", "act", "count", "count_write",
                "load_factor", "unlock"}
HoldsResize == InOperation \ {"acquire"}
HoldsSlice == HoldsResize \ {"lock_slice"}

\* A thread inside an operation has a request.
Requested == \A t \in Threads : pc[t] \in InOperation => request[t] \in Request

\* Who holds the resize lock, and that it is held shared or by one alone.
ResizeLock ==
    /\ \A t \in Threads : pc[t] \in HoldsResize <=> t \in resize_readers
    /\ \A t \in Threads : pc[t] = "resize" <=> resize_writer = t
    /\ resize_writer # NoThread => resize_readers = {}

\* A thread keeps the slice of its key while it holds the resize lock shared, and
\* has this slice's lock for reading or for writing.
SliceLocks ==
    /\ \A t \in Threads : pc[t] \in HoldsResize =>
          slice[t] = compute_bucket_index(store, key(t)) % NumSlices
    /\ \A t \in Threads : pc[t] \in HoldsSlice =>
          IF kind(t) \in ReadKinds THEN t \in slice_readers[slice[t]]
                                   ELSE slice_writer[slice[t]] = t
    /\ \A i \in Slices : slice_writer[i] # NoThread => slice_readers[i] = {}

\* The chains are in order and every entry has a value.
StoreInOrder ==
    /\ Tidy(store)
    /\ \A k \in Keys : find_in_bucket(store, k) => store.value[k] \in Values

\* What a thread has found still holds when it acts on it.
FoundIsCurrent ==
    \A t \in Threads : pc[t] = "act" => (found[t] <=> find_in_bucket(store, key(t)))

Inv == TypeOK /\ Requested /\ ResizeLock /\ SliceLocks /\ StoreInOrder /\ FoundIsCurrent

-----------------------------------------------------------------------------
(* Consequences of the locks                                                  *)

LEMMA RequestFacts ==
    ASSUME NEW r \in Request
    PROVE  /\ r \in [kind : Kinds, key : Keys, value : Values \cup {NoValue}]
           /\ r.kind \in ReadKinds \cup AddKinds \cup RemoveKinds
           /\ r.kind \in ValueKinds \cup AddKinds => r.value \in Values
           /\ r.kind = "get_or_add" => r.value = DefaultValue
<1>1. PICK kd \in Kinds : r \in [kind : {kd}, key : Keys, value : ValuesOf(kd)]
  BY DEF Request
<1>2. ValuesOf(kd) \subseteq Values \cup {NoValue}
      /\ (kd \in ValueKinds \cup AddKinds => ValuesOf(kd) \subseteq Values)
      /\ (kd = "get_or_add" => ValuesOf(kd) = {DefaultValue})
  BY KVStoreAssumption DEF ValuesOf, ValueKinds, AddKinds
<1> QED
  BY <1>1, <1>2, HashMapAssumption

\* Two threads hold the lock of one slice only to read.
LEMMA SliceExclusion ==
    ASSUME Inv, NEW t \in Threads, NEW u \in Threads, t # u,
           pc[t] \in HoldsSlice, pc[u] \in HoldsSlice, slice[t] = slice[u]
    PROVE  kind(t) \in ReadKinds /\ kind(u) \in ReadKinds
<1>1. slice[t] \in Slices /\ slice[u] \in Slices
  BY DEF Inv, TypeOK
<1>2. t # NoThread /\ u # NoThread
  BY HashMapAssumption
<1> QED
  BY <1>1, <1>2 DEF Inv, SliceLocks

\* A bucket is in one slice, so the same holds of two threads at one bucket.
LEMMA SameBucketSameSlice ==
    ASSUME Inv, NEW t \in Threads, NEW u \in Threads,
           pc[t] \in HoldsResize, pc[u] \in HoldsResize,
           compute_bucket_index(store, key(t)) = compute_bucket_index(store, key(u))
    PROVE  slice[t] = slice[u]
BY DEF Inv, SliceLocks

\* Nobody resizes while a thread holds the resize lock shared.
LEMMA ResizeExclusion ==
    ASSUME Inv, NEW t \in Threads, NEW u \in Threads, pc[t] = "resize"
    PROVE  pc[u] \notin HoldsResize
<1>1. t # NoThread
  BY HashMapAssumption
<1> QED
  BY <1>1 DEF Inv, ResizeLock

-----------------------------------------------------------------------------
(* What the steps do to the table                                             *)

LEMMA KeyType ==
    ASSUME Inv, NEW t \in Threads, pc[t] \in InOperation
    PROVE  request[t] \in Request /\ key(t) \in Keys
BY RequestFacts DEF Inv, Requested, key

\* The table that Act leaves: in order, of the same capacity, and changed at the
\* key of the operation only.
LEMMA ActStore ==
    ASSUME Inv, NEW t \in Threads, Act(t)
    PROVE  /\ IsStore(store') /\ store'.capacity = store.capacity
           /\ StoreInOrder'
           /\ \A k \in Keys \ {key(t)} :
                 find_in_bucket(store', k) <=> find_in_bucket(store, k)
           /\ kind(t) \in ReadKinds => store' = store
<1> DEFINE k == key(t)
           v == request[t].value
<1>1. /\ k \in Keys /\ IsStore(store) /\ Tidy(store)
      /\ \A j \in Keys : find_in_bucket(store, j) => store.value[j] \in Values
      /\ found[t] <=> find_in_bucket(store, k)
  BY KeyType DEF Inv, TypeOK, StoreInOrder, FoundIsCurrent, Act, InOperation
<1>2. /\ kind(t) \in ValueKinds \cup AddKinds => v \in Values
  BY KeyType, RequestFacts DEF Act, InOperation, kind
<1> HIDE DEF k, v
<1>3. CASE UpdateNode(t)
  <2>1. store' = [store EXCEPT !.value[k] = v] /\ v \in Values /\ kind(t) \notin ReadKinds
    BY <1>2, <1>3 DEF UpdateNode, k, v, ValueKinds, ReadKinds
  <2>2. /\ IsStore(store') /\ store'.capacity = store.capacity
        /\ store'.value = [store.value EXCEPT ![k] = v] /\ Tidy(store')
        /\ \A j \in Keys : find_in_bucket(store', j) <=> find_in_bucket(store, j)
    BY <1>1, <2>1, ValueTidy
  <2>3. StoreInOrder'
    BY <1>1, <2>1, <2>2 DEF StoreInOrder, IsStore
  <2> QED
    BY <2>1, <2>2, <2>3
<1>4. CASE AddNode(t)
  <2>1. store' = insert_node(store, k, v) /\ v \in Values /\ kind(t) \notin ReadKinds
        /\ ~find_in_bucket(store, k)
    BY <1>1, <1>2, <1>4 DEF AddNode, k, v, AddKinds, ReadKinds
  <2>2. /\ IsStore(store') /\ store'.capacity = store.capacity
        /\ store'.value = [store.value EXCEPT ![k] = v] /\ Tidy(store')
        /\ \A j \in Keys : find_in_bucket(store', j) <=> j = k \/ find_in_bucket(store, j)
    BY <1>1, <2>1, InsertNodeTidy
  <2>3. StoreInOrder'
    BY <1>1, <2>1, <2>2 DEF StoreInOrder, IsStore
  <2> QED
    BY <2>1, <2>2, <2>3 DEF k
<1>5. CASE RemoveNode(t)
  <2>1. store' = unlink_from_bucket_chain(store, k) /\ kind(t) \notin ReadKinds
        /\ find_in_bucket(store, k)
    BY <1>1, <1>5 DEF RemoveNode, k, RemoveKinds, ReadKinds
  <2>2. /\ IsStore(store') /\ store'.capacity = store.capacity /\ store'.value = store.value
        /\ Tidy(store')
        /\ \A j \in Keys : find_in_bucket(store', j) <=> j # k /\ find_in_bucket(store, j)
    BY <1>1, <2>1, UnlinkTidy
  <2>3. StoreInOrder'
    BY <1>1, <2>2 DEF StoreInOrder
  <2> QED
    BY <2>1, <2>2, <2>3 DEF k
<1>6. CASE LeaveAsIs(t)
  <2>1. store' = store
    BY <1>6 DEF LeaveAsIs
  <2>2. StoreInOrder'
    BY <1>1, <2>1 DEF StoreInOrder
  <2> QED
    BY <1>1, <2>1, <2>2
<1> QED
  BY <1>3, <1>4, <1>5, <1>6 DEF Act

LEMMA CapacityDoubles ==
    ASSUME IsStore(store)
    PROVE  2 * store.capacity \in Nat \ {0}
BY DEF IsStore

\* The table that a resize leaves: in order, and with the same entries.
LEMMA ResizeStore ==
    ASSUME Inv, NEW t \in Threads, Resize(t)
    PROVE  /\ IsStore(store') /\ StoreInOrder'
           /\ Contents(store') = Contents(store)
<1>1. /\ IsStore(store) /\ Tidy(store)
      /\ \A j \in Keys : find_in_bucket(store, j) => store.value[j] \in Values
  BY DEF Inv, TypeOK, StoreInOrder
<1>2. CASE needs_resize
  <2>1. store' = resize(store, 2 * store.capacity)
    BY <1>2 DEF Resize
  <2>2. 2 * store.capacity \in Nat \ {0}
    BY <1>1, CapacityDoubles
  <2>3. /\ IsStore(store') /\ store'.value = store.value /\ Tidy(store')
        /\ \A k \in Keys : find_in_bucket(store', k) <=> find_in_bucket(store, k)
    BY <1>1, <2>1, <2>2, ResizeTidy
  <2>4. Contents(store') = Contents(store)
    BY <1>1, <2>1, <2>2, ResizeContents
  <2> QED
    BY <1>1, <2>3, <2>4 DEF StoreInOrder
<1>3. CASE ~needs_resize
  <2>1. store' = store
    BY <1>3 DEF Resize
  <2> QED
    BY <1>1, <2>1 DEF StoreInOrder
<1> QED
  BY <1>2, <1>3

\* Every step leaves a table in order.
LEMMA StoreNext ==
    ASSUME Inv, [Next]_vars
    PROVE  IsStore(store') /\ StoreInOrder'
<1>1. CASE store' = store
  BY <1>1 DEF Inv, TypeOK, StoreInOrder
<1>2. ASSUME NEW t \in Threads, Act(t) PROVE IsStore(store') /\ StoreInOrder'
  BY <1>2, ActStore
<1>3. ASSUME NEW t \in Threads, Resize(t) PROVE IsStore(store') /\ StoreInOrder'
  BY <1>3, ResizeStore
<1>4. ASSUME NEW t \in Threads, Call(t) \/ Step(t), ~Act(t), ~Resize(t) PROVE store' = store
  BY <1>4 DEF Step, Call, LockResizeShared, LockSliceRead, LockSliceWrite, Find, CountRead,
              CountWrite, LoadFactorWrite, Unlock, MaybeResize, LockResizeExclusive
<1>5. CASE Done \/ UNCHANGED vars
  BY <1>1, <1>5 DEF Done, vars
<1> QED
  BY <1>1, <1>2, <1>3, <1>4, <1>5 DEF Next

-----------------------------------------------------------------------------
(* Type correctness                                                           *)

Labels == {"idle", "acquire", "lock_slice", "find", "act", "count", "count_write",
           "load_factor", "unlock", "maybe_resize", "lock_resize", "resize"}

\* Every key is in a slice.
LEMMA SliceType ==
    ASSUME IsStore(store), NEW k \in Keys
    PROVE  compute_bucket_index(store, k) % NumSlices \in Slices
<1>1. compute_bucket_index(store, k) \in Nat
  BY BucketOfKey DEF IsStore, Buckets
<1>2. \A m \in Nat, n \in Nat \ {0} : m % n \in 0 .. n - 1
  OBVIOUS
<1> QED
  BY <1>1, <1>2, HashMapAssumption DEF Slices

LEMMA MetricsType ==
    ASSUME NEW n \in Int, NEW m \in Int
    PROVE  /\ Overloaded(n, m) \in BOOLEAN
           /\ Metrics(n, m) \in [num_entries : Int, overloaded : BOOLEAN]
BY DEF Overloaded, Metrics

LEMMA TypeInit == Init => TypeOK /\ StoreInOrder
<1> SUFFICES ASSUME Init PROVE TypeOK /\ StoreInOrder
  OBVIOUS
<1>1. InitialCapacity \in Nat \ {0} /\ NumSlices \in Nat \ {0} /\ NoThread \notin Threads
      /\ MaxOps \in Nat
  BY HashMapAssumption
<1>2. IsStore(store) /\ Tidy(store) /\ \A k \in Keys : ~find_in_bucket(store, k)
  BY <1>1, ResetTidy, NodeFacts DEF Init, EmptyStore
<1>3. metrics \in [num_entries : Int, overloaded : BOOLEAN]
  BY <1>1, MetricsType DEF Init
<1> QED
  BY <1>1, <1>2, <1>3 DEF Init, TypeOK, StoreInOrder, Slices

LEMMA TypeNext ==
    ASSUME Inv, [Next]_vars
    PROVE  TypeOK'
<1> USE DEF Goto
<1>1. TypeOK
  BY DEF Inv
<1>2. IsStore(store')
  BY StoreNext
<1>3. CASE UNCHANGED vars \/ Done
  BY <1>1, <1>3 DEF TypeOK, vars, Done
<1>4. ASSUME NEW t \in Threads, Call(t) PROVE TypeOK'
  BY <1>1, <1>4, HashMapAssumption DEF TypeOK, Call, lockVars, localVars
<1>5. ASSUME NEW t \in Threads, LockResizeShared(t) PROVE TypeOK'
  <2>1. pc[t] \in InOperation
    BY <1>5 DEF LockResizeShared, InOperation
  <2>2. compute_bucket_index(store, key(t)) % NumSlices \in Slices
    BY <1>1, <2>1, KeyType, SliceType DEF TypeOK
  <2> QED
    BY <1>1, <1>5, <2>2 DEF TypeOK, LockResizeShared
<1>6. ASSUME NEW t \in Threads, LockSliceRead(t) \/ LockSliceWrite(t) PROVE TypeOK'
  BY <1>1, <1>6 DEF TypeOK, LockSliceRead, LockSliceWrite, callVars, localVars
<1>7. ASSUME NEW t \in Threads, Find(t) PROVE TypeOK'
  BY <1>1, <1>7 DEF TypeOK, Find, lockVars, find_in_bucket, Contains
<1>8. ASSUME NEW t \in Threads, Act(t) PROVE TypeOK'
  <2>1. key(t) \in Keys
    BY <1>8, KeyType DEF Act, InOperation
  <2>2. (IF found[t] THEN store.value[key(t)] ELSE NoValue) \in Values \cup {NoValue}
    BY <1>1, <2>1 DEF TypeOK, IsStore
  <2>3. pc' \in [Threads -> Labels]
    BY <1>1, <1>8 DEF TypeOK, Act, UpdateNode, AddNode, RemoveNode, LeaveAsIs, Labels
  <2> QED
    BY <1>1, <1>2, <1>8, <2>2, <2>3 DEF TypeOK, Act, lockVars, Labels
<1>9. ASSUME NEW t \in Threads, CountRead(t) PROVE TypeOK'
  <2>1. metrics.num_entries + (IF kind(t) \in AddKinds THEN 1 ELSE -1) \in Int
    BY <1>1 DEF TypeOK
  <2> QED
    BY <1>1, <1>9, <2>1 DEF TypeOK, CountRead, lockVars
<1>10. ASSUME NEW t \in Threads, CountWrite(t) PROVE TypeOK'
  BY <1>1, <1>10 DEF TypeOK, CountWrite, lockVars, callVars, localVars
<1>11. ASSUME NEW t \in Threads, LoadFactorWrite(t) PROVE TypeOK'
  <2>1. PICK n \in {tmp[t], metrics.num_entries} :
           metrics' = [metrics EXCEPT !.overloaded = Overloaded(n, store.capacity)]
    BY <1>11 DEF LoadFactorWrite
  <2>2. n \in Int /\ store.capacity \in Int
    BY <1>1 DEF TypeOK, IsStore
  <2>3. metrics' \in [num_entries : Int, overloaded : BOOLEAN]
    BY <1>1, <2>1, <2>2, MetricsType DEF TypeOK
  <2> QED
    BY <1>1, <1>11, <2>3 DEF TypeOK, LoadFactorWrite, lockVars, callVars, localVars
<1>12. ASSUME NEW t \in Threads, Unlock(t) PROVE TypeOK'
  <2>1. 0 \in Slices
    BY HashMapAssumption DEF Slices
  <2> QED
    BY <1>1, <1>12, <2>1 DEF TypeOK, Unlock
<1>13. ASSUME NEW t \in Threads, MaybeResize(t) \/ LockResizeExclusive(t) PROVE TypeOK'
  BY <1>1, <1>13 DEF TypeOK, MaybeResize, LockResizeExclusive, lockVars, callVars, localVars
<1>14. ASSUME NEW t \in Threads, Resize(t) PROVE TypeOK'
  <2>1. NumNodes(store) \in Nat
    BY KVStoreAssumption, FS_Subset, FS_CardinalityType DEF NumNodes
  <2>2. store.capacity \in Nat /\ 2 * store.capacity \in Int
    BY <1>1 DEF TypeOK, IsStore
  <2>3. Metrics(NumNodes(store), 2 * store.capacity)
           \in [num_entries : Int, overloaded : BOOLEAN]
    BY <2>1 DEF Metrics, Overloaded
  <2> QED
    BY <1>1, <1>2, <1>14, <2>3 DEF TypeOK, Resize, callVars, localVars
<1> QED
  BY <1>3, <1>4, <1>5, <1>6, <1>7, <1>8, <1>9, <1>10, <1>11, <1>12, <1>13, <1>14 DEF Next, Step

-----------------------------------------------------------------------------
(* The locks                                                                  *)

LEMMA RequestedNext ==
    ASSUME Inv, [Next]_vars
    PROVE  Requested'
<1> USE DEF Goto
<1>1. TypeOK /\ Requested
  BY DEF Inv
<1>2. CASE UNCHANGED vars \/ Done
  BY <1>1, <1>2 DEF Requested, vars, Done
<1>3. ASSUME NEW t \in Threads, Call(t) PROVE Requested'
  BY <1>1, <1>3 DEF TypeOK, Requested, Call
<1>4. ASSUME NEW t \in Threads, Act(t) PROVE Requested'
  <2>1. request' = request /\ \A u \in Threads : pc'[u] \in InOperation => pc[u] \in InOperation
    BY <1>1, <1>4 DEF TypeOK, Act, UpdateNode, AddNode, RemoveNode, LeaveAsIs, InOperation
  <2> QED
    BY <1>1, <2>1 DEF Requested
<1>5. ASSUME NEW t \in Threads, Unlock(t) PROVE Requested'
  BY <1>1, <1>5 DEF TypeOK, Requested, Unlock, InOperation
<1>6. ASSUME NEW t \in Threads,
             LockResizeShared(t) \/ LockSliceRead(t) \/ LockSliceWrite(t) \/ Find(t)
             \/ CountRead(t) \/ CountWrite(t) \/ LoadFactorWrite(t)
             \/ MaybeResize(t) \/ LockResizeExclusive(t) \/ Resize(t)
      PROVE  Requested'
  <2>1. request' = request /\ \A u \in Threads : pc'[u] \in InOperation => pc[u] \in InOperation
    BY <1>1, <1>6 DEF TypeOK, LockResizeShared, LockSliceRead, LockSliceWrite, Find, CountRead,
          CountWrite, LoadFactorWrite, MaybeResize, LockResizeExclusive, Resize,
          callVars, InOperation
  <2> QED
    BY <1>1, <2>1 DEF Requested
<1> QED
  BY <1>2, <1>3, <1>4, <1>5, <1>6 DEF Next, Step

\* A step that keeps the label of every thread on its side of these borders and
\* leaves the resize lock alone.
LEMMA ResizeLockFrame ==
    ASSUME ResizeLock, UNCHANGED <<resize_readers, resize_writer>>,
           \A u \in Threads : pc'[u] \in HoldsResize <=> pc[u] \in HoldsResize,
           \A u \in Threads : pc'[u] = "resize" <=> pc[u] = "resize"
    PROVE  ResizeLock'
BY DEF ResizeLock

LEMMA ResizeLockNext ==
    ASSUME Inv, [Next]_vars
    PROVE  ResizeLock'
<1> USE DEF Goto, HoldsResize, InOperation
<1>1. TypeOK /\ ResizeLock
  BY DEF Inv
<1>2. CASE UNCHANGED vars \/ Done
  BY <1>1, <1>2 DEF ResizeLock, vars, Done
<1>3. ASSUME NEW t \in Threads, Call(t) PROVE ResizeLock'
  BY <1>1, <1>3, ResizeLockFrame DEF TypeOK, Call, lockVars
<1>4. ASSUME NEW t \in Threads, LockResizeShared(t) PROVE ResizeLock'
  BY <1>1, <1>4 DEF TypeOK, ResizeLock, LockResizeShared
<1>5. ASSUME NEW t \in Threads,
             LockSliceRead(t) \/ LockSliceWrite(t) \/ Find(t) \/ CountRead(t) \/ CountWrite(t)
             \/ LoadFactorWrite(t) \/ MaybeResize(t)
      PROVE  ResizeLock'
  BY <1>1, <1>5, ResizeLockFrame DEF TypeOK, LockSliceRead, LockSliceWrite, Find, CountRead,
        CountWrite, LoadFactorWrite, MaybeResize, lockVars
<1>6. ASSUME NEW t \in Threads, Act(t) PROVE ResizeLock'
  BY <1>1, <1>6, ResizeLockFrame DEF TypeOK, Act, UpdateNode, AddNode, RemoveNode, LeaveAsIs,
        lockVars
<1>7. ASSUME NEW t \in Threads, Unlock(t) PROVE ResizeLock'
  BY <1>1, <1>7 DEF TypeOK, ResizeLock, Unlock
<1>8. ASSUME NEW t \in Threads, LockResizeExclusive(t) PROVE ResizeLock'
  BY <1>1, <1>8, HashMapAssumption DEF TypeOK, ResizeLock, LockResizeExclusive
<1>9. ASSUME NEW t \in Threads, Resize(t) PROVE ResizeLock'
  BY <1>1, <1>9, HashMapAssumption DEF TypeOK, ResizeLock, Resize
<1> QED
  BY <1>2, <1>3, <1>4, <1>5, <1>6, <1>7, <1>8, <1>9 DEF Next, Step

\* The capacity stands still while anyone holds the resize lock shared.
LEMMA CapacityNext ==
    ASSUME Inv, [Next]_vars, NEW u \in Threads, pc[u] \in HoldsResize
    PROVE  store'.capacity = store.capacity
<1>1. CASE UNCHANGED vars \/ Done
  BY <1>1 DEF vars, Done
<1>2. ASSUME NEW t \in Threads, Act(t) PROVE store'.capacity = store.capacity
  BY <1>2, ActStore
<1>3. ASSUME NEW t \in Threads, Resize(t) PROVE FALSE
  BY <1>3, ResizeExclusion DEF Resize
<1>4. ASSUME NEW t \in Threads, Call(t) \/ Step(t), ~Act(t), ~Resize(t) PROVE store' = store
  BY <1>4 DEF Step, Call, LockResizeShared, LockSliceRead, LockSliceWrite, Find, CountRead,
              CountWrite, LoadFactorWrite, Unlock, MaybeResize, LockResizeExclusive
<1> QED
  BY <1>1, <1>2, <1>3, <1>4 DEF Next

\* A thread that holds the resize lock shared after a step held it before, with
\* the same request and slice, or takes it in this step.
LEMMA HolderKeeps ==
    ASSUME Inv, [Next]_vars, NEW u \in Threads, pc'[u] \in HoldsResize
    PROVE  \/ LockResizeShared(u)
           \/ pc[u] \in HoldsResize /\ slice'[u] = slice[u] /\ request'[u] = request[u]
<1> USE DEF Goto, HoldsResize, InOperation
<1>1. TypeOK
  BY DEF Inv
<1>2. CASE UNCHANGED vars \/ Done
  BY <1>2 DEF vars, Done
<1>3. ASSUME NEW t \in Threads, Call(t)
      PROVE  pc[u] \in HoldsResize /\ slice'[u] = slice[u] /\ request'[u] = request[u]
  BY <1>1, <1>3 DEF TypeOK, Call, localVars
<1>4. ASSUME NEW t \in Threads, LockResizeShared(t), t # u
      PROVE  pc[u] \in HoldsResize /\ slice'[u] = slice[u] /\ request'[u] = request[u]
  BY <1>1, <1>4 DEF TypeOK, LockResizeShared
<1>5. ASSUME NEW t \in Threads,
             LockSliceRead(t) \/ LockSliceWrite(t) \/ Find(t) \/ CountRead(t) \/ CountWrite(t)
             \/ LoadFactorWrite(t) \/ MaybeResize(t) \/ LockResizeExclusive(t) \/ Resize(t)
      PROVE  pc[u] \in HoldsResize /\ slice'[u] = slice[u] /\ request'[u] = request[u]
  BY <1>1, <1>5 DEF TypeOK, LockSliceRead, LockSliceWrite, Find, CountRead, CountWrite,
        LoadFactorWrite, MaybeResize, LockResizeExclusive, Resize, callVars, localVars
<1>6. ASSUME NEW t \in Threads, Act(t)
      PROVE  pc[u] \in HoldsResize /\ slice'[u] = slice[u] /\ request'[u] = request[u]
  BY <1>1, <1>6 DEF TypeOK, Act, UpdateNode, AddNode, RemoveNode, LeaveAsIs
<1>7. ASSUME NEW t \in Threads, Unlock(t)
      PROVE  pc[u] \in HoldsResize /\ slice'[u] = slice[u] /\ request'[u] = request[u]
  BY <1>1, <1>7 DEF TypeOK, Unlock
<1> QED
  BY <1>2, <1>3, <1>4, <1>5, <1>6, <1>7 DEF Next, Step

\* The threads with a slice lock stay those who have it.
LEMMA SliceLockFrame ==
    ASSUME Inv, [Next]_vars, UNCHANGED <<slice_readers, slice_writer>>,
           \A u \in Threads : pc'[u] \in HoldsSlice => pc[u] \in HoldsSlice
    PROVE  /\ \A u \in Threads : pc'[u] \in HoldsSlice =>
                 IF kind(u)' \in ReadKinds THEN u \in slice_readers'[slice'[u]]
                                           ELSE slice_writer'[slice'[u]] = u
           /\ \A i \in Slices : slice_writer'[i] # NoThread => slice_readers'[i] = {}
<1>1. ASSUME NEW u \in Threads, pc'[u] \in HoldsSlice
      PROVE  slice'[u] = slice[u] /\ request'[u] = request[u]
  <2>1. pc[u] \in HoldsSlice /\ pc'[u] \in HoldsResize
    BY <1>1 DEF HoldsSlice
  <2>2. ~LockResizeShared(u)
    BY <2>1 DEF LockResizeShared, HoldsSlice, HoldsResize, InOperation
  <2> QED
    BY <2>1, <2>2, HolderKeeps
<1> QED
  BY <1>1 DEF Inv, SliceLocks, kind

LEMMA SliceLocksNext ==
    ASSUME Inv, [Next]_vars
    PROVE  SliceLocks'
<1> USE DEF Goto, HoldsSlice, HoldsResize, InOperation
<1> DEFINE Keep == /\ \A u \in Threads : pc'[u] \in HoldsSlice =>
                         IF kind(u)' \in ReadKinds THEN u \in slice_readers'[slice'[u]]
                                                   ELSE slice_writer'[slice'[u]] = u
                   /\ \A i \in Slices : slice_writer'[i] # NoThread => slice_readers'[i] = {}
<1>1. TypeOK /\ SliceLocks
  BY DEF Inv
<1>2. ASSUME NEW u \in Threads, pc'[u] \in HoldsResize
      PROVE  slice'[u] = compute_bucket_index(store', key(u)') % NumSlices
  <2>1. CASE LockResizeShared(u)
    BY <1>1, <2>1 DEF TypeOK, LockResizeShared, key
  <2>2. CASE pc[u] \in HoldsResize /\ slice'[u] = slice[u] /\ request'[u] = request[u]
    <3>1. store'.capacity = store.capacity
      BY <2>2, CapacityNext
    <3> QED
      BY <1>1, <2>2, <3>1 DEF SliceLocks, compute_bucket_index, key
  <2> QED
    BY <1>2, <2>1, <2>2, HolderKeeps
<1>3. CASE UNCHANGED vars \/ Done
  <2>1. UNCHANGED <<slice_readers, slice_writer>>
        /\ \A u \in Threads : pc'[u] \in HoldsSlice => pc[u] \in HoldsSlice
    BY <1>3 DEF vars, Done
  <2> QED
    BY <1>2, <2>1, SliceLockFrame DEF SliceLocks
<1>4. ASSUME NEW t \in Threads,
             Call(t) \/ LockResizeShared(t) \/ Find(t) \/ CountRead(t) \/ CountWrite(t)
             \/ LoadFactorWrite(t) \/ MaybeResize(t) \/ LockResizeExclusive(t) \/ Resize(t)
      PROVE  Keep
  <2>1. UNCHANGED <<slice_readers, slice_writer>>
        /\ \A u \in Threads : pc'[u] \in HoldsSlice => pc[u] \in HoldsSlice
    BY <1>1, <1>4 DEF TypeOK, Call, LockResizeShared, Find, CountRead, CountWrite,
          LoadFactorWrite, MaybeResize, LockResizeExclusive, Resize, lockVars
  <2> QED
    BY <2>1, SliceLockFrame
<1>5. ASSUME NEW t \in Threads, Act(t) PROVE Keep
  <2>1. UNCHANGED <<slice_readers, slice_writer>>
        /\ \A u \in Threads : pc'[u] \in HoldsSlice => pc[u] \in HoldsSlice
    BY <1>1, <1>5 DEF TypeOK, Act, UpdateNode, AddNode, RemoveNode, LeaveAsIs, lockVars
  <2> QED
    BY <2>1, SliceLockFrame
<1>6. ASSUME NEW t \in Threads, LockSliceRead(t) PROVE Keep
  BY <1>1, <1>6 DEF TypeOK, SliceLocks, LockSliceRead, callVars, localVars, kind
<1>7. ASSUME NEW t \in Threads, LockSliceWrite(t) PROVE Keep
  BY <1>1, <1>7, HashMapAssumption DEF TypeOK, SliceLocks, LockSliceWrite, callVars, localVars, kind
<1>8. ASSUME NEW t \in Threads, Unlock(t) PROVE Keep
  <2>1. \A u \in Threads : pc'[u] \in HoldsSlice =>
           u # t /\ pc[u] \in HoldsSlice /\ slice'[u] = slice[u] /\ request'[u] = request[u]
    BY <1>1, <1>8 DEF TypeOK, Unlock
  <2>2. /\ slice_readers' = [slice_readers EXCEPT ![slice[t]] = @ \ {t}]
        /\ slice_writer' = [slice_writer EXCEPT ![slice[t]] = IF @ = t THEN NoThread ELSE @]
    BY <1>8 DEF Unlock
  <2> QED
    BY <1>1, <2>1, <2>2 DEF TypeOK, SliceLocks, kind
<1>9. ASSUME Keep PROVE SliceLocks'
  BY <1>2, <1>9 DEF SliceLocks
<1> HIDE DEF Keep
<1> QED
  BY <1>3, <1>4, <1>5, <1>6, <1>7, <1>8, <1>9 DEF Next, Step

\* What another thread does between a thread's Find and its Act leaves what it
\* found as it is.
LEMMA FoundNext ==
    ASSUME Inv, [Next]_vars
    PROVE  FoundIsCurrent'
<1> USE DEF Goto
<1> SUFFICES ASSUME NEW u \in Threads, pc'[u] = "act"
             PROVE  found'[u] <=> find_in_bucket(store', key(u)')
  BY DEF FoundIsCurrent
<1>1. TypeOK /\ FoundIsCurrent
  BY DEF Inv
<1>2. CASE Find(u)
  BY <1>1, <1>2 DEF TypeOK, Find, key
<1>3. ASSUME ~Find(u) PROVE pc[u] = "act" /\ found'[u] = found[u] /\ request'[u] = request[u]
  <2>1. CASE UNCHANGED vars \/ Done
    BY <2>1 DEF vars, Done
  <2>2. ASSUME NEW t \in Threads, Act(t)
        PROVE  pc[u] = "act" /\ found'[u] = found[u] /\ request'[u] = request[u]
    BY <1>1, <2>2 DEF TypeOK, Act, UpdateNode, AddNode, RemoveNode, LeaveAsIs
  <2>3. ASSUME NEW t \in Threads, Find(t)
        PROVE  pc[u] = "act" /\ found'[u] = found[u] /\ request'[u] = request[u]
    BY <1>1, <1>3, <2>3 DEF TypeOK, Find
  <2>4. ASSUME NEW t \in Threads,
               Call(t) \/ LockResizeShared(t) \/ LockSliceRead(t) \/ LockSliceWrite(t)
               \/ CountRead(t) \/ CountWrite(t) \/ LoadFactorWrite(t)
               \/ MaybeResize(t) \/ LockResizeExclusive(t) \/ Resize(t)
        PROVE  pc[u] = "act" /\ found'[u] = found[u] /\ request'[u] = request[u]
    BY <1>1, <2>4 DEF TypeOK, Call, LockResizeShared, LockSliceRead, LockSliceWrite, CountRead,
          CountWrite, LoadFactorWrite, MaybeResize, LockResizeExclusive, Resize,
          callVars, localVars
  <2>5. ASSUME NEW t \in Threads, Unlock(t)
        PROVE  pc[u] = "act" /\ found'[u] = found[u] /\ request'[u] = request[u]
    BY <1>1, <2>5 DEF TypeOK, Unlock
  <2> QED
    BY <2>1, <2>2, <2>3, <2>4, <2>5 DEF Next, Step
<1>4. ASSUME ~Find(u) PROVE find_in_bucket(store', key(u)) <=> find_in_bucket(store, key(u))
  <2>1. pc[u] = "act" /\ key(u) \in Keys /\ pc[u] \in HoldsResize /\ pc[u] \in HoldsSlice
    BY <1>3, <1>4, KeyType DEF InOperation, HoldsResize, HoldsSlice
  <2>2. CASE store' = store
    BY <2>2
  <2>3. ASSUME NEW t \in Threads, Act(t)
        PROVE  find_in_bucket(store', key(u)) <=> find_in_bucket(store, key(u))
    <3>1. t # u
      BY <1>1, <2>3 DEF TypeOK, Act, UpdateNode, AddNode, RemoveNode, LeaveAsIs
    <3>2. pc[t] \in HoldsResize /\ pc[t] \in HoldsSlice
      BY <2>3 DEF Act, InOperation, HoldsResize, HoldsSlice
    <3>3. CASE key(t) = key(u)
      <4>1. slice[t] = slice[u]
        BY <2>1, <3>2, <3>3, SameBucketSameSlice
      <4>2. kind(t) \in ReadKinds
        BY <2>1, <3>1, <3>2, <4>1, SliceExclusion
      <4> QED
        BY <2>3, <4>2, ActStore
    <3>4. CASE key(t) # key(u)
      BY <2>1, <2>3, <3>4, ActStore
    <3> QED
      BY <3>3, <3>4
  <2>4. ASSUME NEW t \in Threads, Resize(t) PROVE FALSE
    BY <2>1, <2>4, ResizeExclusion DEF Resize
  <2>5. ASSUME NEW t \in Threads, Call(t) \/ Step(t), ~Act(t), ~Resize(t) PROVE store' = store
    BY <2>5 DEF Step, Call, LockResizeShared, LockSliceRead, LockSliceWrite, Find, CountRead,
                CountWrite, LoadFactorWrite, Unlock, MaybeResize, LockResizeExclusive
  <2>6. CASE UNCHANGED vars \/ Done
    BY <2>2, <2>6 DEF vars, Done
  <2> QED
    BY <2>2, <2>3, <2>4, <2>5, <2>6 DEF Next
<1> QED
  BY <1>1, <1>2, <1>3, <1>4 DEF FoundIsCurrent, key

-----------------------------------------------------------------------------
(* Theorems                                                                   *)

LEMMA InvInit == Init => Inv
<1> SUFFICES ASSUME Init PROVE Inv
  OBVIOUS
<1>1. TypeOK /\ StoreInOrder
  BY TypeInit
<1>2. \A t \in Threads : pc[t] = "idle"
  BY DEF Init
<1>3. Requested /\ FoundIsCurrent
  BY <1>2 DEF Requested, FoundIsCurrent, InOperation
<1>4. ResizeLock
  BY <1>2, HashMapAssumption DEF Init, ResizeLock, HoldsResize, InOperation
<1>5. SliceLocks
  BY <1>2 DEF Init, SliceLocks, HoldsSlice, HoldsResize, InOperation
<1> QED
  BY <1>1, <1>3, <1>4, <1>5 DEF Inv

LEMMA InvNext == Inv /\ [Next]_vars => Inv'
BY TypeNext, RequestedNext, ResizeLockNext, SliceLocksNext, StoreNext, FoundNext DEF Inv

\* The locks, the table and what the threads know of it fit together in every
\* reachable state: acquire_read_lock, acquire_write_lock and maybe_resize give
\* each thread what it relies on.
THEOREM InvariantHolds == Spec => []Inv
BY InvInit, InvNext, PTL DEF Spec

\* The hash map keeps its types: the pointers of the table lead to nodes, the
\* locks are held by threads, and a thread's slice is a slice.
THEOREM TypeCorrect == Spec => []TypeOK
<1>1. Inv => TypeOK
  BY DEF Inv
<1> QED
  BY <1>1, InvariantHolds, PTL

\* The resize lock and the slice locks keep two threads from working on one
\* bucket unless both only read, and keep a resize from everyone at work, for
\* any number of slices, any capacity and any hash function.
THEOREM BucketsExclusive == Spec => []BucketExclusion
<1>1. ASSUME Inv PROVE BucketExclusion
  <2> SUFFICES ASSUME NEW t \in Threads, NEW u \in Threads, Working(t)
               PROVE  /\ Working(u) /\ t # u
                           /\ compute_bucket_index(store, key(t)) = compute_bucket_index(store, key(u))
                             => kind(t) \in ReadKinds /\ kind(u) \in ReadKinds
                      /\ pc[u] # "resize"
    BY DEF BucketExclusion
  <2>1. \A v \in Threads : Working(v) => pc[v] \in HoldsSlice /\ pc[v] \in HoldsResize
    BY DEF Working, HoldsSlice, HoldsResize, InOperation
  <2>2. pc[u] # "resize"
    BY <1>1, <2>1, ResizeExclusion
  <2>3. ASSUME Working(u), t # u,
               compute_bucket_index(store, key(t)) = compute_bucket_index(store, key(u))
        PROVE  kind(t) \in ReadKinds /\ kind(u) \in ReadKinds
    <3>1. slice[t] = slice[u]
      BY <1>1, <2>1, <2>3, SameBucketSameSlice
    <3> QED
      BY <1>1, <2>1, <2>3, <3>1, SliceExclusion
  <2> QED
    BY <2>2, <2>3
<1> QED
  BY <1>1, InvariantHolds, PTL

\* The pointers of every bucket describe one chain of the nodes that hash to it,
\* as long as its counted length and ending in its tail, whatever insertions,
\* removals and resizes the threads have made.
THEOREM ChainsInOrder == Spec => []ChainsWellFormed
<1>1. Inv => ChainsWellFormed
  BY TidyWellFormed DEF Inv, StoreInOrder, ChainsWellFormed
<1> QED
  BY <1>1, InvariantHolds, PTL

-----------------------------------------------------------------------------
(* The hash map implements the atomic map                                     *)

Pending == {"acquire", "lock_slice", "find", "act"}
Answered == {"count", "count_write", "load_factor", "unlock"}

PhaseOf(label) == IF label \in Pending THEN "pending"
                  ELSE IF label \in Answered THEN "done" ELSE "idle"

LEMMA PhaseIs == phase = [t \in Threads |-> PhaseOf(pc[t])]
BY DEF phase, PhaseOf, Pending, Answered

LEMMA PhasePrimed == phase' = [t \in Threads |-> PhaseOf(pc'[t])]
BY DEF phase, PhaseOf, Pending, Answered

\* A label of one thread changes its phase only.
LEMMA PhaseGoto ==
    ASSUME TypeOK, NEW t \in Threads, NEW l, Goto(t, l)
    PROVE  phase' = [phase EXCEPT ![t] = PhaseOf(l)]
<1>1. \A u \in Threads : pc'[u] = IF u = t THEN l ELSE pc[u]
  BY DEF TypeOK, Goto
<1> QED
  BY <1>1, PhaseIs, PhasePrimed

\* A step from a label to one of the same phase.
LEMMA PhaseStays ==
    ASSUME TypeOK, NEW t \in Threads, NEW l, Goto(t, l), PhaseOf(l) = PhaseOf(pc[t])
    PROVE  phase' = phase
BY PhaseGoto, PhaseIs

LEMMA AtomicInit == Init => Atomic!Init
<1> SUFFICES ASSUME Init PROVE Atomic!Init
  OBVIOUS
<1>1. \A k \in Keys : ~find_in_bucket(store, k)
  BY HashMapAssumption, ResetTidy, NodeFacts DEF Init, EmptyStore
<1>2. Contents(store) = [k \in Keys |-> NoValue]
  BY <1>1 DEF Contents
<1>3. phase = [t \in Threads |-> "idle"]
  BY PhaseIs DEF Init, PhaseOf, Pending, Answered
<1> QED
  BY <1>2, <1>3 DEF Init, Atomic!Init

\* A call is a call of the atomic map.
LEMMA AtomicCall ==
    ASSUME Inv, NEW t \in Threads, Call(t)
    PROVE  \E r \in Atomic!Request : Atomic!Call(t, r)
<1>1. TypeOK
  BY DEF Inv
<1>2. PICK r \in Request : request' = [request EXCEPT ![t] = r]
  BY DEF Call
<1>3. r \in Atomic!Request
  BY <1>2, RequestFacts, HashMapAssumption
     DEF Atomic!Request, Atomic!OpKinds, ReadKinds, AddKinds, RemoveKinds
<1>4. phase[t] = "idle"
  BY PhaseIs DEF Call, PhaseOf, Pending, Answered
<1>5. phase' = [phase EXCEPT ![t] = "pending"]
  BY <1>1, PhaseGoto DEF Call, PhaseOf, Pending
<1>6. Contents(store)' = Contents(store) /\ answer' = answer
  BY DEF Call
<1> QED
  BY <1>2, <1>3, <1>4, <1>5, <1>6 DEF Atomic!Call

\* Act does to the entries what the operation may do, and takes its answer from
\* the entry as it was.
LEMMA AtomicAct ==
    ASSUME Inv, NEW t \in Threads, Act(t)
    PROVE  Atomic!Apply(t)
<1> DEFINE r == request[t]
           k == r.key
           old == Contents(store)[k]
<1>1. TypeOK /\ IsStore(store) /\ Tidy(store)
  BY DEF Inv, TypeOK, StoreInOrder
<1>2. r \in Request /\ k \in Keys /\ key(t) = k
  BY KeyType DEF Act, InOperation, key
<1>3. /\ found[t] <=> find_in_bucket(store, k)
      /\ found[t] => store.value[k] \in Values
  BY <1>2 DEF Inv, FoundIsCurrent, StoreInOrder, Act, key
<1>4. /\ old = IF found[t] THEN store.value[k] ELSE NoValue
      /\ found[t] <=> old # NoValue
  BY <1>2, <1>3, ContentsAt, KVStoreAssumption
<1>5. /\ kind(t) = r.kind
      /\ r.kind \in ReadKinds \cup AddKinds \cup RemoveKinds
      /\ r.kind \in ValueKinds \cup AddKinds => r.value \in Values
      /\ r.kind = "get_or_add" => r.value = DefaultValue
  BY <1>2, RequestFacts DEF kind
<1>6. Contents(store) = [Contents(store) EXCEPT ![k] = old]
  BY DEF Contents
<1> DEFINE Outcome == \E v \in Atomic!Outcomes(r, old) :
                         Contents(store') = [Contents(store) EXCEPT ![k] = v]
<1> HIDE DEF r, k, old
<1>7. ASSUME UpdateNode(t) PROVE Outcome
  <2>1. found[t] /\ r.kind \in ValueKinds /\ store' = [store EXCEPT !.value[k] = r.value]
    BY <1>2, <1>5, <1>7 DEF UpdateNode, r
  <2>2. Contents(store') = [Contents(store) EXCEPT ![k] = r.value]
    BY <1>1, <1>2, <1>3, <1>5, <2>1, ValueContents
  <2>3. r.value \in Atomic!Outcomes(r, old)
    BY <1>4, <2>1 DEF Atomic!Outcomes, ValueKinds
  <2> QED
    BY <2>2, <2>3
<1>8. ASSUME AddNode(t) PROVE Outcome
  <2>1. ~found[t] /\ r.kind \in AddKinds /\ store' = insert_node(store, k, r.value)
    BY <1>2, <1>5, <1>8 DEF AddNode, r
  <2>2. Contents(store') = [Contents(store) EXCEPT ![k] = r.value]
    BY <1>1, <1>2, <1>3, <1>5, <2>1, InsertContents
  <2>3. r.value \in Atomic!Outcomes(r, old)
    BY <1>4, <1>5, <2>1 DEF Atomic!Outcomes, AddKinds
  <2> QED
    BY <2>2, <2>3
<1>9. ASSUME RemoveNode(t) PROVE Outcome
  <2>1. found[t] /\ r.kind \in RemoveKinds /\ store' = unlink_from_bucket_chain(store, k)
    BY <1>2, <1>5, <1>9 DEF RemoveNode
  <2>2. Contents(store') = [Contents(store) EXCEPT ![k] = NoValue]
    BY <1>1, <1>2, <1>3, <2>1, UnlinkContents
  <2>3. NoValue \in Atomic!Outcomes(r, old)
    BY <2>1 DEF Atomic!Outcomes, RemoveKinds
  <2> QED
    BY <2>2, <2>3
<1>10. ASSUME LeaveAsIs(t) PROVE Outcome
  <2>1. store' = store
    BY <1>10 DEF LeaveAsIs
  <2>2. old \in Atomic!Outcomes(r, old)
    BY <1>4, <1>5, <1>10 DEF LeaveAsIs, Atomic!Outcomes
  <2> QED
    BY <1>6, <2>1, <2>2
<1>11. Outcome
  BY <1>7, <1>8, <1>9, <1>10 DEF Act
<1>12. phase[t] = "pending"
  BY PhaseIs DEF Act, PhaseOf, Pending
<1>13. phase' = [phase EXCEPT ![t] = "done"]
  <2>1. PICK l \in {"unlock", "count"} : Goto(t, l)
    BY DEF Act, UpdateNode, AddNode, RemoveNode, LeaveAsIs
  <2>2. PhaseOf(l) = "done"
    BY <2>1 DEF PhaseOf, Pending, Answered
  <2> QED
    BY <1>1, <2>1, <2>2, PhaseGoto
<1>14. answer' = [answer EXCEPT ![t] = old] /\ request' = request
  BY <1>2, <1>4 DEF Act
<1> QED
  BY <1>11, <1>12, <1>13, <1>14 DEF Atomic!Apply, r, k, old

\* Unlocking is the return of the operation.
LEMMA AtomicUnlock ==
    ASSUME Inv, NEW t \in Threads, Unlock(t)
    PROVE  Atomic!Return(t)
<1>1. TypeOK
  BY DEF Inv
<1>2. phase[t] = "done"
  BY PhaseIs DEF Unlock, PhaseOf, Pending, Answered
<1>3. phase' = [phase EXCEPT ![t] = "idle"]
  <2>1. PICK l \in {"maybe_resize", "idle"} : Goto(t, l)
    BY DEF Unlock
  <2>2. PhaseOf(l) = "idle"
    BY <2>1 DEF PhaseOf, Pending, Answered
  <2> QED
    BY <1>1, <2>1, <2>2, PhaseGoto
<1>4. Contents(store)' = Contents(store)
  BY DEF Unlock
<1> QED
  BY <1>2, <1>3, <1>4 DEF Unlock, Atomic!Return

\* Taking locks, searching, counting and resizing change nothing of the map.
LEMMA AtomicStutter ==
    ASSUME Inv, NEW t \in Threads,
           LockResizeShared(t) \/ LockSliceRead(t) \/ LockSliceWrite(t) \/ Find(t)
           \/ CountRead(t) \/ CountWrite(t) \/ LoadFactorWrite(t)
           \/ MaybeResize(t) \/ LockResizeExclusive(t) \/ Resize(t)
    PROVE  UNCHANGED <<Contents(store), phase, request, answer>>
<1>1. TypeOK
  BY DEF Inv
<1>2. request' = request /\ answer' = answer
  BY DEF LockResizeShared, LockSliceRead, LockSliceWrite, Find, CountRead, CountWrite,
         LoadFactorWrite, MaybeResize, LockResizeExclusive, Resize, callVars
<1>3. Contents(store)' = Contents(store)
  <2>1. CASE Resize(t)
    BY <2>1, ResizeStore
  <2>2. CASE ~Resize(t)
    BY <2>2 DEF LockResizeShared, LockSliceRead, LockSliceWrite, Find, CountRead, CountWrite,
                LoadFactorWrite, MaybeResize, LockResizeExclusive
  <2> QED
    BY <2>1, <2>2
<1>4. \E l : Goto(t, l) /\ PhaseOf(l) = PhaseOf(pc[t])
  BY DEF LockResizeShared, LockSliceRead, LockSliceWrite, Find, CountRead, CountWrite,
         LoadFactorWrite, MaybeResize, LockResizeExclusive, Resize, PhaseOf, Pending, Answered
<1> QED
  BY <1>1, <1>2, <1>3, <1>4, PhaseStays

LEMMA AtomicNext ==
    ASSUME Inv, [Next]_vars
    PROVE  [Atomic!Next]_(Atomic!vars)
<1>1. ASSUME NEW t \in Threads, Call(t) PROVE Atomic!Next
  BY <1>1, AtomicCall DEF Atomic!Next
<1>2. ASSUME NEW t \in Threads, Act(t) PROVE Atomic!Next
  BY <1>2, AtomicAct DEF Atomic!Next
<1>3. ASSUME NEW t \in Threads, Unlock(t) PROVE Atomic!Next
  BY <1>3, AtomicUnlock DEF Atomic!Next
<1>4. ASSUME NEW t \in Threads, Step(t), ~Act(t), ~Unlock(t) PROVE UNCHANGED Atomic!vars
  BY <1>4, AtomicStutter DEF Step, Atomic!vars
<1>5. CASE Done \/ UNCHANGED vars
  BY <1>5 DEF Done, vars, Atomic!vars, phase
<1> QED
  BY <1>1, <1>2, <1>3, <1>4, <1>5 DEF Next

\* The hash map implements a map with atomic operations, for any threads, keys,
\* hash function and capacity: each operation takes effect in its Act step, its
\* answer is the entry it found, and a resize changes no entry.
THEOREM RefinesAtomicMap == Spec => ImplementsAtomicMap
<1>1. Init => Atomic!Init
  BY AtomicInit
<1>2. Inv /\ [Next]_vars => [Atomic!Next]_(Atomic!vars)
  BY AtomicNext
<1> QED
  BY <1>1, <1>2, InvariantHolds, PTL DEF Spec, ImplementsAtomicMap, Atomic!Spec
=============================================================================
