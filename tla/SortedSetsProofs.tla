-------------------------- MODULE SortedSetsProofs --------------------------
(***************************************************************************)
(* Proofs about the AVL tree and the sorted sets: what each operation does *)
(* to the values of a tree, to its order and to its balance, for trees of  *)
(* any size and members of any length.                                     *)
(***************************************************************************)
EXTENDS SortedSets, FiniteSetTheorems, SequenceTheorems, NaturalsInduction,
        WellFoundedInduction, TLAPS

-----------------------------------------------------------------------------
(* The recursive functions are what their definitions say.                   *)

TreeStep(below) ==
    {Nil} \cup [value : Values, left : below, right : below, height : Int, subtree_size : Int]

TreeBody(p, f, n) == IF n = 0 THEN {} ELSE TreeStep(f[n - 1])
TreeRecursion == INSTANCE Recursion WITH Step <- TreeBody

LEMMA TreeLevels ==
    /\ Tree[0] = {}
    /\ \A n \in Nat : Tree[n + 1] = TreeStep(Tree[n])
<1>1. TreeRecursion!LooksBelow(0)
  BY DEF TreeRecursion!LooksBelow, TreeBody
<1>2. Tree = CHOOSE g : g = [n \in Nat |-> TreeBody(0, g, n)]
  BY DEF Tree, TreeBody, TreeStep
<1>3. Tree = [n \in Nat |-> TreeBody(0, Tree, n)]
  BY <1>1, <1>2, TreeRecursion!RecursiveFunction
<1> HIDE DEF Tree
<1>4. \A n \in Nat : Tree[n] = TreeBody(0, Tree, n)
  BY <1>3
<1> QED
  BY <1>4 DEF TreeBody

\* The body of insert_at, from the function on the level below.
InsertFrom(below, n) ==
    [t \in Tree[n] |-> [v \in Values |->
        IF t = Nil THEN Leaf(v)
        ELSE IF Less(v, t.value)
             THEN rebalance(recompute([t EXCEPT !.left = below[t.left][v]]))
        ELSE IF Less(t.value, v)
             THEN rebalance(recompute([t EXCEPT !.right = below[t.right][v]]))
        ELSE t]]

InsertBody(p, f, n) == InsertFrom(f[n - 1], n)
InsertRecursion == INSTANCE Recursion WITH Step <- InsertBody

LEMMA InsertLevels == \A n \in Nat : insert_at[n] = InsertFrom(insert_at[n - 1], n)
<1>1. InsertRecursion!LooksBelow(0)
  <2> SUFFICES ASSUME NEW g, NEW h, NEW n \in Nat, \A m \in 0 .. n - 1 : g[m] = h[m]
               PROVE  InsertFrom(g[n - 1], n) = InsertFrom(h[n - 1], n)
    BY DEF InsertRecursion!LooksBelow, InsertBody
  <2>1. CASE n = 0
    BY <2>1, TreeLevels DEF InsertFrom
  <2>2. CASE n # 0
    <3>1. g[n - 1] = h[n - 1]
      BY <2>2
    <3> QED
      BY <3>1
  <2> QED
    BY <2>1, <2>2
<1>2. insert_at = CHOOSE g : g = [n \in Nat |-> InsertBody(0, g, n)]
  BY DEF insert_at, InsertBody, InsertFrom
<1>3. insert_at = [n \in Nat |-> InsertBody(0, insert_at, n)]
  BY <1>1, <1>2, InsertRecursion!RecursiveFunction
<1> HIDE DEF insert_at
<1> QED
  BY <1>3 DEF InsertBody

LeftmostFrom(below, n) ==
    [t \in Tree[n] \ {Nil} |-> IF t.left = Nil THEN t.value ELSE below[t.left]]

LeftmostBody(p, f, n) == LeftmostFrom(f[n - 1], n)
LeftmostRecursion == INSTANCE Recursion WITH Step <- LeftmostBody

LEMMA LeftmostLevels == \A n \in Nat : Leftmost[n] = LeftmostFrom(Leftmost[n - 1], n)
<1>1. LeftmostRecursion!LooksBelow(0)
  <2> SUFFICES ASSUME NEW g, NEW h, NEW n \in Nat, \A m \in 0 .. n - 1 : g[m] = h[m]
               PROVE  LeftmostFrom(g[n - 1], n) = LeftmostFrom(h[n - 1], n)
    BY DEF LeftmostRecursion!LooksBelow, LeftmostBody
  <2>1. CASE n = 0
    BY <2>1, TreeLevels DEF LeftmostFrom
  <2>2. CASE n # 0
    <3>1. g[n - 1] = h[n - 1]
      BY <2>2
    <3> QED
      BY <3>1
  <2> QED
    BY <2>1, <2>2
<1>2. Leftmost = CHOOSE g : g = [n \in Nat |-> LeftmostBody(0, g, n)]
  BY DEF Leftmost, LeftmostBody, LeftmostFrom
<1>3. Leftmost = [n \in Nat |-> LeftmostBody(0, Leftmost, n)]
  BY <1>1, <1>2, LeftmostRecursion!RecursiveFunction
<1> HIDE DEF Leftmost
<1> QED
  BY <1>3 DEF LeftmostBody

EraseFrom(below, n) ==
    [t \in Tree[n] |-> [v \in Values |->
        IF t = Nil THEN Nil
        ELSE LET result ==
                   IF Less(v, t.value) THEN [t EXCEPT !.left = below[t.left][v]]
                   ELSE IF Less(t.value, v) THEN [t EXCEPT !.right = below[t.right][v]]
                   ELSE EraseRoot(t, Leftmost[n - 1], below)
             IN  IF result = Nil THEN Nil ELSE rebalance(recompute(result))]]

EraseBody(p, f, n) == EraseFrom(f[n - 1], n)
EraseRecursion == INSTANCE Recursion WITH Step <- EraseBody

LEMMA EraseLevels == \A n \in Nat : erase_at[n] = EraseFrom(erase_at[n - 1], n)
<1>1. EraseRecursion!LooksBelow(0)
  <2> SUFFICES ASSUME NEW g, NEW h, NEW n \in Nat, \A m \in 0 .. n - 1 : g[m] = h[m]
               PROVE  EraseFrom(g[n - 1], n) = EraseFrom(h[n - 1], n)
    BY DEF EraseRecursion!LooksBelow, EraseBody
  <2>1. CASE n = 0
    BY <2>1, TreeLevels DEF EraseFrom
  <2>2. CASE n # 0
    <3>1. g[n - 1] = h[n - 1]
      BY <2>2
    <3> QED
      BY <3>1
  <2> QED
    BY <2>1, <2>2
<1>2. erase_at = CHOOSE g : g = [n \in Nat |-> EraseBody(0, g, n)]
  BY DEF erase_at, EraseBody, EraseFrom
<1>3. erase_at = [n \in Nat |-> EraseBody(0, erase_at, n)]
  BY <1>1, <1>2, EraseRecursion!RecursiveFunction
<1> HIDE DEF erase_at
<1> QED
  BY <1>3 DEF EraseBody

RankFrom(below, n) ==
    [t \in Tree[n] |-> [v \in Values |->
        IF t = Nil THEN 0
        ELSE IF Less(v, t.value) THEN below[t.left][v]
        ELSE IF Less(t.value, v) THEN t.left.subtree_size + 1 + below[t.right][v]
        ELSE t.left.subtree_size]]

RankBody(p, f, n) == RankFrom(f[n - 1], n)
RankRecursion == INSTANCE Recursion WITH Step <- RankBody

LEMMA RankLevels == \A n \in Nat : rank_at[n] = RankFrom(rank_at[n - 1], n)
<1>1. RankRecursion!LooksBelow(0)
  <2> SUFFICES ASSUME NEW g, NEW h, NEW n \in Nat, \A m \in 0 .. n - 1 : g[m] = h[m]
               PROVE  RankFrom(g[n - 1], n) = RankFrom(h[n - 1], n)
    BY DEF RankRecursion!LooksBelow, RankBody
  <2>1. CASE n = 0
    BY <2>1, TreeLevels DEF RankFrom
  <2>2. CASE n # 0
    <3>1. g[n - 1] = h[n - 1]
      BY <2>2
    <3> QED
      BY <3>1
  <2> QED
    BY <2>1, <2>2
<1>2. rank_at = CHOOSE g : g = [n \in Nat |-> RankBody(0, g, n)]
  BY DEF rank_at, RankBody, RankFrom
<1>3. rank_at = [n \in Nat |-> RankBody(0, rank_at, n)]
  BY <1>1, <1>2, RankRecursion!RecursiveFunction
<1> HIDE DEF rank_at
<1> QED
  BY <1>3 DEF RankBody

HeldFrom(below, n) ==
    [t \in Tree[n] |-> IF t = Nil THEN {}
                       ELSE below[t.left] \cup {t.value} \cup below[t.right]]

HeldBody(p, f, n) == HeldFrom(f[n - 1], n)
HeldRecursion == INSTANCE Recursion WITH Step <- HeldBody

LEMMA HeldLevels == \A n \in Nat : Held[n] = HeldFrom(Held[n - 1], n)
<1>1. HeldRecursion!LooksBelow(0)
  <2> SUFFICES ASSUME NEW g, NEW h, NEW n \in Nat, \A m \in 0 .. n - 1 : g[m] = h[m]
               PROVE  HeldFrom(g[n - 1], n) = HeldFrom(h[n - 1], n)
    BY DEF HeldRecursion!LooksBelow, HeldBody
  <2>1. CASE n = 0
    BY <2>1, TreeLevels DEF HeldFrom
  <2>2. CASE n # 0
    <3>1. g[n - 1] = h[n - 1]
      BY <2>2
    <3> QED
      BY <3>1
  <2> QED
    BY <2>1, <2>2
<1>2. Held = CHOOSE g : g = [n \in Nat |-> HeldBody(0, g, n)]
  BY DEF Held, HeldBody, HeldFrom
<1>3. Held = [n \in Nat |-> HeldBody(0, Held, n)]
  BY <1>1, <1>2, HeldRecursion!RecursiveFunction
<1> HIDE DEF Held
<1> QED
  BY <1>3 DEF HeldBody

SearchFrom(below, n) ==
    {t \in Tree[n] :
        t = Nil \/ /\ t.left \in below /\ t.right \in below
                   /\ \A v \in Held[n - 1][t.left] : Less(v, t.value)
                   /\ \A v \in Held[n - 1][t.right] : Less(t.value, v)}
SearchBody(p, f, n) == IF n = 0 THEN {} ELSE SearchFrom(f[n - 1], n)
SearchRecursion == INSTANCE Recursion WITH Step <- SearchBody

LEMMA SearchLevels ==
    /\ SearchTree[0] = {}
    /\ \A n \in Nat : SearchTree[n + 1] = SearchFrom(SearchTree[n], n + 1)
<1>1. SearchRecursion!LooksBelow(0)
  BY DEF SearchRecursion!LooksBelow, SearchBody
<1>2. SearchTree = CHOOSE g : g = [n \in Nat |-> SearchBody(0, g, n)]
  BY DEF SearchTree, SearchBody, SearchFrom
<1>3. SearchTree = [n \in Nat |-> SearchBody(0, SearchTree, n)]
  BY <1>1, <1>2, SearchRecursion!RecursiveFunction
<1> HIDE DEF SearchTree
<1>4. \A n \in Nat : SearchTree[n] = SearchBody(0, SearchTree, n)
  BY <1>3
<1>5. ASSUME NEW n \in Nat PROVE SearchTree[n + 1] = SearchFrom(SearchTree[n], n + 1)
  <2>1. n + 1 \in Nat /\ n + 1 # 0 /\ (n + 1) - 1 = n
    OBVIOUS
  <2> QED
    BY <1>4, <2>1 DEF SearchBody
<1> QED
  BY <1>4, <1>5 DEF SearchBody

SoundFrom(below, n) ==
    {t \in Tree[n] :
        t = Nil \/ /\ t.left \in below /\ t.right \in below
                   /\ t = recompute(t)
                   /\ get_balance(t) \in -1 .. 1}
SoundBody(p, f, n) == IF n = 0 THEN {} ELSE SoundFrom(f[n - 1], n)
SoundRecursion == INSTANCE Recursion WITH Step <- SoundBody

LEMMA SoundLevels ==
    /\ SoundTree[0] = {}
    /\ \A n \in Nat : SoundTree[n + 1] = SoundFrom(SoundTree[n], n + 1)
<1>1. SoundRecursion!LooksBelow(0)
  BY DEF SoundRecursion!LooksBelow, SoundBody
<1>2. SoundTree = CHOOSE g : g = [n \in Nat |-> SoundBody(0, g, n)]
  BY DEF SoundTree, SoundBody, SoundFrom
<1>3. SoundTree = [n \in Nat |-> SoundBody(0, SoundTree, n)]
  BY <1>1, <1>2, SoundRecursion!RecursiveFunction
<1> HIDE DEF SoundTree
<1>4. \A n \in Nat : SoundTree[n] = SoundBody(0, SoundTree, n)
  BY <1>3
<1>5. ASSUME NEW n \in Nat PROVE SoundTree[n + 1] = SoundFrom(SoundTree[n], n + 1)
  <2>1. n + 1 \in Nat /\ n + 1 # 0 /\ (n + 1) - 1 = n
    OBVIOUS
  <2> QED
    BY <1>4, <2>1 DEF SoundBody
<1> QED
  BY <1>4, <1>5 DEF SoundBody

-----------------------------------------------------------------------------
(* Nodes and levels.                                                         *)

\* A node whose stored height and size are the true ones.
Join(v, l, r) ==
    [value |-> v, left |-> l, right |-> r,
     height |-> 1 + (IF l.height > r.height THEN l.height ELSE r.height),
     subtree_size |-> 1 + l.subtree_size + r.subtree_size]

\* t has the fields of a node.
IsNode(t) ==
    t = [value |-> t.value, left |-> t.left, right |-> t.right,
         height |-> t.height, subtree_size |-> t.subtree_size]

LEMMA EveryLevel ==
    ASSUME NEW S, 0 \in S, \A n \in Nat : n \in S => n + 1 \in S
    PROVE  \A n \in Nat : n \in S
BY TreeRecursion!EveryNatural

LEMMA NodeOfTree ==
    ASSUME NEW n \in Nat, NEW t \in Tree[n + 1], t # Nil
    PROVE  /\ t.value \in Values /\ t.left \in Tree[n] /\ t.right \in Tree[n]
           /\ t.height \in Int /\ t.subtree_size \in Int
           /\ IsNode(t)
<1>1. t \in [value : Values, left : Tree[n], right : Tree[n], height : Int, subtree_size : Int]
  BY TreeLevels DEF TreeStep
<1> QED
  BY <1>1 DEF IsNode

LEMMA JoinFields ==
    ASSUME NEW v, NEW l, NEW r
    PROVE  /\ Join(v, l, r).value = v /\ Join(v, l, r).left = l /\ Join(v, l, r).right = r
           /\ Join(v, l, r).height = 1 + (IF l.height > r.height THEN l.height ELSE r.height)
           /\ Join(v, l, r).subtree_size = 1 + l.subtree_size + r.subtree_size
           /\ IsNode(Join(v, l, r))
BY DEF Join, IsNode

LEMMA RecomputeNode ==
    ASSUME NEW t, IsNode(t)
    PROVE  /\ recompute(t) = Join(t.value, t.left, t.right)
           /\ \A l : IsNode([t EXCEPT !.left = l]) /\ [t EXCEPT !.left = l].left = l
                     /\ [t EXCEPT !.left = l].value = t.value
                     /\ [t EXCEPT !.left = l].right = t.right
           /\ \A r : IsNode([t EXCEPT !.right = r]) /\ [t EXCEPT !.right = r].right = r
                     /\ [t EXCEPT !.right = r].value = t.value
                     /\ [t EXCEPT !.right = r].left = t.left
<1> DEFINE Record(v, l, r, h, s) ==
        [value |-> v, left |-> l, right |-> r, height |-> h, subtree_size |-> s]
<1>1. \A v, l, r, h, s : recompute(Record(v, l, r, h, s)) = Join(v, l, r)
  <2> SUFFICES ASSUME NEW v, NEW l, NEW r, NEW h, NEW s
               PROVE  recompute(Record(v, l, r, h, s)) = Join(v, l, r)
    OBVIOUS
  <2> DEFINE tallest == IF l.height > r.height THEN l.height ELSE r.height
             weight == 1 + l.subtree_size + r.subtree_size
  <2>1. recompute(Record(v, l, r, h, s)) =
            [Record(v, l, r, h, s) EXCEPT !.height = 1 + tallest, !.subtree_size = weight]
    BY DEF recompute
  <2>2. Join(v, l, r) = Record(v, l, r, 1 + tallest, weight)
    BY DEF Join
  <2> HIDE DEF tallest, weight
  <2> QED
    BY <2>1, <2>2
<1>2. \A v, l, r, h, s, x : [Record(v, l, r, h, s) EXCEPT !.left = x] = Record(v, x, r, h, s)
  OBVIOUS
<1>3. \A v, l, r, h, s, x : [Record(v, l, r, h, s) EXCEPT !.right = x] = Record(v, l, x, h, s)
  OBVIOUS
<1>4. \A v, l, r, h, s : /\ IsNode(Record(v, l, r, h, s)) /\ Record(v, l, r, h, s).value = v
                         /\ Record(v, l, r, h, s).left = l /\ Record(v, l, r, h, s).right = r
  BY DEF IsNode
<1>5. t = Record(t.value, t.left, t.right, t.height, t.subtree_size)
  BY DEF IsNode
<1> HIDE DEF Record
<1>6. recompute(t) = Join(t.value, t.left, t.right)
  BY <1>1, <1>5
<1>7. ASSUME NEW x PROVE [t EXCEPT !.left = x] = Record(t.value, x, t.right, t.height, t.subtree_size)
  BY <1>2, <1>5
<1>8. ASSUME NEW x PROVE [t EXCEPT !.right = x] = Record(t.value, t.left, x, t.height, t.subtree_size)
  BY <1>3, <1>5
<1> QED
  BY <1>4, <1>6, <1>7, <1>8

LEMMA RecomputeChild ==
    ASSUME NEW t, IsNode(t), NEW x
    PROVE  /\ recompute([t EXCEPT !.left = x]) = Join(t.value, x, t.right)
           /\ recompute([t EXCEPT !.right = x]) = Join(t.value, t.left, x)
<1> DEFINE a == [t EXCEPT !.left = x]
           b == [t EXCEPT !.right = x]
<1>1. /\ IsNode(a) /\ a.value = t.value /\ a.left = x /\ a.right = t.right
      /\ IsNode(b) /\ b.value = t.value /\ b.left = t.left /\ b.right = x
  BY RecomputeNode
<1> HIDE DEF a, b
<1>2. recompute(a) = Join(t.value, x, t.right) /\ recompute(b) = Join(t.value, t.left, x)
  BY <1>1, RecomputeNode
<1> QED
  BY <1>2 DEF a, b

LEMMA TreeGrows == \A n \in Nat : Tree[n] \subseteq Tree[n + 1]
<1> DEFINE S == {n \in Nat : Tree[n] \subseteq Tree[n + 1]}
<1>1. 0 \in S
  BY TreeLevels
<1>2. ASSUME NEW n \in Nat, n \in S PROVE n + 1 \in S
  BY <1>2, TreeLevels DEF TreeStep
<1> HIDE DEF S
<1>3. \A n \in Nat : n \in S
  BY <1>1, <1>2, EveryLevel
<1> QED
  BY <1>3 DEF S

LEMMA NilIsTree == \A n \in Nat : Nil \in Tree[n + 1]
BY TreeLevels DEF TreeStep

LEMMA JoinIsTree ==
    ASSUME NEW n \in Nat, NEW l \in Tree[n], NEW r \in Tree[n], NEW v \in Values,
           l.height \in Int, r.height \in Int, l.subtree_size \in Int, r.subtree_size \in Int
    PROVE  Join(v, l, r) \in Tree[n + 1]
BY TreeLevels DEF TreeStep, Join

-----------------------------------------------------------------------------
(* Sound trees.                                                              *)

LEMMA SoundNode ==
    ASSUME NEW n \in Nat, NEW t \in SoundTree[n + 1]
    PROVE  /\ t \in Tree[n + 1]
           /\ t # Nil => /\ t.value \in Values
                         /\ t.left \in SoundTree[n] /\ t.right \in SoundTree[n]
                         /\ t = Join(t.value, t.left, t.right)
                         /\ get_balance(t) \in -1 .. 1
<1>1. t \in SoundFrom(SoundTree[n], n + 1)
  BY SoundLevels
<1>2. t \in Tree[n + 1]
  BY <1>1 DEF SoundFrom
<1>3. CASE t # Nil
  BY <1>1, <1>2, <1>3, NodeOfTree, RecomputeNode DEF SoundFrom
<1> QED
  BY <1>2, <1>3

LEMMA SoundSubtree == \A n \in Nat : SoundTree[n] \subseteq Tree[n]
<1>1. SoundTree[0] \subseteq Tree[0]
  BY SoundLevels
<1>2. ASSUME NEW n \in Nat, n # 0 PROVE SoundTree[n] \subseteq Tree[n]
  <2>1. n - 1 \in Nat /\ n = (n - 1) + 1
    BY <1>2
  <2> QED
    BY <2>1, SoundNode
<1> QED
  BY <1>1, <1>2

LEMMA NilIsSound == \A n \in Nat : Nil \in SoundTree[n + 1]
BY SoundLevels, NilIsTree DEF SoundFrom

\* The numbers in a sound tree of a level.
LEMMA SoundNumbers ==
    \A n \in Nat : \A t \in SoundTree[n] :
        /\ t.height \in -1 .. n - 2 /\ t.subtree_size \in Nat
        /\ t.height = -1 <=> t = Nil
<1> DEFINE Fits(t, n) == /\ t.height \in -1 .. n - 2 /\ t.subtree_size \in Nat
                         /\ t.height = -1 <=> t = Nil
           S == {n \in Nat : \A t \in SoundTree[n] : Fits(t, n)}
<1>1. 0 \in S
  BY SoundLevels
<1>2. ASSUME NEW n \in Nat, n \in S PROVE n + 1 \in S
  <2> SUFFICES ASSUME NEW t \in SoundTree[n + 1] PROVE Fits(t, n + 1)
    OBVIOUS
  <2>1. CASE t = Nil
    <3>1. n # 0 \/ n + 1 = 1
      OBVIOUS
    <3> QED
      BY <2>1 DEF Nil
  <2>2. CASE t # Nil
    <3>1. Fits(t.left, n) /\ Fits(t.right, n) /\ t = Join(t.value, t.left, t.right)
      BY <1>2, <2>2, SoundNode
    <3>2. t.height = 1 + (IF t.left.height > t.right.height THEN t.left.height
                                                             ELSE t.right.height)
          /\ t.subtree_size = 1 + t.left.subtree_size + t.right.subtree_size
      BY <3>1, JoinFields
    <3>3. t.height \in 0 .. n - 1 /\ t.subtree_size \in Nat
      BY <3>1, <3>2
    <3> QED
      BY <2>2, <3>3
  <2> QED
    BY <2>1, <2>2
<1> HIDE DEF S
<1>3. \A n \in Nat : n \in S
  BY <1>1, <1>2, EveryLevel
<1> QED
  BY <1>3 DEF S

LEMMA JoinAtLevel ==
    ASSUME NEW n \in Nat, NEW l \in SoundTree[n], NEW r \in SoundTree[n], NEW v \in Values,
           l.height - r.height \in -1 .. 1
    PROVE  Join(v, l, r) \in SoundTree[n + 1] /\ Join(v, l, r) # Nil
<1> DEFINE t == Join(v, l, r)
<1>1. /\ l.height \in Int /\ r.height \in Int /\ l.height >= -1 /\ r.height >= -1
      /\ l.subtree_size \in Nat /\ r.subtree_size \in Nat
  BY SoundNumbers
<1>2. t \in Tree[n + 1]
  BY <1>1, JoinIsTree, SoundSubtree
<1>3. t.left = l /\ t.right = r /\ t.value = v /\ IsNode(t)
  BY JoinFields
<1>4. t = recompute(t)
  BY <1>3, RecomputeNode
<1>5. t.height >= 0 /\ t # Nil
  BY <1>1, JoinFields DEF Nil
<1>6. get_balance(t) \in -1 .. 1
  BY <1>3 DEF get_balance
<1> HIDE DEF t
<1>7. t \in SoundFrom(SoundTree[n], n + 1)
  BY <1>2, <1>3, <1>4, <1>6 DEF SoundFrom
<1>8. t \in SoundTree[n + 1]
  BY <1>7, SoundLevels
<1> QED
  BY <1>5, <1>8 DEF t

LEMMA SoundGrows == \A n \in Nat : SoundTree[n] \subseteq SoundTree[n + 1]
<1> DEFINE S == {n \in Nat : SoundTree[n] \subseteq SoundTree[n + 1]}
<1>1. 0 \in S
  BY SoundLevels
<1>2. ASSUME NEW n \in Nat, n \in S PROVE n + 1 \in S
  <2> SUFFICES ASSUME NEW t \in SoundTree[n + 1] PROVE t \in SoundTree[(n + 1) + 1]
    OBVIOUS
  <2>1. CASE t = Nil
    BY <2>1, NilIsSound
  <2>2. CASE t # Nil
    <3>1. /\ t.value \in Values /\ t = Join(t.value, t.left, t.right)
          /\ t.left \in SoundTree[n + 1] /\ t.right \in SoundTree[n + 1]
          /\ t.left.height - t.right.height \in -1 .. 1
      BY <1>2, <2>2, SoundNode DEF get_balance
    <3> QED
      BY <3>1, JoinAtLevel
  <2> QED
    BY <2>1, <2>2
<1> HIDE DEF S
<1>3. \A n \in Nat : n \in S
  BY <1>1, <1>2, EveryLevel
<1> QED
  BY <1>3 DEF S

\* A sound tree is on every level that its height allows.
LEMMA SoundFits ==
    \A n \in Nat : \A t \in SoundTree[n] : \A m \in Nat : t.height + 2 <= m => t \in SoundTree[m]
<1> DEFINE Fits(t) == \A m \in Nat : t.height + 2 <= m => t \in SoundTree[m]
           S == {n \in Nat : \A t \in SoundTree[n] : Fits(t)}
<1>1. 0 \in S
  BY SoundLevels
<1>2. ASSUME NEW n \in Nat, n \in S PROVE n + 1 \in S
  <2> SUFFICES ASSUME NEW t \in SoundTree[n + 1], NEW m \in Nat, t.height + 2 <= m
               PROVE  t \in SoundTree[m]
    OBVIOUS
  <2>1. t.height \in Int /\ t.height >= -1 /\ m >= 1
    BY SoundNumbers
  <2>2. m - 1 \in Nat /\ (m - 1) + 1 = m
    BY <2>1
  <2>3. CASE t = Nil
    BY <2>2, <2>3, NilIsSound
  <2>4. CASE t # Nil
    <3>1. /\ t.value \in Values /\ t = Join(t.value, t.left, t.right)
          /\ t.left \in SoundTree[n] /\ t.right \in SoundTree[n]
          /\ t.left.height - t.right.height \in -1 .. 1
      BY <2>4, SoundNode DEF get_balance
    <3>2. t.left.height \in Int /\ t.right.height \in Int
      BY <3>1, SoundNumbers
    <3>3. t.height = 1 + (IF t.left.height > t.right.height THEN t.left.height
                                                             ELSE t.right.height)
      BY <3>1, JoinFields
    <3>4. t.left.height + 2 <= m - 1 /\ t.right.height + 2 <= m - 1
      BY <3>2, <3>3, <2>1
    <3>5. t.left \in SoundTree[m - 1] /\ t.right \in SoundTree[m - 1]
      BY <3>1, <3>4, <2>2, <1>2
    <3> QED
      BY <3>1, <3>5, <2>2, JoinAtLevel
  <2> QED
    BY <2>3, <2>4
<1> HIDE DEF S
<1>3. \A n \in Nat : n \in S
  BY <1>1, <1>2, EveryLevel
<1> QED
  BY <1>3 DEF S

LEMMA SoundEverywhere ==
    ASSUME NEW n \in Nat, NEW t \in SoundTree[n]
    PROVE  Sound(t) /\ Level(t) \in Nat \ {0} /\ Level(t) <= n
<1>1. t.height \in -1 .. n - 2
  BY SoundNumbers
<1>2. t.height + 2 \in Nat /\ t.height + 2 # 0 /\ t.height + 2 <= n
  BY <1>1
<1> QED
  BY <1>2, SoundFits DEF Sound, Level

LEMMA SoundAtLevel ==
    ASSUME NEW t, Sound(t)
    PROVE  /\ Level(t) \in Nat \ {0} /\ t \in SoundTree[Level(t)] /\ t \in Tree[Level(t)]
           /\ t.height \in Int /\ t.height >= -1 /\ t.subtree_size \in Nat
           /\ t.height = -1 <=> t = Nil
           /\ \A m \in Nat : t.height + 2 <= m => t \in SoundTree[m]
<1>1. Level(t) \in Nat /\ t \in SoundTree[Level(t)]
  BY DEF Sound
<1>2. /\ t.height \in -1 .. Level(t) - 2 /\ t.subtree_size \in Nat
      /\ t.height = -1 <=> t = Nil
  BY <1>1, SoundNumbers
<1>3. Level(t) # 0 /\ t \in Tree[Level(t)]
  BY <1>1, SoundLevels, SoundSubtree
<1>4. \A m \in Nat : t.height + 2 <= m => t \in SoundTree[m]
  BY <1>1, SoundFits
<1> QED
  BY <1>1, <1>2, <1>3, <1>4

LEMMA NilSound == Sound(Nil) /\ Nil.height = -1 /\ Nil.subtree_size = 0 /\ Level(Nil) = 1
<1>1. Level(Nil) = 1 /\ Nil.height = -1 /\ Nil.subtree_size = 0
  BY DEF Level, Nil
<1>2. Nil \in SoundTree[0 + 1]
  BY NilIsSound
<1> QED
  BY <1>1, <1>2 DEF Sound

\* A common level of two sound trees.
LEMMA CommonLevel ==
    ASSUME NEW l, NEW r, Sound(l), Sound(r)
    PROVE  \E n \in Nat : l \in SoundTree[n] /\ r \in SoundTree[n]
<1>1. /\ l.height \in Int /\ l.height >= -1 /\ r.height \in Int /\ r.height >= -1
      /\ \A m \in Nat : l.height + 2 <= m => l \in SoundTree[m]
      /\ \A m \in Nat : r.height + 2 <= m => r \in SoundTree[m]
  BY SoundAtLevel
<1> DEFINE n == IF l.height > r.height THEN l.height + 2 ELSE r.height + 2
<1>2. n \in Nat /\ l.height + 2 <= n /\ r.height + 2 <= n
  BY <1>1
<1> HIDE DEF n
<1> QED
  BY <1>1, <1>2

\* Two sound trees of about the same height make a sound tree.
LEMMA JoinSound ==
    ASSUME NEW l, NEW r, Sound(l), Sound(r), NEW v \in Values, l.height - r.height \in -1 .. 1
    PROVE  Sound(Join(v, l, r)) /\ Join(v, l, r) # Nil
<1>1. PICK n \in Nat : l \in SoundTree[n] /\ r \in SoundTree[n]
  BY CommonLevel
<1>2. Join(v, l, r) \in SoundTree[n + 1] /\ Join(v, l, r) # Nil
  BY <1>1, JoinAtLevel
<1> QED
  BY <1>2, SoundEverywhere

\* And every sound tree but Nil is made so.
LEMMA SoundParts ==
    ASSUME NEW t, Sound(t), t # Nil
    PROVE  /\ Sound(t.left) /\ Sound(t.right) /\ t.value \in Values
           /\ t = Join(t.value, t.left, t.right)
           /\ t.left.height - t.right.height \in -1 .. 1
           /\ t.height = 1 + (IF t.left.height > t.right.height THEN t.left.height
                                                                 ELSE t.right.height)
           /\ t.subtree_size = 1 + t.left.subtree_size + t.right.subtree_size
<1>1. Level(t) \in Nat \ {0} /\ t \in SoundTree[Level(t)]
  BY SoundAtLevel
<1>2. PICK n \in Nat : n + 1 = Level(t)
  BY <1>1, Level(t) - 1 \in Nat
<1>3. /\ t.value \in Values /\ t.left \in SoundTree[n] /\ t.right \in SoundTree[n]
      /\ t = Join(t.value, t.left, t.right)
      /\ get_balance(t) \in -1 .. 1
  BY <1>1, <1>2, SoundNode
<1> QED
  BY <1>3, SoundEverywhere, JoinFields DEF get_balance

-----------------------------------------------------------------------------
(* The values of a tree.                                                     *)

LEMMA HeldOfNode ==
    ASSUME NEW n \in Nat, NEW t \in Tree[n + 1]
    PROVE  Held[n + 1][t] = IF t = Nil THEN {} ELSE Held[n][t.left] \cup {t.value} \cup Held[n][t.right]
<1>1. n + 1 \in Nat /\ (n + 1) - 1 = n
  OBVIOUS
<1>2. Held[n + 1] = HeldFrom(Held[n], n + 1)
  BY <1>1, HeldLevels
<1> QED
  BY <1>2 DEF HeldFrom

LEMMA HeldGrows == \A n \in Nat : \A t \in Tree[n] : Held[n + 1][t] = Held[n][t]
<1> DEFINE S == {n \in Nat : \A t \in Tree[n] : Held[n + 1][t] = Held[n][t]}
<1>1. 0 \in S
  BY TreeLevels
<1>2. ASSUME NEW n \in Nat, n \in S PROVE n + 1 \in S
  <2> SUFFICES ASSUME NEW t \in Tree[n + 1] PROVE Held[(n + 1) + 1][t] = Held[n + 1][t]
    OBVIOUS
  <2>1. t \in Tree[(n + 1) + 1] /\ n + 1 \in Nat
    <3>1. n + 1 \in Nat
      OBVIOUS
    <3>2. Tree[n + 1] \subseteq Tree[(n + 1) + 1]
      BY ONLY <3>1, TreeGrows
    <3> QED
      BY <3>1, <3>2
  <2>2. Held[n + 1][t] = IF t = Nil THEN {} ELSE Held[n][t.left] \cup {t.value} \cup Held[n][t.right]
    BY HeldOfNode
  <2>3. Held[(n + 1) + 1][t] = IF t = Nil THEN {}
                              ELSE Held[n + 1][t.left] \cup {t.value} \cup Held[n + 1][t.right]
    BY <2>1, HeldOfNode
  <2>4. CASE t # Nil
    <3>1. Held[n + 1][t.left] = Held[n][t.left] /\ Held[n + 1][t.right] = Held[n][t.right]
      BY <1>2, <2>4, NodeOfTree
    <3>2. Held[n + 1][t] = Held[n][t.left] \cup {t.value} \cup Held[n][t.right]
      BY <2>2, <2>4
    <3>3. Held[(n + 1) + 1][t] = Held[n + 1][t.left] \cup {t.value} \cup Held[n + 1][t.right]
      BY <2>3, <2>4
    <3> QED
      BY <3>1, <3>2, <3>3
  <2>5. CASE t = Nil
    <3>1. Held[n + 1][t] = {} /\ Held[(n + 1) + 1][t] = {}
      BY <2>2, <2>3, <2>5
    <3> QED
      BY <3>1
  <2> QED
    BY <2>4, <2>5
<1> HIDE DEF S
<1>3. \A n \in Nat : n \in S
  BY <1>1, <1>2, EveryLevel
<1> QED
  BY <1>3 DEF S

LEMMA HeldAtLevel ==
    ASSUME NEW n \in Nat, NEW t \in SoundTree[n]
    PROVE  Held[n][t] = HeldBy(t)
<1> DEFINE S == {k \in Nat : t.height + 2 <= k => Held[k][t] = HeldBy(t)}
<1>1. /\ Sound(t) /\ Level(t) \in Nat \ {0} /\ Level(t) = t.height + 2 /\ Level(t) <= n
      /\ t.height \in Int
  BY SoundEverywhere, SoundNumbers DEF Level
<1>2. 0 \in S
  BY <1>1
<1>3. ASSUME NEW k \in Nat, k \in S PROVE k + 1 \in S
  <2> SUFFICES ASSUME t.height + 2 <= k + 1 PROVE Held[k + 1][t] = HeldBy(t)
    OBVIOUS
  <2>1. CASE Level(t) = k + 1
    BY <2>1 DEF HeldBy
  <2>2. CASE t.height + 2 <= k
    <3>1. t \in Tree[k]
      BY <1>1, <2>2, SoundAtLevel, SoundSubtree
    <3> QED
      BY <1>3, <2>2, <3>1, HeldGrows
  <2> QED
    BY <1>1, <2>1, <2>2
<1> HIDE DEF S
<1>4. n \in S
  BY <1>2, <1>3, EveryLevel
<1> QED
  BY <1>1, <1>4 DEF S

LEMMA HeldByNil == HeldBy(Nil) = {}
<1>1. Nil \in SoundTree[0 + 1] /\ Nil \in Tree[0 + 1]
  BY NilIsSound, NilIsTree
<1>2. Held[0 + 1][Nil] = {}
  BY <1>1, HeldOfNode
<1> QED
  BY <1>1, <1>2, HeldAtLevel

LEMMA HeldByJoin ==
    ASSUME NEW l, NEW r, Sound(l), Sound(r), NEW v \in Values, l.height - r.height \in -1 .. 1
    PROVE  HeldBy(Join(v, l, r)) = HeldBy(l) \cup {v} \cup HeldBy(r)
<1>1. PICK n \in Nat : l \in SoundTree[n] /\ r \in SoundTree[n]
  BY CommonLevel
<1>2. Join(v, l, r) \in SoundTree[n + 1] /\ Join(v, l, r) # Nil
  BY <1>1, JoinAtLevel
<1>3. Held[n + 1][Join(v, l, r)] = Held[n][l] \cup {v} \cup Held[n][r]
  <2> DEFINE t == Join(v, l, r)
  <2>1. t \in Tree[n + 1] /\ t # Nil
    BY <1>2, SoundSubtree
  <2>2. t.left = l /\ t.right = r /\ t.value = v
    BY JoinFields
  <2> HIDE DEF t
  <2>3. Held[n + 1][t] = Held[n][l] \cup {v} \cup Held[n][r]
    BY <2>1, <2>2, HeldOfNode
  <2> QED
    BY <2>3 DEF t
<1> QED
  BY <1>1, <1>2, <1>3, HeldAtLevel

-----------------------------------------------------------------------------
(* The order of a tree.                                                      *)

\* l, v and r can stand in this order.
Between(l, v, r) == /\ \A w \in HeldBy(l) : Less(w, v)
                    /\ \A w \in HeldBy(r) : Less(v, w)

LEMMA SearchOfNode ==
    ASSUME NEW n \in Nat, NEW t \in SoundTree[n + 1], t # Nil
    PROVE  t \in SearchTree[n + 1] <=> /\ t.left \in SearchTree[n] /\ t.right \in SearchTree[n]
                                       /\ Between(t.left, t.value, t.right)
<1>1. SearchTree[n + 1] = SearchFrom(SearchTree[n], n + 1)
  BY SearchLevels
<1>2. t \in Tree[n + 1] /\ t.left \in SoundTree[n] /\ t.right \in SoundTree[n]
  BY SoundNode
<1>3. Held[n][t.left] = HeldBy(t.left) /\ Held[n][t.right] = HeldBy(t.right)
  BY <1>2, HeldAtLevel
<1>4. (n + 1) - 1 = n
  OBVIOUS
<1>5. t \in SearchFrom(SearchTree[n], n + 1)
      <=> /\ t.left \in SearchTree[n] /\ t.right \in SearchTree[n]
          /\ \A v \in Held[n][t.left] : Less(v, t.value)
          /\ \A v \in Held[n][t.right] : Less(t.value, v)
  BY <1>2, <1>4 DEF SearchFrom
<1> QED
  BY <1>1, <1>3, <1>5 DEF Between

LEMMA NilIsSearch == \A n \in Nat : Nil \in SearchTree[n + 1]
BY SearchLevels, NilIsTree DEF SearchFrom

LEMMA SearchFits ==
    \A n \in Nat : \A t \in SoundTree[n] : \A m \in Nat :
        t.height + 2 <= m => (t \in SearchTree[m] <=> t \in SearchTree[n])
<1> DEFINE Fits(t, n) == \A m \in Nat : t.height + 2 <= m => (t \in SearchTree[m] <=> t \in SearchTree[n])
           S == {n \in Nat : \A t \in SoundTree[n] : Fits(t, n)}
<1>1. 0 \in S
  BY SoundLevels
<1>2. ASSUME NEW n \in Nat, n \in S PROVE n + 1 \in S
  <2> SUFFICES ASSUME NEW t \in SoundTree[n + 1], NEW m \in Nat, t.height + 2 <= m
               PROVE  t \in SearchTree[m] <=> t \in SearchTree[n + 1]
    OBVIOUS
  <2>1. t.height \in Int /\ t.height >= -1 /\ m >= 1
    BY SoundNumbers
  <2>2. PICK k \in Nat : k + 1 = m
    BY <2>1, m - 1 \in Nat
  <2>3. CASE t = Nil
    BY <2>2, <2>3, NilIsSearch
  <2>4. CASE t # Nil
    <3>1. t.left \in SoundTree[n] /\ t.right \in SoundTree[n] /\ t = Join(t.value, t.left, t.right)
      BY <2>4, SoundNode
    <3>2. t.left.height \in Int /\ t.right.height \in Int
      BY <3>1, SoundNumbers
    <3>3. t.height = 1 + (IF t.left.height > t.right.height THEN t.left.height
                                                             ELSE t.right.height)
      BY <3>1, JoinFields
    <3>4. t.left.height + 2 <= k /\ t.right.height + 2 <= k
      BY <3>2, <3>3, <2>2
    <3>5. /\ t.left \in SearchTree[k] <=> t.left \in SearchTree[n]
          /\ t.right \in SearchTree[k] <=> t.right \in SearchTree[n]
      BY <3>1, <3>4, <1>2
    <3>6. t \in SoundTree[k + 1]
      BY <2>2, SoundFits
    <3>7. t \in SearchTree[k + 1] <=> /\ t.left \in SearchTree[k] /\ t.right \in SearchTree[k]
                                      /\ Between(t.left, t.value, t.right)
      BY <3>6, <2>4, SearchOfNode
    <3>8. t \in SearchTree[n + 1] <=> /\ t.left \in SearchTree[n] /\ t.right \in SearchTree[n]
                                      /\ Between(t.left, t.value, t.right)
      BY <2>4, SearchOfNode
    <3> QED
      BY <3>5, <3>7, <3>8, <2>2
  <2> QED
    BY <2>3, <2>4
<1> HIDE DEF S
<1>3. \A n \in Nat : n \in S
  BY <1>1, <1>2, EveryLevel
<1> QED
  BY <1>3 DEF S

LEMMA OrderedAtLevel ==
    ASSUME NEW n \in Nat, NEW t \in SoundTree[n]
    PROVE  t \in SearchTree[n] <=> Ordered(t)
<1>1. Level(t) \in Nat /\ Level(t) = t.height + 2 /\ t.height \in Int
  BY SoundEverywhere, SoundNumbers DEF Level
<1>2. t.height + 2 <= Level(t)
  BY <1>1
<1> QED
  BY <1>1, <1>2, SearchFits DEF Ordered

LEMMA NilOrdered == Ordered(Nil)
<1>1. Nil \in SoundTree[0 + 1] /\ Nil \in SearchTree[0 + 1]
  BY NilIsSound, NilIsSearch
<1> QED
  BY <1>1, OrderedAtLevel

LEMMA JoinOrdered ==
    ASSUME NEW l, NEW r, Sound(l), Sound(r), NEW v \in Values, l.height - r.height \in -1 .. 1
    PROVE  Ordered(Join(v, l, r)) <=> Ordered(l) /\ Ordered(r) /\ Between(l, v, r)
<1> DEFINE t == Join(v, l, r)
<1>1. PICK n \in Nat : l \in SoundTree[n] /\ r \in SoundTree[n]
  BY CommonLevel
<1>2. t \in SoundTree[n + 1] /\ t # Nil
  BY <1>1, JoinAtLevel
<1>3. t.left = l /\ t.right = r /\ t.value = v
  BY JoinFields
<1> HIDE DEF t
<1>4. t \in SearchTree[n + 1] <=> l \in SearchTree[n] /\ r \in SearchTree[n] /\ Between(l, v, r)
  BY <1>2, <1>3, SearchOfNode
<1>5. n + 1 \in Nat
  OBVIOUS
<1>6. Ordered(t) <=> Ordered(l) /\ Ordered(r) /\ Between(l, v, r)
  BY <1>1, <1>2, <1>4, <1>5, OrderedAtLevel
<1> QED
  BY <1>6 DEF t

-----------------------------------------------------------------------------
(* The order of the values.                                                  *)

LEMMA Least ==
    ASSUME NEW S \in SUBSET Nat, S # {}
    PROVE  \E m \in S : \A k \in S : m <= k
<1> DEFINE Less2 == OpToRel(<, Nat)
<1>1. PICK m \in S : \A k \in S : <<k, m>> \notin Less2
  BY NatLessThanWellFounded, WFMin
<1>2. ASSUME NEW k \in S PROVE m <= k
  <2>1. k \in Nat /\ m \in Nat
    OBVIOUS
  <2>2. ~(k < m)
    BY <1>1, <2>1 DEF OpToRel
  <2> QED
    BY <2>1, <2>2
<1> QED
  BY <1>2

LEMMA Codes ==
    /\ \A b \in Byte : Code(b) \in Nat
    /\ \A b, c \in Byte : Code(b) = Code(c) => b = c
<1>1. ASSUME NEW b \in Byte PROVE Code(b) \in DOMAIN Alphabet /\ Alphabet[Code(b)] = b
  <2>1. \E i \in DOMAIN Alphabet : Alphabet[i] = b
    BY DEF Byte, Range
  <2> QED
    BY <2>1 DEF Code
<1>2. DOMAIN Alphabet = 1 .. Len(Alphabet) /\ Len(Alphabet) \in Nat
  BY AlphabetAssumption
<1> QED
  BY <1>1, <1>2

LEMMA BeforeIrreflexive == \A s \in Strings : ~Before(s, s)
<1> SUFFICES ASSUME NEW s \in Strings, Before(s, s) PROVE FALSE
  OBVIOUS
<1>1. PICK i \in 1 .. Len(s) : i <= Len(s) => Code(s[i]) < Code(s[i])
  BY DEF Before
<1>2. s[i] \in Byte
  BY <1>1 DEF Strings
<1> QED
  BY <1>1, <1>2, Codes DEF Strings

LEMMA BeforeTransitive ==
    ASSUME NEW s \in Strings, NEW t \in Strings, NEW u \in Strings, Before(s, t), Before(t, u)
    PROVE  Before(s, u)
<1>0. Len(s) \in Nat /\ Len(t) \in Nat /\ Len(u) \in Nat
  BY DEF Strings
<1>1. PICK i \in 1 .. Len(t) : /\ i - 1 <= Len(s)
                               /\ \A j \in 1 .. i - 1 : s[j] = t[j]
                               /\ i <= Len(s) => Code(s[i]) < Code(t[i])
  BY DEF Before
<1>2. PICK k \in 1 .. Len(u) : /\ k - 1 <= Len(t)
                               /\ \A j \in 1 .. k - 1 : t[j] = u[j]
                               /\ k <= Len(t) => Code(t[k]) < Code(u[k])
  BY DEF Before
<1>3. i \in Nat /\ k \in Nat
  BY <1>0
<1>4. CASE i < k
  <2>1. i \in 1 .. Len(u) /\ i - 1 <= Len(s) /\ i \in 1 .. k - 1
    BY <1>0, <1>1, <1>2, <1>3, <1>4
  <2>2. t[i] = u[i]
    BY <1>2, <2>1
  <2>3. \A j \in 1 .. i - 1 : s[j] = u[j]
    <3>1. \A j \in 1 .. i - 1 : j \in 1 .. k - 1
      BY <1>3, <1>4
    <3> QED
      BY <1>1, <1>2, <3>1
  <2> QED
    BY <1>1, <2>1, <2>2, <2>3 DEF Before
<1>5. CASE i = k
  <2>1. \A j \in 1 .. i - 1 : s[j] = u[j]
    BY <1>1, <1>2, <1>5
  <2>2. ASSUME i <= Len(s) PROVE Code(s[i]) < Code(u[i])
    <3>1. s[i] \in Byte /\ t[i] \in Byte /\ u[i] \in Byte
      BY <1>0, <1>1, <1>2, <1>5, <2>2 DEF Strings
    <3>2. Code(s[i]) \in Nat /\ Code(t[i]) \in Nat /\ Code(u[i]) \in Nat
      BY <3>1, Codes
    <3>3. Code(s[i]) < Code(t[i])
      BY <1>1, <2>2
    <3>4. Code(t[i]) < Code(u[i])
      BY <1>0, <1>1, <1>2, <1>5
    <3> QED
      BY <3>2, <3>3, <3>4
  <2> QED
    BY <1>1, <1>2, <1>5, <2>1, <2>2 DEF Before
<1>6. CASE k < i
  <2>1. k \in 1 .. Len(u) /\ k - 1 <= Len(s) /\ k <= Len(t) /\ k <= Len(s) /\ k \in 1 .. i - 1
    BY <1>0, <1>1, <1>2, <1>3, <1>6
  <2>2. s[k] = t[k]
    BY <1>1, <2>1
  <2>3. \A j \in 1 .. k - 1 : s[j] = u[j]
    <3>1. \A j \in 1 .. k - 1 : j \in 1 .. i - 1
      BY <1>3, <1>6
    <3> QED
      BY <1>1, <1>2, <3>1
  <2> QED
    BY <1>2, <2>1, <2>2, <2>3 DEF Before
<1> QED
  BY <1>3, <1>4, <1>5, <1>6

LEMMA BeforeTotal ==
    ASSUME NEW s \in Strings, NEW t \in Strings, s # t
    PROVE  Before(s, t) \/ Before(t, s)
<1>0. Len(s) \in Nat /\ Len(t) \in Nat
  BY DEF Strings
<1> DEFINE D == {i \in Nat \ {0} : Len(s) < i \/ Len(t) < i \/ s[i] # t[i]}
<1>1. D # {} /\ D \in SUBSET Nat
  <2>1. Len(s) + 1 \in D
    BY <1>0
  <2> QED
    BY <2>1
<1>2. PICK i \in D : \A k \in D : i <= k
  BY <1>1, Least
<1>3. i \in Nat /\ i # 0
  BY <1>2
<1>4. \A j \in 1 .. i - 1 : j <= Len(s) /\ j <= Len(t) /\ s[j] = t[j]
  <2> SUFFICES ASSUME NEW j \in 1 .. i - 1 PROVE j <= Len(s) /\ j <= Len(t) /\ s[j] = t[j]
    OBVIOUS
  <2>1. j \in Nat \ {0} /\ ~(i <= j)
    BY <1>3
  <2>2. j \notin D
    BY <1>2, <2>1
  <2> QED
    BY <1>0, <2>1, <2>2
<1>5. i - 1 <= Len(s) /\ i - 1 <= Len(t)
  <2>1. CASE i = 1
    BY <1>0, <2>1
  <2>2. CASE i # 1
    <3>1. i - 1 \in 1 .. i - 1
      BY <1>3, <2>2
    <3> QED
      BY <1>4, <3>1
  <2> QED
    BY <2>1, <2>2
<1>6. Len(s) < i \/ Len(t) < i \/ s[i] # t[i]
  BY <1>2
<1> HIDE DEF D
<1>7. CASE Len(s) < i /\ Len(t) < i
  <2>1. Len(s) = i - 1 /\ Len(t) = i - 1
    BY <1>0, <1>3, <1>5, <1>7
  <2>2. s = t
    <3>1. \A j \in 1 .. Len(s) : s[j] = t[j]
      BY <1>4, <2>1
    <3> QED
      BY <2>1, <3>1, SeqEqual DEF Strings
  <2> QED
    BY <2>2
<1>8. CASE Len(s) < i /\ i <= Len(t)
  <2>1. i \in 1 .. Len(t)
    BY <1>0, <1>3, <1>8
  <2>2. \A j \in 1 .. i - 1 : s[j] = t[j]
    BY <1>4
  <2>3. ~(i <= Len(s))
    BY <1>0, <1>3, <1>8
  <2> QED
    BY <1>5, <2>1, <2>2, <2>3 DEF Before
<1>9. CASE Len(t) < i /\ i <= Len(s)
  <2>1. i \in 1 .. Len(s)
    BY <1>0, <1>3, <1>9
  <2>2. \A j \in 1 .. i - 1 : t[j] = s[j]
    BY <1>4
  <2>3. ~(i <= Len(t))
    BY <1>0, <1>3, <1>9
  <2> QED
    BY <1>5, <2>1, <2>2, <2>3 DEF Before
<1>10. CASE i <= Len(s) /\ i <= Len(t)
  <2>1. i \in 1 .. Len(s) /\ i \in 1 .. Len(t) /\ s[i] # t[i]
    BY <1>0, <1>3, <1>6, <1>10
  <2>2. s[i] \in Byte /\ t[i] \in Byte
    BY <2>1 DEF Strings
  <2>3. Code(s[i]) \in Nat /\ Code(t[i]) \in Nat /\ Code(s[i]) # Code(t[i])
    BY <2>1, <2>2, Codes
  <2>4. (\A j \in 1 .. i - 1 : s[j] = t[j]) /\ (\A j \in 1 .. i - 1 : t[j] = s[j])
    BY <1>4
  <2>5. CASE Code(s[i]) < Code(t[i])
    BY <1>5, <2>1, <2>4, <2>5 DEF Before
  <2>6. CASE Code(t[i]) < Code(s[i])
    BY <1>5, <2>1, <2>4, <2>6 DEF Before
  <2> QED
    BY <2>3, <2>5, <2>6
<1> QED
  BY <1>0, <1>3, <1>7, <1>8, <1>9, <1>10

\* Values that can be compared: the score is a number.
Comparable == {v \in Values : v.score # NaN}

LEMMA LessFacts ==
    /\ \A v \in Values : v = Value(v.member, v.score) /\ v.member \in Strings
    /\ \A v, w \in Values : Less(v, w) => /\ v.score \in Int /\ w.score \in Int
                                          /\ v.score <= w.score
                                          /\ v.score = w.score => Before(v.member, w.member)
    /\ \A v, w \in Values : /\ v.score \in Int /\ w.score \in Int /\ v.score <= w.score
                            /\ v.score = w.score => Before(v.member, w.member)
                            => Less(v, w)
<1>1. NaN \notin Int
  BY AlphabetAssumption
<1>2. ASSUME NEW v \in Values PROVE v = Value(v.member, v.score) /\ v.member \in Strings
  BY DEF Values, Value
<1>3. ASSUME NEW v \in Values, NEW w \in Values
      PROVE  Less(v, w) <=> /\ v.score \in Int /\ w.score \in Int
                            /\ v.score <= w.score
                            /\ v.score = w.score => Before(v.member, w.member)
  <2>1. v.score \in Int \cup {NaN} /\ w.score \in Int \cup {NaN}
    BY DEF Values
  <2>2. CASE v.score = NaN
    BY <1>1, <2>1, <2>2 DEF Less, ScoreEqual, ScoreLess
  <2>3. CASE v.score # NaN /\ w.score = NaN
    BY <1>1, <2>1, <2>3 DEF Less, ScoreEqual, ScoreLess
  <2>4. CASE v.score # NaN /\ w.score # NaN
    <3>1. v.score \in Int /\ w.score \in Int
      BY <2>1, <2>4
    <3> QED
      BY <2>4, <3>1 DEF Less, ScoreEqual, ScoreLess
  <2> QED
    BY <2>2, <2>3, <2>4
<1> QED
  BY <1>2, <1>3

LEMMA LessIrreflexive == \A v \in Values : ~Less(v, v)
BY LessFacts, BeforeIrreflexive

LEMMA LessTransitive ==
    ASSUME NEW u \in Values, NEW v \in Values, NEW w \in Values, Less(u, v), Less(v, w)
    PROVE  Less(u, w)
<1>1. /\ u.score \in Int /\ v.score \in Int /\ w.score \in Int
      /\ u.score <= v.score /\ v.score <= w.score
      /\ u.score = v.score => Before(u.member, v.member)
      /\ v.score = w.score => Before(v.member, w.member)
  BY LessFacts
<1>2. u.member \in Strings /\ v.member \in Strings /\ w.member \in Strings
  BY LessFacts
<1>3. u.score <= w.score
  BY <1>1
<1>4. ASSUME u.score = w.score PROVE Before(u.member, w.member)
  <2>1. u.score = v.score /\ v.score = w.score
    BY <1>1, <1>4
  <2> QED
    BY <1>1, <1>2, <2>1, BeforeTransitive
<1> QED
  BY <1>1, <1>3, <1>4, LessFacts

LEMMA LessTotal ==
    ASSUME NEW v \in Comparable, NEW w \in Comparable, v # w
    PROVE  Less(v, w) \/ Less(w, v)
<1>1. v \in Values /\ w \in Values /\ v.score \in Int /\ w.score \in Int
  BY DEF Comparable, Values
<1>2. v.member \in Strings /\ w.member \in Strings
  BY <1>1, LessFacts
<1>3. CASE v.score < w.score
  <2>1. v.score <= w.score /\ v.score # w.score
    BY <1>1, <1>3
  <2> QED
    BY <1>1, <2>1, LessFacts
<1>4. CASE w.score < v.score
  <2>1. w.score <= v.score /\ w.score # v.score
    BY <1>1, <1>4
  <2> QED
    BY <1>1, <2>1, LessFacts
<1>5. CASE v.score = w.score
  <2>1. v.member # w.member
    BY <1>1, <1>5, LessFacts
  <2>2. Before(v.member, w.member) \/ Before(w.member, v.member)
    BY <1>2, <2>1, BeforeTotal
  <2>3. v.score <= w.score /\ w.score <= v.score
    BY <1>1, <1>5
  <2> QED
    BY <1>1, <2>2, <2>3, LessFacts
<1> QED
  BY <1>1, <1>3, <1>4, <1>5

LEMMA LessAsymmetric ==
    ASSUME NEW v \in Values, NEW w \in Values, Less(v, w)
    PROVE  ~Less(w, v) /\ v # w
BY LessIrreflexive, LessTransitive

-----------------------------------------------------------------------------
(* Rebalancing.                                                              *)

LEMMA RotateRight ==
    ASSUME NEW t, IsNode(t), t # Nil, IsNode(t.left), t.left # Nil
    PROVE  right_rotate(t) = Join(t.left.value, t.left.left, Join(t.value, t.left.right, t.right))
<1> DEFINE down == recompute([t EXCEPT !.left = t.left.right])
<1>1. down = Join(t.value, t.left.right, t.right)
  BY RecomputeChild
<1>2. right_rotate(t) = recompute([t.left EXCEPT !.right = down])
  BY DEF right_rotate
<1> HIDE DEF down
<1>3. recompute([t.left EXCEPT !.right = down]) = Join(t.left.value, t.left.left, down)
  BY RecomputeChild
<1> QED
  BY <1>1, <1>2, <1>3

LEMMA RotateLeft ==
    ASSUME NEW t, IsNode(t), t # Nil, IsNode(t.right), t.right # Nil
    PROVE  left_rotate(t) = Join(t.right.value, Join(t.value, t.left, t.right.left), t.right.right)
<1> DEFINE down == recompute([t EXCEPT !.right = t.right.left])
<1>1. down = Join(t.value, t.left, t.right.left)
  BY RecomputeChild
<1>2. left_rotate(t) = recompute([t.right EXCEPT !.left = down])
  BY DEF left_rotate
<1> HIDE DEF down
<1>3. recompute([t.right EXCEPT !.left = down]) = Join(t.right.value, down, t.right.right)
  BY RecomputeChild
<1> QED
  BY <1>1, <1>2, <1>3

LEMMA IsNodeSound == \A t : Sound(t) /\ t # Nil => IsNode(t)
<1> SUFFICES ASSUME NEW t, Sound(t), t # Nil PROVE IsNode(t)
  OBVIOUS
<1>1. t = Join(t.value, t.left, t.right)
  BY SoundParts
<1>2. IsNode(Join(t.value, t.left, t.right))
  BY JoinFields
<1> QED
  BY <1>1, <1>2

\* The five cases of rebalance.
LEMMA RebalanceCases ==
    ASSUME NEW l, NEW r, Sound(l), Sound(r), NEW v \in Values, Join(v, l, r) # Nil
    PROVE  /\ l.height - r.height \in -1 .. 1 => rebalance(Join(v, l, r)) = Join(v, l, r)
           /\ l.height - r.height = 2 /\ l.left.height >= l.right.height =>
                  rebalance(Join(v, l, r)) = Join(l.value, l.left, Join(v, l.right, r))
           /\ l.height - r.height = 2 /\ l.left.height < l.right.height =>
                  rebalance(Join(v, l, r)) = Join(l.right.value, Join(l.value, l.left, l.right.left),
                                                  Join(v, l.right.right, r))
           /\ l.height - r.height = -2 /\ r.left.height <= r.right.height =>
                  rebalance(Join(v, l, r)) = Join(r.value, Join(v, l, r.left), r.right)
           /\ l.height - r.height = -2 /\ r.left.height > r.right.height =>
                  rebalance(Join(v, l, r)) = Join(r.left.value, Join(v, l, r.left.left),
                                                  Join(r.value, r.left.right, r.right))
<1> DEFINE t == Join(v, l, r)
<1>1. /\ t.value = v /\ t.left = l /\ t.right = r /\ IsNode(t) /\ t # Nil
  BY JoinFields
<1>2. /\ l.height \in Int /\ l.height >= -1 /\ (l.height = -1 <=> l = Nil)
      /\ r.height \in Int /\ r.height >= -1 /\ (r.height = -1 <=> r = Nil)
  BY SoundAtLevel
<1> HIDE DEF t
<1>3. ASSUME l.height - r.height \in -1 .. 1 PROVE rebalance(t) = t
  <2>1. ~(get_balance(t) > 1) /\ ~(get_balance(t) < -1)
    BY <1>1, <1>2, <1>3 DEF get_balance
  <2> QED
    BY <2>1 DEF rebalance
<1>4. ASSUME l.height - r.height = 2
      PROVE  /\ l.left.height >= l.right.height =>
                  rebalance(t) = Join(l.value, l.left, Join(v, l.right, r))
             /\ l.left.height < l.right.height =>
                  rebalance(t) = Join(l.right.value, Join(l.value, l.left, l.right.left),
                                      Join(v, l.right.right, r))
  <2>1. get_balance(t) > 1 /\ ~(get_balance(t) < -1) /\ l # Nil
    BY <1>1, <1>2, <1>4 DEF get_balance
  <2>2. /\ IsNode(l) /\ Sound(l.left) /\ Sound(l.right)
        /\ l.left.height \in Int /\ l.right.height \in Int /\ l.left.height >= -1
        /\ l.right.height = -1 <=> l.right = Nil
    BY <2>1, IsNodeSound, SoundParts, SoundAtLevel
  <2>3. CASE l.left.height >= l.right.height
    <3>1. get_balance(t.left) >= 0 /\ ~(get_balance(t.left) < 0)
      BY <1>1, <2>2, <2>3 DEF get_balance
    <3>2. rebalance(t) = right_rotate(t)
      BY <2>1, <3>1 DEF rebalance
    <3> QED
      BY <1>1, <2>1, <2>2, <2>3, <3>2, RotateRight
  <2>4. CASE l.left.height < l.right.height
    <3>1. get_balance(t.left) < 0 /\ ~(get_balance(t.left) >= 0)
      BY <1>1, <2>2, <2>4 DEF get_balance
    <3> DEFINE s == [t EXCEPT !.left = left_rotate(t.left)]
    <3>2. rebalance(t) = right_rotate(s)
      BY <2>1, <3>1 DEF rebalance
    <3>3. l.right # Nil /\ IsNode(l.right)
      BY <2>2, <2>4, IsNodeSound
    <3>4. left_rotate(l) = Join(l.right.value, Join(l.value, l.left, l.right.left), l.right.right)
      BY <2>1, <2>2, <3>3, RotateLeft
    <3> DEFINE m == Join(l.right.value, Join(l.value, l.left, l.right.left), l.right.right)
    <3>5. /\ m.value = l.right.value /\ m.left = Join(l.value, l.left, l.right.left)
          /\ m.right = l.right.right /\ IsNode(m)
      BY JoinFields
    <3>6. s.value = v /\ s.left = m /\ s.right = r /\ IsNode(s)
      BY <1>1, <3>4, RecomputeNode
    <3>7. s # Nil /\ m # Nil
      <4>1. "value" \in DOMAIN s /\ "value" \in DOMAIN m
        BY <3>5, <3>6 DEF IsNode
      <4>2. "value" \notin DOMAIN Nil
        BY DEF Nil
      <4> QED
        BY <4>1, <4>2
    <3> HIDE DEF s, m
    <3>8. right_rotate(s) = Join(m.value, m.left, Join(v, m.right, r))
      BY <3>5, <3>6, <3>7, RotateRight
    <3> QED
      BY <2>4, <2>2, <3>2, <3>5, <3>8
  <2> QED
    BY <2>2, <2>3, <2>4
<1>5. ASSUME l.height - r.height = -2
      PROVE  /\ r.left.height <= r.right.height =>
                  rebalance(t) = Join(r.value, Join(v, l, r.left), r.right)
             /\ r.left.height > r.right.height =>
                  rebalance(t) = Join(r.left.value, Join(v, l, r.left.left),
                                      Join(r.value, r.left.right, r.right))
  <2>1. get_balance(t) < -1 /\ ~(get_balance(t) > 1) /\ r # Nil
    BY <1>1, <1>2, <1>5 DEF get_balance
  <2>2. /\ IsNode(r) /\ Sound(r.left) /\ Sound(r.right)
        /\ r.left.height \in Int /\ r.right.height \in Int /\ r.right.height >= -1
        /\ r.left.height = -1 <=> r.left = Nil
    BY <2>1, IsNodeSound, SoundParts, SoundAtLevel
  <2>3. CASE r.left.height <= r.right.height
    <3>1. get_balance(t.right) <= 0 /\ ~(get_balance(t.right) > 0)
      BY <1>1, <2>2, <2>3 DEF get_balance
    <3>2. rebalance(t) = left_rotate(t)
      BY <2>1, <3>1 DEF rebalance
    <3> QED
      BY <1>1, <2>1, <2>2, <2>3, <3>2, RotateLeft
  <2>4. CASE r.left.height > r.right.height
    <3>1. get_balance(t.right) > 0 /\ ~(get_balance(t.right) <= 0)
      BY <1>1, <2>2, <2>4 DEF get_balance
    <3> DEFINE s == [t EXCEPT !.right = right_rotate(t.right)]
    <3>2. rebalance(t) = left_rotate(s)
      BY <2>1, <3>1 DEF rebalance
    <3>3. r.left # Nil /\ IsNode(r.left)
      BY <2>2, <2>4, IsNodeSound
    <3>4. right_rotate(r) = Join(r.left.value, r.left.left, Join(r.value, r.left.right, r.right))
      BY <2>1, <2>2, <3>3, RotateRight
    <3> DEFINE m == Join(r.left.value, r.left.left, Join(r.value, r.left.right, r.right))
    <3>5. /\ m.value = r.left.value /\ m.right = Join(r.value, r.left.right, r.right)
          /\ m.left = r.left.left /\ IsNode(m)
      BY JoinFields
    <3>6. s.value = v /\ s.left = l /\ s.right = m /\ IsNode(s)
      BY <1>1, <3>4, RecomputeNode
    <3>7. s # Nil /\ m # Nil
      <4>1. "value" \in DOMAIN s /\ "value" \in DOMAIN m
        BY <3>5, <3>6 DEF IsNode
      <4>2. "value" \notin DOMAIN Nil
        BY DEF Nil
      <4> QED
        BY <4>1, <4>2
    <3> HIDE DEF s, m
    <3>8. left_rotate(s) = Join(m.value, Join(v, l, m.left), m.right)
      BY <3>5, <3>6, <3>7, RotateLeft
    <3> QED
      BY <2>4, <2>2, <3>2, <3>5, <3>8
  <2> QED
    BY <2>2, <2>3, <2>4
<1> QED
  BY <1>3, <1>4, <1>5 DEF t

\* What holds of Nil, and of a sound node when of its children, holds of every
\* sound tree.
LEMMA SoundInduction ==
    ASSUME NEW S, Nil \in S,
           \A t : Sound(t) /\ t # Nil /\ t.left \in S /\ t.right \in S => t \in S
    PROVE  \A t : Sound(t) => t \in S
<1> DEFINE R == {n \in Nat : \A t \in SoundTree[n] : t \in S}
<1>1. 0 \in R
  BY SoundLevels
<1>2. ASSUME NEW n \in Nat, n \in R PROVE n + 1 \in R
  <2> SUFFICES ASSUME NEW t \in SoundTree[n + 1], t # Nil PROVE t \in S
    OBVIOUS
  <2>1. t.left \in S /\ t.right \in S
    BY <1>2, SoundNode
  <2>2. Sound(t)
    BY SoundEverywhere
  <2> QED
    BY <2>1, <2>2
<1> HIDE DEF R
<1>3. \A n \in Nat : n \in R
  BY <1>1, <1>2, EveryLevel
<1>4. ASSUME NEW t, Sound(t) PROVE t \in S
  BY <1>3, <1>4, SoundAtLevel DEF R
<1> QED
  BY <1>4

LEMMA HeldValues == \A t : Sound(t) => HeldBy(t) \subseteq Values
<1> DEFINE S == {t \in UNION {SoundTree[n] : n \in Nat} : HeldBy(t) \subseteq Values}
<1>1. Nil \in S
  <2>1. Nil \in SoundTree[0 + 1]
    BY NilIsSound
  <2> QED
    BY <2>1, HeldByNil
<1>2. ASSUME NEW t, Sound(t), t # Nil, t.left \in S, t.right \in S PROVE t \in S
  <2>1. HeldBy(Join(t.value, t.left, t.right)) = HeldBy(t.left) \cup {t.value} \cup HeldBy(t.right)
    BY <1>2, SoundParts, HeldByJoin
  <2>2. HeldBy(t) \subseteq Values
    BY <1>2, <2>1, SoundParts
  <2>3. Level(t) \in Nat /\ t \in SoundTree[Level(t)]
    BY <1>2, SoundAtLevel
  <2> QED
    BY <2>2, <2>3
<1> HIDE DEF S
<1>3. \A t : Sound(t) => t \in S
  BY <1>1, <1>2, SoundInduction
<1> QED
  BY <1>3 DEF S

\* a, w, b, v, c in this order, leaning to the left and to the right.
LEMMA Rotated ==
    ASSUME NEW a, NEW b, NEW c, Sound(a), Sound(b), Sound(c), NEW w \in Values, NEW v \in Values,
           a.height - b.height \in -1 .. 1, b.height - c.height \in -1 .. 1
    PROVE  /\ a.height - Join(v, b, c).height \in -1 .. 1 =>
                  /\ Sound(Join(w, a, Join(v, b, c))) /\ Join(w, a, Join(v, b, c)) # Nil
                  /\ HeldBy(Join(w, a, Join(v, b, c))) = HeldBy(Join(w, a, b)) \cup {v} \cup HeldBy(c)
                  /\ Ordered(Join(w, a, b)) /\ Ordered(c) /\ Between(Join(w, a, b), v, c)
                         => Ordered(Join(w, a, Join(v, b, c)))
           /\ Join(w, a, b).height - c.height \in -1 .. 1 =>
                  /\ Sound(Join(v, Join(w, a, b), c)) /\ Join(v, Join(w, a, b), c) # Nil
                  /\ HeldBy(Join(v, Join(w, a, b), c)) = HeldBy(a) \cup {w} \cup HeldBy(Join(v, b, c))
                  /\ Ordered(a) /\ Ordered(Join(v, b, c)) /\ Between(a, w, Join(v, b, c))
                         => Ordered(Join(v, Join(w, a, b), c))
<1> DEFINE l == Join(w, a, b)
           r == Join(v, b, c)
<1>1. Sound(l) /\ Sound(r)
  BY JoinSound
<1>2. HeldBy(l) = HeldBy(a) \cup {w} \cup HeldBy(b) /\ HeldBy(r) = HeldBy(b) \cup {v} \cup HeldBy(c)
  BY HeldByJoin
<1>3. /\ Ordered(l) <=> Ordered(a) /\ Ordered(b) /\ Between(a, w, b)
      /\ Ordered(r) <=> Ordered(b) /\ Ordered(c) /\ Between(b, v, c)
  BY JoinOrdered
<1>4. HeldBy(a) \subseteq Values /\ HeldBy(b) \subseteq Values /\ HeldBy(c) \subseteq Values
  BY HeldValues
<1> HIDE DEF l, r
<1>5. ASSUME a.height - r.height \in -1 .. 1
      PROVE  /\ Sound(Join(w, a, r)) /\ Join(w, a, r) # Nil
             /\ HeldBy(Join(w, a, r)) = HeldBy(l) \cup {v} \cup HeldBy(c)
             /\ Ordered(l) /\ Ordered(c) /\ Between(l, v, c) => Ordered(Join(w, a, r))
  <2>1. Sound(Join(w, a, r)) /\ Join(w, a, r) # Nil
    BY <1>1, <1>5, JoinSound
  <2>2. HeldBy(Join(w, a, r)) = HeldBy(a) \cup {w} \cup HeldBy(r)
    BY <1>1, <1>5, HeldByJoin
  <2>3. Ordered(Join(w, a, r)) <=> Ordered(a) /\ Ordered(r) /\ Between(a, w, r)
    BY <1>1, <1>5, JoinOrdered
  <2>4. ASSUME Ordered(l), Ordered(c), Between(l, v, c) PROVE Ordered(Join(w, a, r))
    <3>1. Between(a, w, b) /\ Ordered(a) /\ Ordered(b)
      BY <1>3, <2>4
    <3>2. Less(w, v) /\ (\A x \in HeldBy(b) : Less(x, v)) /\ (\A x \in HeldBy(c) : Less(v, x))
      BY <1>2, <2>4 DEF Between
    <3>3. Between(b, v, c)
      BY <3>2 DEF Between
    <3>4. \A x \in HeldBy(c) : Less(w, x)
      BY <1>4, <3>2, LessTransitive
    <3>5. Between(a, w, r)
      BY <1>2, <3>1, <3>2, <3>4 DEF Between
    <3> QED
      BY <1>3, <2>3, <2>4, <3>1, <3>3, <3>5
  <2>5. HeldBy(Join(w, a, r)) = HeldBy(l) \cup {v} \cup HeldBy(c)
    BY <1>2, <2>2
  <2> QED
    BY <2>1, <2>4, <2>5
<1>6. ASSUME l.height - c.height \in -1 .. 1
      PROVE  /\ Sound(Join(v, l, c)) /\ Join(v, l, c) # Nil
             /\ HeldBy(Join(v, l, c)) = HeldBy(a) \cup {w} \cup HeldBy(r)
             /\ Ordered(a) /\ Ordered(r) /\ Between(a, w, r) => Ordered(Join(v, l, c))
  <2>1. Sound(Join(v, l, c)) /\ Join(v, l, c) # Nil
    BY <1>1, <1>6, JoinSound
  <2>2. HeldBy(Join(v, l, c)) = HeldBy(l) \cup {v} \cup HeldBy(c)
    BY <1>1, <1>6, HeldByJoin
  <2>3. Ordered(Join(v, l, c)) <=> Ordered(l) /\ Ordered(c) /\ Between(l, v, c)
    BY <1>1, <1>6, JoinOrdered
  <2>4. ASSUME Ordered(a), Ordered(r), Between(a, w, r) PROVE Ordered(Join(v, l, c))
    <3>1. Between(b, v, c) /\ Ordered(b) /\ Ordered(c)
      BY <1>3, <2>4
    <3>2. Less(w, v) /\ (\A x \in HeldBy(a) : Less(x, w)) /\ (\A x \in HeldBy(b) : Less(w, x))
      BY <1>2, <2>4 DEF Between
    <3>3. Between(a, w, b)
      BY <3>2 DEF Between
    <3>4. \A x \in HeldBy(a) : Less(x, v)
      BY <1>4, <3>2, LessTransitive
    <3>5. Between(l, v, c)
      BY <1>2, <3>1, <3>2, <3>4 DEF Between
    <3> QED
      BY <1>3, <2>3, <2>4, <3>1, <3>3, <3>5
  <2>5. HeldBy(Join(v, l, c)) = HeldBy(a) \cup {w} \cup HeldBy(r)
    BY <1>2, <2>2
  <2> QED
    BY <2>1, <2>4, <2>5
<1> QED
  BY <1>5, <1>6 DEF l, r

\* A double rotation: a, w, p, x, q, v, c in this order.
LEMMA RotatedTwice ==
    ASSUME NEW a, NEW p, NEW q, NEW c, Sound(a), Sound(p), Sound(q), Sound(c),
           NEW w \in Values, NEW x \in Values, NEW v \in Values,
           a.height - p.height \in -1 .. 1, q.height - c.height \in -1 .. 1,
           p.height - q.height \in -1 .. 1,
           Join(w, a, p).height - Join(v, q, c).height \in -1 .. 1
    PROVE  LET u == Join(x, Join(w, a, p), Join(v, q, c))
               inner == Join(x, p, q)
           IN  /\ Sound(u) /\ u # Nil
               /\ HeldBy(u) = HeldBy(a) \cup {w} \cup HeldBy(inner) \cup {v} \cup HeldBy(c)
               /\ Ordered(a) /\ Ordered(inner) /\ Ordered(c) /\ Between(a, w, inner)
                  /\ Between(inner, v, c) /\ Less(w, v) => Ordered(u)
<1> DEFINE l == Join(w, a, p)
           r == Join(v, q, c)
           inner == Join(x, p, q)
           u == Join(x, l, r)
<1>1. Sound(l) /\ Sound(r)
  BY JoinSound
<1>2. /\ HeldBy(l) = HeldBy(a) \cup {w} \cup HeldBy(p) /\ HeldBy(r) = HeldBy(q) \cup {v} \cup HeldBy(c)
      /\ HeldBy(inner) = HeldBy(p) \cup {x} \cup HeldBy(q)
  BY HeldByJoin
<1>3. /\ Ordered(l) <=> Ordered(a) /\ Ordered(p) /\ Between(a, w, p)
      /\ Ordered(r) <=> Ordered(q) /\ Ordered(c) /\ Between(q, v, c)
      /\ Ordered(inner) <=> Ordered(p) /\ Ordered(q) /\ Between(p, x, q)
  BY JoinOrdered
<1>4. /\ HeldBy(a) \subseteq Values /\ HeldBy(p) \subseteq Values
      /\ HeldBy(q) \subseteq Values /\ HeldBy(c) \subseteq Values
  BY HeldValues
<1>5. l.height - r.height \in -1 .. 1
  OBVIOUS
<1> HIDE DEF l, r, inner
<1>6. /\ Sound(u) /\ u # Nil /\ HeldBy(u) = HeldBy(l) \cup {x} \cup HeldBy(r)
      /\ Ordered(u) <=> Ordered(l) /\ Ordered(r) /\ Between(l, x, r)
  BY <1>1, <1>5, JoinSound, HeldByJoin, JoinOrdered
<1>7. ASSUME Ordered(a), Ordered(inner), Ordered(c), Between(a, w, inner), Between(inner, v, c), Less(w, v)
      PROVE  Ordered(u)
  <2>1. /\ \A y \in HeldBy(a) : Less(y, w)
        /\ \A y \in HeldBy(p) : Less(w, y) /\ Less(y, v) /\ Less(y, x)
        /\ \A y \in HeldBy(q) : Less(w, y) /\ Less(y, v) /\ Less(x, y)
        /\ \A y \in HeldBy(c) : Less(v, y)
        /\ Less(w, x) /\ Less(x, v)
    BY <1>2, <1>3, <1>7 DEF Between
  <2>2. Between(a, w, p) /\ Between(q, v, c)
    BY <2>1 DEF Between
  <2>3. \A y \in HeldBy(a) : Less(y, x)
    BY <1>4, <2>1, LessTransitive
  <2>4. \A y \in HeldBy(c) : Less(x, y)
    BY <1>4, <2>1, LessTransitive
  <2>5. Between(l, x, r)
    BY <1>2, <2>1, <2>3, <2>4 DEF Between
  <2> QED
    BY <1>3, <1>6, <1>7, <2>2, <2>5
<1>8. HeldBy(u) = HeldBy(a) \cup {w} \cup HeldBy(inner) \cup {v} \cup HeldBy(c)
  BY <1>2, <1>6
<1> QED
  BY <1>6, <1>7, <1>8 DEF u, l, r, inner

\* rebalance keeps the values and their order, restores the balance, and costs
\* at most one of the height.
LEMMA Rebalanced ==
    ASSUME NEW l, NEW r, Sound(l), Sound(r), NEW v \in Values, l.height - r.height \in -2 .. 2
    PROVE  LET u == rebalance(Join(v, l, r))
               tallest == IF l.height > r.height THEN l.height ELSE r.height
           IN  /\ Sound(u) /\ u # Nil
               /\ u.height \in {tallest, tallest + 1}
               /\ l.height - r.height \in -1 .. 1 => u.height = tallest + 1
               /\ HeldBy(u) = HeldBy(l) \cup {v} \cup HeldBy(r)
               /\ Ordered(l) /\ Ordered(r) /\ Between(l, v, r) => Ordered(u)
<1> DEFINE u == rebalance(Join(v, l, r))
           Good == /\ Sound(u) /\ u # Nil
                   /\ HeldBy(u) = HeldBy(l) \cup {v} \cup HeldBy(r)
                   /\ Ordered(l) /\ Ordered(r) /\ Between(l, v, r) => Ordered(u)
<1>0. /\ l.height \in Int /\ l.height >= -1 /\ (l.height = -1 <=> l = Nil)
      /\ r.height \in Int /\ r.height >= -1 /\ (r.height = -1 <=> r = Nil)
  BY SoundAtLevel
<1>1. Join(v, l, r) # Nil
  <2>1. Join(v, l, r).height >= 0
    BY <1>0, JoinFields
  <2> QED
    BY <2>1 DEF Nil
<1>2. CASE l.height - r.height \in -1 .. 1
  <2>1. u = Join(v, l, r)
    BY <1>1, <1>2, RebalanceCases
  <2>2. u.height = 1 + (IF l.height > r.height THEN l.height ELSE r.height)
    BY <2>1, JoinFields
  <2>3. Good
    BY <1>2, <2>1, JoinSound, HeldByJoin, JoinOrdered
  <2> QED
    BY <1>0, <2>2, <2>3
<1>3. CASE l.height - r.height = 2
  <2>1. l # Nil
    BY <1>0, <1>3
  <2> DEFINE w == l.value
             a == l.left
             b == l.right
  <2>2. /\ Sound(a) /\ Sound(b) /\ w \in Values /\ l = Join(w, a, b) /\ a.height - b.height \in -1 .. 1
        /\ l.height = 1 + (IF a.height > b.height THEN a.height ELSE b.height)
    BY <2>1, SoundParts
  <2>3. a.height \in Int /\ b.height \in Int /\ (b.height = -1 <=> b = Nil)
    BY <2>2, SoundAtLevel
  <2>4. CASE a.height >= b.height
    <3> DEFINE k == Join(v, b, r)
    <3>1. u = Join(w, a, k)
      BY <1>1, <1>3, <2>4, RebalanceCases
    <3>2. k.height = 1 + (IF b.height > r.height THEN b.height ELSE r.height)
      BY JoinFields
    <3>3. /\ a.height = r.height + 1 /\ b.height - r.height \in 0 .. 1
          /\ k.height \in Int /\ a.height - k.height \in -1 .. 0
      BY <1>0, <1>3, <2>2, <2>3, <2>4, <3>2
    <3>4. u.height = 1 + (IF a.height > k.height THEN a.height ELSE k.height)
      BY <3>1, JoinFields
    <3>5. Good
      <4>1. b.height - r.height \in -1 .. 1 /\ a.height - k.height \in -1 .. 1
        BY <3>3, <1>0, <2>3
      <4> QED
        BY <2>2, <3>1, <4>1, Rotated
    <3>6. u.height \in {l.height, l.height + 1}
      BY <1>0, <1>3, <2>3, <3>3, <3>4
    <3> QED
      BY <1>0, <1>3, <3>5, <3>6
  <2>5. CASE a.height < b.height
    <3>1. b # Nil
      <4>1. a.height >= -1
        BY <2>2, SoundAtLevel
      <4> QED
        BY <2>3, <2>5, <4>1
    <3> DEFINE x == b.value
               p == b.left
               q == b.right
    <3>2. /\ Sound(p) /\ Sound(q) /\ x \in Values /\ b = Join(x, p, q) /\ p.height - q.height \in -1 .. 1
          /\ b.height = 1 + (IF p.height > q.height THEN p.height ELSE q.height)
      BY <2>2, <3>1, SoundParts
    <3>3. p.height \in Int /\ q.height \in Int
      BY <3>2, SoundAtLevel
    <3>4. u = Join(x, Join(w, a, p), Join(v, q, r))
      BY <1>1, <1>3, <2>5, RebalanceCases
    <3>5. /\ a.height = r.height /\ p.height - r.height \in -1 .. 0 /\ q.height - r.height \in -1 .. 0
      BY <1>0, <1>3, <2>2, <2>3, <2>5, <3>2, <3>3
    <3> HIDE DEF a, b, w, x, p, q
    <3>6. Join(w, a, p).height = 1 + r.height /\ Join(v, q, r).height = 1 + r.height
      <4>1. /\ Join(w, a, p).height = 1 + (IF a.height > p.height THEN a.height ELSE p.height)
            /\ Join(v, q, r).height = 1 + (IF q.height > r.height THEN q.height ELSE r.height)
        BY JoinFields
      <4> QED
        BY <1>0, <2>3, <3>3, <3>5, <4>1
    <3>7. u.height = 2 + r.height
      <4>1. u.height = 1 + (IF Join(w, a, p).height > Join(v, q, r).height
                            THEN Join(w, a, p).height ELSE Join(v, q, r).height)
        BY <3>4, JoinFields
      <4> QED
        BY <1>0, <3>6, <4>1
    <3>8. /\ a.height - p.height \in -1 .. 1 /\ q.height - r.height \in -1 .. 1
          /\ Join(w, a, p).height - Join(v, q, r).height \in -1 .. 1
      BY <1>0, <2>3, <3>3, <3>5, <3>6
    <3>9. /\ Sound(u) /\ u # Nil
          /\ HeldBy(u) = HeldBy(a) \cup {w} \cup HeldBy(b) \cup {v} \cup HeldBy(r)
          /\ Ordered(a) /\ Ordered(b) /\ Ordered(r) /\ Between(a, w, b) /\ Between(b, v, r)
             /\ Less(w, v) => Ordered(u)
      <4> DEFINE z == Join(x, Join(w, a, p), Join(v, q, r))
      <4>1. /\ Sound(z) /\ z # Nil
            /\ HeldBy(z) = HeldBy(a) \cup {w} \cup HeldBy(Join(x, p, q)) \cup {v} \cup HeldBy(r)
            /\ Ordered(a) /\ Ordered(Join(x, p, q)) /\ Ordered(r) /\ Between(a, w, Join(x, p, q))
               /\ Between(Join(x, p, q), v, r) /\ Less(w, v) => Ordered(z)
        <5> HIDE DEF u, Good
        <5> QED
          BY <2>2, <3>2, <3>8, RotatedTwice
      <4> HIDE DEF z, u
      <4>2. u = z
        BY <3>4 DEF z
      <4> QED
        BY <3>2, <4>1, <4>2
    <3>10. /\ HeldBy(l) = HeldBy(a) \cup {w} \cup HeldBy(b)
           /\ Ordered(l) <=> Ordered(a) /\ Ordered(b) /\ Between(a, w, b)
      BY <2>2, HeldByJoin, JoinOrdered
    <3>11. Good
      <4>1. Between(l, v, r) => Between(b, v, r) /\ Less(w, v)
        BY <3>10 DEF Between
      <4> QED
        BY <3>9, <3>10, <4>1
    <3> QED
      BY <1>0, <1>3, <3>7, <3>11
  <2> QED
    BY <2>3, <2>4, <2>5
<1>4. CASE l.height - r.height = -2
  <2>1. r # Nil
    BY <1>0, <1>4
  <2> DEFINE w == r.value
             b == r.left
             c == r.right
  <2>2. /\ Sound(b) /\ Sound(c) /\ w \in Values /\ r = Join(w, b, c) /\ b.height - c.height \in -1 .. 1
        /\ r.height = 1 + (IF b.height > c.height THEN b.height ELSE c.height)
    BY <2>1, SoundParts
  <2>3. b.height \in Int /\ c.height \in Int /\ (b.height = -1 <=> b = Nil)
    BY <2>2, SoundAtLevel
  <2>4. CASE b.height <= c.height
    <3> DEFINE k == Join(v, l, b)
    <3>1. u = Join(w, k, c)
      BY <1>1, <1>4, <2>4, RebalanceCases
    <3>2. k.height = 1 + (IF l.height > b.height THEN l.height ELSE b.height)
      BY JoinFields
    <3>3. /\ c.height = l.height + 1 /\ b.height - l.height \in 0 .. 1
          /\ k.height \in Int /\ k.height - c.height \in 0 .. 1
      BY <1>0, <1>4, <2>2, <2>3, <2>4, <3>2
    <3>4. u.height = 1 + (IF k.height > c.height THEN k.height ELSE c.height)
      BY <3>1, JoinFields
    <3>5. Good
      <4>1. l.height - b.height \in -1 .. 1 /\ k.height - c.height \in -1 .. 1
        BY <3>3, <1>0, <2>3
      <4> QED
        BY <2>2, <3>1, <4>1, Rotated
    <3>6. u.height \in {r.height, r.height + 1}
      <4> HIDE DEF u, k, b, c
      <4>1. k.height \in {c.height, c.height + 1} /\ r.height = c.height + 1
        BY <1>0, <1>4, <2>3, <3>3
      <4>2. u.height = 1 + k.height
        BY <2>3, <3>4, <4>1
      <4> QED
        BY <2>3, <4>1, <4>2
    <3> QED
      BY <1>0, <1>4, <3>5, <3>6
  <2>5. CASE b.height > c.height
    <3>1. b # Nil
      <4>1. c.height >= -1
        BY <2>2, SoundAtLevel
      <4> QED
        BY <2>3, <2>5, <4>1
    <3> DEFINE x == b.value
               p == b.left
               q == b.right
    <3>2. /\ Sound(p) /\ Sound(q) /\ x \in Values /\ b = Join(x, p, q) /\ p.height - q.height \in -1 .. 1
          /\ b.height = 1 + (IF p.height > q.height THEN p.height ELSE q.height)
      BY <2>2, <3>1, SoundParts
    <3>3. p.height \in Int /\ q.height \in Int
      BY <3>2, SoundAtLevel
    <3>4. u = Join(x, Join(v, l, p), Join(w, q, c))
      BY <1>1, <1>4, <2>5, RebalanceCases
    <3>5. /\ c.height = l.height /\ p.height - l.height \in -1 .. 0 /\ q.height - l.height \in -1 .. 0
      <4>1. c.height = l.height /\ b.height = l.height + 1
        BY <1>0, <1>4, <2>2, <2>3, <2>5
      <4> HIDE DEF b, c, p, q
      <4> QED
        BY <2>3, <3>2, <3>3, <4>1
    <3> HIDE DEF b, c, w, x, p, q
    <3>6. Join(v, l, p).height = 1 + l.height /\ Join(w, q, c).height = 1 + l.height
      <4>1. /\ Join(v, l, p).height = 1 + (IF l.height > p.height THEN l.height ELSE p.height)
            /\ Join(w, q, c).height = 1 + (IF q.height > c.height THEN q.height ELSE c.height)
        BY JoinFields
      <4> QED
        BY <1>0, <2>3, <3>3, <3>5, <4>1
    <3>7. u.height = 2 + l.height
      <4>1. u.height = 1 + (IF Join(v, l, p).height > Join(w, q, c).height
                            THEN Join(v, l, p).height ELSE Join(w, q, c).height)
        BY <3>4, JoinFields
      <4> QED
        BY <1>0, <3>6, <4>1
    <3>8. /\ l.height - p.height \in -1 .. 1 /\ q.height - c.height \in -1 .. 1
          /\ Join(v, l, p).height - Join(w, q, c).height \in -1 .. 1
      BY <1>0, <2>3, <3>3, <3>5, <3>6
    <3>9. /\ Sound(u) /\ u # Nil
          /\ HeldBy(u) = HeldBy(l) \cup {v} \cup HeldBy(b) \cup {w} \cup HeldBy(c)
          /\ Ordered(l) /\ Ordered(b) /\ Ordered(c) /\ Between(l, v, b) /\ Between(b, w, c)
             /\ Less(v, w) => Ordered(u)
      <4> DEFINE z == Join(x, Join(v, l, p), Join(w, q, c))
      <4>1. /\ Sound(z) /\ z # Nil
            /\ HeldBy(z) = HeldBy(l) \cup {v} \cup HeldBy(Join(x, p, q)) \cup {w} \cup HeldBy(c)
            /\ Ordered(l) /\ Ordered(Join(x, p, q)) /\ Ordered(c) /\ Between(l, v, Join(x, p, q))
               /\ Between(Join(x, p, q), w, c) /\ Less(v, w) => Ordered(z)
        <5> HIDE DEF u, Good
        <5> QED
          BY <2>2, <3>2, <3>8, RotatedTwice
      <4> HIDE DEF z, u
      <4>2. u = z
        BY <3>4 DEF z
      <4> QED
        BY <3>2, <4>1, <4>2
    <3>10. /\ HeldBy(r) = HeldBy(b) \cup {w} \cup HeldBy(c)
           /\ Ordered(r) <=> Ordered(b) /\ Ordered(c) /\ Between(b, w, c)
      BY <2>2, HeldByJoin, JoinOrdered
    <3>11. Good
      <4>1. Between(l, v, r) => Between(l, v, b) /\ Less(v, w)
        BY <3>10 DEF Between
      <4> QED
        BY <3>9, <3>10, <4>1
    <3> QED
      BY <1>0, <1>4, <3>7, <3>11
  <2> QED
    BY <2>3, <2>4, <2>5
<1> QED
  BY <1>0, <1>2, <1>3, <1>4

-----------------------------------------------------------------------------
(* Insertion.                                                                *)

LEMMA InsertNode ==
    ASSUME NEW n \in Nat, NEW t \in SoundTree[n + 1], NEW v \in Values
    PROVE  insert_at[n + 1][t][v] =
               IF t = Nil THEN Leaf(v)
               ELSE IF Less(v, t.value) THEN rebalance(Join(t.value, insert_at[n][t.left][v], t.right))
               ELSE IF Less(t.value, v) THEN rebalance(Join(t.value, t.left, insert_at[n][t.right][v]))
               ELSE t
<1>1. n + 1 \in Nat /\ (n + 1) - 1 = n
  OBVIOUS
<1>2. insert_at[n + 1] = InsertFrom(insert_at[n], n + 1)
  BY <1>1, InsertLevels
<1>3. t \in Tree[n + 1]
  BY SoundNode
<1>4. insert_at[n + 1][t][v] =
          IF t = Nil THEN Leaf(v)
          ELSE IF Less(v, t.value) THEN rebalance(recompute([t EXCEPT !.left = insert_at[n][t.left][v]]))
          ELSE IF Less(t.value, v) THEN rebalance(recompute([t EXCEPT !.right = insert_at[n][t.right][v]]))
          ELSE t
  BY <1>2, <1>3 DEF InsertFrom
<1>5. CASE t = Nil
  BY <1>4, <1>5
<1>6. CASE t # Nil
  <2>1. IsNode(t)
    BY <1>6, SoundEverywhere, IsNodeSound
  <2>2. /\ recompute([t EXCEPT !.left = insert_at[n][t.left][v]])
               = Join(t.value, insert_at[n][t.left][v], t.right)
        /\ recompute([t EXCEPT !.right = insert_at[n][t.right][v]])
               = Join(t.value, t.left, insert_at[n][t.right][v])
    BY <2>1, RecomputeChild
  <2> QED
    BY <1>4, <1>6, <2>2
<1> QED
  BY <1>5, <1>6

LEMMA LeafSound ==
    ASSUME NEW v \in Values
    PROVE  /\ Sound(Leaf(v)) /\ Leaf(v) # Nil /\ Leaf(v).height = 0 /\ Ordered(Leaf(v))
           /\ HeldBy(Leaf(v)) = {v}
<1>1. Leaf(v) = Join(v, Nil, Nil)
  BY DEF Leaf, Join, Nil
<1>2. Nil.height - Nil.height \in -1 .. 1
  BY NilSound
<1>3. Between(Nil, v, Nil)
  BY HeldByNil DEF Between
<1>4. Leaf(v).height = 0
  BY DEF Leaf
<1> QED
  BY <1>1, <1>2, <1>3, <1>4, NilSound, NilOrdered, HeldByNil, JoinSound, HeldByJoin, JoinOrdered

\* What an insertion makes of t, whatever is inserted, and with a value that
\* can be compared.
InsertedWell(t, v, u) ==
    /\ Sound(u) /\ u # Nil /\ u.height \in {t.height, t.height + 1}
    /\ HeldBy(u) \subseteq HeldBy(t) \cup {v}
    /\ Ordered(t) /\ v \in Comparable /\ HeldBy(t) \subseteq Comparable
           => Ordered(u) /\ HeldBy(u) = HeldBy(t) \cup {v}

LEMMA Inserted ==
    \A n \in Nat : \A t \in SoundTree[n] : \A v \in Values : InsertedWell(t, v, insert_at[n][t][v])
<1> DEFINE S == {n \in Nat : \A t \in SoundTree[n] : \A v \in Values :
                                 InsertedWell(t, v, insert_at[n][t][v])}
<1>1. 0 \in S
  BY SoundLevels
<1>2. ASSUME NEW n \in Nat, n \in S PROVE n + 1 \in S
  <2> SUFFICES ASSUME NEW t \in SoundTree[n + 1], NEW v \in Values
               PROVE  InsertedWell(t, v, insert_at[n + 1][t][v])
    OBVIOUS
  <2>1. CASE t = Nil
    <3>1. insert_at[n + 1][t][v] = Leaf(v)
      BY <2>1, InsertNode
    <3> QED
      BY <2>1, <3>1, LeafSound, HeldByNil, NilSound DEF InsertedWell
  <2>2. CASE t # Nil
    <3> DEFINE w == t.value
               l == t.left
               r == t.right
    <3>1. /\ l \in SoundTree[n] /\ r \in SoundTree[n] /\ Sound(t)
      BY <2>2, SoundNode, SoundEverywhere
    <3>2. /\ Sound(l) /\ Sound(r) /\ w \in Values /\ t = Join(w, l, r)
          /\ l.height - r.height \in -1 .. 1
          /\ t.height = 1 + (IF l.height > r.height THEN l.height ELSE r.height)
      BY <2>2, <3>1, SoundParts
    <3>3. /\ HeldBy(t) = HeldBy(l) \cup {w} \cup HeldBy(r)
          /\ Ordered(t) <=> Ordered(l) /\ Ordered(r) /\ Between(l, w, r)
      BY <3>2, HeldByJoin, JoinOrdered
    <3>4. l.height \in Int /\ r.height \in Int
      BY <3>2, SoundAtLevel
    <3> HIDE DEF l, r, w
    <3>5. CASE Less(v, w)
      <4> DEFINE k == insert_at[n][l][v]
                 u == rebalance(Join(w, k, r))
      <4>1. insert_at[n + 1][t][v] = u
        BY <2>2, <3>5, InsertNode DEF l, r, w
      <4>2. InsertedWell(l, v, k)
        BY <1>2, <3>1
      <4> HIDE DEF k
      <4>3. Sound(k) /\ k.height \in {l.height, l.height + 1} /\ k.height - r.height \in -2 .. 2
        BY <3>2, <3>4, <4>2 DEF InsertedWell
      <4>4. /\ Sound(u) /\ u # Nil
            /\ u.height \in {IF k.height > r.height THEN k.height ELSE r.height,
                             (IF k.height > r.height THEN k.height ELSE r.height) + 1}
            /\ k.height - r.height \in -1 .. 1 =>
                   u.height = (IF k.height > r.height THEN k.height ELSE r.height) + 1
            /\ HeldBy(u) = HeldBy(k) \cup {w} \cup HeldBy(r)
            /\ Ordered(k) /\ Ordered(r) /\ Between(k, w, r) => Ordered(u)
        BY <3>2, <4>3, Rebalanced
      <4> HIDE DEF u
      <4>5. u.height \in {t.height, t.height + 1}
        BY <3>2, <3>4, <4>3, <4>4
      <4>6. HeldBy(u) \subseteq HeldBy(t) \cup {v}
        BY <3>3, <4>2, <4>4 DEF InsertedWell
      <4>7. ASSUME Ordered(t), v \in Comparable, HeldBy(t) \subseteq Comparable
            PROVE  Ordered(u) /\ HeldBy(u) = HeldBy(t) \cup {v}
        <5>1. Ordered(k) /\ HeldBy(k) = HeldBy(l) \cup {v}
          BY <3>3, <4>2, <4>7 DEF InsertedWell
        <5>2. Between(k, w, r)
          BY <3>3, <3>5, <4>7, <5>1 DEF Between
        <5> QED
          BY <3>3, <4>4, <4>7, <5>1, <5>2
      <4> QED
        BY <4>1, <4>4, <4>5, <4>6, <4>7 DEF InsertedWell
    <3>6. CASE ~Less(v, w) /\ Less(w, v)
      <4> DEFINE k == insert_at[n][r][v]
                 u == rebalance(Join(w, l, k))
      <4>1. insert_at[n + 1][t][v] = u
        BY <2>2, <3>6, InsertNode DEF l, r, w
      <4>2. InsertedWell(r, v, k)
        BY <1>2, <3>1
      <4> HIDE DEF k
      <4>3. Sound(k) /\ k.height \in {r.height, r.height + 1} /\ l.height - k.height \in -2 .. 2
        BY <3>2, <3>4, <4>2 DEF InsertedWell
      <4>4. /\ Sound(u) /\ u # Nil
            /\ u.height \in {IF l.height > k.height THEN l.height ELSE k.height,
                             (IF l.height > k.height THEN l.height ELSE k.height) + 1}
            /\ l.height - k.height \in -1 .. 1 =>
                   u.height = (IF l.height > k.height THEN l.height ELSE k.height) + 1
            /\ HeldBy(u) = HeldBy(l) \cup {w} \cup HeldBy(k)
            /\ Ordered(l) /\ Ordered(k) /\ Between(l, w, k) => Ordered(u)
        BY <3>2, <4>3, Rebalanced
      <4> HIDE DEF u
      <4>5. u.height \in {t.height, t.height + 1}
        BY <3>2, <3>4, <4>3, <4>4
      <4>6. HeldBy(u) \subseteq HeldBy(t) \cup {v}
        BY <3>3, <4>2, <4>4 DEF InsertedWell
      <4>7. ASSUME Ordered(t), v \in Comparable, HeldBy(t) \subseteq Comparable
            PROVE  Ordered(u) /\ HeldBy(u) = HeldBy(t) \cup {v}
        <5>1. Ordered(k) /\ HeldBy(k) = HeldBy(r) \cup {v}
          BY <3>3, <4>2, <4>7 DEF InsertedWell
        <5>2. Between(l, w, k)
          BY <3>3, <3>6, <4>7, <5>1 DEF Between
        <5> QED
          BY <3>3, <4>4, <4>7, <5>1, <5>2
      <4> QED
        BY <4>1, <4>4, <4>5, <4>6, <4>7 DEF InsertedWell
    <3>7. CASE ~Less(v, w) /\ ~Less(w, v)
      <4>1. insert_at[n + 1][t][v] = t
        BY <2>2, <3>7, InsertNode DEF l, r, w
      <4>2. ASSUME v \in Comparable, HeldBy(t) \subseteq Comparable
            PROVE  HeldBy(t) = HeldBy(t) \cup {v}
        <5>1. w \in Comparable
          BY <3>3, <4>2
        <5>2. w = v
          BY <3>7, <4>2, <5>1, LessTotal
        <5> QED
          BY <3>3, <5>2
      <4> QED
        BY <2>2, <3>1, <4>1, <4>2 DEF InsertedWell
    <3> QED
      BY <3>5, <3>6, <3>7
  <2> QED
    BY <2>1, <2>2
<1> HIDE DEF S
<1>3. \A n \in Nat : n \in S
  BY <1>1, <1>2, EveryLevel
<1> QED
  BY <1>3 DEF S

-----------------------------------------------------------------------------
(* Erasure.                                                                  *)

LEMMA LeftmostNode ==
    ASSUME NEW n \in Nat, NEW t \in SoundTree[n + 1], t # Nil
    PROVE  Leftmost[n + 1][t] = IF t.left = Nil THEN t.value ELSE Leftmost[n][t.left]
<1>1. n + 1 \in Nat /\ (n + 1) - 1 = n
  OBVIOUS
<1>2. Leftmost[n + 1] = LeftmostFrom(Leftmost[n], n + 1)
  BY <1>1, LeftmostLevels
<1>3. t \in Tree[n + 1] \ {Nil}
  BY SoundNode
<1> QED
  BY <1>2, <1>3 DEF LeftmostFrom

\* The first value of a tree, in its order.
First(t, s) == /\ s \in HeldBy(t)
               /\ Ordered(t) => \A w \in HeldBy(t) : w = s \/ Less(s, w)

LEMMA LeftmostIsFirst ==
    \A n \in Nat : \A t \in SoundTree[n] : t # Nil => First(t, Leftmost[n][t])
<1> DEFINE S == {n \in Nat : \A t \in SoundTree[n] : t # Nil => First(t, Leftmost[n][t])}
<1>1. 0 \in S
  BY SoundLevels
<1>2. ASSUME NEW n \in Nat, n \in S PROVE n + 1 \in S
  <2> SUFFICES ASSUME NEW t \in SoundTree[n + 1], t # Nil PROVE First(t, Leftmost[n + 1][t])
    OBVIOUS
  <2> DEFINE w == t.value
             l == t.left
             r == t.right
             s == Leftmost[n + 1][t]
  <2>1. l \in SoundTree[n] /\ Sound(t)
    BY SoundNode, SoundEverywhere
  <2>2. /\ Sound(l) /\ Sound(r) /\ w \in Values /\ t = Join(w, l, r)
        /\ l.height - r.height \in -1 .. 1
    BY <2>1, SoundParts
  <2>3. /\ HeldBy(t) = HeldBy(l) \cup {w} \cup HeldBy(r)
        /\ Ordered(t) <=> Ordered(l) /\ Ordered(r) /\ Between(l, w, r)
    BY <2>2, HeldByJoin, JoinOrdered
  <2>4. s = IF l = Nil THEN w ELSE Leftmost[n][l]
    BY LeftmostNode
  <2> HIDE DEF w, l, r, s
  <2>5. ASSUME l = Nil PROVE First(t, s)
    BY <2>3, <2>4, <2>5, HeldByNil DEF First, Between
  <2>6. ASSUME l # Nil PROVE First(t, s)
    <3>1. First(l, s)
      BY <1>2, <2>1, <2>4, <2>6
    <3>2. HeldBy(l) \subseteq Values /\ HeldBy(r) \subseteq Values
      BY <2>2, HeldValues
    <3>3. ASSUME Ordered(t), NEW x \in HeldBy(t) PROVE x = s \/ Less(s, x)
      <4>1. Less(s, w)
        BY <2>3, <3>1, <3>3 DEF First, Between
      <4>2. CASE x \in HeldBy(l)
        BY <2>3, <3>1, <3>3, <4>2 DEF First
      <4>3. CASE x \in HeldBy(r)
        <5>1. Less(w, x)
          BY <2>3, <3>3, <4>3 DEF Between
        <5>2. s \in Values /\ x \in Values
          BY <3>1, <3>2, <4>3 DEF First
        <5> QED
          BY <2>2, <4>1, <5>1, <5>2, LessTransitive
      <4> QED
        BY <2>3, <3>3, <4>1, <4>2, <4>3
    <3> QED
      BY <2>3, <3>1, <3>3 DEF First
  <2> QED
    BY <2>5, <2>6 DEF s
<1> HIDE DEF S
<1>3. \A n \in Nat : n \in S
  BY <1>1, <1>2, EveryLevel
<1> QED
  BY <1>3 DEF S

\* A sound tree needs no recomputing and no rebalancing.
LEMMA AlreadyBalanced ==
    ASSUME NEW t, Sound(t), t # Nil
    PROVE  rebalance(recompute(t)) = t
<1>1. /\ Sound(t.left) /\ Sound(t.right) /\ t.value \in Values /\ t = Join(t.value, t.left, t.right)
      /\ t.left.height - t.right.height \in -1 .. 1
  BY SoundParts
<1>2. recompute(t) = t
  BY <1>1, IsNodeSound, RecomputeNode
<1>3. rebalance(Join(t.value, t.left, t.right)) = Join(t.value, t.left, t.right)
  BY <1>1, RebalanceCases
<1> QED
  BY <1>1, <1>2, <1>3

LEMMA EraseNode ==
    ASSUME NEW n \in Nat, NEW t \in SoundTree[n + 1], NEW v \in Values
    PROVE  erase_at[n + 1][t][v] =
               IF t = Nil THEN Nil
               ELSE IF Less(v, t.value) THEN rebalance(Join(t.value, erase_at[n][t.left][v], t.right))
               ELSE IF Less(t.value, v) THEN rebalance(Join(t.value, t.left, erase_at[n][t.right][v]))
               ELSE IF t.left = Nil THEN t.right
               ELSE IF t.right = Nil THEN t.left
               ELSE LET s == Leftmost[n][t.right]
                    IN  rebalance(Join(s, t.left, erase_at[n][t.right][s]))
<1>1. n + 1 \in Nat /\ (n + 1) - 1 = n
  OBVIOUS
<1>2. erase_at[n + 1] = EraseFrom(erase_at[n], n + 1)
  BY <1>1, EraseLevels
<1>3. t \in Tree[n + 1]
  BY SoundNode
<1> DEFINE onLeft == [t EXCEPT !.left = erase_at[n][t.left][v]]
           onRight == [t EXCEPT !.right = erase_at[n][t.right][v]]
           atRoot == EraseRoot(t, Leftmost[n], erase_at[n])
           result == IF Less(v, t.value) THEN onLeft ELSE IF Less(t.value, v) THEN onRight ELSE atRoot
<1>4. erase_at[n + 1][t][v] =
          IF t = Nil THEN Nil ELSE IF result = Nil THEN Nil ELSE rebalance(recompute(result))
  <2>1. EraseFrom(erase_at[n], n + 1) =
          [x \in Tree[n + 1] |-> [y \in Values |->
              IF x = Nil THEN Nil
              ELSE LET res ==
                         IF Less(y, x.value) THEN [x EXCEPT !.left = erase_at[n][x.left][y]]
                         ELSE IF Less(x.value, y) THEN [x EXCEPT !.right = erase_at[n][x.right][y]]
                         ELSE EraseRoot(x, Leftmost[n], erase_at[n])
                   IN  IF res = Nil THEN Nil ELSE rebalance(recompute(res))]]
    BY <1>1 DEF EraseFrom
  <2> QED
    BY <1>2, <1>3, <2>1
<1>5. CASE t = Nil
  BY <1>4, <1>5
<1>6. CASE t # Nil
  <2>1. /\ IsNode(t) /\ Sound(t.left) /\ Sound(t.right)
    BY <1>6, SoundEverywhere, IsNodeSound, SoundParts
  <2>2. /\ recompute(onLeft) = Join(t.value, erase_at[n][t.left][v], t.right)
        /\ recompute(onRight) = Join(t.value, t.left, erase_at[n][t.right][v])
        /\ IsNode(onLeft) /\ IsNode(onRight)
    <3>1. /\ recompute(onLeft) = Join(t.value, erase_at[n][t.left][v], t.right)
          /\ recompute(onRight) = Join(t.value, t.left, erase_at[n][t.right][v])
      BY <2>1, RecomputeChild
    <3>2. IsNode(onLeft) /\ IsNode(onRight)
      BY <2>1, RecomputeNode
    <3> QED
      BY <3>1, <3>2
  <2>3. \A x : IsNode(x) => x # Nil
    BY DEF IsNode, Nil
  <2>4. CASE t.left = Nil
    <3>1. atRoot = t.right
      BY <2>4 DEF EraseRoot
    <3>2. t.right # Nil => rebalance(recompute(t.right)) = t.right
      BY <2>1, AlreadyBalanced
    <3> HIDE DEF onLeft, onRight, atRoot
    <3> QED
      BY <1>4, <1>6, <2>2, <2>3, <2>4, <3>1, <3>2
  <2>5. CASE t.left # Nil /\ t.right = Nil
    <3>1. atRoot = t.left
      BY <2>5 DEF EraseRoot
    <3>2. rebalance(recompute(t.left)) = t.left
      BY <2>1, <2>5, AlreadyBalanced
    <3> HIDE DEF onLeft, onRight, atRoot
    <3> QED
      BY <1>4, <1>6, <2>2, <2>3, <2>5, <3>1, <3>2
  <2>6. CASE t.left # Nil /\ t.right # Nil
    <3> DEFINE s == Leftmost[n][t.right]
               k == erase_at[n][t.right][s]
    <3>1. atRoot = [t EXCEPT !.value = s, !.right = k]
      BY <2>6 DEF EraseRoot
    <3> HIDE DEF s, k
    <3> DEFINE renamed == [t EXCEPT !.value = s]
    <3>2. IsNode(renamed) /\ renamed.value = s /\ renamed.left = t.left
      BY <2>1 DEF IsNode
    <3>3. [t EXCEPT !.value = s, !.right = k] = [renamed EXCEPT !.right = k]
      OBVIOUS
    <3> HIDE DEF renamed
    <3>4. recompute(atRoot) = Join(s, t.left, k) /\ IsNode(atRoot)
      <4>1. recompute([renamed EXCEPT !.right = k]) = Join(s, t.left, k)
        <5>1. recompute([renamed EXCEPT !.right = k]) = Join(renamed.value, renamed.left, k)
          BY ONLY <3>2, RecomputeChild
        <5> QED
          BY <3>2, <5>1
      <4>2. IsNode([renamed EXCEPT !.right = k])
        BY <3>2, RecomputeNode
      <4> HIDE DEF atRoot
      <4> QED
        BY <3>1, <3>3, <4>1, <4>2
    <3> HIDE DEF onLeft, onRight, atRoot
    <3>5. erase_at[n + 1][t][v] =
              IF Less(v, t.value) THEN rebalance(Join(t.value, erase_at[n][t.left][v], t.right))
              ELSE IF Less(t.value, v) THEN rebalance(Join(t.value, t.left, erase_at[n][t.right][v]))
              ELSE rebalance(Join(s, t.left, k))
      BY <1>4, <1>6, <2>2, <2>3, <3>4
    <3> QED
      BY <1>6, <2>6, <3>5 DEF s, k
  <2> QED
    BY <2>4, <2>5, <2>6
<1> QED
  BY <1>5, <1>6

\* What an erasure makes of t, whatever is erased, and a value that can be
\* compared.
ErasedWell(t, v, u) ==
    /\ Sound(u) /\ u.height \in {t.height, t.height - 1} /\ HeldBy(u) \subseteq HeldBy(t)
    /\ Ordered(t) /\ v \in Comparable /\ HeldBy(t) \subseteq Comparable
           => Ordered(u) /\ HeldBy(u) = HeldBy(t) \ {v}

LEMMA Erased ==
    \A n \in Nat : \A t \in SoundTree[n] : \A v \in Values : ErasedWell(t, v, erase_at[n][t][v])
<1> DEFINE S == {n \in Nat : \A t \in SoundTree[n] : \A v \in Values :
                                 ErasedWell(t, v, erase_at[n][t][v])}
<1>1. 0 \in S
  BY SoundLevels
<1>2. ASSUME NEW n \in Nat, n \in S PROVE n + 1 \in S
  <2> SUFFICES ASSUME NEW t \in SoundTree[n + 1], NEW v \in Values
               PROVE  ErasedWell(t, v, erase_at[n + 1][t][v])
    OBVIOUS
  <2>1. CASE t = Nil
    <3>1. erase_at[n + 1][t][v] = Nil
      BY <2>1, EraseNode
    <3> QED
      BY <2>1, <3>1, NilSound, HeldByNil DEF ErasedWell
  <2>2. CASE t # Nil
    <3> DEFINE w == t.value
               l == t.left
               r == t.right
               e == erase_at[n + 1][t][v]
    <3>1. l \in SoundTree[n] /\ r \in SoundTree[n] /\ Sound(t)
      BY <2>2, SoundNode, SoundEverywhere
    <3>2. /\ Sound(l) /\ Sound(r) /\ w \in Values /\ t = Join(w, l, r)
          /\ l.height - r.height \in -1 .. 1
          /\ t.height = 1 + (IF l.height > r.height THEN l.height ELSE r.height)
      BY <2>2, <3>1, SoundParts
    <3>3. /\ HeldBy(t) = HeldBy(l) \cup {w} \cup HeldBy(r)
          /\ Ordered(t) <=> Ordered(l) /\ Ordered(r) /\ Between(l, w, r)
      BY <3>2, HeldByJoin, JoinOrdered
    <3>4. /\ l.height \in Int /\ l.height >= -1 /\ (l.height = -1 <=> l = Nil)
          /\ r.height \in Int /\ r.height >= -1 /\ (r.height = -1 <=> r = Nil)
      BY <3>2, SoundAtLevel
    <3>5. e = IF Less(v, w) THEN rebalance(Join(w, erase_at[n][l][v], r))
              ELSE IF Less(w, v) THEN rebalance(Join(w, l, erase_at[n][r][v]))
              ELSE IF l = Nil THEN r
              ELSE IF r = Nil THEN l
              ELSE LET s == Leftmost[n][r] IN  rebalance(Join(s, l, erase_at[n][r][s]))
      BY <2>2, EraseNode
    <3>6. HeldBy(l) \subseteq Values /\ HeldBy(r) \subseteq Values
      BY <3>2, HeldValues
    <3> HIDE DEF l, r, w, e
    <3>7. ASSUME Less(v, w) PROVE ErasedWell(t, v, e)
      <4> DEFINE k == erase_at[n][l][v]
      <4>1. e = rebalance(Join(w, k, r))
        BY <3>5, <3>7
      <4>2. ErasedWell(l, v, k)
        BY <1>2, <3>1
      <4> HIDE DEF k
      <4>3. Sound(k) /\ k.height \in {l.height, l.height - 1} /\ k.height - r.height \in -2 .. 2
        BY <3>2, <3>4, <4>2 DEF ErasedWell
      <4>4. /\ Sound(e) /\ e # Nil
            /\ e.height \in {IF k.height > r.height THEN k.height ELSE r.height,
                             (IF k.height > r.height THEN k.height ELSE r.height) + 1}
            /\ k.height - r.height \in -1 .. 1 =>
                   e.height = (IF k.height > r.height THEN k.height ELSE r.height) + 1
            /\ HeldBy(e) = HeldBy(k) \cup {w} \cup HeldBy(r)
            /\ Ordered(k) /\ Ordered(r) /\ Between(k, w, r) => Ordered(e)
        BY <3>2, <4>1, <4>3, Rebalanced
      <4>5. e.height \in {t.height, t.height - 1}
        BY <3>2, <3>4, <4>3, <4>4
      <4>6. HeldBy(e) \subseteq HeldBy(t)
        BY <3>3, <4>2, <4>4 DEF ErasedWell
      <4>7. ASSUME Ordered(t), v \in Comparable, HeldBy(t) \subseteq Comparable
            PROVE  Ordered(e) /\ HeldBy(e) = HeldBy(t) \ {v}
        <5>1. Ordered(k) /\ HeldBy(k) = HeldBy(l) \ {v}
          BY <3>3, <4>2, <4>7 DEF ErasedWell
        <5>2. Between(k, w, r)
          BY <3>3, <4>7, <5>1 DEF Between
        <5>3. v # w /\ v \notin HeldBy(r)
          <6>1. v # w /\ ~Less(w, v)
            BY <3>2, <3>7, LessAsymmetric
          <6> QED
            BY <3>3, <4>7, <6>1 DEF Between
        <5> QED
          BY <3>3, <4>4, <4>7, <5>1, <5>2, <5>3
      <4> QED
        BY <4>4, <4>5, <4>6, <4>7 DEF ErasedWell
    <3>8. ASSUME ~Less(v, w), Less(w, v) PROVE ErasedWell(t, v, e)
      <4> DEFINE k == erase_at[n][r][v]
      <4>1. e = rebalance(Join(w, l, k))
        BY <3>5, <3>8
      <4>2. ErasedWell(r, v, k)
        BY <1>2, <3>1
      <4> HIDE DEF k
      <4>3. Sound(k) /\ k.height \in {r.height, r.height - 1} /\ l.height - k.height \in -2 .. 2
        BY <3>2, <3>4, <4>2 DEF ErasedWell
      <4>4. /\ Sound(e) /\ e # Nil
            /\ e.height \in {IF l.height > k.height THEN l.height ELSE k.height,
                             (IF l.height > k.height THEN l.height ELSE k.height) + 1}
            /\ l.height - k.height \in -1 .. 1 =>
                   e.height = (IF l.height > k.height THEN l.height ELSE k.height) + 1
            /\ HeldBy(e) = HeldBy(l) \cup {w} \cup HeldBy(k)
            /\ Ordered(l) /\ Ordered(k) /\ Between(l, w, k) => Ordered(e)
        BY <3>2, <4>1, <4>3, Rebalanced
      <4>5. e.height \in {t.height, t.height - 1}
        BY <3>2, <3>4, <4>3, <4>4
      <4>6. HeldBy(e) \subseteq HeldBy(t)
        BY <3>3, <4>2, <4>4 DEF ErasedWell
      <4>7. ASSUME Ordered(t), v \in Comparable, HeldBy(t) \subseteq Comparable
            PROVE  Ordered(e) /\ HeldBy(e) = HeldBy(t) \ {v}
        <5>1. Ordered(k) /\ HeldBy(k) = HeldBy(r) \ {v}
          BY <3>3, <4>2, <4>7 DEF ErasedWell
        <5>2. Between(l, w, k)
          BY <3>3, <4>7, <5>1 DEF Between
        <5>3. v # w /\ v \notin HeldBy(l)
          <6>1. v # w
            BY <3>2, <3>8, LessAsymmetric
          <6> QED
            BY <3>3, <3>8, <4>7, <6>1 DEF Between
        <5> QED
          BY <3>3, <4>4, <4>7, <5>1, <5>2, <5>3
      <4> QED
        BY <4>4, <4>5, <4>6, <4>7 DEF ErasedWell
    <3>9. ASSUME v \in Comparable, HeldBy(t) \subseteq Comparable, Ordered(t), ~Less(v, w), ~Less(w, v)
          PROVE  w = v /\ v \notin HeldBy(l) /\ v \notin HeldBy(r)
      <4>1. w = v
        BY <3>3, <3>9, LessTotal
      <4> QED
        BY <3>2, <3>3, <3>9, <4>1, LessIrreflexive DEF Between
    <3>10. ASSUME ~Less(v, w), ~Less(w, v), l = Nil PROVE ErasedWell(t, v, e)
      <4>1. e = r
        BY <3>5, <3>10
      <4>2. e.height = t.height - 1
        BY <3>2, <3>4, <3>10, <4>1
      <4> QED
        BY <3>2, <3>3, <3>9, <3>10, <4>1, <4>2, HeldByNil DEF ErasedWell
    <3>11. ASSUME ~Less(v, w), ~Less(w, v), l # Nil, r = Nil PROVE ErasedWell(t, v, e)
      <4>1. e = l
        BY <3>5, <3>11
      <4>2. e.height = t.height - 1
        BY <3>2, <3>4, <3>11, <4>1
      <4> QED
        BY <3>2, <3>3, <3>9, <3>11, <4>1, <4>2, HeldByNil DEF ErasedWell
    <3>12. ASSUME ~Less(v, w), ~Less(w, v), l # Nil, r # Nil PROVE ErasedWell(t, v, e)
      <4> DEFINE s == Leftmost[n][r]
                 k == erase_at[n][r][s]
      <4>1. e = rebalance(Join(s, l, k))
        BY <3>5, <3>12
      <4>2. First(r, s)
        BY <3>1, <3>12, LeftmostIsFirst
      <4>3. s \in Values
        BY <3>6, <4>2 DEF First
      <4>4. ErasedWell(r, s, k)
        BY <1>2, <3>1, <4>3
      <4> HIDE DEF k, s
      <4>5. Sound(k) /\ k.height \in {r.height, r.height - 1} /\ l.height - k.height \in -2 .. 2
        BY <3>2, <3>4, <4>4 DEF ErasedWell
      <4>6. /\ Sound(e) /\ e # Nil
            /\ e.height \in {IF l.height > k.height THEN l.height ELSE k.height,
                             (IF l.height > k.height THEN l.height ELSE k.height) + 1}
            /\ l.height - k.height \in -1 .. 1 =>
                   e.height = (IF l.height > k.height THEN l.height ELSE k.height) + 1
            /\ HeldBy(e) = HeldBy(l) \cup {s} \cup HeldBy(k)
            /\ Ordered(l) /\ Ordered(k) /\ Between(l, s, k) => Ordered(e)
        BY <3>2, <4>1, <4>3, <4>5, Rebalanced
      <4>7. e.height \in {t.height, t.height - 1}
        BY <3>2, <3>4, <4>5, <4>6
      <4>8. HeldBy(e) \subseteq HeldBy(t)
        BY <3>3, <4>2, <4>4, <4>6 DEF ErasedWell, First
      <4>9. ASSUME Ordered(t), v \in Comparable, HeldBy(t) \subseteq Comparable
            PROVE  Ordered(e) /\ HeldBy(e) = HeldBy(t) \ {v}
        <5>1. s \in HeldBy(r) /\ s \in Comparable /\ HeldBy(r) \subseteq Comparable
              /\ \A x \in HeldBy(r) : x = s \/ Less(s, x)
          BY <3>3, <4>2, <4>9 DEF First
        <5>2. Ordered(k) /\ HeldBy(k) = HeldBy(r) \ {s}
          BY <3>3, <4>4, <4>9, <5>1 DEF ErasedWell
        <5>3. \A x \in HeldBy(l) : Less(x, s)
          <6>1. Less(w, s)
            BY <3>3, <4>9, <5>1 DEF Between
          <6> QED
            BY <3>2, <3>3, <3>6, <4>3, <4>9, <6>1, LessTransitive DEF Between
        <5>4. Between(l, s, k)
          BY <5>1, <5>2, <5>3 DEF Between
        <5>5. w = v /\ v \notin HeldBy(l) /\ v \notin HeldBy(r)
          BY <3>9, <3>12, <4>9
        <5> QED
          BY <3>3, <4>6, <4>9, <5>1, <5>2, <5>4, <5>5
      <4> QED
        BY <4>6, <4>7, <4>8, <4>9 DEF ErasedWell
    <3>13. ErasedWell(t, v, e)
      BY <3>7, <3>8, <3>10, <3>11, <3>12
    <3> QED
      BY <3>13 DEF e
  <2> QED
    BY <2>1, <2>2
<1> HIDE DEF S
<1>3. \A n \in Nat : n \in S
  BY <1>1, <1>2, EveryLevel
<1> QED
  BY <1>3 DEF S

-----------------------------------------------------------------------------
(* Ranks and sizes.                                                          *)

LEMMA CountDisjoint ==
    ASSUME NEW A, NEW B, IsFiniteSet(A), IsFiniteSet(B), A \cap B = {}, NEW x, x \notin A, x \notin B
    PROVE  /\ IsFiniteSet(A \cup {x} \cup B)
           /\ Cardinality(A \cup {x} \cup B) = Cardinality(A) + 1 + Cardinality(B)
           /\ IsFiniteSet(A \cup {x}) /\ Cardinality(A \cup {x}) = Cardinality(A) + 1
           /\ Cardinality(A) \in Nat /\ Cardinality(B) \in Nat
<1>1. IsFiniteSet(A \cup {x}) /\ Cardinality(A \cup {x}) = Cardinality(A) + 1
  BY FS_AddElement
<1> DEFINE C == A \cup {x}
<1>2. C \cap B = {}
  OBVIOUS
<1> HIDE DEF C
<1>3. IsFiniteSet(C \cup B) /\ Cardinality(C \cup B) = Cardinality(C) + Cardinality(B) - Cardinality(C \cap B)
  BY <1>1, FS_Union DEF C
<1>4. Cardinality(C \cap B) = 0
  BY <1>2, FS_EmptySet
<1>5. Cardinality(A) \in Nat /\ Cardinality(B) \in Nat
  BY FS_CardinalityType
<1>6. Cardinality(C) = Cardinality(A) + 1
  BY <1>1 DEF C
<1>7. Cardinality(C \cup B) = Cardinality(A) + 1 + Cardinality(B)
  BY <1>3, <1>4, <1>5, <1>6
<1> QED
  BY <1>1, <1>3, <1>5, <1>7 DEF C

\* The stored size is the number of values.
LEMMA SizeCounts ==
    ASSUME NEW t, Sound(t)
    PROVE  /\ IsFiniteSet(HeldBy(t))
           /\ Ordered(t) => t.subtree_size = Cardinality(HeldBy(t))
<1> DEFINE Counts(x) == /\ IsFiniteSet(HeldBy(x))
                        /\ Ordered(x) => x.subtree_size = Cardinality(HeldBy(x))
           S == {x \in UNION {SoundTree[n] : n \in Nat} : Counts(x)}
<1>1. Nil \in S
  <2>1. Nil \in SoundTree[0 + 1]
    BY NilIsSound
  <2> QED
    BY <2>1, HeldByNil, NilSound, FS_EmptySet
<1>2. ASSUME NEW x, Sound(x), x # Nil, x.left \in S, x.right \in S PROVE x \in S
  <2> DEFINE w == x.value
             l == x.left
             r == x.right
  <2>1. /\ Sound(l) /\ Sound(r) /\ w \in Values /\ x = Join(w, l, r)
        /\ l.height - r.height \in -1 .. 1
        /\ x.subtree_size = 1 + l.subtree_size + r.subtree_size
    BY <1>2, SoundParts
  <2>2. /\ HeldBy(x) = HeldBy(l) \cup {w} \cup HeldBy(r)
        /\ Ordered(x) <=> Ordered(l) /\ Ordered(r) /\ Between(l, w, r)
    BY <2>1, HeldByJoin, JoinOrdered
  <2>3. Counts(l) /\ Counts(r)
    BY <1>2
  <2>4. Level(x) \in Nat /\ x \in SoundTree[Level(x)]
    BY <1>2, SoundAtLevel
  <2> HIDE DEF w, l, r
  <2>5. IsFiniteSet(HeldBy(x))
    <3>1. IsFiniteSet(HeldBy(l)) /\ IsFiniteSet(HeldBy(r))
      BY <2>3
    <3>2. IsFiniteSet(HeldBy(l) \cup {w})
      BY <3>1, FS_AddElement
    <3>3. IsFiniteSet((HeldBy(l) \cup {w}) \cup HeldBy(r))
      BY <3>1, <3>2, FS_Union
    <3> QED
      BY <2>2, <3>3
  <2>6. ASSUME Ordered(x) PROVE x.subtree_size = Cardinality(HeldBy(x))
    <3>1. w \notin HeldBy(l) /\ w \notin HeldBy(r)
      BY <2>1, <2>2, <2>6, LessIrreflexive DEF Between
    <3>2. HeldBy(l) \cap HeldBy(r) = {}
      <4>1. ASSUME NEW y \in HeldBy(l), y \in HeldBy(r) PROVE FALSE
        <5>1. y \in Values
          BY <2>1, HeldValues
        <5> QED
          BY <2>1, <2>2, <2>6, <4>1, <5>1, LessAsymmetric DEF Between
      <4> QED
        BY <4>1
    <3>3. IsFiniteSet(HeldBy(l)) /\ IsFiniteSet(HeldBy(r))
      BY <2>3
    <3>4. /\ Cardinality(HeldBy(l) \cup {w} \cup HeldBy(r))
                 = Cardinality(HeldBy(l)) + 1 + Cardinality(HeldBy(r))
          /\ Cardinality(HeldBy(l)) \in Nat /\ Cardinality(HeldBy(r)) \in Nat
      BY <3>1, <3>2, <3>3, CountDisjoint
    <3> QED
      BY <2>1, <2>2, <2>3, <2>6, <3>4
  <2> QED
    BY <2>4, <2>5, <2>6
<1> HIDE DEF S
<1>3. t \in S
  BY <1>1, <1>2, SoundInduction
<1> QED
  BY <1>3 DEF S

LEMMA RankNode ==
    ASSUME NEW n \in Nat, NEW t \in SoundTree[n + 1], NEW v \in Values
    PROVE  rank_at[n + 1][t][v] =
               IF t = Nil THEN 0
               ELSE IF Less(v, t.value) THEN rank_at[n][t.left][v]
               ELSE IF Less(t.value, v) THEN t.left.subtree_size + 1 + rank_at[n][t.right][v]
               ELSE t.left.subtree_size
<1>1. n + 1 \in Nat /\ (n + 1) - 1 = n
  OBVIOUS
<1>2. rank_at[n + 1] = RankFrom(rank_at[n], n + 1)
  BY <1>1, RankLevels
<1>3. t \in Tree[n + 1]
  BY SoundNode
<1> QED
  BY <1>2, <1>3 DEF RankFrom

\* A rank is a number, and the number of values before v when these are in
\* order.
RankedWell(t, v, k) ==
    /\ k \in Nat
    /\ Ordered(t) /\ v \in Comparable /\ HeldBy(t) \subseteq Comparable
           => k = Cardinality({w \in HeldBy(t) : Less(w, v)})

LEMMA Ranked ==
    \A n \in Nat : \A t \in SoundTree[n] : \A v \in Values : RankedWell(t, v, rank_at[n][t][v])
<1> DEFINE S == {n \in Nat : \A t \in SoundTree[n] : \A v \in Values :
                                 RankedWell(t, v, rank_at[n][t][v])}
<1>1. 0 \in S
  BY SoundLevels
<1>2. ASSUME NEW n \in Nat, n \in S PROVE n + 1 \in S
  <2> SUFFICES ASSUME NEW t \in SoundTree[n + 1], NEW v \in Values
               PROVE  RankedWell(t, v, rank_at[n + 1][t][v])
    OBVIOUS
  <2>1. CASE t = Nil
    <3>1. rank_at[n + 1][t][v] = 0 /\ {w \in HeldBy(t) : Less(w, v)} = {}
      BY <2>1, RankNode, HeldByNil
    <3> QED
      BY <3>1, FS_EmptySet DEF RankedWell
  <2>2. CASE t # Nil
    <3> DEFINE w == t.value
               l == t.left
               r == t.right
               k == rank_at[n + 1][t][v]
               Below(s) == {x \in s : Less(x, v)}
    <3>1. /\ l \in SoundTree[n] /\ r \in SoundTree[n] /\ Sound(t)
      BY <2>2, SoundNode, SoundEverywhere
    <3>2. /\ Sound(l) /\ Sound(r) /\ w \in Values /\ t = Join(w, l, r)
          /\ l.height - r.height \in -1 .. 1
      BY <2>2, <3>1, SoundParts
    <3>3. /\ HeldBy(t) = HeldBy(l) \cup {w} \cup HeldBy(r)
          /\ Ordered(t) <=> Ordered(l) /\ Ordered(r) /\ Between(l, w, r)
      BY <3>2, HeldByJoin, JoinOrdered
    <3>4. /\ HeldBy(l) \subseteq Values /\ HeldBy(r) \subseteq Values
          /\ IsFiniteSet(HeldBy(l)) /\ IsFiniteSet(HeldBy(r)) /\ l.subtree_size \in Nat
          /\ Ordered(l) => l.subtree_size = Cardinality(HeldBy(l))
      BY <3>2, HeldValues, SizeCounts, SoundAtLevel
    <3>5. k = IF Less(v, w) THEN rank_at[n][l][v]
              ELSE IF Less(w, v) THEN l.subtree_size + 1 + rank_at[n][r][v]
              ELSE l.subtree_size
      BY <2>2, RankNode
    <3>6. RankedWell(l, v, rank_at[n][l][v]) /\ RankedWell(r, v, rank_at[n][r][v])
      BY <1>2, <3>1
    <3> HIDE DEF w, l, r, k
    <3>7. ASSUME Less(v, w) PROVE RankedWell(t, v, k)
      <4>1. ASSUME Ordered(t), v \in Comparable, HeldBy(t) \subseteq Comparable
            PROVE  k = Cardinality(Below(HeldBy(t)))
        <5>1. \A x \in HeldBy(r) : ~Less(x, v)
          BY <3>2, <3>3, <3>4, <3>7, <4>1, LessTransitive, LessAsymmetric DEF Between
        <5>2. ~Less(w, v)
          BY <3>2, <3>7, LessAsymmetric
        <5>3. Below(HeldBy(t)) = Below(HeldBy(l))
          BY <3>3, <5>1, <5>2
        <5> QED
          BY <3>3, <3>5, <3>6, <3>7, <4>1, <5>3 DEF RankedWell
      <4> QED
        BY <3>5, <3>6, <3>7, <4>1 DEF RankedWell
    <3>8. ASSUME ~Less(v, w), Less(w, v) PROVE RankedWell(t, v, k)
      <4>0. k = l.subtree_size + 1 + rank_at[n][r][v] /\ rank_at[n][r][v] \in Nat
        BY <3>5, <3>6, <3>8 DEF RankedWell
      <4>1. ASSUME Ordered(t), v \in Comparable, HeldBy(t) \subseteq Comparable
            PROVE  k = Cardinality(Below(HeldBy(t)))
        <5>1. \A x \in HeldBy(l) : Less(x, v)
          BY <3>2, <3>3, <3>4, <3>8, <4>1, LessTransitive DEF Between
        <5>2. Below(HeldBy(t)) = HeldBy(l) \cup {w} \cup Below(HeldBy(r))
          BY <3>3, <3>8, <5>1
        <5>3. w \notin HeldBy(l) /\ w \notin HeldBy(r)
          BY <3>2, <3>3, <4>1, LessIrreflexive DEF Between
        <5>4. HeldBy(l) \cap Below(HeldBy(r)) = {}
          <6>1. ASSUME NEW y \in HeldBy(l), y \in HeldBy(r) PROVE FALSE
            BY <3>2, <3>3, <3>4, <4>1, <6>1, LessAsymmetric DEF Between
          <6> QED
            BY <6>1
        <5>5. IsFiniteSet(Below(HeldBy(r)))
          BY <3>4, FS_Subset
        <5>6. w \notin Below(HeldBy(r))
          BY <5>3
        <5> HIDE DEF Below
        <5>7. Cardinality(HeldBy(l) \cup {w} \cup Below(HeldBy(r)))
                  = Cardinality(HeldBy(l)) + 1 + Cardinality(Below(HeldBy(r)))
          BY <3>4, <5>3, <5>4, <5>5, <5>6, CountDisjoint
        <5>8. rank_at[n][r][v] = Cardinality(Below(HeldBy(r)))
          BY <3>3, <3>6, <4>1 DEF RankedWell, Below
        <5> QED
          BY <3>3, <3>4, <4>0, <4>1, <5>2, <5>7, <5>8
      <4> QED
        BY <3>4, <4>0, <4>1 DEF RankedWell
    <3>9. ASSUME ~Less(v, w), ~Less(w, v) PROVE RankedWell(t, v, k)
      <4>0. k = l.subtree_size
        BY <3>5, <3>9
      <4>1. ASSUME Ordered(t), v \in Comparable, HeldBy(t) \subseteq Comparable
            PROVE  k = Cardinality(Below(HeldBy(t)))
        <5>1. w = v
          BY <3>3, <3>9, <4>1, LessTotal
        <5>2. \A x \in HeldBy(r) : ~Less(x, v)
          BY <3>2, <3>3, <3>4, <4>1, <5>1, LessAsymmetric DEF Between
        <5>3. Below(HeldBy(t)) = HeldBy(l)
          BY <3>3, <3>9, <4>1, <5>1, <5>2 DEF Between
        <5> QED
          BY <3>3, <3>4, <4>0, <4>1, <5>3
      <4> QED
        BY <3>4, <4>0, <4>1 DEF RankedWell
    <3>10. RankedWell(t, v, k)
      BY <3>7, <3>8, <3>9
    <3> QED
      BY <3>10 DEF k
  <2> QED
    BY <2>1, <2>2
<1> HIDE DEF S
<1>3. \A n \in Nat : n \in S
  BY <1>1, <1>2, EveryLevel
<1> QED
  BY <1>3 DEF S

-----------------------------------------------------------------------------
(* The operations of a tree, at its own level.                               *)

\* Whatever is inserted into a tree whose stored heights and sizes are true and
\* that is balanced, the same is true afterwards; and with scores that are
\* numbers it stays in order and holds one value more (tree.cpp:23, :87).
THEOREM InsertIsRight ==
    ASSUME NEW t, Sound(t), NEW v \in Values
    PROVE  InsertedWell(t, v, insert(t, v))
BY SoundAtLevel, Inserted DEF insert

\* The same of a removal: nothing goes but the value (tree.cpp:41, :87).
THEOREM EraseIsRight ==
    ASSUME NEW t, Sound(t), NEW v \in Values
    PROVE  ErasedWell(t, v, erase(t, v))
BY SoundAtLevel, Erased DEF erase

LEMMA RankIsRight ==
    ASSUME NEW t, Sound(t), NEW v \in Values
    PROVE  RankedWell(t, v, rank(t, v))
BY SoundAtLevel, Ranked DEF rank

-----------------------------------------------------------------------------
(* Sorted sets.                                                              *)

\* The pairs of a map from members to scores.
Pairs(f) == {Value(m, f[m]) : m \in DOMAIN f}

\* A set is sound; unless it has been given a NaN it holds none and agrees.
IsSet(zset, free) ==
    /\ Sound(zset.tree)
    /\ Members(zset) \subseteq Strings
    /\ \A m \in Members(zset) : zset.member_score[m] \in Int \cup {NaN}
    /\ free => ~HoldsNaN(zset) /\ Agrees(zset)

\* The sets of a cache whose keys in nan have been given a NaN.
AreSets(sets, nan) == \A k \in DOMAIN sets : IsSet(sets[k], k \notin nan)

NaNKeys(sets) == {k \in DOMAIN sets : HoldsNaN(sets[k])}

LEMMA ValueFields ==
    /\ \A m \in Strings : \A x \in Int \cup {NaN} :
           /\ Value(m, x) \in Values
           /\ x # NaN => Value(m, x) \in Comparable
    /\ \A m, n, x, y : Value(m, x) = Value(n, y) => m = n /\ x = y
BY DEF Value, Values, Comparable

LEMMA EmptySetIsSet == IsSet(EmptySet, TRUE) /\ Members(EmptySet) = {}
<1>1. EmptySet.tree = Nil /\ EmptySet.member_score = <<>>
  BY DEF EmptySet
<1>2. Members(EmptySet) = {}
  BY <1>1 DEF Members
<1> HIDE DEF EmptySet
<1>3. Agrees(EmptySet)
  BY <1>1, <1>2, NilOrdered, HeldByNil DEF Agrees
<1> QED
  BY <1>1, <1>2, <1>3, NilSound DEF IsSet, HoldsNaN

\* What ZADD makes of the set of its key.
LEMMA AddedToSet ==
    ASSUME NEW zset, NEW free \in BOOLEAN, IsSet(zset, free), NEW free2 \in BOOLEAN, free2 => free,
           NEW member \in Strings, NEW score \in Int \cup {NaN}, free2 => score # NaN,
           NEW cleared,
           cleared = IF member \in Members(zset)
                     THEN erase(zset.tree, Value(member, zset.member_score[member]))
                     ELSE zset.tree
    PROVE  IsSet([tree |-> insert(cleared, Value(member, score)),
                  member_score |-> Put(zset.member_score, member, score)], free2)
<1> DEFINE t == zset.tree
           f == zset.member_score
           v == Value(member, score)
           g == Put(f, member, score)
           u == insert(cleared, v)
           added == [tree |-> u, member_score |-> g]
<1>1. /\ Sound(t) /\ DOMAIN f \subseteq Strings /\ \A m \in DOMAIN f : f[m] \in Int \cup {NaN}
      /\ free => (\A m \in DOMAIN f : f[m] # NaN) /\ Ordered(t) /\ HeldBy(t) = Pairs(f)
  BY DEF IsSet, HoldsNaN, Agrees, Members, Pairs
<1>2. v \in Values /\ (score # NaN => v \in Comparable)
  BY ValueFields
<1>3. added.tree = u /\ added.member_score = g /\ Members(added) = DOMAIN g
  BY DEF Members
<1>4. DOMAIN g = DOMAIN f \cup {member} /\ \A m \in DOMAIN g : g[m] = IF m = member THEN score ELSE f[m]
  BY DEF Put
<1> HIDE DEF added, v, g
<1>5. Sound(cleared) /\ (free => HeldBy(cleared) = Pairs(f) \ {Value(member, f[member])} /\ Ordered(cleared))
  <2>1. CASE member \in DOMAIN f
    <3> DEFINE old == Value(member, f[member])
    <3>1. old \in Values /\ (f[member] # NaN => old \in Comparable)
      BY <1>1, <2>1, ValueFields
    <3>2. cleared = erase(t, old)
      BY <2>1 DEF Members
    <3> HIDE DEF old
    <3>3. ErasedWell(t, old, cleared)
      BY <1>1, <3>1, <3>2, EraseIsRight
    <3>4. ASSUME free PROVE HeldBy(cleared) = Pairs(f) \ {old} /\ Ordered(cleared)
      <4>1. Pairs(f) \subseteq Comparable
        BY <1>1, <3>4, ValueFields DEF Pairs
      <4> QED
        BY <1>1, <2>1, <3>1, <3>3, <3>4, <4>1 DEF ErasedWell
    <3> QED
      BY <3>3, <3>4 DEF ErasedWell, old
  <2>2. CASE member \notin DOMAIN f
    <3>1. cleared = t
      BY <2>2 DEF Members
    <3>2. Value(member, f[member]) \notin Pairs(f)
      BY <2>2, ValueFields DEF Pairs
    <3> QED
      BY <1>1, <3>1, <3>2
  <2> QED
    BY <2>1, <2>2
<1>6. InsertedWell(cleared, v, u)
  BY <1>2, <1>5, InsertIsRight
<1>7. ASSUME free2
      PROVE  Ordered(u) /\ HeldBy(u) = Pairs(g) /\ \A m \in DOMAIN g : g[m] # NaN
  <2>1. HeldBy(cleared) = Pairs(f) \ {Value(member, f[member])} /\ Ordered(cleared) /\ v \in Comparable
    BY <1>2, <1>5, <1>7
  <2>2. Pairs(f) \subseteq Comparable
    BY <1>1, <1>7, ValueFields DEF Pairs
  <2>3. Ordered(u) /\ HeldBy(u) = HeldBy(cleared) \cup {v}
    BY <1>6, <2>1, <2>2 DEF InsertedWell
  <2>4. Pairs(g) = (Pairs(f) \ {Value(member, f[member])}) \cup {v}
    <3>1. Pairs(g) = {Value(m, f[m]) : m \in DOMAIN f \ {member}} \cup {v}
      BY <1>4 DEF Pairs, v
    <3>2. Pairs(f) \ {Value(member, f[member])} = {Value(m, f[m]) : m \in DOMAIN f \ {member}}
      BY ValueFields DEF Pairs
    <3> QED
      BY <3>1, <3>2
  <2> QED
    BY <1>1, <1>4, <1>7, <2>1, <2>3, <2>4
<1>8. /\ DOMAIN g \subseteq Strings /\ \A m \in DOMAIN g : g[m] \in Int \cup {NaN}
  BY <1>1, <1>4
<1>9. IsSet(added, free2)
  BY <1>3, <1>6, <1>7, <1>8 DEF IsSet, HoldsNaN, Agrees, Members, Pairs, InsertedWell
<1> QED
  BY <1>9 DEF added, g, v

LEMMA ZaddKeepsSets ==
    ASSUME NEW sets, NEW nan, AreSets(sets, nan), NEW key, NEW member \in Strings,
           NEW score \in Int \cup {NaN}
    PROVE  /\ AreSets(zadd(sets, key, score, member).sets,
                      nan \cup NaNKeys(zadd(sets, key, score, member).sets))
           /\ zadd(sets, key, score, member).value \in BOOLEAN
           /\ DOMAIN sets \subseteq DOMAIN zadd(sets, key, score, member).sets
<1> DEFINE zset == get_or_create_set(sets, key)
           present == member \in Members(zset)
           same == present /\ ScoreEqual(zset.member_score[member], score)
           cleared == IF present THEN erase(zset.tree, Value(member, zset.member_score[member]))
                                 ELSE zset.tree
           added == [tree |-> insert(cleared, Value(member, score)),
                     member_score |-> Put(zset.member_score, member, score)]
           updated == IF same THEN zset ELSE added
           result == zadd(sets, key, score, member)
           nan2 == nan \cup NaNKeys(result.sets)
<1>1. result.sets = Put(sets, key, updated) /\ result.value = ~present
  BY DEF zadd, Result
<1>2. IsSet(zset, key \notin nan)
  <2>1. CASE key \in DOMAIN sets
    BY <2>1 DEF get_or_create_set, AreSets
  <2>2. CASE key \notin DOMAIN sets
    BY <2>2, EmptySetIsSet DEF get_or_create_set, IsSet
  <2> QED
    BY <2>1, <2>2
<1> HIDE DEF zset
<1>3. ASSUME ~same PROVE IsSet(added, key \notin nan2)
  <2>1. score = NaN => HoldsNaN(added)
    BY DEF HoldsNaN, Members, Put
  <2> HIDE DEF added
  <2>2. result.sets[key] = added /\ key \in DOMAIN result.sets
    BY <1>1, <1>3 DEF Put
  <2>3. key \notin nan2 => key \notin nan /\ score # NaN
    BY <2>1, <2>2 DEF NaNKeys
  <2> HIDE DEF result, nan2, cleared
  <2>4. cleared = IF member \in Members(zset)
                  THEN erase(zset.tree, Value(member, zset.member_score[member]))
                  ELSE zset.tree
    BY DEF cleared
  <2> DEFINE free == key \notin nan
             free2 == key \notin nan2
  <2>5. free \in BOOLEAN /\ free2 \in BOOLEAN /\ (free2 => free) /\ (free2 => score # NaN)
    BY <2>3
  <2>6. IsSet(zset, free)
    BY <1>2
  <2> HIDE DEF free, free2
  <2>7. IsSet([tree |-> insert(cleared, Value(member, score)),
               member_score |-> Put(zset.member_score, member, score)], free2)
    BY <2>4, <2>5, <2>6, AddedToSet
  <2> QED
    BY <2>7 DEF free2, added
<1>4. IsSet(updated, key \notin nan2)
  <2>1. CASE same
    <3>1. updated = zset
      BY <2>1
    <3> HIDE DEF updated, result, same
    <3> QED
      BY <1>2, <3>1 DEF IsSet
  <2>2. CASE ~same
    BY <1>3, <2>2
  <2> QED
    BY <2>1, <2>2
<1> HIDE DEF updated
<1>5. AreSets(result.sets, nan2)
  <2> SUFFICES ASSUME NEW k \in DOMAIN result.sets PROVE IsSet(result.sets[k], k \notin nan2)
    BY DEF AreSets
  <2>1. CASE k = key
    BY <1>1, <1>4, <2>1 DEF Put
  <2>2. CASE k # key
    <3>1. k \in DOMAIN sets /\ result.sets[k] = sets[k]
      BY <1>1, <2>2 DEF Put
    <3> HIDE DEF result
    <3> QED
      BY <3>1 DEF AreSets, IsSet
  <2> QED
    BY <2>1, <2>2
<1>6. DOMAIN sets \subseteq DOMAIN result.sets
  BY <1>1 DEF Put
<1> QED
  BY <1>1, <1>5, <1>6

LEMMA PairsWithout ==
    ASSUME NEW f, NEW g, NEW member \in DOMAIN f, DOMAIN g = DOMAIN f \ {member},
           \A m \in DOMAIN g : g[m] = f[m]
    PROVE  Pairs(f) \ {Value(member, f[member])} = Pairs(g)
<1>1. \A m \in DOMAIN f : Value(m, f[m]) # Value(member, f[member]) => m \in DOMAIN g
  OBVIOUS
<1>2. \A m \in DOMAIN g : Value(m, g[m]) # Value(member, f[member])
  BY ValueFields
<1> QED
  BY <1>1, <1>2 DEF Pairs

LEMMA ZremKeepsSets ==
    ASSUME NEW sets, NEW nan, AreSets(sets, nan), NEW key, NEW member
    PROVE  /\ AreSets(zrem(sets, key, member).sets, nan)
           /\ zrem(sets, key, member).value \in BOOLEAN
           /\ DOMAIN zrem(sets, key, member).sets = DOMAIN sets
<1> DEFINE result == zrem(sets, key, member)
<1>1. CASE ~Has(sets, key, member)
  BY <1>1 DEF zrem, Result
<1>2. CASE Has(sets, key, member)
  <2> DEFINE zset == sets[key]
             t == zset.tree
             f == zset.member_score
             v == Value(member, f[member])
             u == erase(t, v)
             g == Restrict(f, Members(zset) \ {member})
             cut == [tree |-> u, member_score |-> g]
  <2>1. result.sets = [sets EXCEPT ![key] = cut] /\ result.value = TRUE
    BY <1>2 DEF zrem, Result
  <2>2. /\ key \in DOMAIN sets /\ member \in DOMAIN f /\ IsSet(zset, key \notin nan)
    BY <1>2 DEF Has, Members, AreSets
  <2>3. /\ Sound(t) /\ DOMAIN f \subseteq Strings /\ \A m \in DOMAIN f : f[m] \in Int \cup {NaN}
        /\ key \notin nan => (\A m \in DOMAIN f : f[m] # NaN) /\ Ordered(t) /\ HeldBy(t) = Pairs(f)
    BY <2>2 DEF IsSet, HoldsNaN, Agrees, Members, Pairs
  <2>4. v \in Values /\ (f[member] # NaN => v \in Comparable)
    BY <2>2, <2>3, ValueFields
  <2>5. DOMAIN g = DOMAIN f \ {member} /\ \A m \in DOMAIN g : g[m] = f[m]
    BY DEF Restrict, Members
  <2>6. cut.tree = u /\ cut.member_score = g /\ Members(cut) = DOMAIN g
    BY DEF Members
  <2> HIDE DEF zset, f, t, g, cut
  <2>7. Pairs(f) \ {v} = Pairs(g)
    BY <2>2, <2>5, PairsWithout
  <2> HIDE DEF v
  <2>8. ErasedWell(t, v, u)
    BY <2>3, <2>4, EraseIsRight
  <2>9. ASSUME key \notin nan PROVE Ordered(u) /\ HeldBy(u) = Pairs(g)
    <3>1. Pairs(f) \subseteq Comparable
      BY <2>3, <2>9, ValueFields DEF Pairs
    <3> QED
      BY <2>2, <2>3, <2>4, <2>7, <2>8, <2>9, <3>1 DEF ErasedWell
  <2>10. IsSet(cut, key \notin nan)
    BY <2>3, <2>5, <2>6, <2>8, <2>9 DEF IsSet, HoldsNaN, Agrees, Members, Pairs, ErasedWell
  <2>11. AreSets(result.sets, nan)
    <3> SUFFICES ASSUME NEW k \in DOMAIN result.sets PROVE IsSet(result.sets[k], k \notin nan)
      BY DEF AreSets
    <3>1. k \in DOMAIN sets /\ result.sets[k] = IF k = key THEN cut ELSE sets[k]
      BY <2>1, <2>2
    <3> HIDE DEF result
    <3> QED
      BY <2>10, <3>1 DEF AreSets
  <2>12. DOMAIN result.sets = DOMAIN sets
    BY <2>1
  <2> QED
    BY <2>1, <2>11, <2>12
<1> QED
  BY <1>1, <1>2

LEMMA ZscoreResult ==
    ASSUME NEW sets, NEW nan, AreSets(sets, nan), NEW key, NEW member
    PROVE  /\ zscore(sets, key, member).sets = sets
           /\ zscore(sets, key, member).value \in Int \cup {NaN, NoResult}
BY DEF zscore, Result, Has, AreSets, IsSet

LEMMA ZrankResult ==
    ASSUME NEW sets, NEW nan, AreSets(sets, nan), NEW key, NEW member
    PROVE  /\ zrank(sets, key, member).sets = sets
           /\ zrank(sets, key, member).value \in Nat \cup {NoResult}
<1>1. CASE ~Has(sets, key, member)
  BY <1>1 DEF zrank, Result
<1>2. CASE Has(sets, key, member)
  <2> DEFINE v == Value(member, sets[key].member_score[member])
  <2>1. v \in Values /\ Sound(sets[key].tree)
    BY <1>2, ValueFields DEF Has, AreSets, IsSet
  <2> HIDE DEF v
  <2>2. rank(sets[key].tree, v) \in Nat
    BY <2>1, RankIsRight DEF RankedWell
  <2> QED
    BY <1>2, <2>2 DEF zrank, Result, v
<1> QED
  BY <1>1, <1>2

\* ZRANK answers with the number of members whose value comes before the
\* member's own, as long as the set has not been given a NaN, for sets and
\* strings of any size (sorted_set.cpp:65; tree.cpp:157).
THEOREM RankIsPosition ==
    ASSUME NEW sets, NEW nan, AreSets(sets, nan), NEW key, NEW member, Has(sets, key, member),
           key \notin nan
    PROVE  LET f == sets[key].member_score
           IN  zrank(sets, key, member).value =
                   Cardinality({m \in DOMAIN f : Less(Value(m, f[m]), Value(member, f[member]))})
<1> DEFINE zset == sets[key]
           f == zset.member_score
           v == Value(member, f[member])
           Earlier == {m \in DOMAIN f : Less(Value(m, f[m]), v)}
           Lesser == {w \in HeldBy(zset.tree) : Less(w, v)}
<1>1. /\ member \in DOMAIN f /\ Sound(zset.tree) /\ DOMAIN f \subseteq Strings
      /\ \A m \in DOMAIN f : f[m] \in Int \cup {NaN} /\ f[m] # NaN
      /\ Ordered(zset.tree) /\ HeldBy(zset.tree) = Pairs(f)
  BY DEF Has, AreSets, IsSet, HoldsNaN, Agrees, Members, Pairs
<1>2. zrank(sets, key, member).value = rank(zset.tree, v)
  BY DEF zrank, Result
<1> HIDE DEF zset
<1>3. v \in Comparable /\ v \in Values /\ Pairs(f) \subseteq Comparable
  BY <1>1, ValueFields DEF Pairs, Comparable
<1>4. rank(zset.tree, v) = Cardinality(Lesser)
  <2> HIDE DEF v
  <2>1. RankedWell(zset.tree, v, rank(zset.tree, v))
    BY <1>1, <1>3, RankIsRight
  <2> QED
    BY <1>1, <1>3, <2>1 DEF RankedWell
<1>5. Cardinality(Earlier) = Cardinality(Lesser)
  <2> DEFINE h == [m \in Earlier |-> Value(m, f[m])]
  <2>1. IsFiniteSet(Lesser)
    BY <1>1, SizeCounts, FS_Subset
  <2>2. h \in Injection(Earlier, Lesser) /\ h \in Surjection(Earlier, Lesser)
    <3>1. Lesser = {Value(m, f[m]) : m \in Earlier}
      BY <1>1 DEF Pairs
    <3>2. \A m, n \in Earlier : h[m] = h[n] => m = n
      BY ValueFields
    <3> HIDE DEF Earlier, Lesser, v
    <3>3. h \in [Earlier -> Lesser] /\ \A w \in Lesser : \E m \in Earlier : h[m] = w
      BY <3>1
    <3> QED
      BY <3>2, <3>3 DEF Injection, Surjection, IsInjective
  <2> HIDE DEF h, Earlier, Lesser
  <2>3. Cardinality(Earlier) = Cardinality(Lesser) <=> h \in Surjection(Earlier, Lesser)
    BY <2>1, <2>2, FS_Injection
  <2> QED
    BY <2>2, <2>3
<1> QED
  BY <1>2, <1>4, <1>5 DEF zset

=============================================================================
