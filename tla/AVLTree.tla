------------------------------- MODULE AVLTree -------------------------------
(***************************************************************************)
(* The AVL tree behind a sorted set (cache/sorted_sets/tree.h, tree.cpp),  *)
(* as operators on trees.  A tree is Nil or a node with the two fields the *)
(* code stores and has to keep up to date, height and subtree_size; they   *)
(* are recomputed where the code recomputes them and nowhere else.         *)
(*                                                                         *)
(* A function on trees is defined level by level: Tree[n] has the trees of *)
(* fewer than n levels, the null pointer among them, and what is recursive *)
(* in the code goes from the trees of a level to those of the one below.   *)
(*                                                                         *)
(* Scores are numbers or NaN, which is neither less than, nor greater      *)
(* than, nor equal to anything.  Members are compared by Before.           *)
(***************************************************************************)
EXTENDS Integers, Sequences, Functions

CONSTANTS NaN,
          Alphabet  \* the bytes, in the order of their codes

ASSUME AlphabetAssumption ==
    /\ DOMAIN Alphabet = 1 .. Len(Alphabet) /\ Len(Alphabet) \in Nat
    /\ IsInjective(Alphabet)
    /\ NaN \notin Int

Byte == Range(Alphabet)
Strings == Seq(Byte)
Code(b) == CHOOSE i \in DOMAIN Alphabet : Alphabet[i] = b

\* AVLTreeNodeValue and its operator<; members in the order of std::string.
Value(member, score) == [member |-> member, score |-> score]
Values == [member : Strings, score : Int \cup {NaN}]

Before(s, t) ==
    \E i \in 1 .. Len(t) :
        /\ i - 1 <= Len(s)
        /\ \A j \in 1 .. i - 1 : s[j] = t[j]
        /\ i <= Len(s) => Code(s[i]) < Code(t[i])
ScoreEqual(s, r) == s # NaN /\ s = r
ScoreLess(s, r) == s # NaN /\ r # NaN /\ s < r
Less(v, w) ==
    IF ScoreEqual(v.score, w.score) THEN Before(v.member, w.member)
    ELSE ScoreLess(v.score, w.score)

\* A null pointer counts as height -1 and size 0.
Nil == [height |-> -1, subtree_size |-> 0]
Leaf(v) == [value |-> v, left |-> Nil, right |-> Nil, height |-> 0, subtree_size |-> 1]

Tree[n \in Nat] ==
    IF n = 0 THEN {}
    ELSE {Nil} \cup [value : Values, left : Tree[n - 1], right : Tree[n - 1],
                     height : Int, subtree_size : Int]
Level(t) == t.height + 2

get_balance(t) == t.left.height - t.right.height

\* recompute_height and recompute_subtree_size.
recompute(t) ==
    [t EXCEPT !.height = 1 + (IF t.left.height > t.right.height THEN t.left.height
                                                                ELSE t.right.height),
              !.subtree_size = 1 + t.left.subtree_size + t.right.subtree_size]

\* A rotation that forgets the sizes of the node it moves down.
right_rotate_stale(n1) ==
    IF n1 = Nil \/ n1.left = Nil THEN n1
    ELSE LET n2 == n1.left
             down == recompute([n1 EXCEPT !.left = n2.right])
         IN  recompute([n2 EXCEPT !.right = [down EXCEPT !.subtree_size = n1.subtree_size]])

right_rotate(n1) ==
    IF n1 = Nil \/ n1.left = Nil THEN n1
    ELSE LET n2 == n1.left
         IN  recompute([n2 EXCEPT !.right = recompute([n1 EXCEPT !.left = n2.right])])

left_rotate(n1) ==
    IF n1 = Nil \/ n1.right = Nil THEN n1
    ELSE LET n2 == n1.right
         IN  recompute([n2 EXCEPT !.left = recompute([n1 EXCEPT !.right = n2.left])])

rebalance(t) ==
    CASE get_balance(t) > 1 /\ get_balance(t.left) >= 0 -> right_rotate(t)
      [] get_balance(t) < -1 /\ get_balance(t.right) <= 0 -> left_rotate(t)
      [] get_balance(t) > 1 /\ get_balance(t.left) < 0 ->
            right_rotate([t EXCEPT !.left = left_rotate(t.left)])
      [] get_balance(t) < -1 /\ get_balance(t.right) > 0 ->
            left_rotate([t EXCEPT !.right = right_rotate(t.right)])
      [] OTHER -> t

\* A value that is neither less nor greater than the node's is taken for an
\* exact duplicate.
insert_at[n \in Nat] ==
    [t \in Tree[n] |-> [v \in Values |->
        IF t = Nil THEN Leaf(v)
        ELSE IF Less(v, t.value)
             THEN rebalance(recompute([t EXCEPT !.left = insert_at[n - 1][t.left][v]]))
        ELSE IF Less(t.value, v)
             THEN rebalance(recompute([t EXCEPT !.right = insert_at[n - 1][t.right][v]]))
        ELSE t]]

insert(t, v) == insert_at[Level(t)][t][v]

Leftmost[n \in Nat] ==
    [t \in Tree[n] \ {Nil} |-> IF t.left = Nil THEN t.value ELSE Leftmost[n - 1][t.left]]

\* The node itself goes: its only child, or the in-order successor, takes its
\* place.
EraseRoot(t, successor, erased) ==
    IF t.left = Nil THEN t.right
    ELSE IF t.right = Nil THEN t.left
    ELSE [t EXCEPT !.value = successor[t.right],
                   !.right = erased[t.right][successor[t.right]]]

erase_at[n \in Nat] ==
    [t \in Tree[n] |-> [v \in Values |->
        IF t = Nil THEN Nil
        ELSE LET result ==
                   IF Less(v, t.value) THEN [t EXCEPT !.left = erase_at[n - 1][t.left][v]]
                   ELSE IF Less(t.value, v) THEN [t EXCEPT !.right = erase_at[n - 1][t.right][v]]
                   ELSE EraseRoot(t, Leftmost[n - 1], erase_at[n - 1])
             IN  IF result = Nil THEN Nil ELSE rebalance(recompute(result))]]

erase(t, v) == erase_at[Level(t)][t][v]

rank_at[n \in Nat] ==
    [t \in Tree[n] |-> [v \in Values |->
        IF t = Nil THEN 0
        ELSE IF Less(v, t.value) THEN rank_at[n - 1][t.left][v]
        ELSE IF Less(t.value, v) THEN t.left.subtree_size + 1 + rank_at[n - 1][t.right][v]
        ELSE t.left.subtree_size]]

rank(t, v) == rank_at[Level(t)][t][v]

-----------------------------------------------------------------------------
(* What the tree has to be. *)

\* The values in the nodes.
Held[n \in Nat] ==
    [t \in Tree[n] |-> IF t = Nil THEN {}
                       ELSE Held[n - 1][t.left] \cup {t.value} \cup Held[n - 1][t.right]]
HeldBy(t) == Held[Level(t)][t]

\* Every node comes after those on its left and before those on its right.
SearchTree[n \in Nat] ==
    IF n = 0 THEN {}
    ELSE {t \in Tree[n] :
             t = Nil \/ /\ t.left \in SearchTree[n - 1] /\ t.right \in SearchTree[n - 1]
                        /\ \A v \in Held[n - 1][t.left] : Less(v, t.value)
                        /\ \A v \in Held[n - 1][t.right] : Less(t.value, v)}
Ordered(t) == t \in SearchTree[Level(t)]

\* The stored heights and sizes are the true ones, and no node leans by more
\* than one.
SoundTree[n \in Nat] ==
    IF n = 0 THEN {}
    ELSE {t \in Tree[n] :
             t = Nil \/ /\ t.left \in SoundTree[n - 1] /\ t.right \in SoundTree[n - 1]
                        /\ t = recompute(t)
                        /\ get_balance(t) \in -1 .. 1}
Sound(t) == Level(t) \in Nat /\ t \in SoundTree[Level(t)]
=============================================================================
