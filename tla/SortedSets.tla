------------------------------ MODULE SortedSets ------------------------------
(***************************************************************************)
(* The sorted sets (cache/sorted_sets/sorted_set.cpp), as operators on the *)
(* store: key -> an AVL tree of (score, member) and a map from members to  *)
(* scores.  Each operation runs under mtx, the writing ones exclusively,   *)
(* so it is one step; what has to agree is the tree and the map.           *)
(*                                                                         *)
(* The two hash maps inside are maps (module HashMap); what a removed      *)
(* member's pointer would point to never matters under mtx.                *)
(***************************************************************************)
EXTENDS AVLTree

CONSTANT NoResult  \* std::nullopt

\* What an operation returns, and the store it leaves.
Result(sets, value) == [sets |-> sets, value |-> value]

EmptySet == [tree |-> Nil, member_score |-> <<>>]
Members(zset) == DOMAIN zset.member_score

\* get_or_add: the set of a key is created with its first ZADD and never goes.
get_or_create_set(sets, key) == IF key \in DOMAIN sets THEN sets[key] ELSE EmptySet

Put(f, x, y) == [z \in DOMAIN f \cup {x} |-> IF z = x THEN y ELSE f[z]]

zadd(sets, key, score, member) ==
    LET zset == get_or_create_set(sets, key)
        present == member \in Members(zset)
        same == present /\ ScoreEqual(zset.member_score[member], score)
        cleared == IF present THEN erase(zset.tree, Value(member, zset.member_score[member]))
                              ELSE zset.tree
        updated == IF same THEN zset
                   ELSE [tree |-> insert(cleared, Value(member, score)),
                         member_score |-> Put(zset.member_score, member, score)]
    IN  Result(Put(sets, key, updated), ~present)

Has(sets, key, member) == key \in DOMAIN sets /\ member \in Members(sets[key])

zscore(sets, key, member) ==
    Result(sets, IF Has(sets, key, member) THEN sets[key].member_score[member] ELSE NoResult)

\* A removal that gives up the set of the key.
zrem_forgetting(sets, key, member) ==
    IF ~Has(sets, key, member) THEN Result(sets, FALSE)
    ELSE Result(Restrict(sets, DOMAIN sets \ {key}), TRUE)

zrem(sets, key, member) ==
    IF ~Has(sets, key, member) THEN Result(sets, FALSE)
    ELSE LET zset == sets[key]
         IN  Result([sets EXCEPT ![key] =
                        [tree |-> erase(zset.tree, Value(member, zset.member_score[member])),
                         member_score |-> Restrict(zset.member_score, Members(zset) \ {member})]],
                    TRUE)

zrank(sets, key, member) ==
    Result(sets, IF Has(sets, key, member)
                 THEN rank(sets[key].tree, Value(member, sets[key].member_score[member]))
                 ELSE NoResult)

-----------------------------------------------------------------------------
HoldsNaN(zset) == \E m \in Members(zset) : zset.member_score[m] = NaN

\* The tree holds exactly the pairs of the member map.
Agrees(zset) ==
    /\ Ordered(zset.tree)
    /\ HeldBy(zset.tree) = {Value(m, zset.member_score[m]) : m \in Members(zset)}
=============================================================================
