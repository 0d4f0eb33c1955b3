------------------------------- MODULE Recursion -------------------------------
(***************************************************************************)
(* A recursive function on the naturals is what its definition says.  Step *)
(* is the body of the definition: the value at n, from the function and    *)
(* from p, whatever else the function depends on.  A module that needs     *)
(* this instantiates it with the body of its function.                     *)
(***************************************************************************)
EXTENDS Integers, NaturalsInduction, WellFoundedInduction, TLAPS

CONSTANT Step(_, _, _)

\* A set of naturals that has 0, and n + 1 with every n, has all of them.
LEMMA EveryNatural ==
    ASSUME NEW S, 0 \in S, \A n \in Nat : n \in S => n + 1 \in S
    PROVE  \A n \in Nat : n \in S
<1> SUFFICES ASSUME NEW n \in Nat, n \notin S PROVE FALSE
  OBVIOUS
<1> DEFINE Missing == {m \in 0 .. n : m \notin S}
           Less == OpToRel(<, Nat)
<1>1. Missing \subseteq Nat /\ Missing # {}
  OBVIOUS
<1>2. PICK m \in Missing : \A k \in Missing : <<k, m>> \notin Less
  BY <1>1, NatLessThanWellFounded, WFMin
<1>3. m # 0 /\ m - 1 \in Nat /\ m - 1 \in 0 .. n
  OBVIOUS
<1>4. m - 1 \notin S
  BY <1>3
<1>5. <<m - 1, m>> \in Less
  BY <1>3 DEF OpToRel
<1> QED
  BY <1>2, <1>3, <1>4, <1>5

\* g follows the definition up to n.
Follows(p, g, n) == \A m \in 0 .. n : g[m] = Step(p, g, m)

\* The body looks at the function only below its argument.
LooksBelow(p) ==
    \A g, h : \A n \in Nat : (\A m \in 0 .. n - 1 : g[m] = h[m]) => Step(p, g, n) = Step(p, h, n)

LEMMA FollowersAgree ==
    ASSUME NEW p, LooksBelow(p), NEW g, NEW h, NEW n \in Nat, Follows(p, g, n), Follows(p, h, n)
    PROVE  \A m \in 0 .. n : g[m] = h[m]
<1> DEFINE S == {k \in Nat : \A m \in 0 .. k : m <= n => g[m] = h[m]}
<1>1. 0 \in S
  <2>1. Step(p, g, 0) = Step(p, h, 0)
    BY DEF LooksBelow
  <2> QED
    BY <2>1 DEF Follows
<1>2. ASSUME NEW k \in Nat, k \in S PROVE k + 1 \in S
  <2> SUFFICES ASSUME k + 1 <= n PROVE g[k + 1] = h[k + 1]
    BY <1>2
  <2>1. \A m \in 0 .. (k + 1) - 1 : g[m] = h[m]
    BY <1>2
  <2>2. Step(p, g, k + 1) = Step(p, h, k + 1)
    BY <2>1 DEF LooksBelow
  <2> QED
    BY <2>2 DEF Follows
<1>3. n \in S
  <2> HIDE DEF S
  <2> QED
    BY <1>1, <1>2, EveryNatural
<1> QED
  BY <1>3

LEMMA FollowerExists ==
    ASSUME NEW p, LooksBelow(p)
    PROVE  \A n \in Nat : \E g : Follows(p, g, n)
<1> DEFINE S == {n \in Nat : \E g : Follows(p, g, n)}
<1>1. ASSUME NEW n \in Nat, NEW g, \A m \in 0 .. n - 1 : g[m] = Step(p, g, m)
      PROVE  n \in S
  <2> DEFINE h == [m \in 0 .. n |-> IF m = n THEN Step(p, g, n) ELSE g[m]]
  <2>1. \A m \in 0 .. n - 1 : h[m] = g[m]
    OBVIOUS
  <2>2. h[n] = Step(p, g, n)
    OBVIOUS
  <2> HIDE DEF h
  <2>3. ASSUME NEW m \in 0 .. n PROVE h[m] = Step(p, h, m)
    <3>1. \A i \in 0 .. m - 1 : h[i] = g[i]
      BY <2>1
    <3>2. Step(p, h, m) = Step(p, g, m)
      BY <3>1 DEF LooksBelow
    <3>3. CASE m = n
      BY <3>2, <3>3, <2>2
    <3>4. CASE m # n
      BY <3>2, <3>4, <2>1, <1>1
    <3> QED
      BY <3>3, <3>4
  <2> QED
    BY <2>3 DEF Follows
<1>2. 0 \in S
  BY <1>1
<1>3. ASSUME NEW n \in Nat, n \in S PROVE n + 1 \in S
  <2>1. PICK g : Follows(p, g, n)
    BY <1>3
  <2>2. \A m \in 0 .. (n + 1) - 1 : g[m] = Step(p, g, m)
    BY <2>1 DEF Follows
  <2> QED
    BY <1>1, <2>2
<1>4. \A n \in Nat : n \in S
  <2> HIDE DEF S
  <2> QED
    BY <1>2, <1>3, EveryNatural
<1> QED
  BY <1>4

\* The definition of a recursive function defines it.
LEMMA RecursiveFunction ==
    ASSUME NEW p, LooksBelow(p), NEW f, f = CHOOSE g : g = [n \in Nat |-> Step(p, g, n)]
    PROVE  f = [n \in Nat |-> Step(p, f, n)]
<1> DEFINE G(n) == CHOOSE g : Follows(p, g, n)
           F == [n \in Nat |-> G(n)[n]]
<1>1. \A n \in Nat : Follows(p, G(n), n)
  BY FollowerExists
<1> HIDE DEF G
<1>2. ASSUME NEW n \in Nat PROVE F[n] = Step(p, F, n)
  <2>1. ASSUME NEW m \in 0 .. n PROVE F[m] = G(n)[m]
    <3>1. m \in Nat /\ Follows(p, G(m), m) /\ Follows(p, G(n), m)
      BY <1>1 DEF Follows
    <3>2. m \in 0 .. m
      BY <3>1
    <3>3. G(m)[m] = G(n)[m]
      BY <3>1, <3>2, FollowersAgree
    <3> QED
      BY <3>1, <3>3
  <2>2. Step(p, F, n) = Step(p, G(n), n)
    <3>1. \A m \in 0 .. n - 1 : F[m] = G(n)[m]
      BY <2>1
    <3> HIDE DEF F
    <3> QED
      BY <3>1 DEF LooksBelow
  <2>3. G(n)[n] = Step(p, G(n), n)
    BY <1>1 DEF Follows
  <2>4. F[n] = G(n)[n]
    BY <2>1
  <2> QED
    BY <2>2, <2>3, <2>4
<1>3. F = [n \in Nat |-> Step(p, F, n)]
  <2>1. \A n \in Nat : F[n] = Step(p, F, n)
    BY <1>2
  <2>2. F = [n \in Nat |-> F[n]]
    OBVIOUS
  <2> HIDE DEF F
  <2> QED
    BY <2>1, <2>2
<1> QED
  BY <1>3
=============================================================================
