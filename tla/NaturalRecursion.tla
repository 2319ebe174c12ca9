-------------------------- MODULE NaturalRecursion --------------------------
(***************************************************************************)
(* Functions that are defined by recursion over 0..N, as the loops of the  *)
(* models are: that such a function exists, and how something is shown of  *)
(* each of its values.  Both rest on the least element of a set of numbers.*)
(***************************************************************************)
EXTENDS Integers, WellFoundedInduction, TLAPS

LessThan == {pair \in Nat \X Nat : pair[1] < pair[2]}

\* Every set of numbers but the empty one has a least element.
LEMMA LeastNumber == ASSUME NEW S \in SUBSET Nat, S # {} PROVE \E m \in S : \A k \in S : m <= k
<1>1. LessThan = OpToRel(<, Nat)
  BY SMT DEF OpToRel, LessThan
<1>2. IsWellFoundedOn(LessThan, Nat)
  BY <1>1, NatLessThanWellFounded, Zenon
<1>3. PICK m \in S : \A k \in S : ~(<<k, m>> \in LessThan)
  BY <1>2, WFMin
<1>4. \A k \in S : m <= k
  <2> TAKE k \in S
  <2>1. ~(k < m)
    BY <1>3 DEF LessThan
  <2> QED BY <2>1, SMT
<1> QED BY <1>4

\* Induction, with a set in the place of a formula: good has the numbers of
\* which something is shown.
LEMMA Induction ==
  ASSUME NEW N \in Nat, NEW good, 0 \in good, \A n \in 0..N - 1 : n \in good => n + 1 \in good
  PROVE  \A n \in 0..N : n \in good
<1> SUFFICES ASSUME {n \in 0..N : n \notin good} # {} PROVE FALSE
  OBVIOUS
<1> DEFINE bad == {n \in 0..N : n \notin good}
<1>1. PICK m \in bad : \A k \in bad : m <= k
  <2>1. bad \in SUBSET Nat
    OBVIOUS
  <2> HIDE DEF bad
  <2> QED BY <2>1, LeastNumber DEF bad
<1>2. m \in 1..N /\ m - 1 \in 0..N - 1
  BY <1>1
<1>3. m - 1 \in good
  BY <1>1, <1>2
<1> QED BY <1>1, <1>2, <1>3

\* f solves the recursion up to m.
Solves(f, base, step, S, m) ==
    /\ f \in [0..m -> S]
    /\ f[0] = base
    /\ \A n \in 1..m : f[n] = step[n][f[n - 1]]

\* A solution has a next value.
LEMMA OneMore ==
  ASSUME NEW N \in Nat, NEW S, NEW base \in S, NEW step \in [1..N -> [S -> S]],
         NEW m \in 0..N - 1, NEW f, Solves(f, base, step, S, m)
  PROVE  \E g : Solves(g, base, step, S, m + 1)
<1> DEFINE next == step[m + 1][f[m]]
           g == [n \in 0..m + 1 |-> IF n = m + 1 THEN next ELSE f[n]]
<1>1. f \in [0..m -> S] /\ m \in Nat /\ m + 1 \in 1..N /\ m \in 0..m
  BY DEF Solves
<1>2. next \in S
  <2>1. f[m] \in S /\ step[m + 1] \in [S -> S]
    BY <1>1
  <2> QED BY <2>1
<1> HIDE DEF next
<1>3. \A n \in 0..m : n \in 0..m + 1 /\ n # m + 1 /\ g[n] = f[n]
  BY <1>1
<1>4. g[m + 1] = next
  BY <1>1
<1>5. g \in [0..m + 1 -> S]
  BY <1>1, <1>2
<1> HIDE DEF g
<1>6. g[0] = base
  BY <1>1, <1>3 DEF Solves
<1>7. ASSUME NEW n \in 1..m + 1 PROVE g[n] = step[n][g[n - 1]]
  <2>1. CASE n = m + 1
    <3>1. n - 1 = m
      BY <1>1, <2>1
    <3> QED BY <1>1, <1>3, <1>4, <2>1, <3>1 DEF next
  <2>2. CASE n \in 1..m
    <3>1. n \in 0..m /\ n - 1 \in 0..m
      BY <1>1, <2>2
    <3> QED BY <1>3, <2>2, <3>1 DEF Solves
  <2>3. n = m + 1 \/ n \in 1..m
    BY <1>1
  <2> QED BY <2>1, <2>2, <2>3
<1>8. Solves(g, base, step, S, m + 1)
  BY <1>5, <1>6, <1>7 DEF Solves
<1> QED BY <1>8

Follows(f, base, step, N) == f = [n \in 0..N |-> IF n = 0 THEN base ELSE step[n][f[n - 1]]]

\* A recursion over the numbers up to N has a solution.
LEMMA Recursion ==
  ASSUME NEW N \in Nat, NEW S, NEW base \in S, NEW step \in [1..N -> [S -> S]]
  PROVE  \E f \in [0..N -> S] : Follows(f, base, step, N)
<1> DEFINE good == {m \in Nat : \E f : Solves(f, base, step, S, m)}
<1>1. 0 \in good
  <2>1. Solves([n \in 0..0 |-> base], base, step, S, 0)
    BY DEF Solves
  <2> QED BY <2>1
<1>2. \A m \in 0..N - 1 : m \in good => m + 1 \in good
  BY OneMore
<1>3. N \in good
  <2> HIDE DEF good
  <2>1. \A n \in 0..N : n \in good
    BY <1>1, <1>2, Induction
  <2> QED BY <2>1
<1>4. PICK f : Solves(f, base, step, S, N)
  BY <1>3
<1>5. ASSUME NEW n \in 0..N PROVE f[n] = IF n = 0 THEN base ELSE step[n][f[n - 1]]
  <2>1. CASE n = 0
    BY <1>4, <2>1 DEF Solves
  <2>2. CASE n # 0
    <3>1. n \in 1..N
      BY <2>2
    <3> QED BY <1>4, <2>2, <3>1 DEF Solves
  <2> QED BY <2>1, <2>2
<1>6. f \in [0..N -> S]
  BY <1>4 DEF Solves
<1>7. Follows(f, base, step, N)
  BY <1>5, <1>6 DEF Follows
<1> QED BY <1>6, <1>7
=============================================================================
