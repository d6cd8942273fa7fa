------------------------------ MODULE Induction ------------------------------
(***************************************************************************)
(* Induction over numbers, in a form that needs no operator as parameter:  *)
(* what is to hold of every number is given as the set of the numbers it   *)
(* holds of.  From it follow that a recursive function over 0..N exists    *)
(* and where its values lie, which is what the proofs about lists and      *)
(* powers need.                                                            *)
(***************************************************************************)
EXTENDS Integers, WellFoundedInduction, TLAPS

Below == {mm \in Nat \X Nat : mm[1] < mm[2]}

LEMMA BelowIsWellFounded == IsWellFoundedOn(Below, Nat)
  BY NatLessThanWellFounded DEF Below, OpToRel

\* A set of numbers that is not empty has a least element.
LEMMA LeastNumber ==
  ASSUME NEW T \in SUBSET Nat, T # {}
  PROVE  \E x \in T : \A y \in T : x <= y
<1>1. PICK x \in T : \A y \in T : ~(<<y, x>> \in Below)
  BY ONLY BelowIsWellFounded, WFMin, T # {}, T \in SUBSET Nat
<1>2. ASSUME NEW y \in T PROVE x <= y
  <2>1. x \in Nat /\ y \in Nat /\ ~(<<y, x>> \in Below)
    BY <1>1
  <2>2. y < x => <<y, x>> \in Below
    BY <2>1 DEF Below
  <2> QED BY <2>1, <2>2
<1> QED BY <1>2

\* What holds of 0 and, with any number, of the next one holds of all.
LEMMA NumberInduction ==
  ASSUME NEW T \in SUBSET Nat, 0 \in T, \A n \in T : n + 1 \in T
  PROVE  T = Nat
<1> SUFFICES ASSUME Nat \ T # {} PROVE FALSE
  OBVIOUS
<1>1. PICK x \in Nat \ T : \A y \in Nat \ T : x <= y
  BY LeastNumber
<1>2. x - 1 \in Nat
  OBVIOUS
<1>3. x - 1 \in T
  BY <1>1, <1>2
<1>4. x - 1 + 1 \in T
  BY <1>3
<1> QED BY <1>4

\* The same up to a bound.
LEMMA BoundedInduction ==
  ASSUME NEW N \in Nat, NEW T, 0 \in T, \A n \in 0..N - 1 : n \in T => n + 1 \in T
  PROVE  \A n \in 0..N : n \in T
<1> DEFINE All == {n \in Nat : n <= N => n \in T}
<1>1. All = Nat
  <2>1. 0 \in All
    OBVIOUS
  <2>2. ASSUME NEW n \in All PROVE n + 1 \in All
    OBVIOUS
  <2> QED BY <2>1, <2>2, NumberInduction
<1> QED BY <1>1

\* f is the function over 0..N that is base at 0 and goes on by step, in S.
Recursion(f, S, N, base, step) ==
  /\ f \in [0..N -> S]
  /\ f = [n \in 0..N |-> IF n = 0 THEN base ELSE step[<<f[n - 1], n>>]]

\* A function that is given by its value at 0 and by a step exists.
LEMMA RecursiveFunction ==
  ASSUME NEW S, NEW base \in S, NEW N \in Nat, NEW step \in [S \X Nat -> S]
  PROVE  \E f : Recursion(f, S, N, base, step)
<1> DEFINE Upto(n, f) == f[0] = base /\ \A i \in 1..n : f[i] = step[<<f[i - 1], i>>]
           T == {n \in Nat : \E f \in [0..n -> S] : Upto(n, f)}
<1>1. 0 \in T
  <2>1. [i \in 0..0 |-> base] \in [0..0 -> S] /\ Upto(0, [i \in 0..0 |-> base])
    OBVIOUS
  <2> QED BY <2>1
<1>2. ASSUME NEW n \in T PROVE n + 1 \in T
  <2>1. PICK f \in [0..n -> S] : Upto(n, f)
    OBVIOUS
  <2> DEFINE g == [i \in 0..n + 1 |-> IF i <= n THEN f[i] ELSE step[<<f[n], n + 1>>]]
  <2>2. step[<<f[n], n + 1>>] \in S
    OBVIOUS
  <2>3. g \in [0..n + 1 -> S]
    BY <2>2
  <2>4. g[0] = base /\ g[n] = f[n]
    BY <2>1
  <2>5. ASSUME NEW i \in 1..n + 1 PROVE g[i] = step[<<g[i - 1], i>>]
    <3>1. CASE i <= n
      BY <2>1, <3>1
    <3>2. CASE i = n + 1
      <4>1. g[n + 1] = step[<<f[n], n + 1>>]
        OBVIOUS
      <4>2. i - 1 = n
        BY <3>2
      <4> HIDE DEF g
      <4> QED BY <2>4, <3>2, <4>1, <4>2
    <3> QED BY <3>1, <3>2
  <2> HIDE DEF g
  <2> QED BY <2>3, <2>4, <2>5
<1>3. N \in T
  <2> HIDE DEF T
  <2>1. T \in SUBSET Nat
    BY DEF T
  <2> QED BY <1>1, <1>2, <2>1, NumberInduction
<1>4. PICK f \in [0..N -> S] : Upto(N, f)
  BY <1>3
<1>5. ASSUME NEW n \in 0..N PROVE f[n] = IF n = 0 THEN base ELSE step[<<f[n - 1], n>>]
  BY <1>4
<1> QED BY <1>5 DEF Recursion

=============================================================================
