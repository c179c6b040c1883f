------------------------------- MODULE Loops --------------------------------
(***************************************************************************)
(* A loop of the code is, in this project, a recursive function of the     *)
(* number of rounds.  What it computes is shown by induction, and induction*)
(* on the numbers by the fact that a set of numbers has a least.           *)
(***************************************************************************)
EXTENDS Integers, TLAPS, NaturalsInduction, WellFoundedInduction

(* A set of numbers has a least one ...                                    *)
LEMMA Least ==
  ASSUME NEW T, T \subseteq Nat, T # {}
  PROVE  \E x \in T : \A y \in T : x <= y
<1>1. IsWellFoundedOn(OpToRel(<, Nat), Nat)
  BY NatLessThanWellFounded, Zenon
<1>2. PICK x \in T : \A y \in T : ~(<<y, x>> \in OpToRel(<, Nat))
  BY <1>1, WFMin, Zenon
<1>3. \A y \in T : ~(y < x)
  BY <1>2 DEF OpToRel
<1> QED BY <1>3

(* ... so a set that has 0, and with a number the next, has all of them.   *)
LEMMA UpFromZero ==
  ASSUME NEW S, NEW N \in Nat, 0 \in S, \A n \in 0..(N - 1) : n \in S => n + 1 \in S
  PROVE  \A n \in 0..N : n \in S
<1> DEFINE T == {n \in 0..N : n \notin S}
<1>1. SUFFICES ASSUME T # {} PROVE FALSE
  OBVIOUS
<1>2. PICK x \in T : \A y \in T : x <= y
  BY <1>1, Least, T \subseteq Nat
<1>3. x # 0 /\ x - 1 \in 0..(N - 1) /\ (x - 1) + 1 = x
  OBVIOUS
<1>4. x - 1 \in S
  BY <1>2, <1>3
<1> QED BY <1>3, <1>4

(* The values after each round of a loop that starts with start and in     *)
(* which round n makes F[n][x] of x.                                       *)
HasValues(N, T, start, F) ==
  \E g \in [0..N -> T] : g[0] = start /\ \A n \in 1..N : g[n] = F[n][g[n - 1]]

(* There are such values.                                                  *)
LEMMA LoopHasValues ==
  ASSUME NEW N \in Nat, NEW T, NEW start \in T, NEW F \in [1..N -> [T -> T]]
  PROVE  HasValues(N, T, start, F)
<1> DEFINE IsLoop(g, K) ==
             g \in [0..K -> T] /\ g = [n \in 0..K |-> IF n = 0 THEN start ELSE F[n][g[n - 1]]]
           S == {K \in 0..N : \E g : IsLoop(g, K)}
<1>1. 0 \in S
  <2> DEFINE g == [n \in 0..0 |-> start]
  <2>1. IsLoop(g, 0) /\ 0 \in 0..N
    OBVIOUS
  <2> HIDE DEF g, IsLoop
  <2> QED BY <2>1
<1>2. ASSUME NEW K \in 0..(N - 1), K \in S PROVE K + 1 \in S
  <2>1. PICK g : IsLoop(g, K)
    BY <1>2
  <2> DEFINE h == [n \in 0..(K + 1) |-> IF n = K + 1 THEN F[K + 1][g[K]] ELSE g[n]]
  <2>2. g[K] \in T /\ F[K + 1] \in [T -> T] /\ K + 1 \in 0..N
    BY <2>1
  <2>3. h \in [0..(K + 1) -> T]
    BY <2>1, <2>2
  <2>4. ASSUME NEW n \in 0..(K + 1)
        PROVE  h[n] = IF n = 0 THEN start ELSE F[n][h[n - 1]]
    <3>1. CASE n = K + 1
      <4>1. n # 0 /\ n - 1 = K /\ K \in 0..(K + 1) /\ K # K + 1
        BY <3>1
      <4> QED BY <3>1, <4>1
    <3>2. CASE n # K + 1
      <4>1. h[n] = g[n] /\ n \in 0..K
        BY <3>2
      <4>2. n # 0 => n - 1 \in 0..(K + 1) /\ n - 1 # K + 1
        BY <3>2
      <4> QED BY <2>1, <4>1, <4>2
    <3> QED BY <3>1, <3>2
  <2>5. IsLoop(h, K + 1)
    BY <2>3, <2>4
  <2> HIDE DEF h, IsLoop
  <2> QED BY <2>2, <2>5
<1>3. N \in S
  <2> HIDE DEF S
  <2>1. \A n \in 0..N : n \in S
    BY <1>1, <1>2, UpFromZero
  <2> QED BY <2>1
<1>4. PICK g : IsLoop(g, N)
  BY <1>3
<1>5. g[0] = start /\ \A n \in 1..N : g[n] = F[n][g[n - 1]]
  BY <1>4
<1> QED BY <1>4, <1>5 DEF HasValues
=============================================================================
