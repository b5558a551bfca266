----------------------------- MODULE SumProofs -----------------------------
(* What the proofs about ledgers need of sums.                             *)
EXTENDS Sums, FiniteSetTheorems, TLAPS

(* Coins are finitely many, and without some of them there are as many less. *)
LEMMA FiniteCoins ==
  ASSUME NEW n \in Nat, NEW S \in SUBSET (1 .. n)
  PROVE  IsFiniteSet(S)
<1>1. IsFiniteSet(1 .. n)
  BY FS_Interval
<1>2. QED
  BY <1>1, FS_Subset, Zenon

LEMMA Without ==
  ASSUME NEW S, IsFiniteSet(S), NEW R \in SUBSET S
  PROVE  IsFiniteSet(S \ R) /\ Cardinality(S \ R) = Cardinality(S) - Cardinality(R)
<1>1. S \cap R = R
  OBVIOUS
<1>2. QED
  BY <1>1, FS_Difference

(* The coins need not be the first numbers: any finite set of them will do. *)
LEMMA SumOfCoins ==
  ASSUME NEW D, NEW amounts \in [D -> Nat], NEW C, IsFiniteSet(C),
         NEW holder \in [C -> D],
         \A x \in D : amounts[x] = Cardinality(CoinsOf(holder, x))
  PROVE  AddsUp(amounts, Cardinality(C))
<1> DEFINE n == Cardinality(C)
<1>1. n \in Nat
  BY FS_CardinalityType
<1>2. PICK f \in Bijection(1 .. n, C) : TRUE
  BY FS_CardinalityType DEF ExistsBijection
<1>3. /\ f \in [1 .. n -> C]
      /\ \A i, j \in 1 .. n : f[i] = f[j] => i = j
      /\ \A c \in C : \E i \in 1 .. n : f[i] = c
  BY <1>2 DEF Bijection, Injection, Surjection, IsInjective
<1> DEFINE g == [i \in 1 .. n |-> holder[f[i]]]
<1>4. g \in [1 .. n -> DOMAIN amounts]
  BY <1>3
<1>5. ASSUME NEW x \in DOMAIN amounts
      PROVE  amounts[x] = Cardinality(CoinsOf(g, x))
  <2> DEFINE I == {i \in 1 .. n : g[i] = x}
             S == {c \in C : holder[c] = x}
             h == [i \in I |-> f[i]]
  <2>1. h \in Bijection(I, S)
    <3>1. h \in [I -> S]
      BY <1>3
    <3>2. \A i, j \in I : h[i] = h[j] => i = j
      BY <1>3
    <3>3. \A c \in S : \E i \in I : h[i] = c
      BY <1>3
    <3>4. QED
      BY <3>1, <3>2, <3>3 DEF Bijection, Injection, Surjection, IsInjective
  <2>2. IsFiniteSet(I)
    <3>1. I \in SUBSET (1 .. n)
      OBVIOUS
    <3> HIDE DEF I, n
    <3>2. QED
      BY <1>1, <3>1, FiniteCoins
  <2>3. Cardinality(S) = Cardinality(I)
    <3>1. ExistsBijection(I, S)
      BY <2>1 DEF ExistsBijection
    <3>2. QED
      BY <2>2, <3>1, FS_Bijection
  <2>4. CoinsOf(g, x) = I /\ CoinsOf(holder, x) = S
    BY DEF CoinsOf
  <2>5. QED
    BY <2>3, <2>4
<1>6. QED
  BY <1>4, <1>5 DEF AddsUp

(* Nobody has more than there is. *)
LEMMA SumBounds ==
  ASSUME NEW D, NEW amounts \in [D -> Nat], NEW total \in Nat, AddsUp(amounts, total),
         NEW x \in D
  PROVE  amounts[x] <= total
<1>1. PICK holder \in [1 .. total -> D] :
        amounts[x] = Cardinality({c \in 1 .. total : holder[c] = x})
  BY DEF AddsUp, CoinsOf
<1>2. IsFiniteSet(1 .. total) /\ Cardinality(1 .. total) = total
  BY FS_Interval
<1>3. QED
  BY <1>1, <1>2, FS_Subset, FS_CardinalityType

LEMMA SumOfNothing == ASSUME NEW D PROVE AddsUp([x \in D |-> 0], 0)
<1>1. [c \in {} |-> CHOOSE x \in D : TRUE] \in [1 .. 0 -> D]
  OBVIOUS
<1>2. \A S : Cardinality({c \in 1 .. 0 : c \in S}) = 0
  BY FS_EmptySet
<1>3. QED
  BY <1>1, FS_EmptySet DEF AddsUp, CoinsOf

(* Somebody gets n more. *)
LEMMA SumGrows ==
  ASSUME NEW D, NEW amounts \in [D -> Nat], NEW total \in Nat, AddsUp(amounts, total),
         NEW x \in D, NEW n \in Nat
  PROVE  AddsUp([amounts EXCEPT ![x] = @ + n], total + n)
<1> DEFINE more == [amounts EXCEPT ![x] = @ + n]
           new  == total + 1 .. total + n
<1>1. PICK holder \in [1 .. total -> D] :
        \A y \in D : amounts[y] = Cardinality({c \in 1 .. total : holder[c] = y})
  BY DEF AddsUp, CoinsOf
<1> DEFINE h == [c \in 1 .. total + n |-> IF c <= total THEN holder[c] ELSE x]
<1>2. h \in [1 .. total + n -> D]
  BY <1>1
<1>3. ASSUME NEW y \in D
      PROVE  more[y] = Cardinality({c \in 1 .. total + n : h[c] = y})
  <2> DEFINE S == {c \in 1 .. total : holder[c] = y}
  <2>1. IsFiniteSet(S)
    <3>1. S \in SUBSET (1 .. total)
      OBVIOUS
    <3> HIDE DEF S
    <3>2. QED
      BY <3>1, FiniteCoins
  <2>2. IsFiniteSet(new) /\ Cardinality(new) = n
    <3>1. total + 1 \in Int /\ total + n \in Int
      OBVIOUS
    <3>2. /\ IsFiniteSet(new)
          /\ Cardinality(new) = IF total + 1 > total + n THEN 0
                                ELSE (total + n) - (total + 1) + 1
      BY <3>1, FS_Interval, Zenon
    <3>3. QED
      BY <3>2
  <2>3. CASE y = x
    <3>1. {c \in 1 .. total + n : h[c] = y} = S \cup new
      BY <2>3
    <3>2. S \cap new = {}
      OBVIOUS
    <3>3. Cardinality(S \cup new) = Cardinality(S) + n
      <4> HIDE DEF S, new
      <4>1. Cardinality(S \cup new) = Cardinality(S) + Cardinality(new) - Cardinality({})
        BY <2>1, <2>2, <3>2, FS_Union
      <4>2. Cardinality({}) = 0 /\ Cardinality(S) \in Nat
        BY <2>1, FS_EmptySet, FS_CardinalityType
      <4>3. QED
        BY <2>2, <4>1, <4>2
    <3>4. QED
      BY <1>1, <2>3, <3>1, <3>3
  <2>4. CASE y # x
    <3>1. {c \in 1 .. total + n : h[c] = y} = S
      BY <2>4
    <3>2. QED
      BY <1>1, <2>4, <3>1
  <2>5. QED
    BY <2>3, <2>4
<1>4. DOMAIN more = D
  OBVIOUS
<1>5. QED
  BY <1>2, <1>3, <1>4 DEF AddsUp, CoinsOf

(* Somebody gives n away. *)
LEMMA SumShrinks ==
  ASSUME NEW D, NEW amounts \in [D -> Nat], NEW total \in Nat, AddsUp(amounts, total),
         NEW x \in D, NEW n \in Nat, n <= amounts[x]
  PROVE  AddsUp([amounts EXCEPT ![x] = @ - n], total - n)
<1> DEFINE less == [amounts EXCEPT ![x] = @ - n]
<1>1. PICK holder \in [1 .. total -> D] :
        \A y \in D : amounts[y] = Cardinality({c \in 1 .. total : holder[c] = y})
  BY DEF AddsUp, CoinsOf
<1> DEFINE Of(y) == {c \in 1 .. total : holder[c] = y}
<1>2. IsFiniteSet(1 .. total) /\ Cardinality(1 .. total) = total
  BY FS_Interval
<1>3. \A y \in D : IsFiniteSet(Of(y))
  BY <1>2, FS_Subset
<1>4. PICK f \in Bijection(1 .. amounts[x], Of(x)) : TRUE
  BY <1>1, <1>3, FS_CardinalityType DEF ExistsBijection
<1>5. /\ f \in [1 .. amounts[x] -> Of(x)]
      /\ \A i, j \in 1 .. amounts[x] : f[i] = f[j] => i = j
  BY <1>4 DEF Bijection, Injection, IsInjective
<1> DEFINE gone == {f[i] : i \in 1 .. n}
           left == (1 .. total) \ gone
           g    == [i \in 1 .. n |-> f[i]]
           h    == [c \in left |-> holder[c]]
<1>6. gone \subseteq Of(x)
  BY <1>5
<1>7. IsFiniteSet(gone) /\ Cardinality(gone) = n
  <2>1. IsFiniteSet(1 .. n) /\ Cardinality(1 .. n) = n
    BY FS_Interval
  <2>2. g \in Bijection(1 .. n, gone)
    <3>1. g \in [1 .. n -> gone] /\ \A c \in gone : \E i \in 1 .. n : g[i] = c
      BY <1>5
    <3>2. \A i, j \in 1 .. n : g[i] = g[j] => i = j
      BY <1>5
    <3>3. QED
      BY <3>1, <3>2 DEF Bijection, Injection, Surjection, IsInjective
  <2>3. ExistsBijection(1 .. n, gone)
    BY <2>2 DEF ExistsBijection
  <2>4. QED
    BY <2>1, <2>3, FS_Bijection
<1>8. IsFiniteSet(left) /\ Cardinality(left) = total - n
  <2>1. gone \in SUBSET (1 .. total)
    BY <1>6
  <2> HIDE DEF gone
  <2>2. IsFiniteSet(left) /\ Cardinality(left) = Cardinality(1 .. total) - Cardinality(gone)
    BY <1>2, <2>1, Without
  <2>3. QED
    BY <1>2, <1>7, <2>2
<1>9. h \in [left -> D]
  BY <1>1
<1>10. ASSUME NEW y \in D PROVE less[y] = Cardinality(CoinsOf(h, y))
  <2>1. CASE y = x
    <3>1. CoinsOf(h, y) = Of(x) \ gone
      BY <2>1 DEF CoinsOf
    <3>2. Cardinality(Of(x) \ gone) = Cardinality(Of(x)) - Cardinality(gone)
      <4> HIDE DEF Of, gone
      <4>1. QED
        BY <1>3, <1>6, Without
    <3>3. Cardinality(Of(x)) = amounts[x]
      BY <1>1
    <3>4. QED
      BY <1>7, <2>1, <3>1, <3>2, <3>3
  <2>2. CASE y # x
    <3>1. CoinsOf(h, y) = Of(y)
      BY <1>6, <2>2 DEF CoinsOf
    <3>2. QED
      BY <1>1, <2>2, <3>1
  <2>3. QED
    BY <2>1, <2>2
<1>11. less \in [D -> Nat]
  OBVIOUS
<1> HIDE DEF less, left, h
<1>12. QED
  <2>1. AddsUp(less, Cardinality(left))
    BY <1>8, <1>9, <1>10, <1>11, SumOfCoins
  <2>2. QED
    BY <1>8, <2>1 DEF less

(* A sum changes by as much as one of the amounts. *)
LEMMA SumChanges ==
  ASSUME NEW D, NEW amounts \in [D -> Nat], NEW total \in Nat, AddsUp(amounts, total),
         NEW x \in D, NEW v \in Nat
  PROVE  AddsUp([amounts EXCEPT ![x] = v], total - amounts[x] + v)
<1>1. amounts[x] \in Nat
  OBVIOUS
<1>2. CASE v >= amounts[x]
  <2> DEFINE n == v - amounts[x]
  <2>1. n \in Nat /\ amounts[x] + n = v /\ total + n = total - amounts[x] + v
    BY <1>1, <1>2
  <2> HIDE DEF n
  <2>2. AddsUp([amounts EXCEPT ![x] = amounts[x] + n], total + n)
    BY <2>1, SumGrows
  <2>3. QED
    BY <2>1, <2>2
<1>3. CASE v < amounts[x]
  <2> DEFINE n == amounts[x] - v
  <2>1. /\ n \in Nat /\ n <= amounts[x]
        /\ amounts[x] - n = v /\ total - n = total - amounts[x] + v
    BY <1>1, <1>3
  <2> HIDE DEF n
  <2>2. AddsUp([amounts EXCEPT ![x] = amounts[x] - n], total - n)
    BY <2>1, SumShrinks
  <2>3. QED
    BY <2>1, <2>2
<1>4. QED
  BY <1>1, <1>2, <1>3

(* One gives n away and the other one gets it. *)
Moves(D, amounts, moved, from, to, n) ==
  /\ amounts \in [D -> Nat] /\ moved \in [D -> Int]
  /\ from \in D /\ to \in D
  /\ n \in Nat /\ n <= amounts[from]
  /\ \A x \in D : moved[x] = amounts[x] + (IF x = to THEN n ELSE 0)
                             - (IF x = from THEN n ELSE 0)

LEMMA SumMoves ==
  ASSUME NEW D, NEW amounts, NEW moved, NEW from, NEW to, NEW n,
         Moves(D, amounts, moved, from, to, n),
         NEW total \in Nat, AddsUp(amounts, total)
  PROVE  moved \in [D -> Nat] /\ AddsUp(moved, total)
<1>0. /\ amounts \in [D -> Nat] /\ moved \in [D -> Int]
      /\ from \in D /\ to \in D /\ n \in Nat /\ n <= amounts[from]
      /\ \A x \in D : moved[x] = amounts[x] + (IF x = to THEN n ELSE 0)
                                 - (IF x = from THEN n ELSE 0)
  BY DEF Moves
<1> DEFINE less == [amounts EXCEPT ![from] = @ - n]
<1>1. less \in [D -> Nat]
  BY <1>0
<1>2. total - n \in Nat
  <2>1. amounts[from] <= total /\ amounts[from] \in Nat
    BY <1>0, SumBounds
  <2>2. QED
    BY <1>0, <2>1
<1>3. AddsUp(less, total - n)
  BY <1>0, SumShrinks
<1>4. \A x \in D : moved[x] = less[x] + (IF x = to THEN n ELSE 0)
  BY <1>0
<1> HIDE DEF less
<1>5. AddsUp([less EXCEPT ![to] = @ + n], total - n + n)
  BY <1>0, <1>1, <1>2, <1>3, SumGrows
<1>6. total - n + n = total /\ [less EXCEPT ![to] = @ + n] \in [D -> Nat]
  BY <1>0, <1>1
<1>7. moved = [less EXCEPT ![to] = @ + n]
  <2>1. \A x \in D : moved[x] = [less EXCEPT ![to] = @ + n][x]
    BY <1>1, <1>4
  <2>2. QED
    BY <1>0, <1>6, <2>1
<1>8. QED
  BY <1>5, <1>6, <1>7
=============================================================================
