----------------------------- MODULE WordProofs -----------------------------
(***************************************************************************)
(* What the operators of Words and Instructions compute, for every size of *)
(* a byte: the lemmas that the proofs about the machine rest on.           *)
(***************************************************************************)
EXTENDS Instructions, WellFoundedInduction, TLAPS

-----------------------------------------------------------------------------
(* Induction over data, by sets: the library's theorems about well-founded *)
(* relations take a set where its induction theorems take a predicate.     *)

Less == {p \in Nat \X Nat : p[1] < p[2]}

(* A set of natural numbers has a least element. *)
LEMMA LeastNumber ==
  ASSUME NEW S, S \subseteq Nat, S # {}
  PROVE  \E x \in S : \A y \in S : x <= y
<1>1. OpToRel(<, Nat) = Less
  BY Zenon DEF OpToRel, Less
<1>2. IsWellFoundedOn(Less, Nat)
  BY <1>1, NatLessThanWellFounded, Zenon
<1>3. PICK x \in S : \A y \in S : ~ (<<y, x>> \in Less)
  BY <1>2, WFMin, Zenon
<1>4. ASSUME NEW y \in S PROVE x <= y
  <2>1. <<y, x>> \notin Less
    BY <1>3
  <2> QED
    BY <2>1 DEF Less
<1> QED
  BY <1>4

(* A set with 0 and the successors of its members holds all numbers.       *)
LEMMA InductionBySet ==
  ASSUME NEW S, 0 \in S, \A n \in Nat : n \in S => n + 1 \in S
  PROVE  Nat \subseteq S
<1>1. SUFFICES ASSUME Nat \ S # {} PROVE FALSE
  OBVIOUS
<1>2. PICK x \in Nat \ S : \A y \in Nat \ S : x <= y
  BY <1>1, LeastNumber
<1>3. x - 1 \in Nat /\ x - 1 \in S
  BY <1>2
<1> QED
  BY <1>2, <1>3

(* f follows the steps g from s up to n. *)
Follows(f, n, s, g) ==
  /\ f[0] = s
  /\ \A k \in 0 .. n - 1 : f[k + 1] = g[k][f[k]]

(* f, a function to S, follows them for ever. *)
Runs(f, S, s, g) ==
  /\ f \in [Nat -> S]
  /\ f[0] = s
  /\ \A k \in Nat : f[k + 1] = g[k][f[k]]

(* Primitive recursion: steps within a set can be followed for ever.       *)
LEMMA Recursion ==
  ASSUME NEW S, NEW s, NEW g, s \in S, g \in [Nat -> [S -> S]]
  PROVE  \E f : Runs(f, S, s, g)
<1> DEFINE Some(n) == \E f \in [0 .. n -> S] : Follows(f, n, s, g)
           Same(k) == \A m, n \in Nat :
                        \A e \in [0 .. m -> S], f \in [0 .. n -> S] :
                          Follows(e, m, s, g) /\ Follows(f, n, s, g) /\ k <= m /\ k <= n
                            => e[k] = f[k]
           Part(n) == CHOOSE f \in [0 .. n -> S] : Follows(f, n, s, g)
<1>1. \A n \in Nat : Some(n)
  <2> DEFINE T == {n \in Nat : Some(n)}
  <2>1. Some(0)
    <3>1. Follows([k \in 0 .. 0 |-> s], 0, s, g)
      BY DEF Follows
    <3> QED
      BY <3>1
  <2>2. ASSUME NEW n \in Nat, Some(n) PROVE Some(n + 1)
    <3>1. PICK f \in [0 .. n -> S] : Follows(f, n, s, g)
      BY <2>2
    <3> DEFINE e == [k \in 0 .. n + 1 |-> IF k = n + 1 THEN g[n][f[n]] ELSE f[k]]
    <3>2. g[n][f[n]] \in S
      OBVIOUS
    <3>3. e \in [0 .. n + 1 -> S]
      BY <3>2
    <3>4. Follows(e, n + 1, s, g)
      <4>1. e[0] = s
        BY <3>1 DEF Follows
      <4>2. ASSUME NEW k \in 0 .. n PROVE e[k + 1] = g[k][e[k]]
        <5>1. CASE k = n
          BY <5>1
        <5>2. CASE k # n
          BY <5>2, <3>1 DEF Follows
        <5> QED
          BY <5>1, <5>2
      <4> HIDE DEF e
      <4> QED
        BY <4>1, <4>2 DEF Follows
    <3> HIDE DEF e
    <3> QED
      BY <3>3, <3>4
  <2> HIDE DEF Some
  <2>3. 0 \in T /\ \A n \in Nat : n \in T => n + 1 \in T
    BY <2>1, <2>2
  <2>4. Nat \subseteq T
    BY <2>3, InductionBySet
  <2> QED
    BY <2>4
<1>2. \A k \in Nat : Same(k)
  <2> DEFINE T == {k \in Nat : Same(k)}
  <2>1. Same(0)
    BY DEF Follows
  <2>2. ASSUME NEW k \in Nat, Same(k) PROVE Same(k + 1)
    <3> SUFFICES ASSUME NEW m \in Nat, NEW n \in Nat,
                        NEW e \in [0 .. m -> S], NEW f \in [0 .. n -> S],
                        Follows(e, m, s, g), Follows(f, n, s, g), k + 1 <= m, k + 1 <= n
                 PROVE  e[k + 1] = f[k + 1]
      BY Zenon
    <3>1. k <= m /\ k <= n
      OBVIOUS
    <3>2. e[k] = f[k]
      BY <2>2, <3>1, Zenon
    <3>3. k \in 0 .. m - 1 /\ k \in 0 .. n - 1
      OBVIOUS
    <3> QED
      BY <3>2, <3>3 DEF Follows
  <2> HIDE DEF Same
  <2>3. 0 \in T /\ \A n \in Nat : n \in T => n + 1 \in T
    BY <2>1, <2>2
  <2>4. Nat \subseteq T
    BY <2>3, InductionBySet
  <2> QED
    BY <2>4
<1>3. ASSUME NEW n \in Nat PROVE Part(n) \in [0 .. n -> S] /\ Follows(Part(n), n, s, g)
  <2>1. \E f \in [0 .. n -> S] : Follows(f, n, s, g)
    BY <1>1
  <2> QED
    BY <2>1, Zenon
<1> DEFINE F == [n \in Nat |-> Part(n)[n]]
<1> HIDE DEF Part
<1>4. F \in [Nat -> S]
  BY <1>3
<1>5. F[0] = s
  BY <1>3 DEF Follows
<1>6. ASSUME NEW k \in Nat PROVE F[k + 1] = g[k][F[k]]
  <2>1. Part(k + 1)[k + 1] = g[k][Part(k + 1)[k]]
    BY <1>3, k + 1 \in Nat, k \in 0 .. k DEF Follows
  <2>2. Part(k + 1)[k] = Part(k)[k]
    BY <1>2, <1>3, k + 1 \in Nat, k <= k + 1, k <= k
  <2> QED
    BY <2>1, <2>2
<1> HIDE DEF F
<1> QED
  BY <1>4, <1>5, <1>6 DEF Runs
-----------------------------------------------------------------------------
(* The recursive functions of Words. *)

(* TwoTo is what its definition says, and positive.                        *)
LEMMA TwoToDef ==
  /\ TwoTo = [n \in Nat |-> IF n = 0 THEN 1 ELSE 2 * TwoTo[n - 1]]
  /\ TwoTo \in [Nat -> Nat \ {0}]
<1> DEFINE S == Nat \ {0}
           g == [k \in Nat |-> [v \in S |-> 2 * v]]
           Fix(f) == f = [n \in Nat |-> IF n = 0 THEN 1 ELSE 2 * f[n - 1]]
<1>1. \E f : Fix(f)
  <2>1. g \in [Nat -> [S -> S]] /\ 1 \in S
    OBVIOUS
  <2> HIDE DEF g
  <2>2. PICK f : Runs(f, S, 1, g)
    BY <2>1, Recursion, Zenon
  <2>3. ASSUME NEW n \in Nat PROVE f[n] = IF n = 0 THEN 1 ELSE 2 * f[n - 1]
    <3>1. CASE n = 0
      BY <3>1, <2>2 DEF Runs
    <3>2. CASE n # 0
      <4>1. n - 1 \in Nat /\ (n - 1) + 1 = n
        BY <3>2
      <4>2. f[n] = g[n - 1][f[n - 1]]
        BY <4>1, <2>2 DEF Runs
      <4> QED
        BY <4>1, <4>2, <3>2, <2>2 DEF g, Runs
    <3> QED
      BY <3>1, <3>2
  <2>4. Fix(f)
    BY <2>2, <2>3 DEF Runs
  <2> QED
    BY <2>4
<1>2. Fix(TwoTo)
  BY <1>1, Zenon DEF TwoTo
<1> DEFINE T == {n \in Nat : TwoTo[n] \in S}
<1>3. 0 \in T /\ \A n \in Nat : n \in T => n + 1 \in T
  BY <1>2
<1>4. Nat \subseteq T
  BY <1>3, InductionBySet
<1> QED
  BY <1>2, <1>4

(* Number adds up the digits with their weights.                           *)
Sums(d, n, s) ==
  s = [k \in 0 .. n |-> IF k = 0 THEN 0 ELSE s[k - 1] + d[k - 1] * Place[k]]

(* Number is the last of the partial sums of the bytes by their weights.   *)
LEMMA NumberDef ==
  ASSUME NEW n \in 0 .. 8, NEW d, \A k \in 0 .. n - 1 : d[k] \in Int
  PROVE  \E s \in [0 .. n -> Int] : Sums(d, n, s) /\ Number(d, n) = s[n]
<1> DEFINE Weight(k) == d[k] * Place[k + 1]
           g == [k \in Nat |-> [v \in Int |-> IF k < n THEN v + Weight(k) ELSE v]]
           sum == CHOOSE s : s = [k \in 0 .. n |-> IF k = 0 THEN 0 ELSE s[k - 1] + d[k - 1] * Place[k]]
<1>1. \A k \in 0 .. n - 1 : Weight(k) \in Int
  BY WordsAssumption DEF Place, CHAR, SHORT, INT
<1>2. \E s \in [0 .. n -> Int] : Sums(d, n, s)
  <2> HIDE DEF Weight
  <2>1. g \in [Nat -> [Int -> Int]] /\ 0 \in Int
    BY <1>1
  <2> HIDE DEF g
  <2>2. PICK f : Runs(f, Int, 0, g)
    BY <2>1, Recursion, Zenon
  <2> DEFINE s == [k \in 0 .. n |-> f[k]]
  <2>3. ASSUME NEW k \in 0 .. n
        PROVE  s[k] = IF k = 0 THEN 0 ELSE s[k - 1] + d[k - 1] * Place[k]
    <3>1. CASE k = 0
      BY <3>1, <2>2 DEF Runs
    <3>2. CASE k # 0
      <4>1. k - 1 \in Nat /\ (k - 1) + 1 = k /\ k - 1 < n /\ k - 1 \in 0 .. n
        BY <3>2
      <4>2. f[k] = g[k - 1][f[k - 1]]
        BY <4>1, <2>2 DEF Runs
      <4>3. f[k] = f[k - 1] + Weight(k - 1)
        BY <4>1, <4>2, <2>2 DEF g, Runs
      <4> QED
        BY <4>1, <4>3, <3>2 DEF Weight
    <3> QED
      BY <3>1, <3>2
  <2>4. s \in [0 .. n -> Int]
    BY <2>2 DEF Runs
  <2> HIDE DEF s
  <2> QED
    BY <2>3, <2>4 DEF Sums
<1>3. Sums(d, n, sum)
  BY <1>2, Zenon DEF Sums
<1>4. sum \in [0 .. n -> Int]
  <2>1. PICK s \in [0 .. n -> Int] : Sums(d, n, s)
    BY <1>2
  <2> DEFINE T == {k \in Nat : k \in 0 .. n => sum[k] \in Int}
  <2> HIDE DEF sum
  <2>2. 0 \in T
    BY <1>3 DEF Sums
  <2>3. ASSUME NEW k \in Nat, k \in T PROVE k + 1 \in T
    <3> SUFFICES ASSUME k + 1 \in 0 .. n PROVE sum[k + 1] \in Int
      OBVIOUS
    <3>1. sum[k + 1] = sum[k] + Weight(k)
      BY <1>3 DEF Sums
    <3> HIDE DEF Weight
    <3> QED
      BY <3>1, <2>3, <1>1
  <2>4. Nat \subseteq T
    BY <2>2, <2>3, InductionBySet
  <2>5. \A k \in 0 .. n : sum[k] \in Int
    BY <2>4
  <2> QED
    BY <2>5, <1>3 DEF Sums
<1>5. Number(d, n) = sum[n]
  BY Zenon DEF Number
<1> QED
  BY <1>3, <1>4, <1>5, Zenon
(* BitAnd is what its definition says: x halves until it is 0.             *)
AndOf(A) ==
  [x \in Nat |-> [y \in Nat |-> IF x = 0 \/ y = 0 THEN 0
                             ELSE (x % 2) * (y % 2) + 2 * A[x \div 2][y \div 2]]]

(* One step of BitAnd stays within the natural numbers. *)
LEMMA LowBits ==
  ASSUME NEW x \in Nat, NEW y \in Nat, NEW q \in Nat
  PROVE  (x % 2) * (y % 2) + 2 * q \in Nat
<1>1. x % 2 \in {0, 1} /\ y % 2 \in {0, 1}
  OBVIOUS
<1>2. CASE x % 2 = 0
  BY <1>1, <1>2
<1>3. CASE x % 2 = 1
  BY <1>1, <1>3
<1> QED
  BY <1>1, <1>2, <1>3

(* The recursive function BitAnd satisfies its definition, and its values  *)
(* are natural numbers.                                                    *)
LEMMA BitAndDef ==
  /\ BitAnd = AndOf(BitAnd)
  /\ BitAnd \in [Nat -> [Nat -> Nat]]
<1> DEFINE S == [Nat -> [Nat -> Nat]]
           none == [x \in Nat |-> [y \in Nat |-> 0]]
           g == [k \in Nat |-> [A \in S |-> AndOf(A)]]
<1>1. ASSUME NEW A \in S PROVE AndOf(A) \in S
  <2>1. ASSUME NEW x \in Nat, NEW y \in Nat
        PROVE  (x % 2) * (y % 2) + 2 * A[x \div 2][y \div 2] \in Nat
    <3>1. x \div 2 \in Nat /\ y \div 2 \in Nat /\ x % 2 \in {0, 1} /\ y % 2 \in {0, 1}
      OBVIOUS
    <3>2. A[x \div 2][y \div 2] \in Nat
      BY <3>1
    <3> QED
      BY <3>2, LowBits, Zenon
  <2> QED
    BY <2>1 DEF AndOf
<1>2. none \in S
  OBVIOUS
<1> HIDE DEF S, none
<1>3. PICK f : Runs(f, S, none, g)
  <2>1. g \in [Nat -> [S -> S]]
    BY <1>1
  <2> HIDE DEF g
  <2> QED
    BY <2>1, <1>2, Recursion, Zenon
<1>4. /\ f \in [Nat -> S]
      /\ f[0] = none
      /\ \A k \in Nat : f[k + 1] = AndOf(f[k])
  BY <1>3 DEF Runs
<1>5. ASSUME NEW A \in S, NEW B \in S, NEW x \in Nat, x # 0 => A[x \div 2] = B[x \div 2]
      PROVE  AndOf(A)[x] = AndOf(B)[x]
  BY <1>5 DEF AndOf
<1>6. ASSUME NEW A \in S PROVE AndOf(A)[0] = none[0]
  BY DEF AndOf, none
<1>7. \A k \in Nat : \A x \in 0 .. k : f[k + 1][x] = f[k][x]
  <2> DEFINE T == {k \in Nat : \A x \in 0 .. k : f[k + 1][x] = f[k][x]}
  <2>1. 0 \in T
    BY <1>4, <1>6
  <2>2. ASSUME NEW k \in Nat, k \in T PROVE k + 1 \in T
    <3> SUFFICES ASSUME NEW x \in 0 .. k + 1 PROVE f[k + 2][x] = f[k + 1][x]
      OBVIOUS
    <3>1. f[k + 2] = AndOf(f[k + 1]) /\ f[k + 1] = AndOf(f[k])
      BY <1>4, (k + 1) + 1 = k + 2
    <3>2. x # 0 => x \div 2 \in 0 .. k
      OBVIOUS
    <3>3. x # 0 => f[k + 1][x \div 2] = f[k][x \div 2]
      BY <3>2, <2>2
    <3>4. f[k] \in S /\ f[k + 1] \in S
      BY <1>4
    <3> QED
      BY <3>1, <3>3, <3>4, <1>5
  <2> HIDE DEF T
  <2>3. Nat \subseteq T
    BY <2>1, <2>2, InductionBySet
  <2> QED
    BY <2>3 DEF T
<1>8. \A k \in Nat : \A x \in 0 .. k : f[k][x] = f[x][x]
  <2> DEFINE T == {k \in Nat : \A x \in 0 .. k : f[k][x] = f[x][x]}
  <2>1. 0 \in T
    OBVIOUS
  <2>2. ASSUME NEW k \in Nat, k \in T PROVE k + 1 \in T
    <3> SUFFICES ASSUME NEW x \in 0 .. k + 1 PROVE f[k + 1][x] = f[x][x]
      OBVIOUS
    <3>1. CASE x = k + 1
      BY <3>1
    <3>2. CASE x # k + 1
      BY <3>2, <1>7, <2>2
    <3> QED
      BY <3>1, <3>2
  <2> HIDE DEF T
  <2>3. Nat \subseteq T
    BY <2>1, <2>2, InductionBySet
  <2> QED
    BY <2>3 DEF T
<1> DEFINE B == [x \in Nat |-> f[x][x]]
<1>9. B \in S
  BY <1>4 DEF S
<1>10. ASSUME NEW x \in Nat PROVE B[x] = AndOf(B)[x]
  <2>1. CASE x = 0
    BY <2>1, <1>4, <1>6, <1>9
  <2>2. CASE x # 0
    <3>1. x - 1 \in Nat /\ (x - 1) + 1 = x /\ x \div 2 \in 0 .. x - 1 /\ x \div 2 \in Nat
      BY <2>2
    <3>2. B[x] = AndOf(f[x - 1])[x]
      BY <3>1, <1>4
    <3>3. f[x - 1][x \div 2] = B[x \div 2]
      BY <3>1, <1>8
    <3>4. f[x - 1] \in S
      BY <3>1, <1>4
    <3> HIDE DEF B
    <3> QED
      BY <3>2, <3>3, <3>4, <1>5, <1>9
  <2> QED
    BY <2>1, <2>2
<1>11. B = AndOf(B)
  <2>1. B = [x \in Nat |-> B[x]]
    OBVIOUS
  <2>2. AndOf(B) = [x \in Nat |-> AndOf(B)[x]]
    BY DEF AndOf
  <2> HIDE DEF B
  <2> QED
    BY <2>1, <2>2, <1>10
<1>12. \E A : A = AndOf(A)
  BY <1>11
<1>13. BitAnd = AndOf(BitAnd)
  BY <1>12, Zenon DEF BitAnd, AndOf
<1> DEFINE T == {n \in Nat : \A x \in 0 .. n : \A y \in Nat : BitAnd[x][y] \in Nat}
<1>14. \A x, y \in Nat : BitAnd[x][y] = IF x = 0 \/ y = 0 THEN 0
                                  ELSE (x % 2) * (y % 2) + 2 * BitAnd[x \div 2][y \div 2]
  BY <1>13 DEF AndOf
<1>15. 0 \in T
  BY <1>14
<1>16. ASSUME NEW n \in Nat, n \in T PROVE n + 1 \in T
  <2> SUFFICES ASSUME NEW x \in 0 .. n + 1, NEW y \in Nat PROVE BitAnd[x][y] \in Nat
    OBVIOUS
  <2> HIDE DEF T
  <2>1. CASE x = 0 \/ y = 0
    BY <2>1, <1>14, x \in Nat
  <2>2. CASE x # 0 /\ y # 0
    <3>1. x \div 2 \in 0 .. n /\ y \div 2 \in Nat /\ x \in Nat
      BY <2>2
    <3>2. BitAnd[x \div 2][y \div 2] \in Nat
      BY <3>1, <1>16 DEF T
    <3>3. BitAnd[x][y] = (x % 2) * (y % 2) + 2 * BitAnd[x \div 2][y \div 2]
      BY <3>1, <2>2, <1>14
    <3> QED
      BY <3>1, <3>2, <3>3, LowBits
  <2> QED
    BY <2>1, <2>2
<1> HIDE DEF T
<1>17. Nat \subseteq T
  BY <1>15, <1>16, InductionBySet
<1>18. ASSUME NEW x \in Nat, NEW y \in Nat PROVE BitAnd[x][y] \in Nat
  <2>1. x \in T
    BY <1>17
  <2> QED
    BY <2>1 DEF T
<1> QED
  <2>1. BitAnd = [x \in Nat |-> BitAnd[x]]
    BY <1>13 DEF AndOf
  <2>2. ASSUME NEW x \in Nat PROVE BitAnd[x] \in [Nat -> Nat]
    <3>1. BitAnd[x] = [y \in Nat |-> BitAnd[x][y]]
      BY <1>13 DEF AndOf
    <3> QED
      BY <3>1, <1>18
  <2>3. BitAnd \in [Nat -> [Nat -> Nat]]
    BY <2>1, <2>2
  <2> QED
    BY <2>3, <1>13
-----------------------------------------------------------------------------
(* Division. *)

(* Division with remainder, of an integer by a positive number.            *)
LEMMA DivMod ==
  ASSUME NEW a \in Int, NEW b \in Int, b > 0
  PROVE  /\ a \div b \in Int /\ a % b \in 0 .. b - 1
         /\ a = b * (a \div b) + (a % b)
  OBVIOUS

(* Quotient and remainder are unique.                                      *)
LEMMA DivUnique ==
  ASSUME NEW a \in Int, NEW b \in Int, NEW q \in Int, NEW r \in Int,
         b > 0, 0 <= r, r < b, a = b * q + r
  PROVE  a \div b = q /\ a % b = r
<1> DEFINE p == a \div b
           s == a % b
<1>1. p \in Int /\ s \in 0 .. b - 1 /\ a = b * p + s
  BY DivMod
<1> HIDE DEF p, s
<1>2. b * (p - q) = r - s
  BY <1>1
<1>3. p - q < 1
  <2> SUFFICES ASSUME p - q >= 1 PROVE FALSE
    BY <1>1
  <2>1. b * (p - q) >= b
    BY <1>1
  <2> QED
    BY <2>1, <1>2, <1>1
<1>4. p - q > - 1
  <2> SUFFICES ASSUME p - q <= - 1 PROVE FALSE
    BY <1>1
  <2>1. b * (p - q) <= - b
    BY <1>1
  <2> QED
    BY <2>1, <1>2, <1>1
<1>5. p = q
  BY <1>1, <1>3, <1>4
<1>6. s = r
  BY <1>1, <1>2, <1>5
<1> QED
  BY <1>5, <1>6 DEF p, s

Product(d, b, c) == d = b * c

(* What division of a by d = b * c has to do with division by b and c.     *)
Splits(a, b, c, d) ==
  /\ d > 0
  /\ a \div d = (a \div b) \div c
  /\ (a % d) \div b = (a \div b) % c
  /\ (a % d) % b = a % b

(* Division by a product is division by its factors, one after the other.  *)
LEMMA DivideTwice ==
  ASSUME NEW a \in Int, NEW b \in Int, NEW c \in Int, NEW d \in Int, b > 0, c > 0,
         Product(d, b, c)
  PROVE  Splits(a, b, c, d)
<1> DEFINE q == a \div b
           r == a % b
           p == q \div c
           s == q % c
<1>1. q \in Int /\ r \in 0 .. b - 1 /\ a = b * q + r
  BY DivMod
<1> HIDE DEF q, r
<1>2. p \in Int /\ s \in 0 .. c - 1 /\ q = c * p + s
  BY <1>1, DivMod
<1> HIDE DEF p, s
<1>3. d = b * c /\ d \in Int /\ d > 0
  BY DEF Product
<1> DEFINE e == b * s + r
<1>4. e \in 0 .. d - 1
  <2>1. b * s <= b * (c - 1) /\ b * s >= 0
    BY <1>2
  <2>2. b * (c - 1) = b * c - b
    OBVIOUS
  <2> QED
    BY <2>1, <2>2, <1>1, <1>2, <1>3
<1>5. a = d * p + e
  BY <1>1, <1>2, <1>3
<1>6. e = b * s + r /\ s \in Int
  BY <1>2
<1> HIDE DEF e
<1>7. a \div d = p /\ a % d = e
  BY <1>2, <1>3, <1>4, <1>5, DivUnique
<1>8. e \in Int
  BY <1>3, <1>4
<1>9. e \div b = s /\ e % b = r
  BY <1>1, <1>6, <1>8, DivUnique
<1> QED
  BY <1>3, <1>7, <1>9 DEF p, q, r, s, Splits
-----------------------------------------------------------------------------
(* The sizes of the types. *)

(* Every type has values, and every byte of a word a weight. *)
LEMMA Sizes ==
  /\ \A v \in {Base, CHAR, SHORT, INT, LONG} : v \in Nat /\ v > 0
  /\ \A k \in 1 .. 8 : Place[k] \in Nat /\ Place[k] > 0
  /\ \A n \in Widths : Values(n) \in Nat /\ Values(n) > 0
<1>1. Base \in Nat /\ Base > 0 /\ CHAR \in Nat /\ CHAR > 0
  BY WordsAssumption DEF CHAR
<1>2. SHORT \in Nat /\ SHORT > 0
  BY <1>1 DEF SHORT
<1>3. INT \in Nat /\ INT > 0
  BY <1>2 DEF INT
<1>4. LONG \in Nat /\ LONG > 0
  BY <1>3 DEF LONG
<1>5. /\ INT * CHAR \in Nat /\ INT * CHAR > 0 /\ INT * SHORT \in Nat /\ INT * SHORT > 0
      /\ SHORT * CHAR \in Nat /\ SHORT * CHAR > 0 
  BY <1>1, <1>2, <1>3
<1>6. INT * SHORT * CHAR \in Nat /\ INT * SHORT * CHAR > 0
  BY <1>1, <1>5
<1>7. \A k \in 1 .. 8 : Place[k] \in Nat /\ Place[k] > 0
  BY <1>1, <1>2, <1>3, <1>5, <1>6 DEF Place
<1>8. \A n \in Widths : Values(n) \in Nat /\ Values(n) > 0
  BY <1>1, <1>2, <1>3, <1>4 DEF Values, Widths
<1> QED BY <1>1, <1>2, <1>3, <1>4, <1>7, <1>8

(* The weight of a byte divides the size of a type it lies in, and is a    *)
(* multiple of that of a type it lies above.                               *)
LEMMA Factors ==
  ASSUME NEW n \in Widths, NEW k \in 0 .. 7
  PROVE  IF k < n THEN Values(n) = Place[k + 1] * (Base * Place[n - k])
                  ELSE Place[k + 1] = Values(n) * Place[(k - n) + 1]
<1>1. CASE n = 1
  BY <1>1, WordsAssumption DEF Place, Values, CHAR, SHORT, INT, LONG
<1>2. CASE n = 2
  BY <1>2, WordsAssumption DEF Place, Values, CHAR, SHORT, INT, LONG
<1>3. CASE n = 4
  BY <1>3, WordsAssumption DEF Place, Values, CHAR, SHORT, INT, LONG
<1>4. CASE n = 8
  BY <1>4, WordsAssumption DEF Place, Values, CHAR, SHORT, INT, LONG
<1> QED BY <1>1, <1>2, <1>3, <1>4 DEF Widths

(* How many values k bytes have. *)
Weight(k) == IF k = 8 THEN LONG ELSE Place[k + 1]

(* The number of values of k bytes, byte by byte and type by type. *)
LEMMA Weights ==
  /\ Weight(0) = 1
  /\ \A k \in 0 .. 8 : Weight(k) \in Nat /\ Weight(k) > 0
  /\ \A k \in 0 .. 7 : Weight(k + 1) = Weight(k) * Base
  /\ \A n \in Widths : Weight(n) = Values(n)
<1>1. Weight(0) = 1
  BY DEF Weight, Place
<1>2. \A k \in 0 .. 8 : Weight(k) \in Nat /\ Weight(k) > 0
  BY Sizes DEF Weight
<1>3. \A k \in 0 .. 7 : Weight(k + 1) = Weight(k) * Base
  BY WordsAssumption DEF Weight, Place, CHAR, SHORT, INT, LONG
<1>4. \A n \in Widths : Weight(n) = Values(n)
  BY DEF Weight, Place, Values, Widths
<1> QED
  BY <1>1, <1>2, <1>3, <1>4

(* A byte of a number is a byte. *)
LEMMA ByteAtType ==
  ASSUME NEW v \in Int, NEW k \in 0 .. 7
  PROVE  ByteAt(v, k) \in Byte /\ ByteAt(v, k) = (v \div Weight(k)) % Base
<1>1. Place[k + 1] \in Nat /\ Place[k + 1] > 0 /\ Weight(k) = Place[k + 1]
  BY Sizes DEF Weight
<1>2. v \div Place[k + 1] \in Int
  BY <1>1, DivMod
<1> QED
  BY <1>1, <1>2, DivMod, WordsAssumption DEF ByteAt, Byte

(* The bytes of a number modulo a type are its bytes. *)
LEMMA LowBytes ==
  ASSUME NEW v \in Int, NEW n \in Widths, NEW k \in 0 .. 7, k < n
  PROVE  ByteAt(v % Values(n), k) = ByteAt(v, k)
<1> DEFINE P == Place[k + 1]
           R == Place[n - k]
           u == v \div P
<1>1. P \in Int /\ P > 0 /\ R \in Int /\ R > 0 /\ Values(n) = P * (Base * R)
  <2>1. k + 1 \in 1 .. 8 /\ n - k \in 1 .. 8
    BY DEF Widths
  <2>2. P \in Int /\ P > 0 /\ R \in Int /\ R > 0
    BY <2>1, Sizes
  <2>3. Values(n) = P * (Base * R)
    BY Factors
  <2> QED
    BY <2>2, <2>3
<1>2. Base \in Int /\ Base > 0 /\ Base * R \in Int /\ Base * R > 0
  BY <1>1, WordsAssumption
<1>3. u \in Int
  BY <1>1, DivMod
<1> DEFINE S == Base * R
<1>4. Values(n) \in Int /\ Product(Values(n), P, S) /\ Product(S, Base, R) /\ S \in Int /\ S > 0
  BY <1>1, <1>2, Sizes DEF Product
<1> HIDE DEF P, R, S
<1>5. (v % Values(n)) \div P = (v \div P) % S
  <2>1. Splits(v, P, S, Values(n))
    BY <1>1, <1>4, DivideTwice
  <2> QED
    BY <2>1 DEF Splits
<1>6. ((v \div P) % S) % Base = (v \div P) % Base
  <2>1. Splits(v \div P, Base, R, S)
    BY <1>1, <1>2, <1>3, <1>4, DivideTwice
  <2> QED
    BY <2>1 DEF Splits
<1> QED
  BY <1>5, <1>6 DEF ByteAt, P

(* A write replaces the low part of the word and keeps the high part.      *)
LEMMA WriteParts ==
  ASSUME NEW w \in Int, NEW v \in Int, NEW N \in Int, N > 0
  PROVE  /\ Write(w, N, v) \in Int
         /\ Write(w, N, v) % N = v % N
         /\ Write(w, N, v) \div N = w \div N
<1>1. w \div N \in Int /\ w % N \in 0 .. N - 1 /\ w = N * (w \div N) + (w % N)
  BY DivMod
<1>2. v % N \in 0 .. N - 1
  BY DivMod
<1>3. Write(w, N, v) = N * (w \div N) + (v % N)
  BY <1>1, <1>2 DEF Write
<1>4. Write(w, N, v) \in Int
  BY <1>1, <1>2, <1>3
<1> QED
  BY <1>1, <1>2, <1>3, <1>4, DivUnique

(* Register::write leaves a word. *)
LEMMA WriteInWord ==
  ASSUME NEW w \in Word, NEW v \in Int, NEW n \in Widths
  PROVE  Write(w, Values(n), v) \in Word
<1> DEFINE N == Values(n)
           M == IF n = 8 THEN 1 ELSE Place[9 - n]
           q == w \div N
           r == v % N
<1>1. N \in Nat /\ N > 0 /\ M \in Nat /\ M > 0 /\ LONG = N * M
  <2>1. M \in Nat /\ M > 0
    BY Sizes DEF Widths
  <2>2. LONG = N * M
    BY WordsAssumption DEF Place, Values, CHAR, SHORT, INT, LONG, Widths
  <2> QED
    BY <2>1, <2>2, Sizes
<1>2. w \in Int /\ w >= 0 /\ w < LONG
  BY Sizes DEF Word
<1>3. q \in Int /\ w % N \in 0 .. N - 1 /\ w = N * q + (w % N) /\ r \in 0 .. N - 1
  BY <1>1, <1>2, DivMod
<1>4. Write(w, N, v) = N * q + r
  BY <1>1, <1>2, <1>3 DEF Write
<1> HIDE DEF N, M, q, r
<1>5. q >= 0
  <2> SUFFICES ASSUME q <= - 1 PROVE FALSE
    BY <1>3
  <2>1. N * q <= - N
    BY <1>1, <1>3
  <2> QED
    BY <2>1, <1>1, <1>2, <1>3
<1>6. q <= M - 1
  <2> SUFFICES ASSUME q >= M PROVE FALSE
    BY <1>1, <1>3
  <2>1. N * q >= N * M
    BY <1>1, <1>3
  <2> QED
    BY <2>1, <1>1, <1>2, <1>3
<1>7. N * q >= 0 /\ N * q <= N * M - N
  <2>1. N * q <= N * (M - 1)
    BY <1>1, <1>3, <1>6
  <2>2. N * (M - 1) = N * M - N
    BY <1>1
  <2>3. N * q >= 0
    BY <1>1, <1>3, <1>5
  <2> QED
    BY <2>1, <2>2, <2>3, <1>1, <1>3
<1>8. N * q + r \in 0 .. LONG - 1
  BY <1>1, <1>3, <1>7
<1> QED
  BY <1>4, <1>8 DEF N, Word

(* Register::write: a write of n bytes replaces the n lowest bytes of the   *)
(* register and keeps the others.                                          *)
THEOREM WriteReplacesBytes ==
  ASSUME NEW w \in Int, NEW v \in Int, NEW n \in Widths, NEW k \in 0 .. 7
  PROVE  ByteAt(Write(w, Values(n), v), k)
           = IF k < n THEN ByteAt(v, k) ELSE ByteAt(w, k)
<1> DEFINE N == Values(n)
           x == Write(w, N, v)
<1>1. N \in Int /\ N > 0
  BY Sizes
<1> HIDE DEF N
<1>2. x \in Int /\ x % N = v % N /\ x \div N = w \div N
  BY <1>1, WriteParts
<1> HIDE DEF x
<1>3. CASE k < n
  <2>1. ByteAt(x, k) = ByteAt(x % N, k)
    BY <1>2, <1>3, LowBytes DEF N
  <2>2. ByteAt(v, k) = ByteAt(v % N, k)
    BY <1>3, LowBytes DEF N
  <2> QED
    BY <2>1, <2>2, <1>2, <1>3 DEF x, N
<1>4. CASE ~ (k < n)
  <2> DEFINE R == Place[(k - n) + 1]
  <2>1. R \in Int /\ R > 0 /\ Place[k + 1] \in Int
    BY <1>4, Sizes DEF Widths
  <2>2. Product(Place[k + 1], N, R)
    BY <1>4, Factors DEF Product, N
  <2> HIDE DEF R
  <2>3. x \div Place[k + 1] = (x \div N) \div R
    <3>1. Splits(x, N, R, Place[k + 1])
      BY <1>1, <1>2, <2>1, <2>2, DivideTwice
    <3> QED
      BY <3>1 DEF Splits
  <2>4. w \div Place[k + 1] = (w \div N) \div R
    <3>1. Splits(w, N, R, Place[k + 1])
      BY <1>1, <2>1, <2>2, DivideTwice
    <3> QED
      BY <3>1 DEF Splits
  <2> QED
    BY <2>3, <2>4, <1>2, <1>4 DEF ByteAt, x, N
<1> QED
  BY <1>3, <1>4
-----------------------------------------------------------------------------
(* The operations, one by one. *)

(* The codes of the operations that begin and end a group. *)
LEMMA Codes ==
  /\ Code("ADD") = 0 /\ Code("REMUW") = 27 /\ Code("ADDI") = 28 /\ Code("SRAIW") = 37
  /\ Code("BEQ") = 39 /\ Code("BGEU") = 44 /\ Code("LB") = 45 /\ Code("LHU") = 51
  /\ Code("SB") = 52 /\ Code("SD") = 55 /\ Code("LUI") = 57 /\ Code("AUIPC") = 58
  /\ Code("NOP") = 59 /\ Code("NEGW") = 63 /\ Code("INPUTI") = 66 /\ Code("INPUTF") = 69
  /\ Len(Operations) = 71
<1>1. Code("ADD") = 0 /\ Code("REMUW") = 27 /\ Code("ADDI") = 28 /\ Code("SRAIW") = 37
  BY DEF Code, Operations
<1>2. Code("BEQ") = 39 /\ Code("BGEU") = 44 /\ Code("LB") = 45 /\ Code("LHU") = 51
  BY DEF Code, Operations
<1>3. Code("SB") = 52 /\ Code("SD") = 55 /\ Code("LUI") = 57 /\ Code("AUIPC") = 58
  BY DEF Code, Operations
<1>4. Code("NOP") = 59 /\ Code("NEGW") = 63 /\ Code("INPUTI") = 66 /\ Code("INPUTF") = 69
  BY DEF Code, Operations
<1>5. Len(Operations) = 71
  BY DEF Operations
<1> QED
  BY <1>1, <1>2, <1>3, <1>4, <1>5

(* The operations of each group. *)
LEMMA Groups ==
  /\ ThreeRegister =
       {"ADD", "SUB", "MUL", "MULH", "MULHSU", "MULHU", "DIV", "DIVU", "REM", "REMU",
        "AND", "OR", "XOR", "SLL", "SLT", "SLTU", "SRL", "SRA", "ADDW", "SUBW", "SLLW",
        "SRLW", "SRAW", "MULW", "DIVW", "DIVUW", "REMW", "REMUW"}
  /\ WithImmediate =
       {"ADDI", "SLTI", "SLLI", "SRLI", "XORI", "SRAI", "ADDIW", "SLLIW", "SRLIW", "SRAIW"}
  /\ Branches = {"BEQ", "BNE", "BLT", "BGE", "BLTU", "BGEU"}
  /\ Loads = {"LB", "LH", "LW", "LWU", "LD", "LBU", "LHU"}
  /\ Stores = {"SB", "SH", "SW", "SD"}
  /\ Uppers = {"LUI", "AUIPC"}
  /\ Translated = {"NOP", "MV", "NOT", "NEG", "NEGW"}
  /\ Inputs = {"INPUTI", "INPUTB", "INPUTS", "INPUTF"}
<1>1. ThreeRegister =
       {"ADD", "SUB", "MUL", "MULH", "MULHSU", "MULHU", "DIV", "DIVU", "REM", "REMU",
        "AND", "OR", "XOR", "SLL", "SLT", "SLTU", "SRL", "SRA", "ADDW", "SUBW", "SLLW",
        "SRLW", "SRAW", "MULW", "DIVW", "DIVUW", "REMW", "REMUW"}
  BY Codes DEF ThreeRegister, Between, Operations
<1>2. WithImmediate =
       {"ADDI", "SLTI", "SLLI", "SRLI", "XORI", "SRAI", "ADDIW", "SLLIW", "SRLIW", "SRAIW"}
  BY Codes DEF WithImmediate, Between, Operations
<1>3. Branches = {"BEQ", "BNE", "BLT", "BGE", "BLTU", "BGEU"}
  BY Codes DEF Branches, Between, Operations
<1>4. Loads = {"LB", "LH", "LW", "LWU", "LD", "LBU", "LHU"}
  BY Codes DEF Loads, Between, Operations
<1>5. Stores = {"SB", "SH", "SW", "SD"}
  BY Codes DEF Stores, Between, Operations
<1>6. Uppers = {"LUI", "AUIPC"} /\ Translated = {"NOP", "MV", "NOT", "NEG", "NEGW"}
  BY Codes DEF Uppers, Translated, Between, Operations
<1>7. Inputs = {"INPUTI", "INPUTB", "INPUTS", "INPUTF"}
  BY Codes DEF Inputs, Between, Operations
<1> QED
  BY <1>1, <1>2, <1>3, <1>4, <1>5, <1>6, <1>7

(* Every operation has a layout; those that access memory have these. *)
LEMMA Layouts ==
  /\ \A op : Layout(op) \in {"R", "I", "U", "D"}
  /\ \A op \in Uppers \cup Inputs : Layout(op) = "U"
  /\ \A op \in Loads \cup Stores \cup {"PRINT", "JALR", "JAL"} : Layout(op) = "I"
<1>1. \A op : Layout(op) \in {"R", "I", "U", "D"}
  BY DEF Layout
<1>2. \A op \in Uppers \cup Inputs : Layout(op) = "U"
  BY Groups DEF Layout
<1>3. \A op \in Loads \cup Stores \cup {"PRINT", "JALR", "JAL"} : Layout(op) = "I"
  BY Groups DEF Layout
<1> QED
  BY <1>1, <1>2, <1>3

-----------------------------------------------------------------------------
(* Two's complement. *)

(* Every type has an even, positive number of values. *)
LEMMA Evens ==
  \A N \in {CHAR, SHORT, INT, LONG} : N \in Nat /\ N > 0 /\ N = 2 * (N \div 2) /\ N \div 2 > 0 /\ N \div 2 \in Nat
<1> DEFINE Even(N) == \E m \in Int : N = 2 * m
<1>1. ASSUME NEW N \in Int, Even(N), NEW M \in Int PROVE Even(N * M)
  <2>1. PICK m \in Int : N = 2 * m
    BY <1>1
  <2>2. N * M = 2 * (m * M) /\ m * M \in Int
    BY <2>1
  <2> QED
    BY <2>2
<1>2. Even(CHAR)
  <2>1. Base = 2 * (Base \div 2) + (Base % 2) /\ Base \div 2 \in Int
    BY DivMod, WordsAssumption
  <2>2. CHAR = 2 * (Base \div 2)
    BY <2>1, WordsAssumption DEF CHAR
  <2> QED
    BY <2>1, <2>2
<1>3. /\ \A N \in {CHAR, SHORT, INT, LONG} : N \in Int /\ N > 0
      /\ SHORT = CHAR * CHAR /\ INT = SHORT * SHORT /\ LONG = INT * INT
  BY Sizes DEF CHAR, SHORT, INT, LONG
<1> HIDE DEF Even
<1>4. Even(SHORT)
  BY <1>1, <1>2, <1>3
<1>5. Even(INT)
  BY <1>1, <1>3, <1>4
<1>6. Even(LONG)
  BY <1>1, <1>3, <1>5
<1>7. ASSUME NEW N \in {CHAR, SHORT, INT, LONG}
      PROVE  N \in Int /\ N > 0 /\ Even(N)
  BY <1>2, <1>3, <1>4, <1>5, <1>6
<1> QED
  BY <1>7 DEF Even

(* Two's complement: the signed value is in the range of its type and      *)
(* stands for the unsigned one.                                            *)
LEMMA SignedRange ==
  ASSUME NEW N \in {CHAR, SHORT, INT, LONG}, NEW x \in 0 .. N - 1
  PROVE  /\ Signed(x, N) \in - (N \div 2) .. (N \div 2) - 1
         /\ Signed(x, N) \in Int
         /\ Signed(x, N) % N = x
<1>1. N \in Nat /\ N > 0 /\ N = 2 * (N \div 2) /\ N \div 2 \in Nat
  BY Evens
<1>2. Signed(x, N) \in - (N \div 2) .. (N \div 2) - 1 /\ Signed(x, N) \in Int
  BY <1>1 DEF Signed
<1>3. CASE x < N \div 2
  BY <1>1, <1>3, DivUnique, x = N * 0 + x DEF Signed
<1>4. CASE ~ (x < N \div 2)
  BY <1>1, <1>4, DivUnique, x - N = N * (-1) + x DEF Signed
<1> QED
  BY <1>2, <1>3, <1>4

(* Any signed number of a type is what its unsigned value stands for.      *)
LEMMA WrappedSame ==
  ASSUME NEW N \in {CHAR, SHORT, INT, LONG}, NEW v \in - (N \div 2) .. (N \div 2) - 1
  PROVE  Wrapped(v, N) = v
<1>1. N \in Nat /\ N > 0 /\ N = 2 * (N \div 2) /\ N \div 2 \in Nat /\ v \in Int
  BY Evens
<1>2. CASE v >= 0
  <2>1. v % N = v
    BY <1>1, <1>2, DivUnique, v = N * 0 + v
  <2> QED
    BY <2>1, <1>1, <1>2 DEF Wrapped, Signed
<1>3. CASE v < 0
  <2>1. v % N = v + N
    BY <1>1, <1>3, DivUnique, v = N * (-1) + (v + N)
  <2> QED
    BY <2>1, <1>1, <1>3 DEF Wrapped, Signed
<1> QED
  BY <1>1, <1>2, <1>3

(* The operands, as the operations read them.                              *)
LEMMA ReadTypes ==
  ASSUME NEW x \in Word, NEW N \in {CHAR, SHORT, INT, LONG}
  PROVE  /\ Read(x, N) \in 0 .. N - 1 /\ Read(x, N) \in Nat
         /\ ReadSigned(x, N) \in - (N \div 2) .. (N \div 2) - 1 /\ ReadSigned(x, N) \in Int
<1>1. x \in Int /\ N \in Int /\ N > 0
  BY Sizes DEF Word
<1>2. x % N \in 0 .. N - 1 /\ x % N \in Nat
  BY <1>1, DivMod
<1> QED
  BY <1>2, SignedRange DEF Read, ReadSigned

(* Wrapping brings a number into the range of its type and changes it by   *)
(* a multiple of the type's size.                                          *)
LEMMA WrappedType ==
  ASSUME NEW v \in Int, NEW N \in {CHAR, SHORT, INT, LONG}
  PROVE  /\ Wrapped(v, N) \in - (N \div 2) .. (N \div 2) - 1 /\ Wrapped(v, N) \in Int
         /\ Wrapped(v, N) % N = v % N
<1>1. N \in Int /\ N > 0
  BY Sizes
<1>2. v % N \in 0 .. N - 1
  BY <1>1, DivMod
<1> QED
  BY <1>2, SignedRange DEF Wrapped

(* Division and remainder give integers. *)
LEMMA QuotientType ==
  ASSUME NEW a \in Int, NEW b \in Int, b # 0
  PROVE  Quotient(a, b) \in Int /\ Remainder(a, b) \in Int
<1> DEFINE A == IF a < 0 THEN - a ELSE a
           B == IF b < 0 THEN - b ELSE b
<1>1. A \in Int /\ B \in Int /\ B > 0
  OBVIOUS
<1>2. A \div B \in Int
  BY <1>1, DivMod
<1>3. Quotient(a, b) = IF (a < 0) = (b < 0) THEN A \div B ELSE - (A \div B)
  BY DEF Quotient
<1> HIDE DEF A, B
<1>4. Quotient(a, b) \in Int
  BY <1>2, <1>3
<1> QED
  BY <1>4 DEF Remainder

(* So do the shifts. *)
LEMMA ShiftType ==
  ASSUME NEW a \in Int, NEW k \in Int, NEW bits \in Int, bits > 0
  PROVE  ShiftLeft(a, k, bits) \in Int /\ ShiftRight(a, k, bits) \in Int
<1>1. k % bits \in Nat
  BY DivMod
<1>2. TwoTo[k % bits] \in Int /\ TwoTo[k % bits] > 0
  BY <1>1, TwoToDef
<1> QED
  BY <1>2, DivMod DEF ShiftLeft, ShiftRight

(* Every result of an operation is an integer, whatever the registers hold. *)
LEMMA ResultsType ==
  ASSUME NEW op \in ThreeRegister, NEW x \in Word, NEW y \in Word, NEW v \in Results(op, x, y)
  PROVE  v \in Int
<1> DEFINE i == ReadSigned(x, INT)
           j == ReadSigned(y, INT)
           a == Read(x, INT)
           b == Read(y, INT)
           h == ReadSigned(x, SHORT)
           l == ReadSigned(x, LONG)
           m == ReadSigned(y, LONG)
           c == ReadSigned(y, SHORT)
           d == Read(x, SHORT)
           e == Read(y, SHORT)
<1>1. /\ i \in Int /\ j \in Int /\ h \in Int /\ l \in Int /\ m \in Int /\ c \in Int
      /\ a \in Nat /\ b \in Nat /\ d \in Nat /\ e \in Nat
  BY ReadTypes
<1>2. INT \in Int /\ INT > 0 /\ x \in Nat /\ y \in Nat
      /\ INTBITS \in Int /\ INTBITS > 0 /\ LONGBITS \in Int /\ LONGBITS > 0
  BY Sizes, WordsAssumption DEF Word
<1>3. \A s \in Int : Overflowing(s) \subseteq Int
  BY WrappedType DEF Overflowing
<1> HIDE DEF i, j, a, b, h, l, m, c, d, e
<1>4. CASE op \in {"ADD", "SUB", "MUL", "MULHU"}
  <2>1. v \in Overflowing(i + j) \/ v \in Overflowing(i - j) \/ v \in Overflowing(i * j)
          \/ v \in Overflowing(d * e)
    BY <1>4 DEF Results, i, j, d, e
  <2>2. i + j \in Int /\ i - j \in Int /\ i * j \in Int /\ d * e \in Int
    BY <1>1
  <2> QED
    BY <2>1, <2>2, <1>3
<1>5. CASE op \in {"MULH", "MULHSU", "ADDW", "SUBW", "MULW", "SLT"}
  <2>1. v \in {h * c, h * e, l + m, l - m, l * m, 0, 1}
    BY <1>5 DEF Results, i, j, h, c, e, l, m
  <2>2. h * c \in Int /\ h * e \in Int /\ l + m \in Int /\ l - m \in Int /\ l * m \in Int
    BY <1>1
  <2> QED
    BY <2>1, <2>2
<1>6. CASE op \in {"DIV", "REM", "DIVW", "REMW"}
  <2>1. \/ v \in {Quotient(i, j), Remainder(i, j)} /\ j # 0
        \/ v \in {Quotient(l, m), Remainder(l, m)} /\ m # 0
    <3>1. CASE op = "DIV"
      BY <3>1 DEF Results, i, j
    <3>2. CASE op = "REM"
      BY <3>2 DEF Results, i, j
    <3>3. CASE op = "DIVW"
      BY <3>3 DEF Results, l, m
    <3>4. CASE op = "REMW"
      BY <3>4 DEF Results, l, m
    <3> QED
      BY <1>6, <3>1, <3>2, <3>3, <3>4
  <2> QED
    BY <2>1, <1>1, QuotientType
<1>7. CASE op \in {"DIVU", "REMU", "DIVUW", "REMUW"}
  <2>1. \/ v = (a * b) % INT
        \/ b # 0 /\ v = a % b
        \/ y # 0 /\ (v = x \div y \/ v = x % y)
    BY <1>7 DEF Results, a, b
  <2>2. a * b \in Int
    BY <1>1
  <2> QED
    BY <2>1, <2>2, <1>1, <1>2, DivMod
<1>8. CASE op \in {"AND", "OR", "XOR"}
  <2>1. v \in {BitAnd[a][b], BitOr(a, b), BitXor(a, b)}
    BY <1>8 DEF Results, a, b
  <2>2. BitAnd[a][b] \in Nat
    BY <1>1, BitAndDef
  <2> QED
    BY <2>1, <2>2, <1>1 DEF BitOr, BitXor
<1>9. CASE op \in {"SLL", "SLTU", "SRL", "SRA", "SLLW", "SRAW", "SRLW"}
  <2>1. v \in {Wrapped(ShiftLeft(i, j, INTBITS), INT), ShiftLeft(a, b, INTBITS) % INT,
               ShiftRight(i, j, INTBITS), ShiftLeft(l, m, LONGBITS), ShiftRight(l, m, LONGBITS)}
    BY <1>9 DEF Results, i, j, a, b, l, m
  <2>2. /\ ShiftLeft(i, j, INTBITS) \in Int /\ ShiftLeft(a, b, INTBITS) \in Int
        /\ ShiftRight(i, j, INTBITS) \in Int
        /\ ShiftLeft(l, m, LONGBITS) \in Int /\ ShiftRight(l, m, LONGBITS) \in Int
    BY <1>1, <1>2, ShiftType
  <2> QED
    BY <2>1, <2>2, <1>2, WrappedType, DivMod
<1> QED
  BY <1>4, <1>5, <1>6, <1>7, <1>8, <1>9, Groups

(* The instructions with an immediate borrow their operation.              *)
LEMMA Borrowed ==
  ASSUME NEW op \in WithImmediate
  PROVE  ByRegister[op] \in ThreeRegister
  BY Groups DEF ByRegister

(* A word is a number below LONG. *)
LEMMA WordParts ==
  ASSUME NEW w \in Word
  PROVE  /\ w \in Int /\ w >= 0 /\ w < LONG
         /\ w % LONG = w
<1>1. w \in Int /\ w >= 0 /\ w < LONG /\ LONG \in Int /\ LONG > 0
  BY Sizes DEF Word
<1> QED
  BY <1>1, DivUnique, w = LONG * 0 + w

(* A whole register is overwritten by the value modulo its size.           *)
LEMMA WriteWhole ==
  ASSUME NEW w \in Word, NEW v \in Int
  PROVE  Write(w, LONG, v) = v % LONG /\ Write(w, LONG, v) \in Word
<1>1. w \in Int /\ w % LONG = w /\ LONG \in Int /\ LONG > 0
  BY WordParts, Sizes
<1>2. v % LONG \in 0 .. LONG - 1
  BY <1>1, DivMod
<1> QED
  BY <1>1, <1>2 DEF Write, Word

(* The register that holds an immediate holds a word. *)
LEMMA ImmediateType ==
  ASSUME NEW c \in Int
  PROVE  Immediate(c) \in Word
<1>1. 0 \in Word /\ 4 \in Widths /\ Values(4) = INT
  BY Sizes DEF Word, Widths, Values
<1> QED
  BY <1>1, WriteInWord DEF Immediate

(* What a field of an instruction may hold.                                *)
LEMMA FieldType ==
  ASSUME NEW w \in Int, NEW at \in 0 .. 7, NEW n \in Widths
  PROVE  Field(w, at, n) \in 0 .. Values(n) - 1 /\ Field(w, at, n) \in Nat
<1>1. Place[at + 1] \in Int /\ Place[at + 1] > 0 /\ Values(n) \in Int /\ Values(n) > 0
  BY Sizes
<1>2. w \div Place[at + 1] \in Int
  BY <1>1, DivMod
<1>3. (w \div Place[at + 1]) % Values(n) \in 0 .. Values(n) - 1
  BY <1>1, <1>2, DivMod
<1> QED
  BY <1>1, <1>3 DEF Field

(* The operands that step takes out of a word.                             *)
LEMMA DecodeType ==
  ASSUME NEW w \in Int
  PROVE  /\ Decode(w).op \in Opcodes \cup {"none"}
         /\ Decode(w).a \in Nat /\ Decode(w).b \in Nat /\ Decode(w).c \in Int
         /\ Decode(w) = Instruction(Decode(w).op, Decode(w).a, Decode(w).b, Decode(w).c)
<1> DEFINE code == Field(w, 0, 2)
           op == IF code < Len(Operations) THEN Operations[code + 1] ELSE "none"
<1>1. /\ \A at \in 0 .. 7, n \in Widths : Field(w, at, n) \in Nat
      /\ \A at \in 0 .. 7 : Field(w, at, 4) \in 0 .. INT - 1
  BY FieldType DEF Widths, Values
<1>2. code \in Nat
  BY <1>1 DEF Widths
<1>3. op \in Opcodes \cup {"none"}
  BY <1>2, Codes DEF Opcodes, Operations
<1>4. \A at \in 0 .. 7 : Signed(Field(w, at, 4), INT) \in Int
  BY <1>1, SignedRange
<1> HIDE DEF op
<1>5. CASE Layout(op) = "R"
  <2>1. Decode(w) = Instruction(op, Field(w, 2, 2), Field(w, 4, 2), Field(w, 6, 2))
    BY <1>5 DEF Decode, op
  <2> QED
    BY <2>1, <1>1, <1>3 DEF Widths, Instruction
<1>6. CASE Layout(op) = "I"
  <2>1. Decode(w) = Instruction(op, Field(w, 2, 1), Field(w, 3, 1), Signed(Field(w, 4, 4), INT))
    BY <1>6 DEF Decode, op
  <2> QED
    BY <2>1, <1>1, <1>3, <1>4 DEF Widths, Instruction
<1>7. CASE Layout(op) = "U"
  <2>1. Decode(w) = Instruction(op, Field(w, 2, 1), 0, Signed(Field(w, 3, 4), INT))
    BY <1>7 DEF Decode, op
  <2> QED
    BY <2>1, <1>1, <1>3, <1>4 DEF Widths, Instruction
<1>8. CASE Layout(op) = "D"
  <2>1. Decode(w) = Instruction(op, Field(w, 2, 2), 0, 0)
    BY <1>8 DEF Decode, op
  <2> QED
    BY <2>1, <1>1, <1>3 DEF Widths, Instruction
<1> QED
  BY <1>5, <1>6, <1>7, <1>8, Layouts
-----------------------------------------------------------------------------
(* Words as numbers written with bytes. *)

(* Weights multiply where they add up.                                     *)
LEMMA WeightProduct ==
  ASSUME NEW at \in 0 .. 8, NEW k \in 0 .. 8, at + k <= 8
  PROVE  Product(Weight(at + k), Weight(at), Weight(k))
<1> DEFINE T == {j \in Nat : at + j <= 8 => Weight(at + j) = Weight(at) * Weight(j)}
<1>1. 0 \in T
  BY Weights
<1>2. ASSUME NEW j \in Nat, j \in T, at + (j + 1) <= 8 PROVE Weight(at + (j + 1)) = Weight(at) * Weight(j + 1)
  <2>1. at + j \in 0 .. 7 /\ j \in 0 .. 7 /\ (at + j) + 1 = at + (j + 1)
    BY <1>2
  <2>2. Weight((at + j) + 1) = Weight(at + j) * Base /\ Weight(j + 1) = Weight(j) * Base
    BY <2>1, Weights
  <2>3. Weight(at + j) = Weight(at) * Weight(j)
    BY <1>2, <2>1
  <2>4. Weight(at) \in Int /\ Weight(j) \in Int /\ Base \in Int
    BY <2>1, Weights, Sizes
  <2>5. \A a, b, c \in Int : (a * b) * c = a * (b * c)
    OBVIOUS
  <2> QED
    BY <2>1, <2>2, <2>3, <2>4, <2>5
<1>3. \A j \in Nat : j \in T => j + 1 \in T
  BY <1>2
<1>4. Nat \subseteq T
  BY <1>1, <1>3, InductionBySet
<1> QED
  BY <1>4 DEF Product

(* One more byte adds its value by its weight.                             *)
LEMMA OneMoreByte ==
  ASSUME NEW v \in Int, NEW k \in 0 .. 7
  PROVE  v % Weight(k + 1) = (v % Weight(k)) + ByteAt(v, k) * Weight(k)
<1> DEFINE b == Weight(k)   d == Weight(k + 1)   q == (v \div b) % Base
<1>1. b \in Int /\ b > 0 /\ d \in Int /\ d > 0 /\ Base \in Int /\ Base > 0
  <2>1. k \in 0 .. 8 /\ k + 1 \in 0 .. 8
    OBVIOUS
  <2> QED
    BY <2>1, Weights, Sizes
<1>2. Product(d, b, Base)
  BY Weights DEF Product
<1>3. ByteAt(v, k) = q
  BY ByteAtType
<1> HIDE DEF b, d
<1>4. Splits(v, b, Base, d)
  BY <1>1, <1>2, DivideTwice
<1>5. v % d \in Int /\ v % b \in Int /\ v \div b \in Int
  BY <1>1, DivMod
<1>6. v % d = b * ((v % d) \div b) + ((v % d) % b)
  BY <1>1, <1>5, DivMod
<1>7. v % d = b * q + (v % b) /\ q \in Int
  BY <1>1, <1>4, <1>5, <1>6 DEF Splits
<1>8. b * q = q * b
  BY <1>1, <1>7
<1> HIDE DEF q
<1>9. v % d = (v % b) + q * b
  <2>1. b * q \in Int
    BY <1>1, <1>7
  <2> QED
    BY <1>5, <1>7, <1>8, <2>1
<1> QED
  BY <1>3, <1>9 DEF b, d

(* The number made of the low bytes of v is what they leave of v.          *)
LEMMA LowDigits ==
  ASSUME NEW v \in Int, NEW n \in 0 .. 8, NEW d, \A k \in 0 .. n - 1 : d[k] = ByteAt(v, k)
  PROVE  Number(d, n) = v % Weight(n)
<1>1. \A k \in 0 .. n - 1 : d[k] \in Int
  <2> SUFFICES ASSUME NEW k \in 0 .. n - 1 PROVE d[k] \in Int
    OBVIOUS
  <2>1. k \in 0 .. 7 /\ d[k] = ByteAt(v, k)
    OBVIOUS
  <2>2. ByteAt(v, k) \in Byte
    BY <2>1, ByteAtType
  <2> QED
    BY <2>1, <2>2, WordsAssumption DEF Byte
<1>2. PICK s \in [0 .. n -> Int] : Sums(d, n, s) /\ Number(d, n) = s[n]
  BY <1>1, NumberDef
<1> DEFINE T == {k \in Nat : k <= n => s[k] = v % Weight(k)}
<1>3. 0 \in T
  BY <1>2, Weights DEF Sums
<1>4. ASSUME NEW k \in Nat, k \in T, k + 1 <= n PROVE s[k + 1] = v % Weight(k + 1)
  <2>1. k \in 0 .. 7 /\ k \in 0 .. n - 1 /\ k + 1 \in 0 .. n /\ (k + 1) - 1 = k /\ k + 1 # 0
    BY <1>4
  <2>2. s[k + 1] = s[k] + d[k] * Place[k + 1]
    BY <1>2, <2>1 DEF Sums
  <2>3. Place[k + 1] = Weight(k) /\ d[k] = ByteAt(v, k)
    BY <2>1 DEF Weight
  <2>4. v % Weight(k + 1) = (v % Weight(k)) + ByteAt(v, k) * Weight(k)
    BY <2>1, OneMoreByte
  <2>5. s[k] = v % Weight(k)
    BY <1>4
  <2> QED
    BY <2>2, <2>3, <2>4, <2>5
<1>5. \A k \in Nat : k \in T => k + 1 \in T
  BY <1>4
<1>6. Nat \subseteq T
  BY <1>3, <1>5, InductionBySet
<1> QED
  BY <1>2, <1>6

(* A field of a word is the number of the bytes it consists of.            *)
LEMMA FieldDigits ==
  ASSUME NEW w \in Int, NEW n \in Widths, NEW at \in 0 .. 7, at + n <= 8,
         NEW d, \A k \in 0 .. n - 1 : d[k] = ByteAt(w, at + k)
  PROVE  Field(w, at, n) = Number(d, n)
<1> DEFINE v == w \div Weight(at)
<1>1. n \in 0 .. 8 /\ at \in 0 .. 8 /\ n \in Nat
  BY DEF Widths
<1>2. v \in Int
  BY <1>1, Weights, DivMod
<1>3. ASSUME NEW k \in 0 .. n - 1 PROVE d[k] = ByteAt(v, k)
  <2>1. k \in 0 .. 7 /\ at + k \in 0 .. 7
    BY <1>1
  <2>2. Product(Weight(at + k), Weight(at), Weight(k))
    BY <1>1, <2>1, WeightProduct
  <2>3. /\ Weight(at) \in Int /\ Weight(at) > 0 /\ Weight(k) \in Int /\ Weight(k) > 0
        /\ Weight(at + k) \in Int
    BY <1>1, <2>1, Weights
  <2>4. Splits(w, Weight(at), Weight(k), Weight(at + k))
    BY <2>2, <2>3, DivideTwice
  <2>5. ByteAt(w, at + k) = (w \div Weight(at + k)) % Base /\ ByteAt(v, k) = (v \div Weight(k)) % Base
    BY <1>2, <2>1, ByteAtType
  <2> QED
    BY <2>4, <2>5 DEF Splits
<1> HIDE DEF v
<1>4. Number(d, n) = v % Weight(n)
  BY <1>1, <1>2, <1>3, LowDigits
<1> QED
  BY <1>4, Weights DEF v, Field, Weight

-----------------------------------------------------------------------------
(* Numbers that a type cannot tell apart. *)

Congruent(u, v, N) == \E m \in Int : u - v = N * m

(* Congruent numbers leave the same: their difference leaves nothing.      *)
LEMMA CongruentMod ==
  ASSUME NEW u \in Int, NEW v \in Int, NEW N \in Int, N > 0, Congruent(u, v, N)
  PROVE  (u - v) % N = 0
<1>1. PICK m \in Int : u - v = N * m
  BY DEF Congruent
<1>2. u - v = N * m + 0 /\ u - v \in Int
  <2>1. N * m \in Int
    OBVIOUS
  <2> QED
    BY <1>1, <2>1
<1> QED
  BY <1>2, DivUnique

(* Sums, differences and products of congruent numbers are congruent.      *)
LEMMA CongruentResults ==
  ASSUME NEW N \in Int, NEW u \in Int, NEW v \in Int, NEW a \in Int, NEW b \in Int,
         Congruent(u, a, N), Congruent(v, b, N)
  PROVE  /\ Congruent(u + v, a + b, N)
         /\ Congruent(u - v, a - b, N)
         /\ Congruent(u * v, a * b, N)
<1>1. PICK m \in Int : u - a = N * m
  BY DEF Congruent
<1>2. PICK n \in Int : v - b = N * n
  BY DEF Congruent
<1>3. N * m \in Int /\ N * n \in Int /\ N * (m + n) = N * m + N * n /\ N * (m - n) = N * m - N * n
  OBVIOUS
<1>4. Congruent(u + v, a + b, N)
  <2>1. (u + v) - (a + b) = (u - a) + (v - b)
    OBVIOUS
  <2>2. (u + v) - (a + b) = N * (m + n) /\ m + n \in Int
    BY <1>1, <1>2, <1>3, <2>1
  <2> QED
    BY <2>2, Zenon DEF Congruent
<1>5. Congruent(u - v, a - b, N)
  <2>1. (u - v) - (a - b) = (u - a) - (v - b)
    OBVIOUS
  <2>2. (u - v) - (a - b) = N * (m - n) /\ m - n \in Int
    BY <1>1, <1>2, <1>3, <2>1
  <2> QED
    BY <2>2, Zenon DEF Congruent
<1>6. u * v - a * b = N * (m * v + a * n)
  <2>1. \A p, q, r, s \in Int : p * q - r * s = (p - r) * q + r * (q - s)
    OBVIOUS
  <2>2. u * v - a * b = (N * m) * v + a * (N * n)
    BY <1>1, <1>2, <2>1
  <2>3. \A p, q, r, s, t \in Int : (p * q) * r + s * (p * t) = p * (q * r + s * t)
    OBVIOUS
  <2> QED
    BY <2>2, <2>3
<1>7. m * v + a * n \in Int
  OBVIOUS
<1> QED
  BY <1>4, <1>5, <1>6, <1>7 DEF Congruent

(* One congruence after the other.                                         *)
LEMMA CongruentChain ==
  ASSUME NEW N \in Int, NEW u \in Int, NEW v \in Int, NEW w \in Int,
         Congruent(u, v, N), Congruent(v, w, N)
  PROVE  Congruent(u, w, N)
<1>1. PICK m \in Int : u - v = N * m
  BY DEF Congruent
<1>2. PICK n \in Int : v - w = N * n
  BY DEF Congruent
<1>3. N * m \in Int /\ N * n \in Int /\ N * (m + n) = N * m + N * n /\ m + n \in Int
  OBVIOUS
<1>4. u - w = (u - v) + (v - w)
  OBVIOUS
<1>5. u - w = N * (m + n)
  BY <1>1, <1>2, <1>3, <1>4
<1> QED
  BY <1>3, <1>5, Zenon DEF Congruent

(* The signed reading of a word is congruent to the unsigned one.          *)
LEMMA ReadCongruent ==
  ASSUME NEW v \in Int, NEW N \in {CHAR, SHORT, INT, LONG}
  PROVE  /\ Congruent(Wrapped(v, N), v % N, N)
         /\ Congruent(v % N, v, N)
         /\ Congruent(Wrapped(v, N), v, N)
<1>1. N \in Int /\ N > 0
  BY Sizes
<1>2. v % N \in Int /\ v \div N \in Int /\ v = N * (v \div N) + (v % N)
  BY <1>1, DivMod
<1>3. N * (v \div N) \in Int /\ N * (- (v \div N)) = - (N * (v \div N)) /\ N * 0 = 0 /\ N * (- 1) = - N
  BY <1>1, <1>2
<1>4. (v % N) - v = N * (- (v \div N))
  BY <1>2, <1>3
<1>5. Congruent(v % N, v, N)
  BY <1>2, <1>4 DEF Congruent
<1>6. Wrapped(v, N) = v % N \/ Wrapped(v, N) = (v % N) - N
  BY DEF Wrapped, Signed
<1>7. Wrapped(v, N) - (v % N) = N * 0 \/ Wrapped(v, N) - (v % N) = N * (- 1)
  BY <1>1, <1>2, <1>3, <1>6
<1>8. Congruent(Wrapped(v, N), v % N, N)
  <2>1. 0 \in Int /\ - 1 \in Int
    OBVIOUS
  <2> QED
    BY <1>7, <2>1, Zenon DEF Congruent
<1>9. Wrapped(v, N) \in Int
  BY <1>1, <1>2, <1>6
<1> QED
  BY <1>1, <1>2, <1>5, <1>8, <1>9, CongruentChain

(* Every outcome of an overflow has the right low half.                    *)
LEMMA OverflowingCongruent ==
  ASSUME NEW v \in Int, NEW r \in Overflowing(v)
  PROVE  r \in Int /\ Congruent(r, v, INT)
<1>1. CASE r = Wrapped(v, INT)
  BY <1>1, ReadCongruent, WrappedType
<1>2. CASE r = v
  <2>1. INT \in Int /\ v - v = INT * 0
    BY Sizes
  <2> QED
    BY <1>2, <2>1 DEF Congruent
<1> QED
  BY <1>1, <1>2 DEF Overflowing

(* ADD, SUB and MUL are right in the low half of the register.             *)
LEMMA LowHalf ==
  ASSUME NEW v \in Word, NEW w \in Word
  PROVE  /\ \A r \in Results("ADD", v, w) : (r - ((v % INT) + (w % INT))) % INT = 0
         /\ \A r \in Results("SUB", v, w) : (r - ((v % INT) - (w % INT))) % INT = 0
         /\ \A r \in Results("MUL", v, w) : (r - (v % INT) * (w % INT)) % INT = 0
<1> DEFINE a == v % INT   b == w % INT   p == ReadSigned(v, INT)   q == ReadSigned(w, INT)
<1>1. INT \in Int /\ INT > 0 /\ v \in Int /\ w \in Int
  BY Sizes, WordParts
<1>2. a \in Int /\ b \in Int
  BY <1>1, DivMod
<1>3. p \in Int /\ q \in Int
  BY ReadTypes
<1>4. Congruent(p, a, INT) /\ Congruent(q, b, INT)
  BY <1>1, ReadCongruent DEF ReadSigned, Wrapped
<1>5. /\ Results("ADD", v, w) = Overflowing(p + q)
      /\ Results("SUB", v, w) = Overflowing(p - q)
      /\ Results("MUL", v, w) = Overflowing(p * q)
  BY DEF Results
<1> HIDE DEF a, b, p, q
<1>6. /\ Congruent(p + q, a + b, INT) /\ Congruent(p - q, a - b, INT)
      /\ Congruent(p * q, a * b, INT)
  BY <1>1, <1>2, <1>3, <1>4, CongruentResults
<1>7. ASSUME NEW s \in Int, NEW t \in Int, Congruent(s, t, INT), NEW r \in Overflowing(s)
      PROVE  (r - t) % INT = 0
  <2>1. r \in Int /\ Congruent(r, s, INT)
    BY <1>7, OverflowingCongruent
  <2>2. Congruent(r, t, INT)
    BY <1>1, <1>7, <2>1, CongruentChain
  <2> QED
    BY <1>1, <2>1, <2>2, CongruentMod
<1>8. p * q \in Int /\ a * b \in Int /\ p + q \in Int /\ a + b \in Int /\ p - q \in Int /\ a - b \in Int
  BY <1>2, <1>3
<1>9. \A r \in Results("ADD", v, w) : (r - (a + b)) % INT = 0
  BY <1>5, <1>6, <1>7, <1>8
<1>10. \A r \in Results("SUB", v, w) : (r - (a - b)) % INT = 0
  BY <1>5, <1>6, <1>7, <1>8
<1>11. \A r \in Results("MUL", v, w) : (r - a * b) % INT = 0
  BY <1>5, <1>6, <1>7, <1>8
<1> QED
  BY <1>9, <1>10, <1>11 DEF a, b

-----------------------------------------------------------------------------
(* Division. *)

AbsoluteOf(a) == IF a < 0 THEN - a ELSE a

(* Quotient and remainder as C++ has them.                                 *)
LEMMA QuotientLaw ==
  ASSUME NEW a \in Int, NEW b \in Int, b # 0
  PROVE  /\ a = Quotient(a, b) * b + Remainder(a, b)
         /\ AbsoluteOf(Remainder(a, b)) < AbsoluteOf(b)
         /\ Remainder(a, b) = 0 \/ (Remainder(a, b) < 0) = (a < 0)
<1> DEFINE m == AbsoluteOf(a)   n == AbsoluteOf(b)   q == m \div n   t == m % n
           r == Remainder(a, b)
<1>1. m \in Int /\ n \in Int /\ n > 0 /\ m >= 0
  BY DEF AbsoluteOf
<1>2. q \in Int /\ t \in 0 .. n - 1 /\ m = n * q + t /\ t \in Int
  BY <1>1, DivMod
<1>3. Quotient(a, b) = IF (a < 0) = (b < 0) THEN q ELSE - q
  BY DEF Quotient, AbsoluteOf
<1>4. r = a - b * Quotient(a, b)
  BY DEF Remainder
<1> DEFINE z == n * q
<1>5. z \in Int /\ n * q = z /\ m = z + t
  BY <1>1, <1>2
<1>6. \A c, d \in Int : (- c) * d = - (c * d) /\ c * (- d) = - (c * d) /\ (- c) * (- d) = c * d
  OBVIOUS
<1>7. b * Quotient(a, b) = IF a < 0 THEN - z ELSE z
  <2>1. CASE a < 0 /\ b < 0
    <3>1. Quotient(a, b) = q /\ b = - n
      BY <1>3, <2>1 DEF AbsoluteOf
    <3>2. (- n) * q = - (n * q)
      BY <1>1, <1>2, <1>6
    <3> QED
      BY <2>1, <3>1, <3>2
  <2>2. CASE a < 0 /\ ~ (b < 0)
    BY <1>2, <1>3, <1>6, <2>2 DEF AbsoluteOf
  <2>3. CASE ~ (a < 0) /\ b < 0
    BY <1>2, <1>3, <1>6, <2>3 DEF AbsoluteOf
  <2>4. CASE ~ (a < 0) /\ ~ (b < 0)
    BY <1>2, <1>3, <1>6, <2>4 DEF AbsoluteOf
  <2> QED
    BY <2>1, <2>2, <2>3, <2>4
<1> HIDE DEF z, q, t
<1>8. r = IF a < 0 THEN - t ELSE t
  BY <1>2, <1>4, <1>5, <1>7 DEF AbsoluteOf
<1>9. Quotient(a, b) \in Int /\ r \in Int
  BY QuotientType
<1>10. a = Quotient(a, b) * b + r
  <2>1. b * Quotient(a, b) = Quotient(a, b) * b /\ b * Quotient(a, b) \in Int
    BY <1>9
  <2> QED
    BY <1>4, <2>1
<1>11. AbsoluteOf(r) < n
  BY <1>1, <1>2, <1>8 DEF AbsoluteOf
<1>12. r = 0 \/ (r < 0) = (a < 0)
  BY <1>2, <1>8
<1> QED
  BY <1>10, <1>11, <1>12

-----------------------------------------------------------------------------
(* Bits. *)

Bit(v, k) == (v \div TwoTo[k]) % 2

(* The lowest bit, and the others as the bits of the half.                 *)
LEMMA BitSteps ==
  ASSUME NEW v \in Int
  PROVE  /\ Bit(v, 0) = v % 2
         /\ \A k \in Nat : Bit(v, k + 1) = Bit(v \div 2, k) /\ TwoTo[k] \in Int /\ TwoTo[k] > 0
<1>1. TwoTo[0] = 1
  BY TwoToDef
<1>2. ASSUME NEW k \in Nat
      PROVE  Bit(v, k + 1) = Bit(v \div 2, k) /\ TwoTo[k] \in Int /\ TwoTo[k] > 0
  <2>1. TwoTo[k + 1] = 2 * TwoTo[k]
    <3>1. k + 1 \in Nat /\ k + 1 # 0 /\ (k + 1) - 1 = k
      OBVIOUS
    <3>2. \A n \in Nat : TwoTo[n] = IF n = 0 THEN 1 ELSE 2 * TwoTo[n - 1]
      BY TwoToDef
    <3> QED
      BY <3>1, <3>2
  <2>2. TwoTo[k] \in Int /\ TwoTo[k] > 0 /\ TwoTo[k + 1] \in Int
    BY TwoToDef
  <2>3. Splits(v, 2, TwoTo[k], TwoTo[k + 1])
    <3>1. Product(TwoTo[k + 1], 2, TwoTo[k])
      BY <2>1 DEF Product
    <3> QED
      BY <2>2, <3>1, DivideTwice
  <2> QED
    BY <2>2, <2>3 DEF Splits, Bit
<1> QED
  BY <1>1, <1>2 DEF Bit

(* What one step of BitAnd, and with it of BitOr and BitXor, comes to.     *)
LEMMA HalfOfBits ==
  ASSUME NEW u \in Nat, NEW v \in Nat
  PROVE  LET A == BitAnd[u][v]   B == BitAnd[u \div 2][v \div 2]
         IN  /\ A \in Nat /\ B \in Nat
             /\ A % 2 = (IF u % 2 = 1 /\ v % 2 = 1 THEN 1 ELSE 0)
             /\ A \div 2 = B
<1> DEFINE A == BitAnd[u][v]   B == BitAnd[u \div 2][v \div 2]
           c == IF u % 2 = 1 /\ v % 2 = 1 THEN 1 ELSE 0
<1>1. u \div 2 \in Nat /\ v \div 2 \in Nat /\ u % 2 \in {0, 1} /\ v % 2 \in {0, 1}
  OBVIOUS
<1>2. A \in Nat /\ B \in Nat
  BY <1>1, BitAndDef
<1>3. \A s, t \in Nat : BitAnd[s][t] = IF s = 0 \/ t = 0 THEN 0
                                       ELSE (s % 2) * (t % 2) + 2 * BitAnd[s \div 2][t \div 2]
  <2>1. BitAnd = AndOf(BitAnd)
    BY BitAndDef
  <2>2. \A s, t \in Nat : AndOf(BitAnd)[s][t] = IF s = 0 \/ t = 0 THEN 0
                                       ELSE (s % 2) * (t % 2) + 2 * BitAnd[s \div 2][t \div 2]
    BY Zenon DEF AndOf
  <2> QED
    BY <2>1, <2>2
<1>4. A = 2 * B + c
  <2>1. CASE u = 0 \/ v = 0
    <3>1. A = 0
      BY <1>3, <2>1
    <3>2. u \div 2 = 0 \/ v \div 2 = 0
      BY <2>1
    <3>3. B = 0
      BY <1>1, <1>3, <3>2
    <3>4. c = 0
      BY <2>1
    <3> QED
      BY <3>1, <3>3, <3>4
  <2>2. CASE ~ (u = 0 \/ v = 0)
    <3>1. A = (u % 2) * (v % 2) + 2 * B
      BY <1>3, <2>2
    <3>2. (u % 2) * (v % 2) = c
      BY <1>1
    <3> HIDE DEF A, B, c
    <3> QED
      BY <1>2, <3>1, <3>2
  <2> QED
    BY <2>1, <2>2
<1>5. c \in {0, 1}
  OBVIOUS
<1> HIDE DEF A, B, c
<1>6. A \div 2 = B /\ A % 2 = c
  BY <1>2, <1>4, <1>5
<1> QED
  BY <1>2, <1>6 DEF A, B, c

AllBits(k, u, v) ==
  /\ Bit(BitAnd[u][v], k) = 1 <=> (Bit(u, k) = 1 /\ Bit(v, k) = 1)
  /\ Bit(BitOr(u, v), k) = 1 <=> (Bit(u, k) = 1 \/ Bit(v, k) = 1)
  /\ Bit(BitXor(u, v), k) = 1 <=> (Bit(u, k) = 1) # (Bit(v, k) = 1)

(* Every bit of the results is what the bits of the operands make it.      *)
LEMMA BitsOfResults ==
  \A k \in Nat : \A u, v \in Nat : AllBits(k, u, v)
<1> DEFINE T == {k \in Nat : \A u, v \in Nat : AllBits(k, u, v)}
<1>1. ASSUME NEW u \in Nat, NEW v \in Nat
      PROVE  /\ BitAnd[u][v] \in Int /\ BitOr(u, v) \in Int /\ BitXor(u, v) \in Int
             /\ BitAnd[u][v] \div 2 = BitAnd[u \div 2][v \div 2]
             /\ BitOr(u, v) \div 2 = BitOr(u \div 2, v \div 2)
             /\ BitXor(u, v) \div 2 = BitXor(u \div 2, v \div 2)
             /\ BitAnd[u][v] % 2 = 1 <=> (u % 2 = 1 /\ v % 2 = 1)
             /\ BitOr(u, v) % 2 = 1 <=> (u % 2 = 1 \/ v % 2 = 1)
             /\ BitXor(u, v) % 2 = 1 <=> (u % 2 = 1) # (v % 2 = 1)
  <2> DEFINE A == BitAnd[u][v]   B == BitAnd[u \div 2][v \div 2]
  <2>1. /\ A \in Nat /\ B \in Nat /\ A \div 2 = B
        /\ A % 2 = IF u % 2 = 1 /\ v % 2 = 1 THEN 1 ELSE 0
    BY HalfOfBits
  <2>2. BitOr(u, v) = (u + v) - A /\ BitXor(u, v) = (u + v) - 2 * A
    BY DEF BitOr, BitXor
  <2>3. /\ BitOr(u \div 2, v \div 2) = (u \div 2 + v \div 2) - B
        /\ BitXor(u \div 2, v \div 2) = (u \div 2 + v \div 2) - 2 * B
    BY DEF BitOr, BitXor
  <2> HIDE DEF A, B
  <2>4. /\ (u + v) - A \in Int /\ (u + v) - 2 * A \in Int
        /\ ((u + v) - A) \div 2 = (u \div 2 + v \div 2) - B
        /\ ((u + v) - 2 * A) \div 2 = (u \div 2 + v \div 2) - 2 * B
    BY <2>1
  <2>5. /\ A % 2 = 1 <=> (u % 2 = 1 /\ v % 2 = 1)
        /\ ((u + v) - A) % 2 = 1 <=> (u % 2 = 1 \/ v % 2 = 1)
        /\ ((u + v) - 2 * A) % 2 = 1 <=> ((u % 2 = 1) # (v % 2 = 1))
    BY <2>1
  <2> QED
    BY <2>1, <2>2, <2>3, <2>4, <2>5 DEF A, B
<1>2. 0 \in T
  <2>1. ASSUME NEW u \in Nat, NEW v \in Nat PROVE AllBits(0, u, v)
    <3>1. \A s \in Int : Bit(s, 0) = s % 2
      BY BitSteps
    <3>2. BitAnd[u][v] \in Int /\ BitOr(u, v) \in Int /\ BitXor(u, v) \in Int
      BY <1>1
    <3>3. /\ Bit(BitAnd[u][v], 0) = BitAnd[u][v] % 2 /\ Bit(BitOr(u, v), 0) = BitOr(u, v) % 2
          /\ Bit(BitXor(u, v), 0) = BitXor(u, v) % 2 /\ Bit(u, 0) = u % 2 /\ Bit(v, 0) = v % 2
      BY <3>1, <3>2
    <3>4. /\ BitAnd[u][v] % 2 = 1 <=> (u % 2 = 1 /\ v % 2 = 1)
          /\ BitOr(u, v) % 2 = 1 <=> (u % 2 = 1 \/ v % 2 = 1)
          /\ BitXor(u, v) % 2 = 1 <=> (u % 2 = 1) # (v % 2 = 1)
      BY <1>1
    <3> QED
      BY <3>3, <3>4 DEF AllBits
  <2> QED
    BY <2>1
<1>3. ASSUME NEW k \in Nat, k \in T PROVE k + 1 \in T
  <2>1. ASSUME NEW u \in Nat, NEW v \in Nat PROVE AllBits(k + 1, u, v)
    <3>1. u \div 2 \in Nat /\ v \div 2 \in Nat
      OBVIOUS
    <3>2. AllBits(k, u \div 2, v \div 2)
      BY <1>3, <3>1
    <3>3. \A s \in Int : Bit(s, k + 1) = Bit(s \div 2, k)
      BY BitSteps
    <3>4. /\ BitAnd[u][v] \in Int /\ BitOr(u, v) \in Int /\ BitXor(u, v) \in Int
          /\ BitAnd[u][v] \div 2 = BitAnd[u \div 2][v \div 2]
          /\ BitOr(u, v) \div 2 = BitOr(u \div 2, v \div 2)
          /\ BitXor(u, v) \div 2 = BitXor(u \div 2, v \div 2)
      BY <1>1
    <3>5. /\ Bit(BitAnd[u][v], k + 1) = Bit(BitAnd[u \div 2][v \div 2], k)
          /\ Bit(BitOr(u, v), k + 1) = Bit(BitOr(u \div 2, v \div 2), k)
          /\ Bit(BitXor(u, v), k + 1) = Bit(BitXor(u \div 2, v \div 2), k)
          /\ Bit(u, k + 1) = Bit(u \div 2, k) /\ Bit(v, k + 1) = Bit(v \div 2, k)
      BY <3>3, <3>4
    <3> QED
      BY <3>2, <3>5 DEF AllBits
  <2> QED
    BY <2>1
<1>4. Nat \subseteq T
  BY <1>2, <1>3, InductionBySet
<1> QED
  BY <1>4
=============================================================================
