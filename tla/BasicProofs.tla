---------------------------- MODULE BasicProofs -----------------------------
(***************************************************************************)
(* What the proofs about the components share.  First induction: over the  *)
(* naturals it is stated for a set of numbers, so that no lemma has an     *)
(* operator for a parameter; it follows from the existence of minimal      *)
(* elements.  From it follow the facts about powers of two and about       *)
(* finite sums; then come lemmas about points, commitments, nonces, trees  *)
(* and paths.                                                              *)
(*                                                                         *)
(* A recursive definition is the CHOOSE of a function that satisfies an    *)
(* equation.  For each, one lemma says that there is such a function, and  *)
(* the other lemmas use nothing but the equation.                          *)
(***************************************************************************)
EXTENDS GuestStatement, FiniteSetTheorems, WellFoundedInduction,
        SequenceTheorems, TLAPS

-----------------------------------------------------------------------------
(* The naturals.                                                           *)

\* Every set of natural numbers has a least element.
LEMMA Least ==
  ASSUME NEW T, T \subseteq Nat, T # {}
  PROVE  \E n \in T : \A m \in T : n <= m
<1>. DEFINE R == OpToRel(<, Nat)
<1>1. \A x, y \in Nat : y < x => <<y, x>> \in R
  BY DEF OpToRel
<1>2. IsWellFoundedOn(R, Nat)
  BY NatLessThanWellFounded
<1>. HIDE DEF R
<1>3. PICK n \in T : \A y \in T : ~(<<y, n>> \in R)
  BY WFMin, <1>2
<1>4. ASSUME NEW m \in T
      PROVE  n <= m
  <2>1. n \in Nat /\ m \in Nat /\ ~(m < n)
    BY <1>1, <1>3
  <2>. QED  BY <2>1
<1>. QED  BY <1>4

\* Induction: a set that has 0 and every successor has all numbers.
LEMMA Induction ==
  ASSUME NEW T, 0 \in T, \A n \in Nat : n \in T => n + 1 \in T
  PROVE  \A n \in Nat : n \in T
<1>. DEFINE B == {n \in Nat : n \notin T}
<1>. SUFFICES ASSUME B # {}
              PROVE  FALSE
  OBVIOUS
<1>1. PICK n \in B : \A m \in B : n <= m
  BY Least
<1>2. n - 1 \in Nat
  BY <1>1
<1>. QED  BY <1>1, <1>2

-----------------------------------------------------------------------------
(* Powers of two.                                                          *)

\* A power of two counts the subsets of an interval.
LEMMA PowerCounts ==
  ASSUME NEW n \in Nat
  PROVE  /\ IsFiniteSet(SUBSET (1..n))
         /\ 2^n = Cardinality(SUBSET (1..n))
<1>1. IsFiniteSet(1..n) /\ Cardinality(1..n) = n
  BY FS_Interval
<1>. QED  BY <1>1, FS_SUBSET

\* Adding an element doubles the number of subsets.
LEMMA PowerDoubles ==
  ASSUME NEW n \in Nat
  PROVE  2^(n + 1) = 2^n + 2^n
<1>. DEFINE A == SUBSET (1..n)
            B == {s \cup {n + 1} : s \in A}
            f == [s \in A |-> s \cup {n + 1}]
<1>1. f \in Bijection(A, B)
  <2>1. f \in [A -> B]
    OBVIOUS
  <2>2. ASSUME NEW s \in A, NEW t \in A, f[s] = f[t]
        PROVE  s = t
    <3>1. n + 1 \notin s /\ n + 1 \notin t
      OBVIOUS
    <3>. QED  BY <2>2, <3>1
  <2>3. \A y \in B : \E s \in A : f[s] = y
    OBVIOUS
  <2>. HIDE DEF A, B, f
  <2>. QED  BY <2>1, <2>2, <2>3 DEF Bijection, Injection, Surjection, IsInjective
<1>2. SUBSET (1..(n + 1)) = A \cup B
  <2>1. ASSUME NEW s \in SUBSET (1..(n + 1)), n + 1 \in s
        PROVE  s \in B
    <3>1. s \ {n + 1} \in A /\ s = (s \ {n + 1}) \cup {n + 1}
      BY <2>1
    <3>. QED  BY <3>1
  <2>2. ASSUME NEW s \in SUBSET (1..(n + 1)), n + 1 \notin s
        PROVE  s \in A
    <3>1. \A k \in s : k \in 1..n
      BY <2>2
    <3>. QED  BY <3>1
  <2>3. A \subseteq SUBSET (1..(n + 1))
    OBVIOUS
  <2>4. B \subseteq SUBSET (1..(n + 1))
    <3>1. \A s \in A : s \cup {n + 1} \in SUBSET (1..(n + 1))
      OBVIOUS
    <3>. QED  BY <3>1
  <2>. HIDE DEF A, B
  <2>. QED  BY <2>1, <2>2, <2>3, <2>4
<1>3. A \cap B = {}
  <2>1. \A s \in A : n + 1 \notin s
    OBVIOUS
  <2>. QED  BY <2>1
<1>4. IsFiniteSet(A) /\ Cardinality(A) = 2^n
  BY PowerCounts
<1>5. Cardinality(SUBSET (1..(n + 1))) = 2^(n + 1)
  <2>1. n + 1 \in Nat
    OBVIOUS
  <2>. HIDE DEF A, B, f
  <2>. QED  BY <2>1, PowerCounts
<1>. HIDE DEF A, B, f
<1>6. IsFiniteSet(B) /\ Cardinality(B) = Cardinality(A)
  <2>1. ExistsBijection(A, B)
    BY <1>1 DEF ExistsBijection
  <2>. QED  BY <2>1, <1>4, FS_Bijection
<1>7. Cardinality(A \cup B) = Cardinality(A) + Cardinality(B)
  <2>1. Cardinality(A \cap B) = 0
    BY <1>3, FS_EmptySet
  <2>2. Cardinality(A) \in Nat /\ Cardinality(B) \in Nat
    BY <1>4, <1>6, FS_CardinalityType
  <2>3. Cardinality(A \cup B) = Cardinality(A) + Cardinality(B) - Cardinality(A \cap B)
    BY <1>4, <1>6, FS_Union
  <2>. QED  BY <2>1, <2>2, <2>3
<1>. QED  BY <1>2, <1>4, <1>5, <1>6, <1>7

\* 2^n is above n.
LEMMA PowerPositive == \A n \in Nat : 2^n \in Nat /\ n + 1 <= 2^n
<1>. DEFINE T == {n \in Nat : 2^n \in Nat /\ n + 1 <= 2^n}
<1>1. 0 \in T
  OBVIOUS
<1>2. \A n \in Nat : n \in T => n + 1 \in T
  BY PowerDoubles
<1>. HIDE DEF T
<1>3. \A n \in Nat : n \in T
  BY <1>1, <1>2, Induction
<1>. QED  BY <1>3 DEF T

\* The quotient is the only number that fits.
LEMMA QuotientIs ==
  ASSUME NEW n \in Nat, NEW w \in Nat, 0 < w, NEW q \in Nat,
         q * w <= n, n < q * w + w
  PROVE  n \div w = q
OBVIOUS

\* Division with remainder.
LEMMA Division ==
  ASSUME NEW x \in Int, NEW n \in Nat, 0 < n
  PROVE  /\ x \div n \in Int /\ x % n \in 0..(n - 1)
         /\ x = (x \div n) * n + (x % n)
OBVIOUS

\* Halving a quotient doubles the divisor.
LEMMA HalfOfQuotient ==
  ASSUME NEW n \in Nat, NEW w \in Nat, 0 < w
  PROVE  n \div (w + w) = (n \div w) \div 2
<1>. DEFINE q == n \div w
            p == q \div 2
<1>1. q \in Nat /\ q * w <= n /\ n < q * w + w
  OBVIOUS
<1>. HIDE DEF q
<1>2. p \in Nat /\ (q = 2 * p \/ q = 2 * p + 1)
  BY <1>1
<1>. HIDE DEF p
<1>3. CASE q = 2 * p
  <2>1. q * w = p * (w + w)
    BY <1>2, <1>3
  <2>2. n \div (w + w) = p
    BY <1>1, <1>2, <2>1, QuotientIs
  <2>. QED  BY <2>2 DEF p, q
<1>4. CASE q = 2 * p + 1
  <2>1. q * w = p * (w + w) + w
    BY <1>2, <1>4
  <2>2. n \div (w + w) = p
    BY <1>1, <1>2, <2>1, QuotientIs
  <2>. QED  BY <2>2 DEF p, q
<1>. QED  BY <1>2, <1>3, <1>4

-----------------------------------------------------------------------------
(* Sums over finite sets, as MapThenFoldSet of the module Folds makes      *)
(* them: one element after the other, in the order of CHOOSE.              *)

AnyOf(s) == CHOOSE x \in s : TRUE

Summed(iter, f, s) == IF s = {} THEN 0 ELSE f[AnyOf(s)] + iter[s \ {AnyOf(s)}]

IsSums(iter, f, S) == iter = [s \in SUBSET S |-> Summed(iter, f, s)]

SumOver(f, S) == (CHOOSE iter : IsSums(iter, f, S))[S]

\* f has integers for the elements of a finite set.
Summable(f, S) == IsFiniteSet(S) /\ \A x \in S : f[x] \in Int

\* Taking an element out.
LEMMA AnyOfIs ==
  ASSUME NEW S, NEW f, Summable(f, S), NEW s \in SUBSET S, s # {}
  PROVE  LET x == AnyOf(s) IN
         /\ x \in s /\ f[x] \in Int /\ s \ {x} \in SUBSET S
         /\ Cardinality(s) \in Nat /\ Cardinality(s \ {x}) \in Nat
         /\ Cardinality(s \ {x}) + 1 = Cardinality(s)
<1>. DEFINE x == AnyOf(s)
<1>1. x \in s
  BY DEF AnyOf
<1>2. IsFiniteSet(s) /\ Cardinality(s) \in Nat
  BY FS_Subset, FS_CardinalityType DEF Summable
<1>3. Cardinality(s \ {x}) = Cardinality(s) - 1 /\ IsFiniteSet(s \ {x})
  BY <1>1, <1>2, FS_RemoveElement
<1>4. Cardinality(s \ {x}) \in Nat
  BY <1>3, FS_CardinalityType
<1>. QED  BY <1>1, <1>2, <1>3, <1>4 DEF Summable

\* The subsets of up to n elements.
Small(S, n) == {s \in SUBSET S : Cardinality(s) <= n}

IsSumsOfSmall(iter, f, S, n) == iter = [s \in Small(S, n) |-> Summed(iter, f, s)]

\* A subset of a finite set has a size.
LEMMA SizeIs ==
  ASSUME NEW S, NEW f, Summable(f, S), NEW s \in SUBSET S
  PROVE  /\ IsFiniteSet(s) /\ Cardinality(s) \in Nat
         /\ Cardinality(s) <= 0 => s = {}
         /\ Cardinality(s) <= Cardinality(S) /\ Cardinality(S) \in Nat
<1>1. IsFiniteSet(s) /\ Cardinality(s) <= Cardinality(S)
  BY FS_Subset DEF Summable
<1>2. Cardinality(s) \in Nat /\ Cardinality(S) \in Nat
  BY <1>1, FS_CardinalityType DEF Summable
<1>3. Cardinality(s) = 0 => s = {}
  BY <1>1, FS_EmptySet
<1>. QED  BY <1>1, <1>2, <1>3

\* There are such sums, of few elements
LEMMA SumsOfSmallExist ==
  ASSUME NEW S, NEW f, Summable(f, S)
  PROVE  \A n \in Nat : \E g : IsSumsOfSmall(g, f, S, n)
<1>. DEFINE T == {n \in Nat : \E g : IsSumsOfSmall(g, f, S, n)}
<1>1. 0 \in T
  <2>. DEFINE g == [s \in Small(S, 0) |-> 0]
  <2>1. ASSUME NEW s \in Small(S, 0)
        PROVE  s = {}
    BY SizeIs DEF Small
  <2>2. \A s \in Small(S, 0) : g[s] = Summed(g, f, s)
    BY <2>1 DEF Summed
  <2>3. IsSumsOfSmall(g, f, S, 0)
    BY <2>2 DEF IsSumsOfSmall
  <2>. QED  BY <2>3
<1>2. ASSUME NEW n \in Nat, n \in T
      PROVE  n + 1 \in T
  <2>1. PICK g : IsSumsOfSmall(g, f, S, n)
    BY <1>2
  <2>. DEFINE more == [s \in Small(S, n + 1) |-> Summed(g, f, s)]
  <2>2. ASSUME NEW s \in Small(S, n + 1), s # {}
        PROVE  s \ {AnyOf(s)} \in Small(S, n) /\ s \ {AnyOf(s)} \in Small(S, n + 1)
    BY <2>2, AnyOfIs DEF Small
  <2>3. ASSUME NEW s \in Small(S, n)
        PROVE  s \in Small(S, n + 1)
    BY SizeIs DEF Small
  <2>4. ASSUME NEW s \in Small(S, n)
        PROVE  more[s] = g[s]
    BY <2>1, <2>3 DEF IsSumsOfSmall
  <2>5. ASSUME NEW s \in Small(S, n + 1)
        PROVE  more[s] = Summed(more, f, s)
    <3>1. more[s] = Summed(g, f, s)
      OBVIOUS
    <3>. HIDE DEF more
    <3>2. CASE s = {}
      BY <3>1, <3>2 DEF Summed
    <3>3. CASE s # {}
      BY <3>1, <3>3, <2>2, <2>4 DEF Summed
    <3>. QED  BY <3>2, <3>3
  <2>6. more = [s \in Small(S, n + 1) |-> more[s]]
    OBVIOUS
  <2>. HIDE DEF more
  <2>7. IsSumsOfSmall(more, f, S, n + 1)
    BY <2>5, <2>6 DEF IsSumsOfSmall
  <2>. QED  BY <2>7
<1>. HIDE DEF T
<1>3. \A n \in Nat : n \in T
  BY <1>1, <1>2, Induction
<1>. QED  BY <1>3 DEF T

\* and of all.
LEMMA SumsExist ==
  ASSUME NEW S, NEW f, Summable(f, S)
  PROVE  IsSums(CHOOSE iter : IsSums(iter, f, S), f, S)
<1>. DEFINE n == Cardinality(S)
<1>1. Small(S, n) = SUBSET S
  BY SizeIs DEF Small
<1>2. n \in Nat
  BY FS_CardinalityType DEF Summable
<1>3. PICK g : IsSumsOfSmall(g, f, S, n)
  BY <1>2, SumsOfSmallExist
<1>4. IsSums(g, f, S)
  BY <1>1, <1>3 DEF IsSums, IsSumsOfSmall
<1>. QED  BY <1>4

\* They are integers.
LEMMA SumsAreIntegers ==
  ASSUME NEW S, NEW f, Summable(f, S), NEW iter, IsSums(iter, f, S)
  PROVE  \A s \in SUBSET S : iter[s] \in Int
<1>. DEFINE T == {n \in Nat : \A s \in SUBSET S : Cardinality(s) = n => iter[s] \in Int}
<1>1. ASSUME NEW s \in SUBSET S
      PROVE  /\ s = {} => iter[s] = 0
             /\ s # {} => iter[s] = f[AnyOf(s)] + iter[s \ {AnyOf(s)}]
  BY DEF IsSums, Summed
<1>2. 0 \in T
  <2>1. ASSUME NEW s \in SUBSET S, Cardinality(s) = 0
        PROVE  iter[s] \in Int
    <3>1. s = {}
      BY <2>1, SizeIs
    <3>2. iter[s] = 0
      BY <1>1, <3>1
    <3>. HIDE DEF T
    <3>. QED  BY <3>2
  <2>. QED  BY <2>1
<1>3. ASSUME NEW n \in Nat, n \in T
      PROVE  n + 1 \in T
  <2>1. ASSUME NEW s \in SUBSET S, Cardinality(s) = n + 1
        PROVE  iter[s] \in Int
    <3>1. s # {}
      BY <2>1, FS_EmptySet
    <3>2. f[AnyOf(s)] \in Int /\ s \ {AnyOf(s)} \in SUBSET S /\ Cardinality(s \ {AnyOf(s)}) = n
      BY <2>1, <3>1, AnyOfIs
    <3>3. iter[s \ {AnyOf(s)}] \in Int
      BY <1>3, <3>2
    <3>4. iter[s] = f[AnyOf(s)] + iter[s \ {AnyOf(s)}]
      BY <1>1, <3>1
    <3>. HIDE DEF T
    <3>. QED  BY <3>2, <3>3, <3>4
  <2>. QED  BY <2>1
<1>. HIDE DEF T
<1>4. \A n \in Nat : n \in T
  BY <1>2, <1>3, Induction
<1>. QED  BY <1>4, SizeIs DEF T

(* Any element may be taken out first.                                     *)
LEMMA SumsStep ==
  ASSUME NEW S, NEW f, Summable(f, S), NEW iter, IsSums(iter, f, S)
  PROVE  \A s \in SUBSET S : \A x \in s : iter[s] = f[x] + iter[s \ {x}]
<1>. DEFINE Good(s) == \A x \in s : iter[s] = f[x] + iter[s \ {x}]
            T == {n \in Nat : \A s \in SUBSET S : Cardinality(s) = n => Good(s)}
<1>1. \A s \in SUBSET S : s # {} => iter[s] = f[AnyOf(s)] + iter[s \ {AnyOf(s)}]
  BY DEF IsSums, Summed
<1>2. 0 \in T
  BY SizeIs
<1>3. ASSUME NEW n \in Nat, n \in T
      PROVE  n + 1 \in T
  <2>1. ASSUME NEW s \in SUBSET S, Cardinality(s) = n + 1
        PROVE  Good(s)
    <3>. DEFINE c == AnyOf(s)
    <3>1. s # {} /\ IsFiniteSet(s)
      BY <2>1, FS_EmptySet, SizeIs
    <3>2. c \in s /\ f[c] \in Int /\ Cardinality(s \ {c}) = n
      BY <2>1, <3>1, AnyOfIs
    <3>3. iter[s] = f[c] + iter[s \ {c}]
      BY <1>1, <3>1
    <3>. HIDE DEF c
    <3>4. s \ {c} \in SUBSET S /\ Good(s \ {c})
      BY <1>3, <3>2
    <3>5. ASSUME NEW x \in s, x # c
          PROVE  iter[s] = f[x] + iter[s \ {x}]
      <4>1. Cardinality(s \ {x}) = n /\ s \ {x} \in SUBSET S
        <5>1. Cardinality(s \ {x}) = Cardinality(s) - 1
          BY <3>1, FS_RemoveElement
        <5>. QED  BY <5>1, <2>1
      <4>2. Good(s \ {x}) /\ c \in s \ {x} /\ x \in s \ {c}
        BY <1>3, <4>1, <3>2, <3>5
      <4>3. iter[s \ {x}] = f[c] + iter[(s \ {x}) \ {c}]
        BY <4>2
      <4>4. iter[s \ {c}] = f[x] + iter[(s \ {c}) \ {x}]
        BY <3>4, <4>2
      <4>5. (s \ {x}) \ {c} = (s \ {c}) \ {x}
        OBVIOUS
      <4>6. f[x] \in Int
        BY DEF Summable
      <4>7. iter[(s \ {c}) \ {x}] \in Int
        <5>1. (s \ {c}) \ {x} \in SUBSET S
          OBVIOUS
        <5>. QED  BY <5>1, SumsAreIntegers
      <4>8. \A a, b, z \in Int : a + (b + z) = b + (a + z)
        OBVIOUS
      <4>. HIDE DEF T, Good
      <4>9. iter[s] = f[c] + (f[x] + iter[(s \ {c}) \ {x}])
        BY <3>3, <4>4
      <4>10. f[x] + iter[s \ {x}] = f[x] + (f[c] + iter[(s \ {c}) \ {x}])
        BY <4>3, <4>5
      <4>. QED  BY <3>2, <4>6, <4>7, <4>8, <4>9, <4>10
    <3>. QED  BY <3>3, <3>5
  <2>. QED  BY <2>1
<1>. HIDE DEF T
<1>4. \A n \in Nat : n \in T
  BY <1>2, <1>3, Induction
<1>. QED  BY <1>4, SizeIs DEF T

\* Two sums agree, whatever larger sets they were made for.
LEMMA SumsAgree ==
  ASSUME NEW S, NEW f, Summable(f, S), NEW iter, IsSums(iter, f, S),
         NEW U \in SUBSET S, NEW part, IsSums(part, f, U)
  PROVE  \A s \in SUBSET U : iter[s] = part[s]
<1>. DEFINE T == {n \in Nat : \A s \in SUBSET U : Cardinality(s) = n => iter[s] = part[s]}
<1>0. Summable(f, U)
  BY FS_Subset DEF Summable
<1>1. ASSUME NEW s \in SUBSET U
      PROVE  /\ s = {} => iter[s] = 0 /\ part[s] = 0
             /\ s # {} => /\ iter[s] = f[AnyOf(s)] + iter[s \ {AnyOf(s)}]
                          /\ part[s] = f[AnyOf(s)] + part[s \ {AnyOf(s)}]
  BY DEF IsSums, Summed
<1>2. 0 \in T
  <2>1. ASSUME NEW s \in SUBSET U, Cardinality(s) = 0
        PROVE  iter[s] = part[s]
    <3>1. s = {}
      BY <1>0, <2>1, SizeIs
    <3>. QED  BY <1>1, <3>1
  <2>. QED  BY <2>1
<1>3. ASSUME NEW n \in Nat, n \in T
      PROVE  n + 1 \in T
  <2>1. ASSUME NEW s \in SUBSET U, Cardinality(s) = n + 1
        PROVE  iter[s] = part[s]
    <3>1. s # {}
      BY <2>1, FS_EmptySet
    <3>2. s \ {AnyOf(s)} \in SUBSET U /\ Cardinality(s \ {AnyOf(s)}) = n
      BY <1>0, <2>1, <3>1, AnyOfIs
    <3>. QED  BY <1>1, <1>3, <3>1, <3>2
  <2>. QED  BY <2>1
<1>. HIDE DEF T
<1>4. \A n \in Nat : n \in T
  BY <1>2, <1>3, Induction
<1>. QED  BY <1>0, <1>4, SizeIs DEF T

(* What the other lemmas need to know of sums.                             *)

\* They are those of the module Functions.
LEMMA SumFunctionIs == \A f : SumFunction(f) = SumOver(f, DOMAIN f)
BY DEF SumFunction, SumFunctionOnSet, FoldFunctionOnSet, MapThenFoldSet,
       SumOver, IsSums, Summed, AnyOf

\* Nothing adds up to zero.
LEMMA SumEmpty == \A f : SumOver(f, {}) = 0
<1>. SUFFICES ASSUME NEW f
              PROVE  SumOver(f, {}) = 0
  OBVIOUS
<1>1. Summable(f, {})
  BY FS_EmptySet DEF Summable
<1>2. IsSums(CHOOSE iter : IsSums(iter, f, {}), f, {})
  BY <1>1, SumsExist
<1>. QED  BY <1>2 DEF IsSums, Summed, SumOver

\* The sum of integers is an integer.
LEMMA SumIsInteger ==
  ASSUME NEW S, NEW f, Summable(f, S)
  PROVE  SumOver(f, S) \in Int
BY SumsExist, SumsAreIntegers DEF SumOver

\* Any element may be taken out first.
LEMMA SumRemoves ==
  ASSUME NEW S, NEW f, Summable(f, S), NEW x \in S
  PROVE  SumOver(f, S) = f[x] + SumOver(f, S \ {x})
<1>. DEFINE whole == CHOOSE iter : IsSums(iter, f, S)
            part  == CHOOSE iter : IsSums(iter, f, S \ {x})
<1>1. IsSums(whole, f, S)
  BY SumsExist
<1>2. Summable(f, S \ {x})
  BY FS_Subset DEF Summable
<1>3. IsSums(part, f, S \ {x})
  BY <1>2, SumsExist
<1>. HIDE DEF whole, part
<1>4. whole[S] = f[x] + whole[S \ {x}]
  BY <1>1, SumsStep
<1>5. whole[S \ {x}] = part[S \ {x}]
  BY <1>1, <1>3, SumsAgree
<1>. QED  BY <1>4, <1>5 DEF SumOver, whole, part

(* A set of subsets of S that has the empty set and each of its members    *)
(* with one more element has S.                                            *)
LEMMA SetInduction ==
  ASSUME NEW S, IsFiniteSet(S), NEW G, {} \in G,
         \A s \in SUBSET S : \A x \in s : s \ {x} \in G => s \in G
  PROVE  S \in G
<1>. DEFINE T == {n \in Nat : \A s \in SUBSET S : Cardinality(s) = n => s \in G}
<1>1. ASSUME NEW s \in SUBSET S
      PROVE  IsFiniteSet(s) /\ Cardinality(s) \in Nat /\ (Cardinality(s) = 0 => s = {})
  <2>1. IsFiniteSet(s)
    BY FS_Subset
  <2>. QED  BY <2>1, FS_CardinalityType, FS_EmptySet
<1>2. 0 \in T
  BY <1>1
<1>3. ASSUME NEW n \in Nat, n \in T
      PROVE  n + 1 \in T
  <2>1. ASSUME NEW s \in SUBSET S, Cardinality(s) = n + 1
        PROVE  s \in G
    <3>1. s # {} /\ IsFiniteSet(s)
      BY <1>1, <2>1, FS_EmptySet
    <3>2. PICK x \in s : TRUE
      BY <3>1
    <3>3. Cardinality(s \ {x}) = Cardinality(s) - 1
      BY <3>1, FS_RemoveElement
    <3>4. s \ {x} \in SUBSET S /\ Cardinality(s \ {x}) = n
      BY <2>1, <3>3
    <3>5. s \ {x} \in G
      BY <1>3, <3>4
    <3>. QED  BY <3>5
  <2>. QED  BY <2>1
<1>. HIDE DEF T
<1>4. \A n \in Nat : n \in T
  BY <1>2, <1>3, Induction
<1>. QED  BY <1>1, <1>4 DEF T

\* The sum depends on the terms only.
LEMMA SumSame ==
  ASSUME NEW S, NEW f, NEW g, Summable(f, S), \A x \in S : f[x] = g[x]
  PROVE  SumOver(f, S) = SumOver(g, S)
<1>. DEFINE G == {s \in SUBSET S : SumOver(f, s) = SumOver(g, s)}
<1>1. {} \in G
  BY SumEmpty
<1>2. ASSUME NEW s \in SUBSET S, NEW x \in s, s \ {x} \in G
      PROVE  s \in G
  <2>1. Summable(f, s) /\ Summable(g, s)
    BY FS_Subset DEF Summable
  <2>2. SumOver(f, s) = f[x] + SumOver(f, s \ {x}) /\ SumOver(g, s) = g[x] + SumOver(g, s \ {x})
    BY <2>1, SumRemoves
  <2>. QED  BY <1>2, <2>2
<1>. HIDE DEF G
<1>3. S \in G
  BY <1>1, <1>2, SetInduction DEF Summable
<1>. QED  BY <1>3 DEF G

\* The sum of natural numbers.
LEMMA SumIsNatural ==
  ASSUME NEW S, NEW f, IsFiniteSet(S), \A x \in S : f[x] \in Nat
  PROVE  SumOver(f, S) \in Nat
<1>. DEFINE G == {s \in SUBSET S : SumOver(f, s) \in Nat}
<1>1. {} \in G
  BY SumEmpty
<1>2. ASSUME NEW s \in SUBSET S, NEW x \in s, s \ {x} \in G
      PROVE  s \in G
  <2>1. Summable(f, s)
    BY FS_Subset DEF Summable
  <2>2. SumOver(f, s) = f[x] + SumOver(f, s \ {x})
    BY <2>1, SumRemoves
  <2>. QED  BY <1>2, <2>2
<1>. HIDE DEF G
<1>3. S \in G
  BY <1>1, <1>2, SetInduction
<1>. QED  BY <1>3 DEF G

\* The sum of differences.
LEMMA SumMinus ==
  ASSUME NEW S, NEW f, NEW g, NEW h, Summable(f, S), Summable(g, S),
         \A x \in S : h[x] = f[x] - g[x]
  PROVE  SumOver(h, S) = SumOver(f, S) - SumOver(g, S)
<1>. DEFINE G == {s \in SUBSET S : SumOver(h, s) = SumOver(f, s) - SumOver(g, s)}
<1>1. {} \in G
  BY SumEmpty
<1>2. ASSUME NEW s \in SUBSET S, NEW x \in s, s \ {x} \in G
      PROVE  s \in G
  <2>. DEFINE t == s \ {x}
  <2>1. /\ Summable(f, s) /\ Summable(g, s) /\ Summable(h, s)
        /\ Summable(f, t) /\ Summable(g, t) /\ Summable(h, t)
    BY FS_Subset DEF Summable
  <2>2. /\ SumOver(f, s) = f[x] + SumOver(f, t)
        /\ SumOver(g, s) = g[x] + SumOver(g, t)
        /\ SumOver(h, s) = h[x] + SumOver(h, t)
    BY <2>1, SumRemoves
  <2>3. SumOver(h, t) = SumOver(f, t) - SumOver(g, t)
    BY <1>2
  <2>4. SumOver(f, t) \in Int /\ SumOver(g, t) \in Int /\ f[x] \in Int /\ g[x] \in Int
    BY <2>1, SumIsInteger DEF Summable
  <2>. HIDE DEF t
  <2>. QED  BY <2>2, <2>3, <2>4
<1>. HIDE DEF G
<1>3. S \in G
  BY <1>1, <1>2, SetInduction DEF Summable
<1>. QED  BY <1>3 DEF G

\* The sum over two sets that have nothing in common.
LEMMA SumDisjoint ==
  ASSUME NEW f, NEW S, NEW T, Summable(f, S), Summable(f, T), S \cap T = {}
  PROVE  /\ Summable(f, S \cup T)
         /\ SumOver(f, S \cup T) = SumOver(f, S) + SumOver(f, T)
<1>. DEFINE G == {s \in SUBSET S : SumOver(f, s \cup T) = SumOver(f, s) + SumOver(f, T)}
<1>1. Summable(f, S \cup T)
  BY FS_Union DEF Summable
<1>2. {} \in G
  <2>1. {} \cup T = T /\ SumOver(f, T) \in Int
    BY SumIsInteger
  <2>. QED  BY <2>1, SumEmpty
<1>3. ASSUME NEW s \in SUBSET S, NEW x \in s, s \ {x} \in G
      PROVE  s \in G
  <2>. DEFINE t == s \ {x}
  <2>1. Summable(f, s) /\ Summable(f, t) /\ Summable(f, s \cup T)
    <3>1. IsFiniteSet(s) /\ IsFiniteSet(t) /\ IsFiniteSet(s \cup T)
      BY <1>1, FS_Subset DEF Summable
    <3>. QED  BY <3>1 DEF Summable
  <2>2. (s \cup T) \ {x} = t \cup T
    OBVIOUS
  <2>3. SumOver(f, s) = f[x] + SumOver(f, t)
    BY <2>1, SumRemoves
  <2>4. SumOver(f, s \cup T) = f[x] + SumOver(f, t \cup T)
    BY <2>1, <2>2, SumRemoves
  <2>5. SumOver(f, t \cup T) = SumOver(f, t) + SumOver(f, T)
    BY <1>3
  <2>6. SumOver(f, t) \in Int /\ SumOver(f, T) \in Int /\ f[x] \in Int
    BY <2>1, SumIsInteger DEF Summable
  <2>. HIDE DEF t
  <2>. QED  BY <2>3, <2>4, <2>5, <2>6
<1>. HIDE DEF G
<1>4. S \in G
  BY <1>2, <1>3, SetInduction DEF Summable
<1>. QED  BY <1>1, <1>4 DEF G

\* A list with one more element.
LEMMA SumUpTo ==
  ASSUME NEW n \in Nat, NEW f, \A k \in 1..(n + 1) : f[k] \in Int
  PROVE  /\ Summable(f, 1..n) /\ Summable(f, 1..(n + 1))
         /\ SumOver(f, 1..(n + 1)) = SumOver(f, 1..n) + f[n + 1]
<1>1. IsFiniteSet(1..n) /\ IsFiniteSet(1..(n + 1))
  BY FS_Interval
<1>2. Summable(f, 1..n) /\ Summable(f, 1..(n + 1))
  BY <1>1 DEF Summable
<1>3. n + 1 \in 1..(n + 1) /\ (1..(n + 1)) \ {n + 1} = 1..n
  OBVIOUS
<1>4. SumOver(f, 1..(n + 1)) = f[n + 1] + SumOver(f, 1..n)
  BY <1>2, <1>3, SumRemoves
<1>5. SumOver(f, 1..n) \in Int /\ f[n + 1] \in Int
  BY <1>2, SumIsInteger
<1>. QED  BY <1>2, <1>4, <1>5

\* The sum of zeros, and of what is zero outside a set.
LEMMA SumOfZeros ==
  ASSUME NEW S, NEW f, IsFiniteSet(S), \A x \in S : f[x] = 0
  PROVE  SumOver(f, S) = 0
<1>. DEFINE G == {s \in SUBSET S : SumOver(f, s) = 0}
<1>1. {} \in G
  BY SumEmpty
<1>2. ASSUME NEW s \in SUBSET S, NEW x \in s, s \ {x} \in G
      PROVE  s \in G
  <2>1. Summable(f, s)
    BY FS_Subset DEF Summable
  <2>2. SumOver(f, s) = f[x] + SumOver(f, s \ {x})
    BY <2>1, SumRemoves
  <2>. QED  BY <1>2, <2>2
<1>. HIDE DEF G
<1>3. S \in G
  BY <1>1, <1>2, SetInduction
<1>. QED  BY <1>3 DEF G

LEMMA SumWithin ==
  ASSUME NEW S, NEW f, Summable(f, S), NEW T \in SUBSET S, \A x \in S \ T : f[x] = 0
  PROVE  Summable(f, T) /\ SumOver(f, S) = SumOver(f, T)
<1>1. Summable(f, T) /\ Summable(f, S \ T)
  BY FS_Subset DEF Summable
<1>2. T \cup (S \ T) = S /\ T \cap (S \ T) = {}
  OBVIOUS
<1>. DEFINE R == S \ T
<1>3. SumOver(f, S) = SumOver(f, T) + SumOver(f, R)
  <2>. HIDE DEF R
  <2>1. SumOver(f, T \cup R) = SumOver(f, T) + SumOver(f, R)
    BY <1>1, <1>2, SumDisjoint DEF R
  <2>. QED  BY <1>2, <2>1 DEF R
<1>4. SumOver(f, S \ T) = 0
  BY <1>1, SumOfZeros DEF Summable
<1>5. SumOver(f, T) \in Int
  BY <1>1, SumIsInteger
<1>. QED  BY <1>1, <1>2, <1>3, <1>4, <1>5

\* The sum over a family of sets that have nothing in common.
LEMMA SumUnion ==
  ASSUME NEW I, IsFiniteSet(I), NEW T, NEW f, NEW g,
         \A i \in I : Summable(f, T[i]) /\ g[i] = SumOver(f, T[i]),
         \A i, j \in I : i # j => T[i] \cap T[j] = {}
  PROVE  /\ Summable(f, UNION {T[i] : i \in I})
         /\ SumOver(f, UNION {T[i] : i \in I}) = SumOver(g, I)
<1>. DEFINE U(s) == UNION {T[i] : i \in s}
            G == {s \in SUBSET I : Summable(f, U(s)) /\ SumOver(f, U(s)) = SumOver(g, s)}
<1>1. {} \in G
  <2>1. U({}) = {}
    OBVIOUS
  <2>. HIDE DEF U
  <2>2. Summable(f, {})
    BY FS_EmptySet DEF Summable
  <2>. QED  BY <2>1, <2>2, SumEmpty
<1>2. ASSUME NEW s \in SUBSET I, NEW x \in s, s \ {x} \in G
      PROVE  s \in G
  <2>. DEFINE t == s \ {x}
  <2>1. U(s) = T[x] \cup U(t) /\ T[x] \cap U(t) = {}
    OBVIOUS
  <2>2. Summable(f, U(t)) /\ SumOver(f, U(t)) = SumOver(g, t)
    BY <1>2
  <2>. HIDE DEF U
  <2>3. Summable(f, T[x]) /\ g[x] = SumOver(f, T[x])
    OBVIOUS
  <2>4. Summable(f, U(s)) /\ SumOver(f, U(s)) = SumOver(f, T[x]) + SumOver(f, U(t))
    <3>. DEFINE A == T[x]
                B == U(t)
    <3>1. Summable(f, A) /\ Summable(f, B) /\ A \cap B = {}
      BY <2>1, <2>2, <2>3
    <3>. HIDE DEF A, B
    <3>2. Summable(f, A \cup B) /\ SumOver(f, A \cup B) = SumOver(f, A) + SumOver(f, B)
      BY <3>1, SumDisjoint
    <3>. QED  BY <2>1, <3>2 DEF A, B
  <2>5. Summable(g, s)
    <3>1. \A i \in s : g[i] \in Int
      BY SumIsInteger
    <3>. QED  BY <3>1, FS_Subset DEF Summable
  <2>6. SumOver(g, s) = g[x] + SumOver(g, t)
    BY <2>5, SumRemoves
  <2>. QED  BY <2>2, <2>3, <2>4, <2>6
<1>. HIDE DEF G
<1>3. I \in G
  BY <1>1, <1>2, SetInduction
<1>. QED  BY <1>3 DEF G

\* The sum over things that have different names.
LEMMA SumImage ==
  ASSUME NEW D, IsFiniteSet(D), NEW h, NEW f, NEW g,
         \A i \in D : f[h[i]] \in Int /\ g[i] = f[h[i]],
         \A i, j \in D : h[i] = h[j] => i = j
  PROVE  /\ Summable(f, {h[i] : i \in D})
         /\ SumOver(f, {h[i] : i \in D}) = SumOver(g, D)
<1>. DEFINE T == [i \in D |-> {h[i]}]
<1>1. ASSUME NEW i \in D
      PROVE  Summable(f, T[i]) /\ g[i] = SumOver(f, T[i])
  <2>1. T[i] = {h[i]} /\ {h[i]} \ {h[i]} = {}
    OBVIOUS
  <2>2. Summable(f, {h[i]})
    BY FS_Singleton DEF Summable
  <2>3. SumOver(f, {h[i]}) = f[h[i]] + SumOver(f, {})
    BY <2>1, <2>2, SumRemoves
  <2>. QED  BY <2>1, <2>2, <2>3, SumEmpty
<1>2. \A i, j \in D : i # j => T[i] \cap T[j] = {}
  OBVIOUS
<1>3. UNION {T[i] : i \in D} = {h[i] : i \in D}
  OBVIOUS
<1>. HIDE DEF T
<1>. QED  BY <1>1, <1>2, <1>3, SumUnion

-----------------------------------------------------------------------------
(* Points.                                                                 *)

\* The sum of points is a point.
LEMMA PlusIsPoint ==
  ASSUME NEW p \in [Basis -> Int], NEW q \in [Basis -> Int]
  PROVE  Plus(p, q) \in Points
BY OrderAssumption DEF Plus, Points, Scalars

\* So is their difference,
LEMMA MinusIsPoint ==
  ASSUME NEW p \in [Basis -> Int], NEW q \in [Basis -> Int]
  PROVE  Minus(p, q) \in Points
BY OrderAssumption DEF Minus, Points, Scalars

\* a multiple,
LEMMA TimesIsPoint ==
  ASSUME NEW p \in [Basis -> Int], NEW k \in Int
  PROVE  Times(p, k) \in Points
<1>1. \A b \in Basis : p[b] * k \in Int
  OBVIOUS
<1>2. \A x \in Int : x % Order \in Scalars
  BY OrderAssumption DEF Scalars
<1>. QED  BY <1>1, <1>2 DEF Times, Points

\* The coordinates of a point are integers.
LEMMA PointsAreIntegers == Points \subseteq [Basis -> Int]
BY OrderAssumption DEF Points, Scalars

\* an element of the basis
LEMMA BasisPointIsPoint == \A b : BasisPoint(b) \in Points
BY OrderAssumption DEF BasisPoint, Points, Scalars

\* and the neutral element.
LEMMA IdentityIsPoint == Identity \in Points
BY OrderAssumption DEF Identity, Points, Scalars

-----------------------------------------------------------------------------
(* Integers that are equal modulo the order.                               *)

Cong(a, b) == \E q \in Int : a = b + q * Order

\* Reducing changes nothing.
LEMMA CongMod ==
  ASSUME NEW x \in Int
  PROVE  x % Order \in Int /\ Cong(x % Order, x)
<1>1. Order \in Nat /\ Order > 0
  BY OrderAssumption
<1>2. x = (x \div Order) * Order + (x % Order) /\ x \div Order \in Int /\ x % Order \in Int
  BY <1>1, Division
<1>. DEFINE q == x \div Order
            r == x % Order
<1>. HIDE DEF q, r
<1>3. r = x + (-q) * Order /\ -q \in Int
  BY <1>1, <1>2 DEF q, r
<1>. QED  BY <1>2, <1>3 DEF Cong, r

LEMMA CongSame == \A x \in Int : Cong(x, x)
<1>1. \A x \in Int : x = x + 0 * Order
  BY OrderAssumption
<1>. QED  BY <1>1 DEF Cong

LEMMA CongBack ==
  ASSUME NEW a \in Int, NEW b \in Int, Cong(a, b)
  PROVE  Cong(b, a)
<1>1. PICK q \in Int : a = b + q * Order
  BY DEF Cong
<1>2. b = a + (-q) * Order /\ -q \in Int
  BY <1>1, OrderAssumption
<1>. QED  BY <1>2 DEF Cong

LEMMA CongThen ==
  ASSUME NEW a \in Int, NEW b \in Int, NEW c \in Int, Cong(a, b), Cong(b, c)
  PROVE  Cong(a, c)
<1>1. PICK q \in Int : a = b + q * Order
  BY DEF Cong
<1>2. PICK r \in Int : b = c + r * Order
  BY DEF Cong
<1>3. a = c + (q + r) * Order /\ q + r \in Int
  BY <1>1, <1>2, OrderAssumption
<1>. QED  BY <1>3 DEF Cong

LEMMA CongPlus ==
  ASSUME NEW a \in Int, NEW b \in Int, NEW c \in Int, NEW d \in Int, Cong(a, b), Cong(c, d)
  PROVE  Cong(a + c, b + d) /\ Cong(a - c, b - d)
<1>1. PICK q \in Int : a = b + q * Order
  BY DEF Cong
<1>2. PICK r \in Int : c = d + r * Order
  BY DEF Cong
<1>3. a + c = (b + d) + (q + r) * Order /\ q + r \in Int
  BY <1>1, <1>2, OrderAssumption
<1>4. a - c = (b - d) + (q - r) * Order /\ q - r \in Int
  BY <1>1, <1>2, OrderAssumption
<1>. QED  BY <1>3, <1>4 DEF Cong

\* Two integers that are closer than the order are equal.
LEMMA CongClose ==
  ASSUME NEW a \in Int, NEW b \in Int, Cong(a, b), a - b < Order, b - a < Order
  PROVE  a = b
<1>1. PICK q \in Int : a = b + q * Order
  BY DEF Cong
<1>2. Order \in Nat /\ Order > 0
  BY OrderAssumption
<1>3. CASE q >= 1
  <2>1. q * Order >= Order
    BY <1>2, <1>3
  <2>. QED  BY <1>1, <1>2, <2>1
<1>4. CASE q <= -1
  <2>1. q * Order <= -Order
    BY <1>2, <1>4
  <2>. QED  BY <1>1, <1>2, <2>1
<1>5. CASE q = 0
  BY <1>1, <1>2, <1>5
<1>. QED  BY <1>3, <1>4, <1>5

\* Sums of equal terms.
LEMMA CongSum ==
  ASSUME NEW S, NEW f, NEW g, Summable(f, S), Summable(g, S), \A x \in S : Cong(f[x], g[x])
  PROVE  Cong(SumOver(f, S), SumOver(g, S))
<1>. DEFINE A == {s \in SUBSET S : Cong(SumOver(f, s), SumOver(g, s))}
<1>1. {} \in A
  BY SumEmpty, CongSame
<1>2. ASSUME NEW s \in SUBSET S, NEW x \in s, s \ {x} \in A
      PROVE  s \in A
  <2>. DEFINE t == s \ {x}
  <2>1. Summable(f, s) /\ Summable(g, s) /\ Summable(f, t) /\ Summable(g, t)
    BY FS_Subset DEF Summable
  <2>2. SumOver(f, s) = f[x] + SumOver(f, t) /\ SumOver(g, s) = g[x] + SumOver(g, t)
    BY <2>1, SumRemoves
  <2>3. /\ SumOver(f, t) \in Int /\ SumOver(g, t) \in Int /\ f[x] \in Int /\ g[x] \in Int
        /\ Cong(f[x], g[x])
    BY <2>1, SumIsInteger DEF Summable
  <2>4. Cong(SumOver(f, t), SumOver(g, t))
    BY <1>2
  <2>. HIDE DEF t
  <2>. QED  BY <2>2, <2>3, <2>4, CongPlus
<1>. HIDE DEF A
<1>3. S \in A
  BY <1>1, <1>2, SetInduction DEF Summable
<1>. QED  BY <1>3 DEF A

\* What the entries of a list add to one scalar of the delta.
Coordinates(table, entries, b) == [k \in DOMAIN entries |-> ToDelta(table, entries[k])[b]]

-----------------------------------------------------------------------------
(* What entries have of a kind, and what of it the delta shows.            *)

Share(entries, kind) ==
  [k \in DOMAIN entries |-> IF KindOf(entries[k].resource) = kind
                            THEN entries[k].resource.quantity ELSE 0]

LEMMA QuantityIs ==
  \A entries, kind : Quantity(entries, kind) = SumOver(Share(entries, kind), DOMAIN entries)
<1>. SUFFICES ASSUME NEW entries, NEW kind
              PROVE  Quantity(entries, kind) = SumOver(Share(entries, kind), DOMAIN entries)
  OBVIOUS
<1>1. Quantity(entries, kind) = SumOver(Share(entries, kind), DOMAIN Share(entries, kind))
  BY SumFunctionIs DEF Quantity, Share
<1>2. DOMAIN Share(entries, kind) = DOMAIN entries
  BY DEF Share
<1>. QED  BY <1>1, <1>2

LEMMA TotalIs ==
  \A table, entries, b :
     Total(table, entries, b) = SumOver(Coordinates(table, entries, b), DOMAIN entries)
<1>. SUFFICES ASSUME NEW table, NEW entries, NEW b
              PROVE  Total(table, entries, b)
                       = SumOver(Coordinates(table, entries, b), DOMAIN entries)
  OBVIOUS
<1>. DEFINE f == Coordinates(table, entries, b)
<1>1. Total(table, entries, b) = SumOver(f, DOMAIN f)
  BY SumFunctionIs DEF Total, Coordinates
<1>2. DOMAIN f = DOMAIN entries
  BY DEF Coordinates
<1>. QED  BY <1>1, <1>2

\* What an entry has of a kind, if no kind is registered.
LEMMA DeltaOfEntry ==
  ASSUME NEW e, e.resource.quantity \in Nat, e.deltaExtraInput \in Nat, NEW kind \in Kinds
  PROVE  /\ ToDelta(<<>>, e)[kind] \in Int
         /\ Cong(ToDelta(<<>>, e)[kind],
                 IF KindOf(e.resource) = kind THEN e.resource.quantity ELSE 0)
<1>. DEFINE q == e.resource.quantity
            x == e.deltaExtraInput
            p == BasisPoint(KindOf(e.resource))
            s == IF KindOf(e.resource) = kind THEN q ELSE 0
<1>1. LookupKind(<<>>, e.resource) = p
  BY DEF LookupKind, ComputeKind
<1>2. kind \in Basis /\ kind # Generator
  BY GeneratorAssumption DEF Basis
<1>3. /\ Times(p, q)[kind] = (p[kind] * q) % Order
      /\ Times(BasisPoint(Generator), x)[kind] = (BasisPoint(Generator)[kind] * x) % Order
  BY <1>2 DEF Times
<1>4. p[kind] * q = s /\ BasisPoint(Generator)[kind] * x = 0 /\ s \in Int
  BY <1>2 DEF BasisPoint
<1>5. ToDelta(<<>>, e)[kind] = ((s % Order) + (0 % Order)) % Order
  BY <1>1, <1>2, <1>3, <1>4 DEF ToDelta, Plus
<1>. HIDE DEF q, x, p, s
<1>6. 0 % Order = 0
  BY OrderAssumption
<1>7. s % Order \in Int /\ Cong(s % Order, s)
  BY <1>4, CongMod
<1>8. (s % Order) + (0 % Order) = s % Order
  BY <1>6, <1>7
<1>9. (s % Order) % Order \in Int /\ Cong((s % Order) % Order, s % Order)
  BY <1>7, CongMod
<1>10. ToDelta(<<>>, e)[kind] \in Int /\ Cong(ToDelta(<<>>, e)[kind], s)
  BY <1>4, <1>5, <1>7, <1>8, <1>9, CongThen
<1>. QED  BY <1>10 DEF s, q

LEMMA DeltaOfEntries ==
  ASSUME NEW entries, IsFiniteSet(DOMAIN entries), NEW kind \in Kinds, AreNumbers(entries)
  PROVE  /\ Quantity(entries, kind) \in Nat
         /\ Total(<<>>, entries, kind) \in Int
         /\ Cong(Total(<<>>, entries, kind), Quantity(entries, kind))
<1>. DEFINE f == Share(entries, kind)
            g == Coordinates(<<>>, entries, kind)
<1>1. ASSUME NEW k \in DOMAIN entries
      PROVE  f[k] \in Nat /\ g[k] \in Int /\ Cong(g[k], f[k])
  BY DeltaOfEntry DEF Share, Coordinates, AreNumbers
<1>. HIDE DEF f, g
<1>2. Summable(f, DOMAIN entries) /\ Summable(g, DOMAIN entries)
  BY <1>1 DEF Summable
<1>3. SumOver(f, DOMAIN entries) \in Nat
  BY <1>1, SumIsNatural
<1>4. SumOver(g, DOMAIN entries) \in Int
  BY <1>2, SumIsInteger
<1>5. Cong(SumOver(g, DOMAIN entries), SumOver(f, DOMAIN entries))
  BY <1>1, <1>2, CongSum
<1>. QED  BY <1>3, <1>4, <1>5, QuantityIs, TotalIs DEF f, g

\* If no kind is registered, the delta of a witness has for a kind what is
\* created less what is consumed.
LEMMA DeltaOfWitness ==
  ASSUME NEW w, IsFiniteSet(DOMAIN w.consumed), IsFiniteSet(DOMAIN w.created),
         HasNumbers(w), w.kindTable = <<>>, NEW kind \in Kinds
  PROVE  /\ Quantity(w.created, kind) \in Nat /\ Quantity(w.consumed, kind) \in Nat
         /\ NetDelta(w)[kind] \in Int
         /\ Cong(NetDelta(w)[kind], Quantity(w.created, kind) - Quantity(w.consumed, kind))
<1>. DEFINE made == Total(<<>>, w.created, kind)
            used == Total(<<>>, w.consumed, kind)
<1>1. AreNumbers(w.consumed) /\ AreNumbers(w.created)
  BY DEF HasNumbers
<1>2. /\ Quantity(w.created, kind) \in Nat /\ made \in Int
      /\ Cong(made, Quantity(w.created, kind))
  BY <1>1, DeltaOfEntries
<1>3. /\ Quantity(w.consumed, kind) \in Nat /\ used \in Int
      /\ Cong(used, Quantity(w.consumed, kind))
  BY <1>1, DeltaOfEntries
<1>4. NetDelta(w)[kind] = (made - used) % Order
  BY DEF NetDelta, Basis
<1>. HIDE DEF made, used
<1>5. Cong(made - used, Quantity(w.created, kind) - Quantity(w.consumed, kind))
  BY <1>2, <1>3, CongPlus
<1>6. made - used \in Int /\ Quantity(w.created, kind) - Quantity(w.consumed, kind) \in Int
  BY <1>2, <1>3
<1>7. NetDelta(w)[kind] \in Int /\ Cong(NetDelta(w)[kind], made - used)
  BY <1>4, <1>6, CongMod
<1>8. Cong(NetDelta(w)[kind], Quantity(w.created, kind) - Quantity(w.consumed, kind))
  BY <1>5, <1>6, <1>7, CongThen
<1>. QED  BY <1>2, <1>3, <1>7, <1>8

\* If deltas cancel, so do the quantities they stand for, which are too small
\* to be a multiple of the order apart.
LEMMA SmallSumsCancel ==
  ASSUME NEW D, IsFiniteSet(D), NEW made, NEW used, NEW deltas,
         \A u \in D : /\ made[u] \in Nat /\ used[u] \in Nat /\ deltas[u] \in Int
                      /\ Cong(deltas[u], made[u] - used[u]),
         SumOver(made, D) < Order, SumOver(used, D) < Order, Cong(0, SumOver(deltas, D))
  PROVE  SumOver(made, D) = SumOver(used, D)
<1>. DEFINE net == [u \in D |-> made[u] - used[u]]
<1>1. \A u \in D : net[u] = made[u] - used[u]
  OBVIOUS
<1>. HIDE DEF net
<1>2. Summable(made, D) /\ Summable(used, D) /\ Summable(net, D) /\ Summable(deltas, D)
  BY <1>1 DEF Summable
<1>3. SumOver(net, D) = SumOver(made, D) - SumOver(used, D)
  BY <1>1, <1>2, SumMinus
<1>4. SumOver(made, D) \in Nat /\ SumOver(used, D) \in Nat
  BY SumIsNatural
<1>5. SumOver(net, D) \in Int /\ SumOver(deltas, D) \in Int
  BY <1>2, SumIsInteger
<1>6. Cong(SumOver(deltas, D), SumOver(net, D))
  BY <1>1, <1>2, CongSum
<1>7. Cong(0, SumOver(net, D))
  BY <1>5, <1>6, CongThen
<1>8. 0 - SumOver(net, D) < Order /\ SumOver(net, D) - 0 < Order
  BY <1>3, <1>4, OrderAssumption
<1>9. 0 = SumOver(net, D)
  BY <1>5, <1>7, <1>8, CongClose
<1>. QED  BY <1>3, <1>4, <1>9

-----------------------------------------------------------------------------
(* Hashes.                                                                 *)

(* Keccak being free of collisions, nonces of one action differ as long as *)
(* the indices do.                                                         *)
LEMMA NonceDetermines ==
  ASSUME NEW S, NEW s \in Seq(S), NEW T, NEW t \in Seq(T),
         NEW i \in 0..(IndexModulus - 1), NEW j \in 0..(IndexModulus - 1),
         CreatedNonce(s, i) = CreatedNonce(t, j)
  PROVE  s = t /\ i = j
<1>. DEFINE x == [u32 |-> i % IndexModulus]
            y == [u32 |-> j % IndexModulus]
<1>1. Append(s, x) = Append(t, y)
  BY DEF CreatedNonce, Keccak
<1>2. s \in Seq(S \cup T \cup {x, y}) /\ t \in Seq(S \cup T \cup {x, y})
  OBVIOUS
<1>3. s = t /\ x = y
  BY <1>1, <1>2, AppendInjective
<1>4. i % IndexModulus = i /\ j % IndexModulus = j
  BY IndexAssumption
<1>. QED  BY <1>3, <1>4

\* A commitment determines the resource,
LEMMA CommitDetermines ==
  ASSUME NEW r, NEW s, Commit(r) = Commit(s)
  PROVE  r = s
BY DEF Commit, Keccak

\* and the digest of a journal the journal.
LEMMA JournalDetermines ==
  ASSUME NEW j, NEW k, JournalDigest(j) = JournalDigest(k)
  PROVE  j = k
BY DEF JournalDigest, Keccak

-----------------------------------------------------------------------------
(* The recursive definitions mean what they say.                           *)

\* The default nodes up to a height.
IsEmptyNodes(node, height) ==
  node = [h \in 0..height |-> IF h = 0 THEN Keccak(<<EmptyLeaf>>)
                              ELSE HashTwo(node[h - 1], node[h - 1])]

\* There are default nodes up to every height.
LEMMA EmptyNodesExist == \A height \in Nat : \E node : IsEmptyNodes(node, height)
<1>. DEFINE T == {height \in Nat : \E node : IsEmptyNodes(node, height)}
<1>1. 0 \in T
  <2>. DEFINE node == [h \in 0..0 |-> Keccak(<<EmptyLeaf>>)]
  <2>1. IsEmptyNodes(node, 0)
    BY DEF IsEmptyNodes
  <2>. QED  BY <2>1
<1>2. ASSUME NEW n \in Nat, n \in T
      PROVE  n + 1 \in T
  <2>1. PICK node : IsEmptyNodes(node, n)
    BY <1>2
  <2>. DEFINE more == [h \in 0..(n + 1) |-> IF h <= n THEN node[h] ELSE HashTwo(node[n], node[n])]
  <2>2. \A h \in 0..(n + 1) :
          more[h] = IF h = 0 THEN Keccak(<<EmptyLeaf>>) ELSE HashTwo(more[h - 1], more[h - 1])
    <3>1. \A h \in 0..n : node[h] = IF h = 0 THEN Keccak(<<EmptyLeaf>>)
                                    ELSE HashTwo(node[h - 1], node[h - 1])
      BY <2>1 DEF IsEmptyNodes
    <3>. QED  BY <3>1
  <2>3. IsEmptyNodes(more, n + 1)
    BY <2>2 DEF IsEmptyNodes
  <2>. QED  BY <2>3
<1>. HIDE DEF T
<1>3. \A n \in Nat : n \in T
  BY <1>1, <1>2, Induction
<1>. QED  BY <1>3 DEF T

\* EmptyNode is the last of them.
LEMMA EmptyNodeIs ==
  ASSUME NEW height \in Nat
  PROVE  \E node : IsEmptyNodes(node, height) /\ EmptyNode(height) = node[height]
<1>. DEFINE node == CHOOSE node : node = [h \in 0..height |-> IF h = 0 THEN Keccak(<<EmptyLeaf>>)
                              ELSE HashTwo(node[h - 1], node[h - 1])]
<1>1. IsEmptyNodes(node, height)
  BY EmptyNodesExist DEF IsEmptyNodes
<1>2. EmptyNode(height) = node[height]
  BY DEF EmptyNode
<1>. QED  BY <1>1, <1>2

\* Two lists of default nodes agree as far as both reach.
LEMMA EmptyNodesAgree ==
  ASSUME NEW m \in Nat, NEW n \in Nat, NEW a, NEW b,
         IsEmptyNodes(a, m), IsEmptyNodes(b, n)
  PROVE  \A h \in Nat : h <= m /\ h <= n => a[h] = b[h]
<1>. DEFINE T == {h \in Nat : h <= m /\ h <= n => a[h] = b[h]}
<1>1. /\ \A h \in 0..m : a[h] = IF h = 0 THEN Keccak(<<EmptyLeaf>>)
                                ELSE HashTwo(a[h - 1], a[h - 1])
      /\ \A h \in 0..n : b[h] = IF h = 0 THEN Keccak(<<EmptyLeaf>>)
                                ELSE HashTwo(b[h - 1], b[h - 1])
  BY DEF IsEmptyNodes
<1>2. 0 \in T
  BY <1>1
<1>3. ASSUME NEW h \in Nat, h \in T
      PROVE  h + 1 \in T
  BY <1>1, <1>3
<1>. HIDE DEF T
<1>4. \A h \in Nat : h \in T
  BY <1>2, <1>3, Induction
<1>. QED  BY <1>4 DEF T

\* Each default node is the parent of two of the height below.
LEMMA EmptyNodeSteps ==
  /\ EmptyNode(0) = Keccak(<<EmptyLeaf>>)
  /\ \A h \in Nat : EmptyNode(h + 1) = HashTwo(EmptyNode(h), EmptyNode(h))
<1>1. EmptyNode(0) = Keccak(<<EmptyLeaf>>)
  <2>1. PICK node : IsEmptyNodes(node, 0) /\ EmptyNode(0) = node[0]
    BY EmptyNodeIs
  <2>. QED  BY <2>1 DEF IsEmptyNodes
<1>2. ASSUME NEW h \in Nat
      PROVE  EmptyNode(h + 1) = HashTwo(EmptyNode(h), EmptyNode(h))
  <2>1. PICK a : IsEmptyNodes(a, h) /\ EmptyNode(h) = a[h]
    BY EmptyNodeIs
  <2>2. PICK b : IsEmptyNodes(b, h + 1) /\ EmptyNode(h + 1) = b[h + 1]
    BY EmptyNodeIs
  <2>3. a[h] = b[h]
    BY <2>1, <2>2, EmptyNodesAgree
  <2>4. b[h + 1] = HashTwo(b[h], b[h])
    BY <2>2 DEF IsEmptyNodes
  <2>. QED  BY <2>1, <2>2, <2>3, <2>4
<1>. QED  BY <1>1, <1>2

\* The depth is the least that has room for all leaves.
LEMMA DepthIs ==
  ASSUME NEW n \in Nat
  PROVE  /\ Depth(n) \in Nat
         /\ n <= 2^Depth(n)
         /\ \A d \in Nat : d < Depth(n) => 2^d < n
<1>. DEFINE T == {d \in Nat : n <= 2^d}
<1>1. n \in T
  BY PowerPositive
<1>2. PICK d \in T : \A c \in T : d <= c
  BY <1>1, Least
<1>3. d \in 0..n /\ 2^d >= n /\ \A c \in 0..(d - 1) : 2^c < n
  BY <1>1, <1>2, PowerPositive
<1>4. Depth(n) \in 0..n /\ 2^Depth(n) >= n /\ \A c \in 0..(Depth(n) - 1) : 2^c < n
  BY <1>3 DEF Depth
<1>5. 2^Depth(n) \in Nat
  BY <1>4, PowerPositive
<1>. QED  BY <1>4, <1>5

\* The levels up to a depth.
IsNodes(tree, leaves, depth) ==
  tree = [h \in 0..depth |-> IF h = 0 THEN leaves ELSE Parents(tree[h - 1], h - 1)]

\* Over any leaves there are levels up to every height.
LEMMA NodesExist == \A leaves : \A depth \in Nat : \E tree : IsNodes(tree, leaves, depth)
<1>. TAKE leaves
<1>. DEFINE T == {depth \in Nat : \E tree : IsNodes(tree, leaves, depth)}
<1>1. 0 \in T
  <2>. DEFINE tree == [h \in 0..0 |-> leaves]
  <2>1. IsNodes(tree, leaves, 0)
    BY DEF IsNodes
  <2>. QED  BY <2>1
<1>2. ASSUME NEW n \in Nat, n \in T
      PROVE  n + 1 \in T
  <2>1. PICK tree : IsNodes(tree, leaves, n)
    BY <1>2
  <2>. DEFINE more == [h \in 0..(n + 1) |-> IF h <= n THEN tree[h] ELSE Parents(tree[n], n)]
  <2>2. \A h \in 0..(n + 1) :
          more[h] = IF h = 0 THEN leaves ELSE Parents(more[h - 1], h - 1)
    <3>1. \A h \in 0..n : tree[h] = IF h = 0 THEN leaves ELSE Parents(tree[h - 1], h - 1)
      BY <2>1 DEF IsNodes
    <3>. QED  BY <3>1
  <2>3. IsNodes(more, leaves, n + 1)
    BY <2>2 DEF IsNodes
  <2>. QED  BY <2>3
<1>. HIDE DEF T
<1>3. \A n \in Nat : n \in T
  BY <1>1, <1>2, Induction
<1>. QED  BY <1>3 DEF T

\* A level that stores nodes, and a tree with its leaves.
IsLevel(level, size) ==
  /\ size \in Nat \ {0}
  /\ level = [k \in 1..size |-> level[k]]
  /\ Len(level) = size

IsTree(tree, leaves, depth) ==
  /\ depth \in Nat
  /\ IsLevel(leaves, Len(leaves))
  /\ IsNodes(tree, leaves, depth)

\* ComputeTree builds the levels up to the depth.
LEMMA TreeIs ==
  ASSUME NEW leaves, IsLevel(leaves, Len(leaves))
  PROVE  IsTree(ComputeTree(leaves), leaves, Depth(Len(leaves)))
<1>1. Depth(Len(leaves)) \in Nat
  BY DepthIs DEF IsLevel
<1>2. \E tree : IsNodes(tree, leaves, Depth(Len(leaves)))
  BY <1>1, NodesExist
<1>3. ComputeTree(leaves) = CHOOSE tree : IsNodes(tree, leaves, Depth(Len(leaves)))
  BY DEF ComputeTree, IsNodes
<1>. QED  BY <1>1, <1>2, <1>3 DEF IsTree

\* The height of the top level of a tree is its depth.
LEMMA TreeDepthIs ==
  ASSUME NEW leaves, NEW depth, NEW tree, IsTree(tree, leaves, depth)
  PROVE  TreeDepth(tree) = depth
<1>1. DOMAIN tree = 0..depth /\ depth \in Nat
  BY DEF IsTree, IsNodes
<1>. QED  BY <1>1 DEF TreeDepth

\* The lowest level of a tree is its leaves.
LEMMA LeavesAreLowest ==
  ASSUME NEW leaves, NEW depth, NEW tree, IsTree(tree, leaves, depth)
  PROVE  tree[0] = leaves
BY DEF IsTree, IsNodes

\* Each other level is that of the parents of the level below.
LEMMA ParentsAreAbove ==
  ASSUME NEW leaves, NEW depth, NEW tree, IsTree(tree, leaves, depth)
  PROVE  \A h \in Nat : h + 1 <= depth => tree[h + 1] = Parents(tree[h], h)
<1>. SUFFICES ASSUME NEW h \in Nat, h + 1 <= depth
              PROVE  tree[h + 1] = Parents(tree[h], h)
  OBVIOUS
<1>1. depth \in Nat /\ h + 1 \in 0..depth /\ h + 1 # 0 /\ h + 1 - 1 = h
  BY DEF IsTree
<1>. QED  BY <1>1 DEF IsTree, IsNodes

-----------------------------------------------------------------------------
(* Levels.                                                                 *)

\* The parents of a level are a level of half its size, rounded up.
LEMMA ParentsAreLevel ==
  ASSUME NEW level, NEW size, IsLevel(level, size), NEW height
  PROVE  IsLevel(Parents(level, height), (size + 1) \div 2)
<1>. DEFINE m == (size + 1) \div 2
            node(p) == HashTwo(level[2 * p - 1], NodeAt(level, height, 2 * p - 1))
            S == {node(p) : p \in 1..m}
<1>1. m \in Nat \ {0} /\ Len(level) = size
  BY DEF IsLevel
<1>. HIDE DEF m
<1>2. Parents(level, height) = [p \in 1..m |-> node(p)]
  BY <1>1 DEF Parents, m
<1>. HIDE DEF node
<1>3. [p \in 1..m |-> node(p)] \in Seq(S)
  BY <1>1
<1>4. Len([p \in 1..m |-> node(p)]) = m
  BY <1>1, <1>3
<1>. QED  BY <1>1, <1>2, <1>4 DEF IsLevel, m

\* Multiplication by a natural number is monotone.
LEMMA Monotone ==
  ASSUME NEW a \in Int, NEW b \in Int, a <= b, NEW w \in Nat
  PROVE  a * w <= b * w
OBVIOUS

\* Half as many nodes of twice the width cover the same leaves.
LEMMA HalfAgain ==
  ASSUME NEW n \in Nat, NEW size \in Nat \ {0}, NEW w \in Nat,
         (size - 1) * w < n, n <= size * w
  PROVE  /\ ((size + 1) \div 2 - 1) * (w + w) < n
         /\ n <= ((size + 1) \div 2) * (w + w)
<1>. DEFINE m == (size + 1) \div 2
<1>1. m \in Nat /\ 2 * (m - 1) <= size - 1 /\ size <= 2 * m
  OBVIOUS
<1>. HIDE DEF m
<1>2. (2 * (m - 1)) * w <= (size - 1) * w /\ size * w <= (2 * m) * w
  BY <1>1, Monotone
<1>3. (2 * (m - 1)) * w = (m - 1) * (w + w) /\ (2 * m) * w = m * (w + w)
  BY <1>1
<1>4. /\ (m - 1) * (w + w) \in Int /\ m * (w + w) \in Int
      /\ (size - 1) * w \in Int /\ size * w \in Int
  BY <1>1
<1>5. (m - 1) * (w + w) < n /\ n <= m * (w + w)
  BY <1>2, <1>3, <1>4
<1>. QED  BY <1>5 DEF m

\* A level stores as many nodes as it takes to cover the leaves.
LEMMA LevelSizes ==
  ASSUME NEW leaves, NEW depth, NEW tree, IsTree(tree, leaves, depth)
  PROVE  \A h \in Nat : h <= depth =>
           \E size : /\ IsLevel(tree[h], size)
                     /\ (size - 1) * 2^h < Len(leaves)
                     /\ Len(leaves) <= size * 2^h
<1>. DEFINE n == Len(leaves)
            Good(h, size) == /\ IsLevel(tree[h], size)
                             /\ (size - 1) * 2^h < n
                             /\ n <= size * 2^h
            T == {h \in Nat : h <= depth => \E size : Good(h, size)}
<1>1. IsLevel(leaves, n) /\ n \in Nat
  BY DEF IsTree, IsLevel
<1>. HIDE DEF n
<1>2. 0 \in T
  <2>1. 2^0 = 1 /\ tree[0] = leaves
    BY LeavesAreLowest
  <2>2. Good(0, n)
    BY <1>1, <2>1
  <2>. QED  BY <2>2
<1>3. ASSUME NEW h \in Nat, h \in T
      PROVE  h + 1 \in T
  <2>. SUFFICES ASSUME h + 1 <= depth
                PROVE  \E size : Good(h + 1, size)
    OBVIOUS
  <2>1. PICK size : Good(h, size)
    BY <1>3 DEF IsTree
  <2>2. tree[h + 1] = Parents(tree[h], h)
    BY ParentsAreAbove
  <2>3. IsLevel(tree[h + 1], (size + 1) \div 2)
    BY <2>1, <2>2, ParentsAreLevel
  <2>4. 2^h \in Nat /\ 2^(h + 1) = 2^h + 2^h
    BY PowerPositive, PowerDoubles
  <2>5. size \in Nat \ {0}
    BY <2>1 DEF IsLevel
  <2>6. Good(h + 1, (size + 1) \div 2)
    BY <1>1, <2>1, <2>3, <2>4, <2>5, HalfAgain
  <2>. QED  BY <2>6
<1>. HIDE DEF T
<1>4. \A h \in Nat : h \in T
  BY <1>2, <1>3, Induction
<1>. QED  BY <1>4 DEF T, n

\* And a single one at the top.
LEMMA TopIsRoot ==
  ASSUME NEW leaves, IsLevel(leaves, Len(leaves))
  PROVE  IsLevel(ComputeTree(leaves)[Depth(Len(leaves))], 1)
<1>. DEFINE tree == ComputeTree(leaves)
            n == Len(leaves)
            d == Depth(n)
            w == 2^d
<1>1. n \in Nat /\ d \in Nat /\ n <= w /\ w \in Nat
  BY DepthIs, PowerPositive DEF IsLevel
<1>2. IsTree(tree, leaves, d)
  BY TreeIs
<1>. HIDE DEF tree, d
<1>3. PICK size : IsLevel(tree[d], size) /\ (size - 1) * w < n
  BY <1>1, <1>2, LevelSizes
<1>. HIDE DEF w, n
<1>4. size = 1
  <2>. SUFFICES ASSUME size # 1
                PROVE  FALSE
    OBVIOUS
  <2>1. size \in Nat /\ 1 <= size - 1
    BY <1>3 DEF IsLevel
  <2>2. 1 * w <= (size - 1) * w
    BY <1>1, <2>1, Monotone
  <2>3. 1 * w = w /\ (size - 1) * w \in Int
    BY <1>1, <2>1
  <2>. QED  BY <1>1, <1>3, <2>2, <2>3
<1>. QED  BY <1>3, <1>4 DEF tree, d, n

\* The root is the node at the top of the tree.
LEMMA TreeRootIs ==
  ASSUME NEW leaves, IsLevel(leaves, Len(leaves))
  PROVE  TreeRoot(leaves) = ComputeTree(leaves)[Depth(Len(leaves))][1]
<1>1. TreeDepth(ComputeTree(leaves)) = Depth(Len(leaves))
  BY TreeIs, TreeDepthIs
<1>. QED  BY <1>1 DEF TreeRoot, Root

-----------------------------------------------------------------------------
(* The root binds the leaves.                                              *)

\* The two-to-one hash is injective.
LEMMA HashTwoInjective ==
  \A a, b, c, d : HashTwo(a, b) = HashTwo(c, d) => a = c /\ b = d
BY DEF HashTwo, Keccak

\* A node is no hash of a single block: no commitment, no default leaf.
LEMMA HashTwoIsNotOne == \A a, b, c : HashTwo(a, b) # Keccak(<<c>>)
<1>. SUFFICES ASSUME NEW a, NEW b, NEW c, HashTwo(a, b) = Keccak(<<c>>)
              PROVE  FALSE
  OBVIOUS
<1>1. <<a, b>> = <<c>>
  BY DEF HashTwo, Keccak
<1>2. Len(<<a, b>>) = 2 /\ Len(<<c>>) = 1
  OBVIOUS
<1>. QED  BY <1>1, <1>2

\* No stored node of the level is the default node of its height.
NoDefault(level, height) == \A k \in DOMAIN level : level[k] # EmptyNode(height)

\* What a stored parent is the hash of.
LEMMA ParentIs ==
  ASSUME NEW level, NEW size, IsLevel(level, size), NEW height,
         NEW p \in 1..((size + 1) \div 2)
  PROVE  Parents(level, height)[p] =
           HashTwo(level[2 * p - 1],
                   IF 2 * p <= size THEN level[2 * p] ELSE EmptyNode(height))
<1>1. 2 * p - 1 + 1 = 2 * p /\ (2 * p \in DOMAIN level <=> 2 * p <= size)
  BY DEF IsLevel
<1>2. NodeAt(level, height, 2 * p - 1) = IF 2 * p <= size THEN level[2 * p] ELSE EmptyNode(height)
  BY <1>1 DEF NodeAt
<1>. QED  BY <1>2 DEF Parents, IsLevel

\* Parents of nodes that are not default nodes are none either.
LEMMA ParentsNoDefault ==
  ASSUME NEW level, NEW size, IsLevel(level, size), NEW height \in Nat,
         NoDefault(level, height)
  PROVE  NoDefault(Parents(level, height), height + 1)
<1>1. DOMAIN Parents(level, height) = 1..((size + 1) \div 2)
  BY DEF IsLevel, Parents
<1>2. ASSUME NEW p \in 1..((size + 1) \div 2),
             Parents(level, height)[p] = EmptyNode(height + 1)
      PROVE  FALSE
  <2>1. HashTwo(level[2 * p - 1], IF 2 * p <= size THEN level[2 * p] ELSE EmptyNode(height))
        = HashTwo(EmptyNode(height), EmptyNode(height))
    BY <1>2, ParentIs, EmptyNodeSteps
  <2>2. level[2 * p - 1] = EmptyNode(height)
    BY <2>1, HashTwoInjective
  <2>3. 2 * p - 1 \in DOMAIN level
    BY DEF IsLevel
  <2>. QED  BY <2>2, <2>3 DEF NoDefault
<1>. QED  BY <1>1, <1>2 DEF NoDefault

\* A level without default nodes is determined by its parents.
LEMMA ParentsDetermine ==
  ASSUME NEW a, NEW m, IsLevel(a, m), NEW b, NEW n, IsLevel(b, n), NEW height,
         NoDefault(a, height), NoDefault(b, height),
         Parents(a, height) = Parents(b, height)
  PROVE  a = b
<1>1. m \in Nat /\ n \in Nat /\ DOMAIN a = 1..m /\ DOMAIN b = 1..n
  BY DEF IsLevel
<1>2. (m + 1) \div 2 = (n + 1) \div 2
  BY ParentsAreLevel DEF IsLevel
<1>3. ASSUME NEW p \in 1..((m + 1) \div 2)
      PROVE  /\ a[2 * p - 1] = b[2 * p - 1]
             /\ 2 * p <= m <=> 2 * p <= n
             /\ 2 * p <= m => a[2 * p] = b[2 * p]
  <2>1. HashTwo(a[2 * p - 1], IF 2 * p <= m THEN a[2 * p] ELSE EmptyNode(height))
        = HashTwo(b[2 * p - 1], IF 2 * p <= n THEN b[2 * p] ELSE EmptyNode(height))
    BY <1>2, ParentIs
  <2>2. /\ 2 * p <= m => a[2 * p] # EmptyNode(height)
        /\ 2 * p <= n => b[2 * p] # EmptyNode(height)
    BY <1>1 DEF NoDefault
  <2>3. /\ a[2 * p - 1] = b[2 * p - 1]
        /\ (IF 2 * p <= m THEN a[2 * p] ELSE EmptyNode(height))
           = IF 2 * p <= n THEN b[2 * p] ELSE EmptyNode(height)
    BY <2>1, HashTwoInjective
  <2>. QED  BY <2>2, <2>3
<1>4. m = n
  <2>1. CASE m < n
    <3>1. n = m + 1 /\ 2 * ((m + 1) \div 2) = n
      BY <1>1, <1>2, <2>1
    <3>2. (m + 1) \div 2 \in 1..((m + 1) \div 2)
      BY <1>1, <3>1 DEF IsLevel
    <3>. QED  BY <1>1, <1>3, <3>1, <3>2
  <2>2. CASE n < m
    <3>1. m = n + 1 /\ 2 * ((m + 1) \div 2) = m
      BY <1>1, <1>2, <2>2
    <3>2. (m + 1) \div 2 \in 1..((m + 1) \div 2)
      BY <1>1, <3>1 DEF IsLevel
    <3>. QED  BY <1>1, <1>3, <3>1, <3>2
  <2>. QED  BY <1>1, <2>1, <2>2
<1>5. ASSUME NEW k \in 1..m
      PROVE  a[k] = b[k]
  <2>1. PICK p \in 1..((m + 1) \div 2) : k = 2 * p - 1 \/ k = 2 * p
    <3>1. (k + 1) \div 2 \in 1..((m + 1) \div 2)
      BY <1>1
    <3>2. k = 2 * ((k + 1) \div 2) - 1 \/ k = 2 * ((k + 1) \div 2)
      BY <1>1
    <3>. QED  BY <3>1, <3>2
  <2>. QED  BY <1>1, <1>3, <2>1
<1>. QED  BY <1>4, <1>5 DEF IsLevel

\* Over leaves that are not the default leaf no node is a default node.
LEMMA LevelsHaveNoDefault ==
  ASSUME NEW leaves, NEW depth, NEW tree, IsTree(tree, leaves, depth),
         NoDefault(leaves, 0)
  PROVE  \A h \in Nat : h <= depth => NoDefault(tree[h], h)
<1>. DEFINE T == {h \in Nat : h <= depth => NoDefault(tree[h], h)}
<1>1. 0 \in T
  BY LeavesAreLowest
<1>2. ASSUME NEW h \in Nat, h \in T
      PROVE  h + 1 \in T
  <2>. SUFFICES ASSUME h + 1 <= depth
                PROVE  NoDefault(tree[h + 1], h + 1)
    OBVIOUS
  <2>1. h <= depth
    BY DEF IsTree
  <2>2. PICK size : IsLevel(tree[h], size)
    BY <2>1, LevelSizes
  <2>3. tree[h + 1] = Parents(tree[h], h)
    BY ParentsAreAbove
  <2>. QED  BY <1>2, <2>1, <2>2, <2>3, ParentsNoDefault
<1>. HIDE DEF T
<1>3. \A h \in Nat : h \in T
  BY <1>1, <1>2, Induction
<1>. QED  BY <1>3 DEF T

\* Of trees of the same depth, equal levels have equal leaves.
LEMMA LevelsDetermine ==
  ASSUME NEW s, NEW t, NEW depth, NEW a, IsTree(a, s, depth), NEW b, IsTree(b, t, depth),
         NoDefault(s, 0), NoDefault(t, 0)
  PROVE  \A h \in Nat : h <= depth /\ a[h] = b[h] => s = t
<1>. DEFINE T == {h \in Nat : h <= depth /\ a[h] = b[h] => s = t}
<1>1. 0 \in T
  BY LeavesAreLowest
<1>2. ASSUME NEW h \in Nat, h \in T
      PROVE  h + 1 \in T
  <2>. SUFFICES ASSUME h + 1 <= depth, a[h + 1] = b[h + 1]
                PROVE  a[h] = b[h]
    BY <1>2 DEF IsTree
  <2>1. h <= depth
    BY DEF IsTree
  <2>2. PICK m : IsLevel(a[h], m)
    BY <2>1, LevelSizes
  <2>3. PICK n : IsLevel(b[h], n)
    BY <2>1, LevelSizes
  <2>4. NoDefault(a[h], h) /\ NoDefault(b[h], h)
    BY <2>1, LevelsHaveNoDefault
  <2>5. Parents(a[h], h) = Parents(b[h], h)
    BY ParentsAreAbove
  <2>. QED  BY <2>2, <2>3, <2>4, <2>5, ParentsDetermine
<1>. HIDE DEF T
<1>3. \A h \in Nat : h \in T
  BY <1>1, <1>2, Induction
<1>. QED  BY <1>3 DEF T

\* What the first stored parent is the hash of.
LEMMA LeftmostIs ==
  ASSUME NEW level, NEW size, IsLevel(level, size), NEW height
  PROVE  Parents(level, height)[1] =
           HashTwo(level[1], IF 2 <= size THEN level[2] ELSE EmptyNode(height))
<1>1. 1 \in 1..((size + 1) \div 2)
  BY DEF IsLevel
<1>2. Parents(level, height)[1] =
        HashTwo(level[2 * 1 - 1], IF 2 * 1 <= size THEN level[2 * 1] ELSE EmptyNode(height))
  BY <1>1, ParentIs
<1>3. 2 * 1 - 1 = 1 /\ 2 * 1 = 2
  OBVIOUS
<1>. QED  BY <1>2, <1>3

\* First nodes below equal first parents are equal.
LEMMA LeftmostInjective ==
  ASSUME NEW a, NEW p, IsLevel(a, p), NEW b, NEW q, IsLevel(b, q), NEW i, NEW j,
         Parents(a, i)[1] = Parents(b, j)[1]
  PROVE  a[1] = b[1]
<1>. DEFINE x == IF 2 <= p THEN a[2] ELSE EmptyNode(i)
            y == IF 2 <= q THEN b[2] ELSE EmptyNode(j)
<1>1. HashTwo(a[1], x) = HashTwo(b[1], y)
  BY LeftmostIs
<1>. HIDE DEF x, y
<1>. QED  BY <1>1, HashTwoInjective

\* Below equal roots, the leftmost nodes are equal as far as both trees reach.
LEMMA LeftmostAgree ==
  ASSUME NEW s, NEW c, NEW a, IsTree(a, s, c), NEW t, NEW d, NEW b, IsTree(b, t, d),
         a[c][1] = b[d][1]
  PROVE  \A k \in Nat : k <= c /\ k <= d => a[c - k][1] = b[d - k][1]
<1>. DEFINE T == {k \in Nat : k <= c /\ k <= d => a[c - k][1] = b[d - k][1]}
<1>1. c \in Nat /\ d \in Nat
  BY DEF IsTree
<1>2. 0 \in T
  BY <1>1
<1>3. ASSUME NEW k \in Nat, k \in T
      PROVE  k + 1 \in T
  <2>. SUFFICES ASSUME k + 1 <= c, k + 1 <= d
                PROVE  a[c - (k + 1)][1] = b[d - (k + 1)][1]
    OBVIOUS
  <2>. DEFINE i == c - (k + 1)
              j == d - (k + 1)
  <2>1. /\ i \in Nat /\ i <= c /\ i + 1 = c - k /\ i + 1 <= c
        /\ j \in Nat /\ j <= d /\ j + 1 = d - k /\ j + 1 <= d
    BY <1>1
  <2>2. a[i + 1][1] = b[j + 1][1]
    BY <1>1, <1>3, <2>1
  <2>. HIDE DEF i, j
  <2>3. a[i + 1] = Parents(a[i], i) /\ b[j + 1] = Parents(b[j], j)
    BY <2>1, ParentsAreAbove
  <2>4. PICK p : IsLevel(a[i], p)
    BY <2>1, LevelSizes
  <2>5. PICK q : IsLevel(b[j], q)
    BY <2>1, LevelSizes
  <2>6. a[i][1] = b[j][1]
    BY <2>2, <2>3, <2>4, <2>5, LeftmostInjective
  <2>. QED  BY <2>6 DEF i, j
<1>. HIDE DEF T
<1>4. \A k \in Nat : k \in T
  BY <1>2, <1>3, Induction
<1>. QED  BY <1>4 DEF T

\* A list of tags begins with a nullifier and has no default leaf in it.
IsTagList(s) ==
  /\ IsLevel(s, Len(s))
  /\ \E r, key : s[1] = HashTwo(Keccak(<<r>>), key)
  /\ \A k \in DOMAIN s : s[k] # Keccak(<<EmptyLeaf>>)

\* The leaves of the tree of an action are not the default leaf.
LEMMA TagsNoDefault ==
  ASSUME NEW s, IsTagList(s)
  PROVE  NoDefault(s, 0)
BY EmptyNodeSteps DEF NoDefault, IsTagList

\* No list of tags has the root of another, deeper one: the commitment that
\* is below its first tag would be a tag or an inner node there.
LEMMA DepthsAgree ==
  ASSUME NEW s, IsTagList(s), NEW t, IsTagList(t), TreeRoot(s) = TreeRoot(t)
  PROVE  ~(Depth(Len(s)) < Depth(Len(t)))
<1>. DEFINE c == Depth(Len(s))
            d == Depth(Len(t))
            a == ComputeTree(s)
            b == ComputeTree(t)
<1>1. IsTree(a, s, c) /\ IsTree(b, t, d)
  BY TreeIs DEF IsTagList
<1>2. c \in Nat /\ d \in Nat
  BY <1>1 DEF IsTree
<1>3. a[c][1] = b[d][1]
  BY TreeRootIs DEF IsTagList
<1>. SUFFICES ASSUME c < d
              PROVE  FALSE
  OBVIOUS
<1>. HIDE DEF a, b, c, d
<1>4. s[1] = b[d - c][1]
  <2>1. c - c = 0 /\ c <= c /\ c <= d
    BY <1>2
  <2>2. \A k \in Nat : k <= c /\ k <= d => a[c - k][1] = b[d - k][1]
    BY <1>1, <1>3, LeftmostAgree
  <2>3. a[c - c][1] = b[d - c][1]
    BY <1>2, <2>1, <2>2
  <2>. QED  BY <1>1, <2>1, <2>3, LeavesAreLowest
<1>. DEFINE h == d - c - 1
<1>5. h \in Nat /\ h <= d /\ h + 1 = d - c /\ h + 1 <= d
  BY <1>2
<1>. HIDE DEF h
<1>6. PICK size : IsLevel(b[h], size)
  BY <1>1, <1>5, LevelSizes
<1>7. b[h + 1] = Parents(b[h], h)
  BY <1>1, <1>5, ParentsAreAbove
<1>8. b[h + 1][1] = HashTwo(b[h][1], IF 2 <= size THEN b[h][2] ELSE EmptyNode(h))
  BY <1>6, <1>7, LeftmostIs
<1>9. s[1] = b[h + 1][1]
  BY <1>4, <1>5
<1>10. PICK r, key : s[1] = HashTwo(Keccak(<<r>>), key)
  BY DEF IsTagList
<1>11. b[h][1] = Keccak(<<r>>)
  BY <1>8, <1>9, <1>10, HashTwoInjective
<1>12. CASE h = 0
  <2>1. b[h] = t
    BY <1>1, <1>12, LeavesAreLowest
  <2>2. PICK q, k : t[1] = HashTwo(Keccak(<<q>>), k)
    BY DEF IsTagList
  <2>. QED  BY <1>11, <2>1, <2>2, HashTwoIsNotOne
<1>13. CASE h # 0
  <2>1. h - 1 \in Nat /\ h - 1 <= d /\ (h - 1) + 1 = h /\ (h - 1) + 1 <= d
    BY <1>2, <1>5, <1>13
  <2>2. b[h] = Parents(b[h - 1], h - 1)
    BY <1>1, <2>1, ParentsAreAbove
  <2>3. PICK below : IsLevel(b[h - 1], below)
    BY <1>1, <2>1, LevelSizes
  <2>4. \E x, y : b[h][1] = HashTwo(x, y)
    BY <2>2, <2>3, LeftmostIs
  <2>. QED  BY <1>11, <2>4, HashTwoIsNotOne
<1>. QED  BY <1>12, <1>13

\* Whatever the number of tags, the root determines them.
LEMMA RootDetermines ==
  ASSUME NEW s, IsTagList(s), NEW t, IsTagList(t), TreeRoot(s) = TreeRoot(t)
  PROVE  s = t
<1>. DEFINE d == Depth(Len(s))
            a == ComputeTree(s)
            b == ComputeTree(t)
<1>1. d = Depth(Len(t))
  <2>1. Depth(Len(s)) \in Nat /\ Depth(Len(t)) \in Nat
    BY DepthIs DEF IsTagList, IsLevel
  <2>. QED  BY <2>1, DepthsAgree
<1>2. IsTree(a, s, d) /\ IsTree(b, t, d)
  BY <1>1, TreeIs DEF IsTagList
<1>3. a[d][1] = b[d][1]
  BY <1>1, TreeRootIs DEF IsTagList
<1>4. IsLevel(a[d], 1) /\ IsLevel(b[d], 1)
  BY <1>1, TopIsRoot DEF IsTagList
<1>5. NoDefault(s, 0) /\ NoDefault(t, 0)
  BY TagsNoDefault
<1>. HIDE DEF a, b, d
<1>6. a[d] = b[d]
  BY <1>3, <1>4 DEF IsLevel
<1>7. d \in Nat /\ d <= d
  BY <1>2 DEF IsTree
<1>. QED  BY <1>2, <1>5, <1>6, <1>7, LevelsDetermine

\* A non-empty list is a level.
LEMMA ListIsLevel ==
  ASSUME NEW T, NEW s \in Seq(T), s # <<>>
  PROVE  IsLevel(s, Len(s)) /\ \A k \in DOMAIN s : s[k] \in T
BY DEF IsLevel

-----------------------------------------------------------------------------
(* Paths.                                                                  *)

\* One step of compute_root.
Step(acc, sibling) == IF sibling.isLeft THEN HashTwo(sibling.node, acc)
                                        ELSE HashTwo(acc, sibling.node)

\* The fold of a path over sets of indices, the greatest one last.
IsFold(iter, path, leaf, indices) ==
  iter = [s \in SUBSET indices |-> IF s = {} THEN leaf
                                  ELSE Step(iter[s \ {Max(s)}], path[Max(s)])]

\* The greatest element of a set of indices.
LEMMA MaxIs ==
  ASSUME NEW n \in Nat, NEW s \in SUBSET (1..(n + 1)), n + 1 \in s
  PROVE  Max(s) = n + 1
<1>1. \A y \in s : y \in Nat /\ n + 1 >= y
  OBVIOUS
<1>. DEFINE m == Max(s)
<1>2. m \in s /\ \A y \in s : m >= y
  BY <1>1 DEF Max
<1>3. m \in Nat /\ m >= n + 1 /\ n + 1 >= m
  BY <1>1, <1>2
<1>. HIDE DEF m
<1>4. m = n + 1
  BY <1>3
<1>. QED  BY <1>4 DEF m

\* There is a fold along every path.
LEMMA FoldsExist == \A path, leaf : \A n \in Nat : \E iter : IsFold(iter, path, leaf, 1..n)
<1>. TAKE path, leaf
<1>. DEFINE T == {n \in Nat : \E iter : IsFold(iter, path, leaf, 1..n)}
<1>1. 0 \in T
  <2>. DEFINE iter == [s \in SUBSET (1..0) |-> leaf]
  <2>1. \A s \in SUBSET (1..0) : s = {}
    OBVIOUS
  <2>2. IsFold(iter, path, leaf, 1..0)
    BY <2>1 DEF IsFold
  <2>. QED  BY <2>2
<1>2. ASSUME NEW n \in Nat, n \in T
      PROVE  n + 1 \in T
  <2>1. PICK iter : IsFold(iter, path, leaf, 1..n)
    BY <1>2
  <2>. DEFINE more == [s \in SUBSET (1..(n + 1)) |->
                         IF n + 1 \in s THEN Step(iter[s \ {n + 1}], path[n + 1]) ELSE iter[s]]
  <2>2. \A s \in SUBSET (1..n) : s \in SUBSET (1..(n + 1)) /\ n + 1 \notin s /\ more[s] = iter[s]
    OBVIOUS
  <2>3. ASSUME NEW s \in SUBSET (1..(n + 1))
        PROVE  more[s] = IF s = {} THEN leaf ELSE Step(more[s \ {Max(s)}], path[Max(s)])
    <3>1. CASE n + 1 \in s
      <4>1. Max(s) = n + 1
        BY <3>1, MaxIs
      <4>2. s \ {n + 1} \in SUBSET (1..n)
        OBVIOUS
      <4>3. more[s \ {n + 1}] = iter[s \ {n + 1}]
        BY <2>2, <4>2
      <4>4. more[s] = Step(iter[s \ {n + 1}], path[n + 1])
        BY <3>1
      <4>. QED  BY <3>1, <4>1, <4>3, <4>4
    <3>2. CASE n + 1 \notin s
      <4>1. s \in SUBSET (1..n)
        BY <3>2
      <4>2. iter[s] = IF s = {} THEN leaf ELSE Step(iter[s \ {Max(s)}], path[Max(s)])
        BY <2>1, <4>1 DEF IsFold
      <4>3. s \ {Max(s)} \in SUBSET (1..n)
        BY <4>1
      <4>4. more[s] = iter[s] /\ more[s \ {Max(s)}] = iter[s \ {Max(s)}]
        BY <2>2, <4>1, <4>3
      <4>. QED  BY <4>2, <4>4
    <3>. QED  BY <3>1, <3>2
  <2>. HIDE DEF more
  <2>4. more = [s \in SUBSET (1..(n + 1)) |-> more[s]]
    BY DEF more
  <2>5. IsFold(more, path, leaf, 1..(n + 1))
    BY <2>3, <2>4 DEF IsFold
  <2>. QED  BY <2>5
<1>. HIDE DEF T
<1>3. \A n \in Nat : n \in T
  BY <1>1, <1>2, Induction
<1>. QED  BY <1>3 DEF T

\* compute_root folds the path from the leaf on.
LEMMA ComputeRootUnfolds ==
  ASSUME NEW path, NEW leaf
  PROVE  ComputeRoot(path, leaf) =
           (CHOOSE iter : IsFold(iter, path, leaf, DOMAIN path))[DOMAIN path]
<1>1. ComputeRoot(path, leaf) =
        (CHOOSE iter : iter = [s \in SUBSET DOMAIN path |->
            IF s = {} THEN leaf
            ELSE IF path[Max(s)].isLeft THEN HashTwo(path[Max(s)].node, iter[s \ {Max(s)}])
                                        ELSE HashTwo(iter[s \ {Max(s)}], path[Max(s)].node)])
          [DOMAIN path]
  BY DEF ComputeRoot, FoldLeft, MapThenFoldSet
<1>. QED  BY <1>1 DEF IsFold, Step

\* The nodes from the leaf to the root that a path asserts.
IsClimb(node, path, leaf) ==
  /\ node[0] = leaf
  /\ \A k \in 1..Len(path) : node[k] = Step(node[k - 1], path[k])
  /\ node[Len(path)] = ComputeRoot(path, leaf)

\* Along every path there are such nodes.
LEMMA ClimbExists ==
  ASSUME NEW path, Len(path) \in Nat, DOMAIN path = 1..Len(path), NEW leaf
  PROVE  \E node : IsClimb(node, path, leaf)
<1>. DEFINE n == Len(path)
            iter == CHOOSE iter : IsFold(iter, path, leaf, 1..n)
            node == [k \in 0..n |-> iter[1..k]]
<1>1. IsFold(iter, path, leaf, 1..n)
  BY FoldsExist
<1>2. ComputeRoot(path, leaf) = iter[1..n]
  <2>1. ComputeRoot(path, leaf) =
          (CHOOSE f : IsFold(f, path, leaf, DOMAIN path))[DOMAIN path]
    BY ComputeRootUnfolds
  <2>. QED  BY <2>1
<1>. HIDE DEF iter, n
<1>3. n \in Nat
  BY DEF n
<1>4. iter[{}] = leaf
  BY <1>1, <1>3 DEF IsFold
<1>5. ASSUME NEW k \in 1..n
      PROVE  iter[1..k] = Step(iter[1..(k - 1)], path[k])
  <2>1. 1..k \in SUBSET (1..n) /\ 1..k # {} /\ (1..k) \ {k} = 1..(k - 1)
    BY <1>3
  <2>2. Max(1..k) = k
    BY DEF Max
  <2>. QED  BY <1>1, <2>1, <2>2 DEF IsFold
<1>6. 1..0 = {}
  OBVIOUS
<1>7. IsClimb(node, path, leaf)
  BY <1>2, <1>3, <1>4, <1>5, <1>6 DEF IsClimb, n
<1>. QED  BY <1>7

\* The parent of a stored node is what one step from it, along its
\* sibling, leads to.
LEMMA NodeAbove ==
  ASSUME NEW level, NEW size, IsLevel(level, size), NEW height,
         NEW index \in Nat, index < size
  PROVE  /\ index \div 2 \in Nat /\ index \div 2 < (size + 1) \div 2
         /\ Parents(level, height)[index \div 2 + 1] =
              Step(level[index + 1],
                   [node   |-> NodeAt(level, height, SiblingIndex(index)),
                    isLeft |-> ~SiblingIsLeft(index)])
<1>. DEFINE p == index \div 2 + 1
            sibling == NodeAt(level, height, SiblingIndex(index))
<1>1. /\ index \div 2 \in Nat /\ index \div 2 < (size + 1) \div 2
      /\ p \in 1..((size + 1) \div 2)
  BY DEF IsLevel
<1>2. Parents(level, height)[p] =
        HashTwo(level[2 * p - 1], IF 2 * p <= size THEN level[2 * p] ELSE EmptyNode(height))
  BY <1>1, ParentIs
<1>3. CASE index % 2 = 0
  <2>1. 2 * p - 1 = index + 1 /\ 2 * p = index + 1 + 1
    BY <1>3
  <2>2. sibling = IF 2 * p <= size THEN level[2 * p] ELSE EmptyNode(height)
    <3>1. 2 * p \in DOMAIN level <=> 2 * p <= size
      BY <1>1 DEF IsLevel
    <3>. QED  BY <1>3, <2>1, <3>1 DEF NodeAt, SiblingIndex
  <2>3. Parents(level, height)[p] = HashTwo(level[index + 1], sibling)
    BY <1>2, <2>1, <2>2
  <2>. QED  BY <1>1, <1>3, <2>3 DEF Step, SiblingIsLeft
<1>4. CASE index % 2 # 0
  <2>1. /\ 2 * p - 1 = index - 1 + 1 /\ 2 * p = index + 1 /\ 2 * p <= size
        /\ 2 * p - 1 \in DOMAIN level
    BY <1>4 DEF IsLevel
  <2>2. sibling = level[2 * p - 1]
    BY <1>4, <2>1 DEF NodeAt, SiblingIndex
  <2>3. Parents(level, height)[p] = HashTwo(sibling, level[index + 1])
    <3>1. Parents(level, height)[p] = HashTwo(level[2 * p - 1], level[2 * p])
      BY <1>2, <2>1
    <3>2. level[2 * p] = level[index + 1]
      BY <2>1
    <3>. HIDE DEF p, sibling
    <3>. QED  BY <3>1, <3>2, <2>2
  <2>. QED  BY <1>1, <1>4, <2>3 DEF Step, SiblingIsLeft
<1>. QED  BY <1>3, <1>4

\* The path with the siblings of the ancestors of a leaf, and their sides.
IsPathOf(path, tree, first, depth) ==
  /\ Len(path) = depth /\ DOMAIN path = 1..depth
  /\ \A h \in 1..depth :
       path[h] = [node   |-> NodeAt(tree[h - 1], h - 1, SiblingIndex(first \div 2^(h - 1))),
                  isLeft |-> ~SiblingIsLeft(first \div 2^(h - 1))]

\* It leads to the root.
LEMMA SiblingsLeadUp ==
  ASSUME NEW leaves, NEW depth, NEW tree, IsTree(tree, leaves, depth),
         NEW first \in Nat, first < Len(leaves),
         NEW path, IsPathOf(path, tree, first, depth),
         IsLevel(tree[depth], 1)
  PROVE  ComputeRoot(path, leaves[first + 1]) = tree[depth][1]
<1>1. depth \in Nat
  BY DEF IsTree
<1>2. PICK node : IsClimb(node, path, leaves[first + 1])
  BY <1>1, ClimbExists DEF IsPathOf
<1>. DEFINE index(h) == first \div 2^h
            Good(h) == /\ index(h) \in Nat
                       /\ \A size : IsLevel(tree[h], size) => index(h) < size
                       /\ node[h] = tree[h][index(h) + 1]
            T == {h \in Nat : h <= depth => Good(h)}
<1>3. 0 \in T
  <2>1. 2^0 = 1 /\ first \div 1 = first
    OBVIOUS
  <2>2. node[0] = leaves[first + 1] /\ tree[0] = leaves
    BY <1>2, LeavesAreLowest DEF IsClimb
  <2>. QED  BY <2>1, <2>2 DEF IsLevel
<1>4. ASSUME NEW h \in Nat, h \in T
      PROVE  h + 1 \in T
  <2>. SUFFICES ASSUME h + 1 <= depth
                PROVE  Good(h + 1)
    OBVIOUS
  <2>1. h <= depth /\ h + 1 \in 1..depth /\ h + 1 - 1 = h
    BY <1>1
  <2>2. Good(h)
    BY <1>4, <2>1
  <2>3. PICK size : IsLevel(tree[h], size)
    BY <2>1, LevelSizes
  <2>4. tree[h + 1] = Parents(tree[h], h)
    BY ParentsAreAbove
  <2>5. index(h + 1) = index(h) \div 2
    <3>1. 2^h \in Nat /\ 0 < 2^h /\ 2^(h + 1) = 2^h + 2^h
      BY PowerPositive, PowerDoubles
    <3>. QED  BY <3>1, HalfOfQuotient
  <2>6. path[h + 1] = [node   |-> NodeAt(tree[h], h, SiblingIndex(index(h))),
                       isLeft |-> ~SiblingIsLeft(index(h))]
    BY <2>1 DEF IsPathOf
  <2>7. node[h + 1] = Step(node[h], path[h + 1])
    BY <1>2, <2>1 DEF IsClimb, IsPathOf
  <2>. HIDE DEF index
  <2>8. /\ index(h) \div 2 \in Nat /\ index(h) \div 2 < (size + 1) \div 2
        /\ tree[h + 1][index(h) \div 2 + 1] = node[h + 1]
    BY <2>2, <2>3, <2>4, <2>6, <2>7, NodeAbove
  <2>9. \A other : IsLevel(tree[h + 1], other) => other = (size + 1) \div 2
    BY <2>3, <2>4, ParentsAreLevel DEF IsLevel
  <2>. QED  BY <2>5, <2>8, <2>9
<1>. HIDE DEF T
<1>5. \A h \in Nat : h \in T
  BY <1>3, <1>4, Induction
<1>6. Good(depth)
  BY <1>1, <1>5 DEF T
<1>7. index(depth) = 0
  <2>. HIDE DEF index
  <2>. QED  BY <1>6
<1>. QED  BY <1>2, <1>6, <1>7 DEF IsClimb, IsPathOf

-----------------------------------------------------------------------------
(* Where a path can come from.                                             *)

\* A path asserts a digest for a digest.
LEMMA AssertsDigest ==
  ASSUME NEW path, Len(path) \in Nat, DOMAIN path = 1..Len(path), NEW x
  PROVE  \E y : ComputeRoot(path, Keccak(x)) = Keccak(y)
<1>. DEFINE n == Len(path)
<1>1. PICK node : IsClimb(node, path, Keccak(x))
  BY ClimbExists
<1>2. CASE n = 0
  <2>1. ComputeRoot(path, Keccak(x)) = Keccak(x)
    BY <1>1, <1>2 DEF IsClimb
  <2>. QED  BY <2>1
<1>3. CASE n # 0
  <2>1. n \in 1..n
    BY <1>3
  <2>2. ComputeRoot(path, Keccak(x)) = Step(node[n - 1], path[n])
    BY <1>1, <2>1 DEF IsClimb
  <2>. QED  BY <2>2 DEF Step, HashTwo
<1>. QED  BY <1>2, <1>3

\* A list of commitments, of which none is the default leaf.
IsCommitmentList(s) ==
  /\ IsLevel(s, Len(s))
  /\ \A k \in DOMAIN s : \E r : r # EmptyLeaf /\ s[k] = Keccak(<<r>>)

\* A node of the full tree at a height, stored or not.
At(tree, height, x) ==
  \/ x = EmptyNode(height)
  \/ \E k \in DOMAIN tree[height] : x = tree[height][k]

\* Above the leaves every node is the hash of two nodes of the height below.
LEMMA ChildrenAt ==
  ASSUME NEW leaves, NEW depth, NEW tree, IsTree(tree, leaves, depth),
         NEW h \in Nat, h + 1 <= depth, NEW z, At(tree, h + 1, z)
  PROVE  \E x, y : z = HashTwo(x, y) /\ At(tree, h, x) /\ At(tree, h, y)
<1>1. CASE z = EmptyNode(h + 1)
  <2>1. z = HashTwo(EmptyNode(h), EmptyNode(h))
    BY <1>1, EmptyNodeSteps
  <2>. QED  BY <2>1 DEF At
<1>2. CASE \E k \in DOMAIN tree[h + 1] : z = tree[h + 1][k]
  <2>1. PICK p \in DOMAIN tree[h + 1] : z = tree[h + 1][p]
    BY <1>2
  <2>2. PICK size : IsLevel(tree[h], size)
    BY LevelSizes DEF IsTree
  <2>3. tree[h + 1] = Parents(tree[h], h)
    BY ParentsAreAbove
  <2>4. p \in 1..((size + 1) \div 2)
    <3>1. IsLevel(tree[h + 1], (size + 1) \div 2)
      BY <2>2, <2>3, ParentsAreLevel
    <3>. QED  BY <2>1, <3>1 DEF IsLevel
  <2>. DEFINE x == tree[h][2 * p - 1]
              y == IF 2 * p <= size THEN tree[h][2 * p] ELSE EmptyNode(h)
  <2>5. z = HashTwo(x, y)
    BY <2>1, <2>2, <2>3, <2>4, ParentIs
  <2>6. size \in Nat /\ DOMAIN tree[h] = 1..size /\ 2 * p - 1 \in 1..size
    BY <2>2, <2>4 DEF IsLevel
  <2>7. At(tree, h, x)
    BY <2>6 DEF At
  <2>8. At(tree, h, y)
    <3>1. CASE 2 * p <= size
      <4>1. 2 * p \in DOMAIN tree[h] /\ y = tree[h][2 * p]
        BY <2>4, <2>6, <3>1
      <4>. HIDE DEF y
      <4>. QED  BY <4>1 DEF At
    <3>2. CASE ~(2 * p <= size)
      BY <3>2 DEF At
    <3>. QED  BY <3>1, <3>2
  <2>. HIDE DEF x, y
  <2>. QED  BY <2>5, <2>7, <2>8
<1>. QED  BY <1>1, <1>2 DEF At

\* Down from the root, the nodes of a path are nodes of the tree.
LEMMA ClimbStaysIn ==
  ASSUME NEW leaves, NEW depth, NEW tree, IsTree(tree, leaves, depth),
         NEW path, Len(path) \in Nat, NEW leaf, NEW node, IsClimb(node, path, leaf),
         At(tree, depth, node[Len(path)])
  PROVE  \A j \in Nat : j <= Len(path) /\ j <= depth => At(tree, depth - j, node[Len(path) - j])
<1>. DEFINE n == Len(path)
            T == {j \in Nat : j <= n /\ j <= depth => At(tree, depth - j, node[n - j])}
<1>1. depth \in Nat /\ n \in Nat
  BY DEF IsTree
<1>2. 0 \in T
  BY <1>1
<1>3. ASSUME NEW j \in Nat, j \in T
      PROVE  j + 1 \in T
  <2>. SUFFICES ASSUME j + 1 <= n, j + 1 <= depth
                PROVE  At(tree, depth - (j + 1), node[n - (j + 1)])
    OBVIOUS
  <2>. DEFINE h == depth - (j + 1)
              k == n - j
  <2>1. h \in Nat /\ h + 1 <= depth /\ h + 1 = depth - j /\ k \in 1..n /\ k - 1 = n - (j + 1)
    BY <1>1
  <2>2. At(tree, h + 1, node[k])
    BY <1>1, <1>3, <2>1
  <2>3. node[k] = Step(node[k - 1], path[k])
    BY <2>1 DEF IsClimb
  <2>. HIDE DEF h, k, n
  <2>4. PICK x, y : node[k] = HashTwo(x, y) /\ At(tree, h, x) /\ At(tree, h, y)
    BY <2>1, <2>2, ChildrenAt
  <2>5. node[k - 1] = x \/ node[k - 1] = y
    BY <2>3, <2>4, HashTwoInjective DEF Step
  <2>6. At(tree, h, node[k - 1])
    BY <2>4, <2>5
  <2>. QED  BY <2>1, <2>6 DEF h
<1>. HIDE DEF T
<1>4. \A j \in Nat : j \in T
  BY <1>2, <1>3, Induction
<1>. QED  BY <1>4 DEF T, n

\* Whatever the path, if it leads from a commitment to the root of a tree of
\* commitments, the commitment is a leaf of the tree.
LEMMA PathsStartAtLeaves ==
  ASSUME NEW s, IsCommitmentList(s), NEW path, Len(path) \in Nat, DOMAIN path = 1..Len(path),
         NEW r, r # EmptyLeaf, ComputeRoot(path, Keccak(<<r>>)) = TreeRoot(s)
  PROVE  \E k \in DOMAIN s : s[k] = Keccak(<<r>>)
<1>. DEFINE depth == Depth(Len(s))
            tree  == ComputeTree(s)
            n     == Len(path)
            leaf  == Keccak(<<r>>)
<1>1. IsTree(tree, s, depth) /\ IsLevel(tree[depth], 1) /\ TreeRoot(s) = tree[depth][1]
  BY TreeIs, TopIsRoot, TreeRootIs DEF IsCommitmentList
<1>2. depth \in Nat /\ tree[0] = s
  BY <1>1, LeavesAreLowest DEF IsTree
<1>. HIDE DEF tree, depth
<1>3. PICK node : IsClimb(node, path, leaf)
  BY ClimbExists
<1>4. At(tree, depth, node[n])
  <2>1. 1 \in DOMAIN tree[depth] /\ node[n] = tree[depth][1]
    BY <1>1, <1>3 DEF IsClimb, IsLevel
  <2>. QED  BY <2>1 DEF At
<1>5. \A j \in Nat : j <= n /\ j <= depth => At(tree, depth - j, node[n - j])
  BY <1>1, <1>3, <1>4, ClimbStaysIn
<1>6. node[0] = leaf
  BY <1>3 DEF IsClimb
<1>. HIDE DEF leaf
<1>7. ~(n < depth)
  <2>. SUFFICES ASSUME n < depth
                PROVE  FALSE
    OBVIOUS
  <2>. DEFINE h == depth - n - 1
  <2>1. h \in Nat /\ h + 1 <= depth /\ h + 1 = depth - n /\ n - n = 0 /\ n <= n /\ n <= depth
    BY <1>2
  <2>. HIDE DEF h, n
  <2>2. At(tree, h + 1, leaf)
    BY <1>5, <1>6, <2>1 DEF n
  <2>3. PICK x, y : leaf = HashTwo(x, y) /\ At(tree, h, x) /\ At(tree, h, y)
    BY <1>1, <2>1, <2>2, ChildrenAt
  <2>. QED  BY <2>3, HashTwoIsNotOne DEF leaf
<1>8. At(tree, 0, node[n - depth])
  <2>1. depth <= n /\ depth <= depth /\ depth - depth = 0
    BY <1>2, <1>7
  <2>. HIDE DEF n
  <2>. QED  BY <1>2, <1>5, <2>1
<1>9. \E q : node[n - depth] = Keccak(<<q>>)
  <2>1. CASE node[n - depth] = EmptyNode(0)
    BY <2>1, EmptyNodeSteps
  <2>2. CASE \E k \in DOMAIN tree[0] : node[n - depth] = tree[0][k]
    BY <1>2, <2>2 DEF IsCommitmentList
  <2>. QED  BY <1>8, <2>1, <2>2 DEF At
<1>10. ASSUME depth < n
       PROVE  FALSE
  <2>1. n - depth \in 1..n
    BY <1>2, <1>10
  <2>2. node[n - depth] = Step(node[n - depth - 1], path[n - depth])
    BY <1>3, <2>1 DEF IsClimb
  <2>. QED  BY <1>9, <2>2, HashTwoIsNotOne DEF Step
<1>11. At(tree, 0, leaf)
  <2>1. n \in Nat /\ depth \in Nat /\ ~(n < depth) /\ ~(depth < n)
    BY <1>2, <1>7, <1>10
  <2>2. n - depth = 0
    <3>. HIDE DEF n
    <3>. QED  BY <2>1
  <2>. QED  BY <1>6, <1>8, <2>2
<1>12. leaf # EmptyNode(0)
  BY EmptyNodeSteps DEF Keccak, leaf
<1>. QED  BY <1>2, <1>11, <1>12 DEF At, leaf

-----------------------------------------------------------------------------
(* Lists of lists.                                                         *)

\* What a list has.
Items(s) == {s[k] : k \in DOMAIN s}

\* The concatenations of the first lists.
IsFlattening(f, ss, n) ==
  f = [i \in 1..n |-> IF i = 1 THEN ss[i] ELSE f[i - 1] \o ss[i]]

\* There are such concatenations.
LEMMA FlatteningsExist == \A ss : \A n \in Nat : \E f : IsFlattening(f, ss, n)
<1>. TAKE ss
<1>. DEFINE T == {n \in Nat : \E f : IsFlattening(f, ss, n)}
<1>1. 0 \in T
  <2>. DEFINE f == [i \in 1..0 |-> <<>>]
  <2>1. \A i \in 1..0 : FALSE
    OBVIOUS
  <2>2. IsFlattening(f, ss, 0)
    BY <2>1 DEF IsFlattening
  <2>. QED  BY <2>2
<1>2. ASSUME NEW n \in Nat, n \in T
      PROVE  n + 1 \in T
  <2>1. PICK f : IsFlattening(f, ss, n)
    BY <1>2
  <2>. DEFINE more == [i \in 1..(n + 1) |->
                         IF i <= n THEN f[i] ELSE IF i = 1 THEN ss[i] ELSE f[n] \o ss[i]]
  <2>2. \A i \in 1..(n + 1) : more[i] = IF i = 1 THEN ss[i] ELSE more[i - 1] \o ss[i]
    <3>1. \A i \in 1..n : f[i] = IF i = 1 THEN ss[i] ELSE f[i - 1] \o ss[i]
      BY <2>1 DEF IsFlattening
    <3>. QED  BY <3>1
  <2>3. IsFlattening(more, ss, n + 1)
    BY <2>2 DEF IsFlattening
  <2>. HIDE DEF more
  <2>. QED  BY <2>3
<1>. HIDE DEF T
<1>3. \A n \in Nat : n \in T
  BY <1>1, <1>2, Induction
<1>. QED  BY <1>3 DEF T

\* What two lists have, their concatenation has.
LEMMA ConcatHas ==
  ASSUME NEW S, NEW s \in Seq(S), NEW t \in Seq(S)
  PROVE  Items(s \o t) = Items(s) \cup Items(t)
<1>. DEFINE c == s \o t
<1>1. ASSUME NEW k \in DOMAIN c
      PROVE  c[k] \in Items(s) \cup Items(t)
  <2>1. CASE k <= Len(s)
    <3>1. k \in DOMAIN s /\ s[k] = c[k]
      BY <1>1, <2>1
    <3>. QED  BY <3>1 DEF Items
  <2>2. CASE ~(k <= Len(s))
    <3>1. k - Len(s) \in DOMAIN t /\ t[k - Len(s)] = c[k]
      BY <1>1, <2>2
    <3>. QED  BY <3>1 DEF Items
  <2>. QED  BY <2>1, <2>2
<1>2. ASSUME NEW k \in DOMAIN s
      PROVE  \E j \in DOMAIN c : c[j] = s[k]
  <2>1. k \in DOMAIN c /\ c[k] = s[k]
    OBVIOUS
  <2>. QED  BY <2>1
<1>3. ASSUME NEW k \in DOMAIN t
      PROVE  \E j \in DOMAIN c : c[j] = t[k]
  <2>1. Len(s) + k \in DOMAIN c /\ c[Len(s) + k] = t[k]
    OBVIOUS
  <2>. QED  BY <2>1
<1>. HIDE DEF c
<1>4. Items(s) \cup Items(t) \subseteq Items(c)
  BY <1>2, <1>3 DEF Items
<1>5. Items(c) \subseteq Items(s) \cup Items(t)
  <2>1. \A x \in Items(c) : \E k \in DOMAIN c : x = c[k]
    BY DEF Items
  <2>. QED  BY <1>1, <2>1
<1>. QED  BY <1>4, <1>5 DEF c

\* FlattenSeq has what the lists have.
LEMMA FlattenHas ==
  ASSUME NEW S, NEW ss \in Seq(Seq(S))
  PROVE  /\ FlattenSeq(ss) \in Seq(S)
         /\ Items(FlattenSeq(ss)) = UNION {Items(ss[i]) : i \in DOMAIN ss}
<1>. DEFINE n == Len(ss)
            f == CHOOSE f : IsFlattening(f, ss, n)
            Good(m) == f[m] \in Seq(S) /\ Items(f[m]) = UNION {Items(ss[i]) : i \in 1..m}
            T == {m \in Nat : m + 1 <= n => Good(m + 1)}
<1>1. /\ n \in Nat /\ DOMAIN ss = 1..n /\ \A i \in 1..n : ss[i] \in Seq(S)
  OBVIOUS
<1>2. CASE n = 0
  <2>1. FlattenSeq(ss) = ss /\ ss = <<>>
    BY <1>2 DEF FlattenSeq
  <2>. QED  BY <2>1 DEF Items
<1>3. CASE n # 0
  <2>1. IsFlattening(f, ss, n)
    BY <1>1, FlatteningsExist
  <2>2. FlattenSeq(ss) = f[n]
    BY <1>3 DEF FlattenSeq, IsFlattening
  <2>. HIDE DEF f, n
  <2>3. \A i \in 1..n : f[i] = IF i = 1 THEN ss[i] ELSE f[i - 1] \o ss[i]
    BY <2>1 DEF IsFlattening
  <2>4. 0 \in T
    <3>1. f[1] = ss[1] /\ ss[1] \in Seq(S) /\ 0 + 1 = 1
      BY <1>1, <1>3, <2>3
    <3>2. UNION {Items(ss[i]) : i \in 1..1} = Items(ss[1])
      <4>1. 1..1 = {1}
        OBVIOUS
      <4>. QED  BY <4>1
    <3>3. Good(1)
      BY <3>1, <3>2
    <3>. HIDE DEF Good
    <3>. QED  BY <3>1, <3>3
  <2>5. ASSUME NEW l \in 1..n, l + 1 \in 1..n, Good(l)
        PROVE  Good(l + 1)
    <3>. DEFINE s == f[l]
                t == ss[l + 1]
    <3>1. s \in Seq(S) /\ t \in Seq(S) /\ Items(s) = UNION {Items(ss[i]) : i \in 1..l}
      BY <1>1, <2>5
    <3>2. f[l + 1] = s \o t
      <4>. DEFINE i == l + 1
      <4>1. i \in 1..n /\ i # 1 /\ i - 1 = l
        BY <1>1, <2>5
      <4>. HIDE DEF i
      <4>2. f[i] = f[i - 1] \o ss[i]
        BY <2>3, <4>1
      <4>. QED  BY <4>1, <4>2 DEF i
    <3>. HIDE DEF s, t
    <3>3. f[l + 1] \in Seq(S)
      BY <3>1, <3>2
    <3>4. Items(s \o t) = Items(s) \cup Items(t)
      BY <3>1, ConcatHas
    <3>5. 1..(l + 1) = 1..l \cup {l + 1}
      BY <1>1
    <3>6. Items(f[l + 1]) = UNION {Items(ss[i]) : i \in 1..(l + 1)}
      <4>. QED  BY <3>1, <3>2, <3>4, <3>5 DEF t
    <3>. QED  BY <3>3, <3>6
  <2>. HIDE DEF Good
  <2>6. ASSUME NEW m \in Nat, m \in T
        PROVE  m + 1 \in T
    <3>1. ASSUME m + 1 + 1 <= n
          PROVE  Good(m + 1 + 1)
      <4>1. m + 1 \in 1..n /\ m + 1 + 1 \in 1..n
        BY <1>1, <3>1
      <4>2. Good(m + 1)
        BY <2>6, <4>1
      <4>. QED  BY <2>5, <4>1, <4>2
    <3>. QED  BY <3>1
  <2>. HIDE DEF T
  <2>7. \A m \in Nat : m \in T
    BY <2>4, <2>6, Induction
  <2>8. Good(n)
    <3>1. n - 1 \in Nat /\ n - 1 + 1 = n /\ n <= n
      BY <1>1, <1>3
    <3>2. n - 1 + 1 <= n => Good(n - 1 + 1)
      BY <2>7, <3>1 DEF T
    <3>. QED  BY <3>1, <3>2
  <2>. QED  BY <1>1, <2>2, <2>8 DEF Good
<1>. QED  BY <1>2, <1>3
=============================================================================
