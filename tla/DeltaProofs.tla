---------------------------- MODULE DeltaProofs -----------------------------
(***************************************************************************)
(* Proofs about DeltaProof, for every curve of prime order, any number of  *)
(* provers and any scalars: keys add up, the composed key proves that the  *)
(* deltas balance, and an accepted proof has one encoding.                 *)
(***************************************************************************)
EXTENDS DeltaProof, BasicProofs

-----------------------------------------------------------------------------
(* The field of scalars.                                                   *)

\* Products of equal factors.
LEMMA CongTimes ==
  ASSUME NEW a \in Int, NEW b \in Int, NEW c \in Int, Cong(a, b)
  PROVE  Cong(c * a, c * b)
<1>1. PICK q \in Int : a = b + q * Order
  BY DEF Cong
<1>2. Order \in Int
  BY OrderAssumption
<1>3. \A x, y, z \in Int : x * (y + z) = x * y + x * z
  OBVIOUS
<1>4. \A x, y, z \in Int : x * (y * z) = (x * y) * z
  OBVIOUS
<1>5. c * a = c * b + (c * q) * Order /\ c * q \in Int /\ q * Order \in Int
  BY <1>1, <1>2, <1>3, <1>4
<1>. QED  BY <1>5 DEF Cong

\* Equal remainders.
LEMMA CongScalars ==
  ASSUME NEW a \in Scalars, NEW b \in Scalars, Cong(a, b)
  PROVE  a = b
<1>1. a \in Int /\ b \in Int /\ a - b < Order /\ b - a < Order
  BY OrderAssumption DEF Scalars
<1>. QED  BY <1>1, CongClose

\* A remainder is a scalar.
LEMMA ModScalar ==
  ASSUME NEW x \in Int
  PROVE  x % Order \in Scalars /\ x % Order \in Int /\ Cong(x % Order, x)
<1>1. Order \in Nat /\ 0 < Order
  BY OrderAssumption
<1>2. x % Order \in 0..(Order - 1)
  BY <1>1, Division
<1>. QED  BY <1>2, CongMod DEF Scalars

\* Scalars and keys are integers.
LEMMA ScalarIsInteger == /\ \A x \in Scalars : x \in Int /\ 0 <= x /\ x < Order
                         /\ \A x \in Keys : x \in Scalars /\ x \in Int /\ 0 < x /\ x < Order
                         /\ \A x \in Int : 0 < x /\ x < Order => x \in Keys
                         /\ Order \in Int /\ 1 < Order
                         /\ \A x \in Keys : Order - x \in Keys
BY OrderAssumption DEF Scalars, Keys

\* A key has a reciprocal.
LEMMA ReciprocalIs ==
  ASSUME NEW x \in Keys
  PROVE  Reciprocal(x) \in Keys /\ Cong(Reciprocal(x) * x, 1)
<1>. DEFINE y == Reciprocal(x)
<1>1. y \in Keys /\ (x * y) % Order = 1
  BY FieldAssumption DEF Reciprocal
<1>. HIDE DEF y
<1>2. x \in Int /\ y \in Int /\ x * y \in Int /\ y * x = x * y
  BY <1>1, ScalarIsInteger
<1>3. Cong(1, x * y)
  BY <1>1, <1>2, ModScalar
<1>4. Cong(y * x, 1)
  BY <1>2, <1>3, CongBack
<1>. QED  BY <1>1, <1>4 DEF y

\* A factor that is no multiple of the order cancels.
LEMMA CongCancels ==
  ASSUME NEW x \in Keys, NEW a \in Int, NEW b \in Int, Cong(x * a, x * b)
  PROVE  Cong(a, b)
<1>. DEFINE y == Reciprocal(x)
<1>1. y \in Keys /\ Cong(y * x, 1)
  BY ReciprocalIs
<1>. HIDE DEF y
<1>2. x \in Int /\ y \in Int /\ y * x \in Int /\ x * a \in Int /\ x * b \in Int
  BY <1>1, ScalarIsInteger
<1>3. ASSUME NEW c \in Int
      PROVE  Cong(y * (x * c), c) /\ y * (x * c) \in Int
  <2>1. c * (y * x) = y * (x * c) /\ c * 1 = c /\ y * (x * c) \in Int
    BY <1>2
  <2>2. Cong(c * (y * x), c * 1)
    <3>. DEFINE p == y * x
    <3>1. p \in Int /\ 1 \in Int /\ Cong(p, 1)
      BY <1>1, <1>2
    <3>. HIDE DEF p
    <3>2. Cong(c * p, c * 1)
      BY <3>1, CongTimes
    <3>. QED  BY <3>2 DEF p
  <2>3. Cong(y * (x * c), c)
    BY <2>1, <2>2, Zenon
  <2>. QED  BY <2>1, <2>3
<1>4. Cong(y * (x * a), y * (x * b))
  BY <1>2, CongTimes
<1>5. Cong(a, y * (x * a))
  BY <1>3, CongBack
<1>6. Cong(a, y * (x * b))
  BY <1>3, <1>4, <1>5, CongThen
<1>. QED  BY <1>3, <1>6, CongThen

\* The order is odd: no point is its own negative.
LEMMA OrderIsOdd == \E h \in Nat : Order = 2 * h + 1 /\ Order \div 2 = h /\ h > 0
<1>. DEFINE h == Order \div 2
<1>1. Order \in Nat /\ Order > 1
  BY OrderAssumption
<1>2. h \in Nat /\ (Order = 2 * h \/ Order = 2 * h + 1)
  BY <1>1
<1>3. Order # 2 * h
  <2>. SUFFICES ASSUME Order = 2 * h
                PROVE  FALSE
    OBVIOUS
  <2>1. h \in Nat /\ 0 < h /\ h < Order /\ Order - h = h
    BY <1>1, <1>2
  <2>. HIDE DEF h
  <2>2. h \in Keys
    BY <2>1, ScalarIsInteger
  <2>3. YIsOdd[h] # YIsOdd[Order - h]
    BY <2>2, CurveAssumption
  <2>. QED  BY <2>1, <2>3
<1>4. h > 0
  BY <1>1, <1>2
<1>. QED  BY <1>2, <1>3, <1>4

\* Multiplying by a quotient gives what was divided.
LEMMA QuotientTimes ==
  ASSUME NEW x \in Keys, NEW m \in Int
  PROVE  /\ (Reciprocal(x) * m) % Order \in Scalars
         /\ Cong(x * ((Reciprocal(x) * m) % Order), m)
<1>. DEFINE y == Reciprocal(x)
            d == (y * m) % Order
<1>1. y \in Keys /\ Cong(y * x, 1)
  BY ReciprocalIs
<1>. HIDE DEF y
<1>2. x \in Int /\ y \in Int /\ y * m \in Int /\ y * x \in Int /\ x * (y * m) \in Int
  BY <1>1, ScalarIsInteger
<1>3. d \in Scalars /\ d \in Int /\ Cong(d, y * m)
  BY <1>2, ModScalar
<1>. HIDE DEF d
<1>4. Cong(x * d, x * (y * m)) /\ x * d \in Int
  <2>. DEFINE z == y * m
  <2>1. z \in Int /\ Cong(d, z)
    BY <1>2, <1>3
  <2>. HIDE DEF z
  <2>2. Cong(x * d, x * z)
    BY <1>2, <1>3, <2>1, CongTimes
  <2>3. x * d \in Int
    BY <1>2, <1>3
  <2>. QED  BY <2>2, <2>3 DEF z
<1>5. Cong(x * (y * m), m)
  <2>. DEFINE p == y * x
  <2>1. p \in Int /\ 1 \in Int /\ Cong(p, 1)
    BY <1>1, <1>2
  <2>2. m * p = x * (y * m)
    BY <1>2
  <2>. HIDE DEF p
  <2>3. Cong(m * p, m * 1)
    BY <2>1, CongTimes
  <2>4. m * 1 = m
    OBVIOUS
  <2>. QED  BY <2>2, <2>3, <2>4, Zenon
<1>6. Cong(x * d, m)
  BY <1>2, <1>4, <1>5, CongThen
<1>. QED  BY <1>3, <1>6 DEF d, y

-----------------------------------------------------------------------------
(* Signing and recovering.                                                 *)

\* The point of a signature, which its r and its recovery id name.
IsPoint(R, r, recid) == R \in Keys /\ XCoordinate[R] = r /\ YIsOdd[R] = (recid = 1)

\* At most one point has them.
LEMMA OnePoint ==
  ASSUME NEW R, NEW T, NEW r, NEW recid, IsPoint(R, r, recid), IsPoint(T, r, recid)
  PROVE  R = T
<1>1. R \in Keys /\ T \in Keys /\ XCoordinate[R] = XCoordinate[T] /\ YIsOdd[R] = YIsOdd[T]
  BY DEF IsPoint
<1>2. T \in {R, Order - R}
  BY <1>1, CurveAssumption
<1>3. T # Order - R
  BY <1>1, CurveAssumption
<1>. QED  BY <1>2, <1>3

\* Its negative has the other recovery id.
LEMMA OppositePoint ==
  ASSUME NEW R, NEW r, NEW recid, IsPoint(R, r, recid)
  PROVE  /\ Order - R \in Keys
         /\ XCoordinate[Order - R] = r
         /\ YIsOdd[Order - R] = (recid # 1)
<1>1. R \in Keys /\ Order - R \in Keys
  BY ScalarIsInteger DEF IsPoint
<1>2. YIsOdd[R] # YIsOdd[Order - R] /\ YIsOdd[R] \in BOOLEAN /\ YIsOdd[Order - R] \in BOOLEAN
  BY <1>1, CurveAssumption
<1>3. XCoordinate[R] = XCoordinate[Order - R]
  BY <1>1, CurveAssumption
<1>. QED  BY <1>1, <1>2, <1>3 DEF IsPoint

\* What is recovered from a point.
KeyOf(digest, r, s, R) == (Reciprocal(r) * (s * R + Order * Order - digest)) % Order

LEMMA KeyOfIs ==
  ASSUME NEW digest \in Scalars, NEW r \in Keys, NEW s \in Keys, NEW R \in Keys
  PROVE  /\ KeyOf(digest, r, s, R) \in Scalars
         /\ Cong(r * KeyOf(digest, r, s, R), s * R - digest)
<1>. DEFINE m == s * R + Order * Order - digest
            D == KeyOf(digest, r, s, R)
<1>1. m \in Int /\ s * R - digest \in Int /\ Order \in Int
  BY ScalarIsInteger
<1>2. m = (s * R - digest) + Order * Order
  BY ScalarIsInteger
<1>3. Cong(m, s * R - digest)
  BY <1>1, <1>2 DEF Cong
<1>. HIDE DEF m
<1>4. D \in Scalars /\ Cong(r * D, m)
  BY <1>1, QuotientTimes DEF KeyOf, m
<1>5. r * D \in Int
  BY <1>4, ScalarIsInteger
<1>. HIDE DEF D
<1>6. Cong(r * D, s * R - digest)
  BY <1>1, <1>3, <1>4, <1>5, CongThen
<1>. QED  BY <1>4, <1>6 DEF D

\* Recovering gives the key of the one point there is.
LEMMA RecoveredIs ==
  ASSUME NEW digest, NEW r \in Nat, NEW s, NEW recid \in {0, 1}
  PROVE  \A D : D \in Recovered(digest, r, s, recid)
               <=> \E R \in Keys : IsPoint(R, r, recid) /\ D = KeyOf(digest, r, s, R)
<1>1. \A k \in Keys : /\ XCoordinate[k] = r + (IF recid > 1 THEN Order ELSE 0)
                      /\ YIsOdd[k] = (recid % 2 = 1)
                      <=> IsPoint(k, r, recid)
  BY DEF IsPoint
<1>. QED  BY <1>1 DEF Recovered, KeyOf

LEMMA RecoveredAt ==
  ASSUME NEW digest, NEW r \in Nat, NEW s, NEW recid \in {0, 1}, NEW R, IsPoint(R, r, recid)
  PROVE  Recovered(digest, r, s, recid) = {KeyOf(digest, r, s, R)}
<1>1. \A k \in Keys : IsPoint(k, r, recid) <=> k = R
  BY OnePoint
<1>2. R \in Keys
  BY DEF IsPoint
<1>3. \A D : D \in Recovered(digest, r, s, recid) <=> D = KeyOf(digest, r, s, R)
  BY <1>1, <1>2, RecoveredIs
<1>. QED  BY <1>3

\* A signature is low, and its s times its point is what was signed.
LEMMA SignatureIs ==
  ASSUME NEW key \in Scalars, NEW digest \in Scalars, NEW nonce \in Keys, NEW sig,
         sig = Signature(key, digest, nonce), sig.r # 0, sig.s # 0, ~(sig.recid > 1)
  PROVE  /\ sig.r \in Keys /\ sig.s \in Keys /\ sig.recid \in {0, 1} /\ ~IsHigh(sig.s)
         /\ \E R \in Keys : /\ IsPoint(R, sig.r, sig.recid)
                            /\ Cong(sig.s * R, digest + sig.r * key)
<1>. DEFINE x == XCoordinate[nonce]
            r == x % Order
            m == digest + r * key
            s == (Reciprocal(nonce) * m) % Order
            odd == IF IsHigh(s) THEN ~YIsOdd[nonce] ELSE YIsOdd[nonce]
<1>1. /\ sig.r = r /\ sig.s = (IF IsHigh(s) THEN Order - s ELSE s)
      /\ sig.recid = (IF odd THEN 1 ELSE 0) + (IF x >= Order THEN 2 ELSE 0)
  BY DEF Signature
<1>2. x \in Nat /\ YIsOdd[nonce] \in BOOLEAN /\ nonce \in Int /\ Order \in Int /\ 1 < Order
  BY CurveAssumption, ScalarIsInteger
<1>. HIDE DEF odd
<1>3. sig.recid = (IF odd THEN 1 ELSE 0) /\ x < Order
  BY <1>1, <1>2
<1>. HIDE DEF x
<1>4. r \in Keys /\ r = x
  <2>1. r = x
    BY <1>2, <1>3
  <2>. HIDE DEF r
  <2>2. r \in Int /\ 0 < r /\ r < Order
    BY <1>1, <1>2, <1>3, <2>1
  <2>. QED  BY <2>1, <2>2, ScalarIsInteger
<1>. HIDE DEF r
<1>5. m \in Int
  BY <1>4, ScalarIsInteger
<1>. HIDE DEF m
<1>6. s \in Scalars /\ Cong(nonce * s, m)
  BY <1>5, QuotientTimes
<1>. HIDE DEF s
<1>7. s \in Int /\ 0 <= s /\ s < Order
  BY <1>6, ScalarIsInteger
<1>8. CASE ~IsHigh(s)
  <2>1. sig.s = s /\ sig.recid = (IF YIsOdd[nonce] THEN 1 ELSE 0)
    BY <1>1, <1>3, <1>8 DEF odd
  <2>2. s \in Keys
    BY <1>7, <2>1, ScalarIsInteger
  <2>3. IsPoint(nonce, sig.r, sig.recid)
    BY <1>1, <1>2, <1>4, <2>1 DEF IsPoint, x
  <2>4. s * nonce = nonce * s
    BY <1>2, <1>7
  <2>5. Cong(s * nonce, m)
    BY <1>6, <2>4, Zenon
  <2>. QED  BY <1>1, <1>4, <1>8, <2>1, <2>2, <2>3, <2>5 DEF m
<1>9. CASE IsHigh(s)
  <2>. DEFINE t == Order - s
              R == Order - nonce
  <2>1. sig.s = t /\ sig.recid = (IF YIsOdd[nonce] THEN 0 ELSE 1)
    BY <1>1, <1>3, <1>9 DEF odd
  <2>2. s \in Keys /\ t \in Keys
    <3>1. 0 < s
      BY <1>2, <1>7, <1>9 DEF IsHigh
    <3>. QED  BY <1>7, <3>1, ScalarIsInteger
  <2>3. ~IsHigh(t)
    BY <1>7, <1>9, OrderIsOdd DEF IsHigh
  <2>4. IsPoint(R, sig.r, sig.recid)
    <3>1. YIsOdd[nonce] # YIsOdd[R] /\ YIsOdd[R] \in BOOLEAN /\ XCoordinate[nonce] = XCoordinate[R]
          /\ R \in Keys
      <4>1. R \in Keys
        BY ScalarIsInteger
      <4>. HIDE DEF R
      <4>2. YIsOdd[R] \in BOOLEAN
        BY <4>1, CurveAssumption
      <4>. QED  BY <4>1, <4>2, CurveAssumption DEF R
    <3>. HIDE DEF R
    <3>. QED  BY <1>1, <1>2, <1>4, <2>1, <3>1 DEF IsPoint, x
  <2>5. Cong(t * R, nonce * s)
    <3>1. t * R = nonce * s + (Order - s - nonce) * Order
      <4>1. \A a, b, n \in Int : (n - a) * (n - b) = b * a + (n - a - b) * n
        OBVIOUS
      <4>. QED  BY <1>2, <1>7, <4>1
    <3>2. Order - s - nonce \in Int
      BY <1>2, <1>7
    <3>. QED  BY <3>1, <3>2 DEF Cong
  <2>6. t * R \in Int /\ nonce * s \in Int
    BY <1>2, <1>7
  <2>7. Cong(t * R, m)
    BY <1>5, <1>6, <2>5, <2>6, CongThen
  <2>8. R \in Keys
    BY <2>4 DEF IsPoint
  <2>. HIDE DEF t, R
  <2>. QED  BY <1>1, <1>4, <2>1, <2>2, <2>3, <2>4, <2>7, <2>8 DEF m
<1>. QED  BY <1>8, <1>9

-----------------------------------------------------------------------------
(* Sums of secrets.                                                        *)

LEMMA SumOnSetIs == \A f, S : SumFunctionOnSet(f, S) = SumOver(f, S)
BY DEF SumFunctionOnSet, FoldFunctionOnSet, MapThenFoldSet,
       SumOver, IsSums, Summed, AnyOf

\* What is known of the inputs in every state.
InputsOK == /\ secrets \in [Parties -> Seq(Scalars)]
            /\ excess \in Scalars
            /\ hash \in Scalars

Shares == [p \in Parties |-> ScalarSum(secrets[p])]

LEMMA SharesAre ==
  ASSUME InputsOK
  PROVE  \A p \in Parties : Shares[p] = ScalarSum(secrets[p]) /\ Shares[p] \in Scalars
<1>. SUFFICES ASSUME NEW p \in Parties
              PROVE  ScalarSum(secrets[p]) \in Scalars
  BY DEF Shares
<1>. DEFINE list == secrets[p]
<1>1. list \in Seq(Scalars)
  BY DEF InputsOK
<1>. HIDE DEF list
<1>2. DOMAIN list = 1..Len(list) /\ Len(list) \in Nat /\ \A k \in 1..Len(list) : list[k] \in Scalars
  BY <1>1
<1>3. IsFiniteSet(DOMAIN list)
  BY <1>2, FS_Interval
<1>4. Summable(list, DOMAIN list)
  BY <1>2, <1>3, ScalarIsInteger DEF Summable
<1>5. SumFunction(list) \in Int
  BY <1>4, SumIsInteger, SumFunctionIs
<1>. QED  BY <1>5, ModScalar DEF ScalarSum, list

\* The blinding of some parties is the sum of their shares.
LEMMA BlindingIs ==
  ASSUME InputsOK, NEW A, A \subseteq Parties
  PROVE  /\ Summable(Shares, A) /\ SumOver(Shares, A) \in Int
         /\ Blinding(A) = SumOver(Shares, A) % Order
         /\ Blinding(A) \in Scalars
         /\ Cong(Blinding(A), SumOver(Shares, A))
<1>. DEFINE f == [p \in A |-> ScalarSum(secrets[p])]
<1>1. IsFiniteSet(A)
  BY InputsAssumption, FS_Subset
<1>2. Summable(Shares, A)
  BY <1>1, SharesAre, ScalarIsInteger DEF Summable
<1>3. \A p \in A : Shares[p] = f[p]
  BY SharesAre
<1>4. DOMAIN f = A
  OBVIOUS
<1>5. Blinding(A) = SumFunction(f) % Order
  BY DEF Blinding
<1>. HIDE DEF f
<1>6. SumOver(Shares, A) = SumOver(f, A)
  BY <1>2, <1>3, SumSame
<1>7. SumFunction(f) = SumOver(Shares, A)
  BY <1>4, <1>6, SumFunctionIs
<1>8. SumOver(Shares, A) \in Int
  BY <1>2, SumIsInteger
<1>. QED  BY <1>2, <1>5, <1>7, <1>8, ModScalar

\* of one,
LEMMA BlindingOfOne ==
  ASSUME InputsOK, NEW p \in Parties
  PROVE  Blinding({p}) = ScalarSum(secrets[p])
<1>1. Summable(Shares, {p}) /\ Blinding({p}) \in Scalars /\ Cong(Blinding({p}), SumOver(Shares, {p}))
  BY BlindingIs
<1>2. SumOver(Shares, {p}) = Shares[p] + SumOver(Shares, {p} \ {p})
  BY <1>1, SumRemoves
<1>3. {p} \ {p} = {} /\ SumOver(Shares, {}) = 0
  BY SumEmpty
<1>4. SumOver(Shares, {p}) = Shares[p] /\ Shares[p] \in Scalars /\ Shares[p] = ScalarSum(secrets[p])
  <2>1. Shares[p] \in Scalars /\ Shares[p] = ScalarSum(secrets[p])
    BY SharesAre
  <2>2. Shares[p] \in Int
    BY <2>1, ScalarIsInteger
  <2>3. SumOver(Shares, {p}) = Shares[p] + 0
    BY <1>2, <1>3
  <2>. QED  BY <2>1, <2>2, <2>3
<1>. QED  BY <1>1, <1>4, CongScalars

\* and of two groups that share no party.
LEMMA BlindingOfBoth ==
  ASSUME InputsOK, NEW A, A \subseteq Parties, NEW B, B \subseteq Parties, A \cap B = {}
  PROVE  Blinding(A \cup B) = (Blinding(A) + Blinding(B)) % Order
<1>. DEFINE a == SumOver(Shares, A)
            b == SumOver(Shares, B)
            c == Blinding(A) + Blinding(B)
<1>1. /\ Summable(Shares, A) /\ Summable(Shares, B) /\ a \in Int /\ b \in Int
      /\ Blinding(A) \in Scalars /\ Blinding(B) \in Scalars
      /\ Cong(Blinding(A), a) /\ Cong(Blinding(B), b)
  BY BlindingIs
<1>2. SumOver(Shares, A \cup B) = a + b
  BY <1>1, SumDisjoint
<1>3. Blinding(A \cup B) \in Scalars /\ Cong(Blinding(A \cup B), a + b)
  <2>1. A \cup B \subseteq Parties
    OBVIOUS
  <2>2. Blinding(A \cup B) \in Scalars /\ Cong(Blinding(A \cup B), SumOver(Shares, A \cup B))
    BY <2>1, BlindingIs
  <2>. QED  BY <1>2, <2>2
<1>4. c \in Int /\ Cong(c, a + b) /\ a + b \in Int
  <2>1. Blinding(A) \in Int /\ Blinding(B) \in Int
    BY <1>1, ScalarIsInteger
  <2>. HIDE DEF a, b
  <2>2. Cong(Blinding(A) + Blinding(B), a + b)
    BY <1>1, <2>1, CongPlus
  <2>. QED  BY <1>1, <2>1, <2>2
<1>. HIDE DEF a, b, c
<1>5. Cong(a + b, c)
  BY <1>4, CongBack
<1>6. c % Order \in Scalars /\ c % Order \in Int /\ Cong(c, c % Order)
  BY <1>4, ModScalar, CongBack
<1>7. Cong(Blinding(A \cup B), c)
  BY <1>3, <1>4, <1>5, CongThen, ScalarIsInteger
<1>8. Cong(Blinding(A \cup B), c % Order)
  BY <1>3, <1>4, <1>6, <1>7, CongThen, ScalarIsInteger
<1>. QED  BY <1>3, <1>6, <1>8, CongScalars DEF c

-----------------------------------------------------------------------------
(* Witnesses.                                                              *)

\* The witnesses share no party, and each has the blinding of its own.
AddUp(ws) == /\ IsFiniteSet(ws)
             /\ \A w \in ws : w.of \subseteq Parties /\ w.of # {} /\ w.key = Blinding(w.of)
             /\ \A w, x \in ws : w # x => w.of \cap x.of = {}

PoolOK == AddUp(pool)

\* The length of a list is the last number of its domain.
LEMMA LenDomain ==
  ASSUME NEW n \in Nat, NEW list, list = [k \in 1..n |-> list[k]]
  PROVE  Len(list) = n
<1>. DEFINE S == {list[k] : k \in 1..n}
<1>1. list \in [1..n -> S]
  OBVIOUS
<1>. HIDE DEF S
<1>2. list \in Seq(S)
  BY <1>1
<1>3. Len(list) \in Nat /\ DOMAIN list = 1..Len(list)
  BY <1>2, LenProperties
<1>4. 1..n = 1..Len(list)
  BY <1>1, <1>3
<1>. QED  BY <1>3, <1>4

\* A list without repetition of all elements of a set.
LEMMA ListsAreComplete ==
  ASSUME NEW S, IsFiniteSet(S), NEW list \in SetToSeqs(S)
  PROVE  \E n \in Nat : /\ DOMAIN list = 1..n /\ Len(list) = n
                        /\ \A j, k \in 1..n : j # k => list[j] # list[k]
                        /\ S = {list[k] : k \in 1..n}
<1>. DEFINE n == Cardinality(S)
            D == 1..n
<1>1. n \in Nat
  BY FS_CardinalityType
<1>2. list \in [D -> S] /\ \A j, k \in D : j # k => list[j] # list[k]
  BY DEF SetToSeqs
<1>3. IsFiniteSet(D) /\ Cardinality(D) = n
  BY <1>1, FS_Interval
<1>4. list \in Injection(D, S)
  BY <1>2 DEF Injection, IsInjective
<1>5. list \in Surjection(D, S)
  BY <1>3, <1>4, FS_Injection
<1>6. S = {list[k] : k \in D}
  BY <1>5 DEF Surjection
<1>7. DOMAIN list = 1..n /\ list = [k \in 1..n |-> list[k]]
  BY <1>2
<1>. HIDE DEF n
<1>8. Len(list) = n
  BY <1>1, <1>7, LenDomain
<1>. QED  BY <1>1, <1>2, <1>6, <1>7, <1>8

\* Composing all of a list adds up.
LEMMA CompressIs ==
  ASSUME NEW keys, NEW n \in Nat, n > 0, DOMAIN keys = 1..n, Len(keys) = n,
         \A k \in 1..n : keys[k] \in Int
  PROVE  /\ Summable(keys, 1..n)
         /\ Compress(keys) = SumOver(keys, 1..n) % Order
<1>1. IsFiniteSet(1..n)
  BY FS_Interval
<1>2. Summable(keys, 1..n)
  BY <1>1 DEF Summable
<1>3. 1 \in 1..n /\ (1..n) \ {1} = 2..n
  OBVIOUS
<1>4. SumOver(keys, 1..n) = keys[1] + SumOver(keys, 2..n)
  BY <1>2, <1>3, SumRemoves
<1>. QED  BY <1>2, <1>4, SumOnSetIs DEF Compress

\* The compressed key is the blinding of all whose keys it is made of.
LEMMA CompressAddsUp ==
  ASSUME InputsOK, PoolOK, NEW list \in SetToSeqs(pool), list # <<>>
  PROVE  /\ Compress([k \in DOMAIN list |-> list[k].key]) = Blinding(UNION {w.of : w \in pool})
         /\ UNION {w.of : w \in pool} \subseteq Parties
         /\ UNION {w.of : w \in pool} # {}
<1>1. PICK n \in Nat : /\ DOMAIN list = 1..n /\ Len(list) = n
                       /\ \A j, k \in 1..n : j # k => list[j] # list[k]
                       /\ pool = {list[k] : k \in 1..n}
  BY ListsAreComplete DEF PoolOK, AddUp
<1>. DEFINE keys == [k \in DOMAIN list |-> list[k].key]
            T    == [k \in 1..n |-> list[k].of]
            g    == [k \in 1..n |-> SumOver(Shares, T[k])]
            A    == UNION {w.of : w \in pool}
<1>2. \A k \in 1..n : /\ T[k] = list[k].of /\ T[k] \subseteq Parties /\ T[k] # {}
                      /\ keys[k] = Blinding(T[k])
  BY <1>1 DEF PoolOK, AddUp
<1>3. \A j, k \in 1..n : j # k => T[j] \cap T[k] = {}
  BY <1>1, <1>2 DEF PoolOK, AddUp
<1>4. A = UNION {T[k] : k \in 1..n}
  BY <1>1, <1>2
<1>5. n > 0
  <2>. SUFFICES ASSUME n = 0
                PROVE  FALSE
    BY <1>1
  <2>1. pool = {}
    BY <1>1
  <2>2. Cardinality(pool) = 0
    BY <2>1, FS_EmptySet
  <2>3. list \in [1..0 -> pool]
    BY <2>2 DEF SetToSeqs
  <2>4. list = <<>>
    BY <2>3
  <2>. QED  BY <2>4
<1>6. DOMAIN keys = 1..n /\ Len(keys) = n
  <2>1. DOMAIN keys = 1..n /\ keys = [k \in 1..n |-> keys[k]]
    BY <1>1
  <2>. HIDE DEF keys
  <2>. QED  BY <2>1, LenDomain
<1>7. A \subseteq Parties /\ A # {}
  <2>1. 1 \in 1..n
    BY <1>5
  <2>. HIDE DEF T, A
  <2>2. A \subseteq Parties
    BY <1>2, <1>4
  <2>3. T[1] \subseteq A /\ T[1] # {}
    BY <1>2, <1>4, <2>1
  <2>. QED  BY <2>2, <2>3
<1>8. \A k \in 1..n : g[k] = SumOver(Shares, T[k])
  OBVIOUS
<1>. HIDE DEF keys, T, g, A
<1>9. \A k \in 1..n : /\ Summable(Shares, T[k]) /\ g[k] \in Int /\ keys[k] \in Scalars
                      /\ Cong(keys[k], g[k])
  <2>. SUFFICES ASSUME NEW k \in 1..n
                PROVE  /\ Summable(Shares, T[k]) /\ g[k] \in Int /\ keys[k] \in Scalars
                       /\ Cong(keys[k], g[k])
    OBVIOUS
  <2>. DEFINE P == T[k]
  <2>1. P \subseteq Parties /\ keys[k] = Blinding(P) /\ g[k] = SumOver(Shares, P)
    BY <1>2, <1>8
  <2>. HIDE DEF P
  <2>2. /\ Summable(Shares, P) /\ SumOver(Shares, P) \in Int
        /\ Blinding(P) \in Scalars
        /\ Cong(Blinding(P), SumOver(Shares, P))
    BY <2>1, BlindingIs
  <2>. QED  BY <2>1, <2>2 DEF P
<1>10. \A k \in 1..n : keys[k] \in Int
  BY <1>9, ScalarIsInteger
<1>11. IsFiniteSet(1..n)
  BY FS_Interval
<1>12. SumOver(Shares, A) = SumOver(g, 1..n)
  <2>. DEFINE I == 1..n
  <2>1. IsFiniteSet(I)
    BY <1>11
  <2>2. \A k \in I : Summable(Shares, T[k]) /\ g[k] = SumOver(Shares, T[k])
    BY <1>8, <1>9
  <2>3. \A j, k \in I : j # k => T[j] \cap T[k] = {}
    BY <1>3
  <2>. HIDE DEF I
  <2>4. SumOver(Shares, UNION {T[k] : k \in I}) = SumOver(g, I)
    BY <2>1, <2>2, <2>3, SumUnion
  <2>. QED  BY <1>4, <2>4 DEF I
<1>13. Summable(keys, 1..n) /\ Compress(keys) = SumOver(keys, 1..n) % Order
  BY <1>5, <1>6, <1>10, CompressIs
<1>14. Summable(g, 1..n)
  BY <1>9, <1>11 DEF Summable
<1>15. Cong(SumOver(keys, 1..n), SumOver(g, 1..n))
  BY <1>9, <1>13, <1>14, CongSum
<1>. DEFINE a == SumOver(keys, 1..n)
            b == SumOver(g, 1..n)
<1>16. a \in Int /\ b \in Int
  BY <1>13, <1>14, SumIsInteger
<1>17. Blinding(A) \in Scalars /\ Cong(Blinding(A), b)
  BY <1>7, <1>12, BlindingIs
<1>. HIDE DEF a, b
<1>18. a % Order \in Scalars /\ a % Order \in Int /\ Cong(a % Order, a)
  BY <1>16, ModScalar
<1>19. Cong(a % Order, b)
  BY <1>15, <1>16, <1>18, CongThen DEF a, b
<1>20. Cong(b, Blinding(A)) /\ Blinding(A) \in Int
  BY <1>16, <1>17, CongBack, ScalarIsInteger
<1>21. Cong(a % Order, Blinding(A))
  BY <1>16, <1>18, <1>19, <1>20, CongThen
<1>22. a % Order = Blinding(A)
  BY <1>17, <1>18, <1>21, CongScalars
<1>. QED  BY <1>7, <1>13, <1>22 DEF a, A, keys

\* A witness of one more party,
LEMMA OneMore ==
  ASSUME InputsOK, NEW ws, AddUp(ws), NEW p \in Parties, \A w \in ws : p \notin w.of
  PROVE  AddUp(ws \cup {[of |-> {p}, key |-> ScalarSum(secrets[p])]})
<1>. DEFINE new == [of |-> {p}, key |-> ScalarSum(secrets[p])]
            all == ws \cup {new}
<1>1. new.of = {p} /\ new.key = Blinding(new.of)
  BY BlindingOfOne
<1>. HIDE DEF new
<1>2. IsFiniteSet(all)
  BY FS_AddElement DEF AddUp
<1>3. \A w \in all : w.of \subseteq Parties /\ w.of # {} /\ w.key = Blinding(w.of)
  BY <1>1 DEF AddUp
<1>4. \A w \in ws : w.of \cap new.of = {}
  BY <1>1
<1>5. \A w, x \in all : w # x => w.of \cap x.of = {}
  BY <1>4 DEF AddUp
<1>. HIDE DEF all
<1>6. AddUp(all)
  BY <1>2, <1>3, <1>5 DEF AddUp
<1>. QED  BY <1>6 DEF all, new

\* one for two,
LEMMA OneForTwo ==
  ASSUME InputsOK, NEW ws, AddUp(ws), NEW w \in ws, NEW x \in ws, w # x
  PROVE  AddUp((ws \ {w, x}) \cup {[of |-> w.of \cup x.of, key |-> (w.key + x.key) % Order]})
<1>. DEFINE new  == [of |-> w.of \cup x.of, key |-> (w.key + x.key) % Order]
            rest == ws \ {w, x}
            all  == rest \cup {new}
<1>1. /\ w.of \subseteq Parties /\ x.of \subseteq Parties /\ w.of # {} /\ w.of \cap x.of = {}
      /\ w.key = Blinding(w.of) /\ x.key = Blinding(x.of)
  BY DEF AddUp
<1>2. (w.key + x.key) % Order = Blinding(w.of \cup x.of)
  <2>. DEFINE A == w.of
              B == x.of
  <2>1. A \subseteq Parties /\ B \subseteq Parties /\ A \cap B = {}
    BY <1>1
  <2>. HIDE DEF A, B
  <2>2. Blinding(A \cup B) = (Blinding(A) + Blinding(B)) % Order
    BY <2>1, BlindingOfBoth
  <2>. QED  BY <1>1, <2>2 DEF A, B
<1>3. new.of = w.of \cup x.of /\ new.key = Blinding(new.of)
  BY <1>2
<1>. HIDE DEF new
<1>4. IsFiniteSet(rest)
  BY FS_Subset DEF AddUp
<1>5. \A y \in rest : y \in ws /\ y # w /\ y # x
  OBVIOUS
<1>. HIDE DEF rest
<1>6. IsFiniteSet(all)
  BY <1>4, FS_AddElement
<1>7. \A y \in all : y.of \subseteq Parties /\ y.of # {} /\ y.key = Blinding(y.of)
  BY <1>1, <1>3, <1>5 DEF AddUp
<1>8. \A y \in rest : y.of \cap new.of = {}
  BY <1>3, <1>5 DEF AddUp
<1>9. \A y, z \in all : y # z => y.of \cap z.of = {}
  BY <1>5, <1>8 DEF AddUp
<1>. HIDE DEF all
<1>10. AddUp(all)
  BY <1>6, <1>7, <1>9 DEF AddUp
<1>. QED  BY <1>10 DEF all, new, rest

\* and one for all.
LEMMA OneForAll ==
  ASSUME NEW A, A \subseteq Parties, A # {}
  PROVE  AddUp({[of |-> A, key |-> Blinding(A)]})
<1>. DEFINE new == [of |-> A, key |-> Blinding(A)]
<1>1. new.of = A /\ new.key = Blinding(A)
  OBVIOUS
<1>. HIDE DEF new
<1>2. IsFiniteSet({new})
  BY FS_Singleton
<1>3. AddUp({new})
  BY <1>1, <1>2 DEF AddUp
<1>. QED  BY <1>3 DEF new

-----------------------------------------------------------------------------
(* Keys add up.                                                            *)

LEMMA InputsInit == Init => InputsOK
<1>. SUFFICES ASSUME Init
              PROVE  InputsOK
  OBVIOUS
<1>1. \A p \in Parties : secrets[p] \in Secrets(p)
  BY DEF Init
<1>2. secrets = [p \in Parties |-> secrets[p]]
  BY DEF Init
<1>3. \A p \in Parties : secrets[p] \in Seq(Scalars)
  BY <1>1, InputsAssumption
<1>4. secrets \in [Parties -> Seq(Scalars)]
  BY <1>2, <1>3
<1>5. excess \in Scalars /\ hash \in Scalars
  BY InputsAssumption DEF Init
<1>. QED  BY <1>4, <1>5 DEF InputsOK

LEMMA PoolInit == Init => PoolOK
BY FS_EmptySet DEF Init, PoolOK, AddUp

\* No step changes the inputs.
LEMMA InputsStay == [Next]_vars => UNCHANGED <<secrets, excess, hash>>
BY DEF Next, FromScalars, Compose, FromBytesVec, Prove, Verify, vars

LEMMA BlindingStays == UNCHANGED secrets => \A A : Blinding(A)' = Blinding(A)
BY DEF Blinding, ScalarSum

LEMMA AddUpStays == UNCHANGED secrets => \A ws : AddUp(ws)' = AddUp(ws)
BY BlindingStays DEF AddUp

LEMMA PoolStep == InputsOK /\ PoolOK /\ [Next]_vars => PoolOK'
<1>. SUFFICES ASSUME InputsOK, PoolOK, [Next]_vars
              PROVE  AddUp(pool')
  BY InputsStay, AddUpStays DEF PoolOK
<1>1. AddUp(pool)
  BY DEF PoolOK
<1>2. ASSUME UNCHANGED pool
      PROVE  AddUp(pool')
  BY <1>1, <1>2
<1>3. ASSUME NEW p \in Parties, FromScalars(p)
      PROVE  AddUp(pool')
  BY <1>1, <1>2, <1>3, OneMore DEF FromScalars
<1>4. ASSUME NEW w \in pool, NEW x \in pool, w # x, Compose(w, x)
      PROVE  AddUp(pool')
  BY <1>1, <1>2, <1>4, OneForTwo DEF Compose
<1>5. ASSUME NEW list \in SetToSeqs(pool), FromBytesVec(list)
      PROVE  AddUp(pool')
  <2>. DEFINE keys == [k \in DOMAIN list |-> list[k].key]
              A    == UNION {w.of : w \in pool}
  <2>1. \/ UNCHANGED pool
        \/ list # <<>> /\ pool' = {[of |-> A, key |-> Compress(keys)]}
    BY <1>5 DEF FromBytesVec
  <2>2. CASE list # <<>> /\ pool' = {[of |-> A, key |-> Compress(keys)]}
    <3>1. Compress(keys) = Blinding(A) /\ A \subseteq Parties /\ A # {}
      BY <2>2, CompressAddsUp
    <3>. HIDE DEF keys, A
    <3>. QED  BY <2>2, <3>1, OneForAll
  <2>. QED  BY <1>2, <2>1, <2>2
<1>6. CASE \E w \in pool, nonce \in Keys : Prove(w, nonce)
  BY <1>2, <1>6 DEF Prove
<1>7. CASE \E bytes \in Deliveries : Verify(bytes)
  BY <1>2, <1>7 DEF Verify
<1>8. CASE UNCHANGED vars
  BY <1>2, <1>8 DEF vars
<1>. QED  BY <1>3, <1>4, <1>5, <1>6, <1>7, <1>8 DEF Next

(* However the witnesses are put together, in pairs (compose) or from bytes*)
(* (from_bytes_vec), by way of zero or not, and whoever there is: a key is *)
(* the sum of all the scalars behind it.                                   *)
THEOREM KeysAddUpAlways == Spec => []KeysAddUp
<1>. DEFINE Inv == InputsOK /\ PoolOK
<1>1. Init => Inv
  BY InputsInit, PoolInit
<1>2. Inv /\ [Next]_vars => Inv'
  BY InputsStay, PoolStep DEF InputsOK
<1>3. Inv => KeysAddUp
  BY DEF PoolOK, AddUp, KeysAddUp
<1>. QED  BY <1>1, <1>2, <1>3, PTL DEF Spec

-----------------------------------------------------------------------------
(* What is made, what is given, and the verdict.                           *)

\* A proof is the signature of the hash under the whole blinding.
IsProofOf(nonce) ==
  LET sig == Signature(Blinding(Parties), hash, nonce)
  IN  /\ made = ToBytes(sig)
      /\ sig.r # 0 /\ sig.s # 0 /\ ~(sig.recid > 1)

MadeOK == made.is = "proof" => \E nonce \in Keys : IsProofOf(nonce)

\* The verdict is on what was given, and that comes from what was made.
GivenOK == \/ given = Nothing /\ verdict = "none"
           \/ /\ made.is = "proof"
              /\ \E bytes \in Deliveries : given = bytes /\ verdict \in Verdicts(bytes)

LEMMA MadeInit == Init => MadeOK /\ GivenOK
BY DEF Init, MadeOK, GivenOK, Nothing

LEMMA ProofStays ==
  UNCHANGED <<secrets, hash, made>> => \A nonce : IsProofOf(nonce)' = IsProofOf(nonce)
BY BlindingStays DEF IsProofOf

LEMMA MadeStep == InputsOK /\ PoolOK /\ MadeOK /\ [Next]_vars => MadeOK'
<1>. SUFFICES ASSUME InputsOK, PoolOK, MadeOK, [Next]_vars, made'.is = "proof"
              PROVE  \E nonce \in Keys : IsProofOf(nonce)'
  BY DEF MadeOK
<1>1. UNCHANGED <<secrets, hash>>
  BY InputsStay
<1>2. CASE UNCHANGED made
  <2>1. PICK nonce \in Keys : IsProofOf(nonce)
    BY <1>2 DEF MadeOK
  <2>. QED  BY <1>1, <1>2, <2>1, ProofStays
<1>3. ASSUME NEW w \in pool, NEW nonce \in Keys, Prove(w, nonce)
      PROVE  IsProofOf(nonce)'
  <2>. DEFINE sig == Signature(Blinding(Parties), hash, nonce)
  <2>1. w.key = Blinding(Parties)
    BY <1>3 DEF Prove, PoolOK, AddUp
  <2>2. made' = IF sig.r = 0 \/ sig.s = 0 THEN Error("DeltaProofGenerationFailed")
                ELSE IF sig.recid > 1 THEN Error("InvalidDeltaProof")
                ELSE ToBytes(sig)
    BY <1>3, <2>1 DEF Prove
  <2>3. Signature(Blinding(Parties), hash, nonce)' = sig
    BY <1>1, BlindingStays DEF Signature, IsHigh, Reciprocal
  <2>. HIDE DEF sig
  <2>4. /\ made' = ToBytes(sig)
        /\ sig.r # 0 /\ sig.s # 0 /\ ~(sig.recid > 1)
    BY <2>2 DEF Error
  <2>. QED  BY <2>3, <2>4 DEF IsProofOf, ToBytes
<1>4. ASSUME NEW p \in Parties, FromScalars(p)
      PROVE  UNCHANGED made
  BY <1>4 DEF FromScalars, Error
<1>5. ASSUME NEW w \in pool, NEW x \in pool, Compose(w, x)
      PROVE  UNCHANGED made
  BY <1>5 DEF Compose, Error
<1>6. ASSUME NEW list \in SetToSeqs(pool), FromBytesVec(list)
      PROVE  UNCHANGED made
  BY <1>6 DEF FromBytesVec, Error
<1>7. CASE \E bytes \in Deliveries : Verify(bytes)
  BY <1>2, <1>7 DEF Verify
<1>8. CASE UNCHANGED vars
  BY <1>2, <1>8 DEF vars
<1>. QED  BY <1>2, <1>3, <1>4, <1>5, <1>6, <1>7, <1>8 DEF Next

LEMMA VerdictsStay ==
  UNCHANGED <<secrets, excess, hash>> => \A bytes : Verdicts(bytes)' = Verdicts(bytes)
<1>. SUFFICES ASSUME UNCHANGED <<secrets, excess, hash>>
              PROVE  \A bytes : Verdicts(bytes)' = Verdicts(bytes)
  OBVIOUS
<1>1. DeltaSum' = DeltaSum
  BY BlindingStays DEF DeltaSum
<1>2. \A sig, sum : Verified(sig, sum)' = Verified(sig, sum)
  BY DEF Verified, Recovered, Canonical, IsHigh, Reciprocal
<1>3. \A bytes : FromBytes(bytes)' = FromBytes(bytes)
  BY DEF FromBytes, Error
<1>. QED  BY <1>1, <1>2, <1>3 DEF Verdicts

LEMMA DeliveriesStay == UNCHANGED made => Deliveries' = Deliveries
BY DEF Deliveries

\* Once something is given, a proof was made, and nothing else is.
LEMMA GivenStep == GivenOK /\ [Next]_vars => GivenOK'
<1>. SUFFICES ASSUME GivenOK, [Next]_vars
              PROVE  GivenOK'
  OBVIOUS
<1>1. UNCHANGED <<secrets, excess, hash>>
  BY InputsStay
<1>2. \A bytes : Verdicts(bytes)' = Verdicts(bytes)
  BY <1>1, VerdictsStay
<1>3. ASSUME UNCHANGED <<given, verdict>>, UNCHANGED made \/ made.is # "proof"
      PROVE  GivenOK'
  <2>1. CASE given = Nothing /\ verdict = "none"
    BY <1>3, <2>1 DEF GivenOK, Nothing
  <2>2. CASE \E bytes \in Deliveries : given = bytes /\ verdict \in Verdicts(bytes)
    <3>1. CASE made.is # "proof"
      BY <1>3, <3>1 DEF GivenOK
    <3>2. CASE UNCHANGED made
      BY <1>2, <1>3, <2>2, <3>2, DeliveriesStay DEF GivenOK
    <3>. QED  BY <1>3, <3>1, <3>2
  <2>. QED  BY <2>1, <2>2 DEF GivenOK
<1>4. made = Nothing => made.is # "proof"
  BY DEF Nothing
<1>5. ASSUME NEW p \in Parties, FromScalars(p)
      PROVE  GivenOK'
  BY <1>3, <1>4, <1>5 DEF FromScalars
<1>6. ASSUME NEW w \in pool, NEW x \in pool, Compose(w, x)
      PROVE  GivenOK'
  BY <1>3, <1>4, <1>6 DEF Compose
<1>7. ASSUME NEW list \in SetToSeqs(pool), FromBytesVec(list)
      PROVE  GivenOK'
  BY <1>3, <1>4, <1>7 DEF FromBytesVec
<1>8. ASSUME NEW w \in pool, NEW nonce \in Keys, Prove(w, nonce)
      PROVE  GivenOK'
  BY <1>3, <1>4, <1>8 DEF Prove
<1>9. ASSUME NEW bytes \in Deliveries, made.is = "proof", Verify(bytes)
      PROVE  GivenOK'
  <2>1. /\ UNCHANGED made /\ made'.is = "proof"
        /\ bytes \in Deliveries' /\ given' = bytes /\ verdict' \in Verdicts(bytes)'
    BY <1>2, <1>9, DeliveriesStay DEF Verify
  <2>. QED  BY <2>1 DEF GivenOK
<1>10. CASE UNCHANGED vars
  BY <1>3, <1>10 DEF vars
<1>. QED  BY <1>5, <1>6, <1>7, <1>8, <1>9, <1>10 DEF Next

-----------------------------------------------------------------------------
(* The verdict on a proof.                                                 *)

\* What is signed with a key gives the key back.
LEMMA SignatureRecovers ==
  ASSUME NEW key \in Scalars, NEW digest \in Scalars, NEW nonce \in Keys, NEW sig,
         sig = Signature(key, digest, nonce), sig.r # 0, sig.s # 0, ~(sig.recid > 1)
  PROVE  Recovered(digest, sig.r, sig.s, sig.recid) = {key}
<1>. DEFINE r == sig.r
            s == sig.s
            recid == sig.recid
<1>1. r \in Keys /\ s \in Keys /\ recid \in {0, 1}
  BY SignatureIs
<1>2. PICK R \in Keys : IsPoint(R, r, recid) /\ Cong(s * R, digest + r * key)
  BY SignatureIs
<1>. HIDE DEF r, s, recid
<1>. DEFINE D == KeyOf(digest, r, s, R)
<1>3. r \in Nat
  BY <1>1, ScalarIsInteger
<1>4. Recovered(digest, r, s, recid) = {D}
  <2>1. recid \in {0, 1} /\ IsPoint(R, r, recid)
    BY <1>1, <1>2
  <2>. QED  BY <1>3, <2>1, RecoveredAt
<1>5. D \in Scalars /\ Cong(r * D, s * R - digest)
  BY <1>1, KeyOfIs
<1>. HIDE DEF D
<1>6. /\ s * R \in Int /\ r * key \in Int /\ r * D \in Int /\ digest \in Int
      /\ key \in Int /\ D \in Int
  BY <1>1, <1>5, ScalarIsInteger
<1>7. Cong(s * R - digest, r * key)
  <2>. DEFINE a == s * R
              b == r * key
  <2>1. a \in Int /\ b \in Int /\ digest \in Int /\ Cong(a, digest + b) /\ Cong(digest, digest)
    BY <1>2, <1>6, CongSame
  <2>. HIDE DEF a, b
  <2>2. Cong(a - digest, (digest + b) - digest)
    BY <2>1, CongPlus
  <2>3. (digest + b) - digest = b
    BY <2>1
  <2>4. Cong(a - digest, b)
    BY <2>2, <2>3
  <2>. QED  BY <2>4 DEF a, b
<1>8. Cong(r * D, r * key)
  <2>. DEFINE a == r * D
              b == s * R - digest
              c == r * key
  <2>1. a \in Int /\ b \in Int /\ c \in Int /\ Cong(a, b) /\ Cong(b, c)
    BY <1>5, <1>6, <1>7
  <2>. HIDE DEF a, b, c
  <2>2. Cong(a, c)
    BY <2>1, CongThen
  <2>. QED  BY <2>2 DEF a, c
<1>9. D = key
  BY <1>1, <1>5, <1>6, <1>8, CongCancels, CongScalars
<1>. QED  BY <1>4, <1>9 DEF r, s, recid

\* A proof is accepted if and only if the deltas sum up to the blinding.
LEMMA VerdictOnProof ==
  ASSUME InputsOK, MadeOK, made.is = "proof"
  PROVE  Verdicts(made) = {IF DeltaSum = 0 THEN "InvalidPublicKey"
                           ELSE IF DeltaSum = Blinding(Parties) THEN "Ok"
                           ELSE "DeltaProofVerificationFailed"}
<1>1. PICK nonce \in Keys : IsProofOf(nonce)
  BY DEF MadeOK
<1>. DEFINE sig == Signature(Blinding(Parties), hash, nonce)
<1>2. Blinding(Parties) \in Scalars /\ hash \in Scalars
  BY BlindingIs DEF InputsOK
<1>3. made = ToBytes(sig) /\ sig.r # 0 /\ sig.s # 0 /\ ~(sig.recid > 1)
  BY <1>1 DEF IsProofOf
<1>4. /\ sig.r \in Keys /\ sig.s \in Keys /\ sig.recid \in {0, 1} /\ ~IsHigh(sig.s)
      /\ Recovered(hash, sig.r, sig.s, sig.recid) = {Blinding(Parties)}
  BY <1>2, <1>3, SignatureIs, SignatureRecovers
<1>. HIDE DEF sig
<1>5. made.r = sig.r /\ made.s = sig.s /\ made.v = sig.recid + 27
  BY <1>3 DEF ToBytes
<1>. DEFINE p == [is |-> "signature", r |-> sig.r, s |-> sig.s, recid |-> sig.recid]
<1>6. FromBytes(made) = {p}
  <2>1. (made.v - 27) % 256 = sig.recid /\ ~(sig.recid > 3) /\ made.v \notin 0..26
    BY <1>4, <1>5
  <2>2. {made.v} \cap 0..26 = {}
    BY <2>1
  <2>3. {Error("Panic") : b \in {made.v} \cap 0..26} = {}
    BY <2>2
  <2>. QED  BY <1>4, <1>5, <2>1, <2>3 DEF FromBytes
<1>7. p.is = "signature" /\ p.r = sig.r /\ p.s = sig.s /\ p.recid = sig.recid
  OBVIOUS
<1>. HIDE DEF p
<1>8. Verified(p, DeltaSum) = IF DeltaSum = Blinding(Parties) THEN "Ok"
                              ELSE "DeltaProofVerificationFailed"
  <2>1. Canonical(p)
    BY <1>4, <1>7 DEF Canonical
  <2>2. Recovered(hash, p.r, p.s, p.recid) = {Blinding(Parties)}
    BY <1>4, <1>7
  <2>. QED  BY <2>1, <2>2 DEF Verified
<1>. QED  BY <1>6, <1>7, <1>8 DEF Verdicts

\* They do if nothing is unbalanced, and only then.
LEMMA SumIsBlinding ==
  ASSUME InputsOK
  PROVE  DeltaSum = Blinding(Parties) <=> excess = 0
<1>. DEFINE b == Blinding(Parties)
<1>1. b \in Scalars /\ excess \in Scalars
  BY BlindingIs DEF InputsOK
<1>2. DeltaSum = (b + excess) % Order
  BY DEF DeltaSum
<1>. HIDE DEF b
<1>3. /\ b \in Int /\ 0 <= b /\ b < Order /\ excess \in Int /\ 0 <= excess /\ excess < Order
      /\ Order \in Nat /\ 0 < Order
  BY <1>1, ScalarIsInteger
<1>4. CASE excess = 0
  <2>1. (b + excess) % Order = b
    BY <1>3, <1>4
  <2>. QED  BY <1>2, <1>4, <2>1 DEF b
<1>5. CASE DeltaSum = b
  <2>1. Cong(b, b + excess) /\ b + excess \in Int
    BY <1>2, <1>3, <1>5, ModScalar
  <2>2. Cong(b - b, (b + excess) - b)
    BY <1>3, <2>1, CongSame, CongPlus
  <2>3. b - b = 0 /\ (b + excess) - b = excess
    BY <1>3
  <2>4. Cong(0, excess)
    BY <2>2, <2>3
  <2>5. 0 = excess
    BY <1>1, <1>3, <2>4, CongClose
  <2>. QED  BY <1>5, <2>5 DEF b
<1>. QED  BY <1>4, <1>5 DEF b

LEMMA BalancedIf == InputsOK /\ MadeOK /\ GivenOK => ProofMeansBalanced
<1>. SUFFICES ASSUME InputsOK, MadeOK, GivenOK, given = made, verdict # "none"
              PROVE  verdict = "Ok" <=> excess = 0 /\ Blinding(Parties) # 0
  BY DEF ProofMeansBalanced
<1>1. made.is = "proof" /\ verdict \in Verdicts(made)
  BY DEF GivenOK
<1>2. verdict = IF DeltaSum = 0 THEN "InvalidPublicKey"
                ELSE IF DeltaSum = Blinding(Parties) THEN "Ok"
                ELSE "DeltaProofVerificationFailed"
  BY <1>1, VerdictOnProof
<1>. QED  BY <1>2, SumIsBlinding

(* A proof sent as it was made is accepted if and only if the deltas       *)
(* balance and the blinding does not cancel, on every curve: what prove    *)
(* signs, to_bytes writes, from_bytes reads and verify recovers fits.      *)
THEOREM ProofBalances == Spec => []ProofMeansBalanced
<1>. DEFINE Inv == InputsOK /\ PoolOK /\ MadeOK /\ GivenOK
<1>1. Init => Inv
  BY InputsInit, PoolInit, MadeInit
<1>2. Inv /\ [Next]_vars => Inv'
  BY InputsStay, PoolStep, MadeStep, GivenStep DEF InputsOK
<1>3. Inv => ProofMeansBalanced
  BY BalancedIf
<1>. QED  BY <1>1, <1>2, <1>3, PTL DEF Spec

-----------------------------------------------------------------------------
(* Encodings of a proof.                                                   *)

\* If two signatures with the same r recover one key from one digest, the
\* products of s and the point agree.
LEMMA SameProduct ==
  ASSUME NEW digest \in Scalars, NEW r \in Keys, NEW s \in Keys, NEW t \in Keys,
         NEW R \in Keys, NEW T \in Keys, KeyOf(digest, r, s, R) = KeyOf(digest, r, t, T)
  PROVE  Cong(R * s, T * t)
<1>. DEFINE D == KeyOf(digest, r, s, R)
            a == R * s
            b == T * t
            c == r * D
<1>1. /\ D \in Scalars /\ Cong(r * D, s * R - digest)
      /\ Cong(r * D, t * T - digest)
  BY KeyOfIs
<1>. HIDE DEF D
<1>2. s * R = a /\ t * T = b
  BY ScalarIsInteger
<1>3. a \in Int /\ b \in Int /\ c \in Int /\ digest \in Int
  BY <1>1, ScalarIsInteger
<1>4. Cong(c, a - digest) /\ Cong(c, b - digest)
  BY <1>1, <1>2
<1>. HIDE DEF a, b, c
<1>5. a - digest \in Int /\ b - digest \in Int /\ Cong(a - digest, c)
  BY <1>3, <1>4, CongBack
<1>6. Cong(a - digest, b - digest)
  BY <1>3, <1>4, <1>5, CongThen
<1>7. Cong((a - digest) + digest, (b - digest) + digest)
  BY <1>3, <1>5, <1>6, CongSame, CongPlus
<1>8. (a - digest) + digest = a /\ (b - digest) + digest = b
  BY <1>3
<1>9. Cong(a, b)
  BY <1>7, <1>8
<1>. QED  BY <1>9 DEF a, b

\* They are then one signature, if both are low.
LEMMA OneLowS ==
  ASSUME NEW digest \in Scalars, NEW r \in Keys, NEW s \in Keys, NEW t \in Keys,
         NEW i \in {0, 1}, NEW j \in {0, 1}, NEW D, ~IsHigh(s), ~IsHigh(t),
         D \in Recovered(digest, r, s, i), D \in Recovered(digest, r, t, j)
  PROVE  s = t /\ i = j
<1>1. r \in Nat
  BY ScalarIsInteger
<1>2. PICK R \in Keys : IsPoint(R, r, i) /\ D = KeyOf(digest, r, s, R)
  BY <1>1, RecoveredIs
<1>3. PICK T \in Keys : IsPoint(T, r, j) /\ D = KeyOf(digest, r, t, T)
  BY <1>1, RecoveredIs
<1>4. Cong(R * s, T * t)
  BY <1>2, <1>3, SameProduct
<1>5. T \in {R, Order - R}
  BY <1>2, <1>3, CurveAssumption DEF IsPoint
<1>6. CASE T = R
  <2>1. s \in Int /\ t \in Int /\ Cong(R * s, R * t)
    BY <1>4, <1>6, ScalarIsInteger
  <2>2. Cong(s, t)
    BY <2>1, CongCancels
  <2>3. s = t
    BY <2>2, CongScalars, ScalarIsInteger
  <2>4. i = j
    BY <1>2, <1>3, <1>6 DEF IsPoint
  <2>. QED  BY <2>3, <2>4
<1>7. CASE T = Order - R
  <2>1. /\ R \in Int /\ s \in Int /\ t \in Int /\ Order \in Int
        /\ 0 < s /\ 0 < t
    BY ScalarIsInteger
  <2>2. s + t < Order
    BY <2>1, OrderIsOdd DEF IsHigh
  <2>3. T * t = R * (-t) + t * Order
    <3>1. \A n, a, b \in Int : (n - a) * b = a * (-b) + b * n
      OBVIOUS
    <3>. QED  BY <1>7, <2>1, <3>1
  <2>4. Cong(T * t, R * (-t))
    BY <2>1, <2>3 DEF Cong
  <2>5. Cong(R * s, R * (-t))
    <3>. DEFINE a == R * s
                b == T * t
                c == R * (-t)
    <3>1. a \in Int /\ b \in Int /\ c \in Int /\ Cong(a, b) /\ Cong(b, c)
      BY <1>4, <2>1, <2>4, <1>7
    <3>. HIDE DEF a, b, c
    <3>2. Cong(a, c)
      BY <3>1, CongThen
    <3>. QED  BY <3>2 DEF a, c
  <2>. DEFINE u == -t
  <2>6. u \in Int /\ Cong(R * s, R * u)
    BY <2>1, <2>5
  <2>. HIDE DEF u
  <2>7. Cong(s, u)
    BY <2>1, <2>6, CongCancels
  <2>8. s - u < Order /\ u - s < Order
    BY <2>1, <2>2 DEF u
  <2>9. s = u
    BY <2>1, <2>6, <2>7, <2>8, CongClose
  <2>. QED  BY <2>1, <2>9 DEF u
<1>. QED  BY <1>5, <1>6, <1>7

\* What is accepted.
LEMMA AcceptedIs ==
  ASSUME NEW bytes, "Ok" \in Verdicts(bytes)
  PROVE  /\ bytes.r \in Keys /\ bytes.s \in Keys /\ ~IsHigh(bytes.s)
         /\ \E recid : /\ recid = (bytes.v - 27) % 256 /\ recid <= 1
                       /\ DeltaSum \in Recovered(hash, bytes.r, bytes.s, recid)
<1>1. PICK p \in FromBytes(bytes) :
        "Ok" = IF p.is = "signature" THEN Verified(p, DeltaSum) ELSE p.is
  BY DEF Verdicts
<1>. DEFINE recid == (bytes.v - 27) % 256
<1>2. p.is # "Ok"
  BY <1>1 DEF FromBytes, Error
<1>3. p.is = "signature" /\ Verified(p, DeltaSum) = "Ok"
  BY <1>1, <1>2
<1>4. /\ bytes.r \in Keys /\ bytes.s \in Keys
      /\ p.r = bytes.r /\ p.s = bytes.s /\ p.recid = recid
  BY <1>3 DEF FromBytes, Error
<1>. HIDE DEF recid
<1>5. Canonical(p) /\ {DeltaSum} = Recovered(hash, p.r, p.s, p.recid)
  BY <1>3 DEF Verified
<1>. QED  BY <1>4, <1>5 DEF Canonical, recid

LEMMA ByteIs ==
  ASSUME NEW v \in 0..255, (v - 27) % 256 <= 1
  PROVE  (v - 27) % 256 \in {0, 1} /\ v = ((v - 27) % 256) + 27
<1>1. CASE v >= 27
  <2>1. (v - 27) % 256 = v - 27
    BY <1>1
  <2>. QED  BY <1>1, <2>1
<1>2. CASE v < 27
  <2>1. (v - 27) % 256 = v + 229
    BY <1>2
  <2>. QED  BY <1>2, <2>1
<1>. QED  BY <1>1, <1>2

LEMMA DeliveryIs ==
  \A bytes \in Deliveries : \E s \in 0..Order : \E v \in {made.v} \cup LastBytes :
     bytes = WithTail(made, s, v)
BY DEF Deliveries

\* Bytes with another s and last byte.
LEMMA WithOther ==
  ASSUME NEW m, m = [is |-> "proof", r |-> m.r, s |-> m.s, v |-> m.v], NEW s, NEW v
  PROVE  WithTail(m, s, v) = [is |-> "proof", r |-> m.r, s |-> s, v |-> v]
<1>. DEFINE a == m.r
            b == m.s
            c == m.v
<1>1. m = [is |-> "proof", r |-> a, s |-> b, v |-> c]
  OBVIOUS
<1>. HIDE DEF a, b, c
<1>. DEFINE k == [m EXCEPT !.s = s]
<1>2. k = [is |-> "proof", r |-> a, s |-> s, v |-> c]
  BY <1>1
<1>. HIDE DEF k
<1>3. [k EXCEPT !.v = v] = [is |-> "proof", r |-> a, s |-> s, v |-> v]
  BY <1>2
<1>. QED  BY <1>3 DEF a, k, WithTail

LEMMA OneEncodingIf == InputsOK /\ MadeOK /\ GivenOK => OneEncoding
<1>. SUFFICES ASSUME InputsOK, MadeOK, GivenOK, verdict = "Ok", "Ok" \in Verdicts(made)
              PROVE  given = made
  BY DEF OneEncoding
<1>1. PICK bytes \in Deliveries : /\ made.is = "proof" /\ given = bytes
                                  /\ "Ok" \in Verdicts(bytes)
  BY DEF GivenOK
<1>2. PICK nonce \in Keys : IsProofOf(nonce)
  BY <1>1 DEF MadeOK
<1>3. PICK s \in 0..Order : \E v \in {made.v} \cup LastBytes :
        bytes = WithTail(made, s, v)
  BY DeliveryIs
<1>4. PICK v \in {made.v} \cup LastBytes : bytes = WithTail(made, s, v)
  BY <1>3
<1>5. made = [is |-> "proof", r |-> made.r, s |-> made.s, v |-> made.v]
  BY <1>2 DEF IsProofOf, ToBytes
<1>6. bytes = [is |-> "proof", r |-> made.r, s |-> s, v |-> v]
  BY <1>4, <1>5, WithOther
<1>7. made.v \in 0..255
  <2>. DEFINE sig == Signature(Blinding(Parties), hash, nonce)
  <2>1. made = ToBytes(sig) /\ sig.r # 0 /\ sig.s # 0 /\ ~(sig.recid > 1)
    BY <1>2 DEF IsProofOf
  <2>2. Blinding(Parties) \in Scalars /\ hash \in Scalars
    BY BlindingIs DEF InputsOK
  <2>3. sig.recid \in {0, 1}
    BY <2>1, <2>2, SignatureIs
  <2>. HIDE DEF sig
  <2>. QED  BY <2>1, <2>3 DEF ToBytes
<1>8. v \in 0..255
  BY <1>7, InputsAssumption
<1>9. /\ made.r \in Keys /\ made.s \in Keys /\ ~IsHigh(made.s)
      /\ \E recid : /\ recid = (made.v - 27) % 256 /\ recid <= 1
                    /\ DeltaSum \in Recovered(hash, made.r, made.s, recid)
  BY AcceptedIs
<1>10. /\ s \in Keys /\ ~IsHigh(s)
       /\ \E recid : /\ recid = (v - 27) % 256 /\ recid <= 1
                     /\ DeltaSum \in Recovered(hash, made.r, s, recid)
  <2>1. bytes.r = made.r /\ bytes.s = s /\ bytes.v = v
    BY <1>6
  <2>. QED  BY <1>1, <2>1, AcceptedIs
<1>11. PICK i : /\ i = (made.v - 27) % 256 /\ i <= 1
                /\ DeltaSum \in Recovered(hash, made.r, made.s, i)
  BY <1>9
<1>12. PICK j : /\ j = (v - 27) % 256 /\ j <= 1
                /\ DeltaSum \in Recovered(hash, made.r, s, j)
  BY <1>10
<1>13. i \in {0, 1} /\ made.v = i + 27 /\ j \in {0, 1} /\ v = j + 27
  BY <1>7, <1>8, <1>11, <1>12, ByteIs
<1>14. made.s = s /\ i = j
  <2>. DEFINE r == made.r
              t == made.s
              D == DeltaSum
  <2>1. /\ hash \in Scalars /\ r \in Keys /\ t \in Keys /\ s \in Keys
        /\ ~IsHigh(t) /\ ~IsHigh(s) /\ i \in {0, 1} /\ j \in {0, 1}
    BY <1>9, <1>10, <1>13 DEF InputsOK
  <2>2. D \in Recovered(hash, r, t, i)
    BY <1>11
  <2>3. D \in Recovered(hash, r, s, j)
    BY <1>12
  <2>. HIDE DEF r, t, D
  <2>4. t = s /\ i = j
    BY <2>1, <2>2, <2>3, OneLowS
  <2>. QED  BY <2>4 DEF t
<1>15. v = made.v
  BY <1>13, <1>14
<1>. QED  BY <1>1, <1>5, <1>6, <1>14, <1>15

(* If a proof is accepted, then of all byte strings with its r, whatever s *)
(* and last byte, no other is (verify refuses high s and recovery ids      *)
(* above one), on every curve of prime order.                              *)
THEOREM EncodingIsUnique == Spec => []OneEncoding
<1>. DEFINE Inv == InputsOK /\ PoolOK /\ MadeOK /\ GivenOK
<1>1. Init => Inv
  BY InputsInit, PoolInit, MadeInit
<1>2. Inv /\ [Next]_vars => Inv'
  BY InputsStay, PoolStep, MadeStep, GivenStep DEF InputsOK
<1>3. Inv => OneEncoding
  BY OneEncodingIf
<1>. QED  BY <1>1, <1>2, <1>3, PTL DEF Spec
=============================================================================
