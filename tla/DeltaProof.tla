----------------------------- MODULE DeltaProof -----------------------------
(***************************************************************************)
(* arm_core/src/delta.rs from the blinding scalars of several provers to   *)
(* the verdict: each sums up its scalars to a key, the keys are composed   *)
(* in some order, the composed key signs, and what arrives at the verifier *)
(* has the r of that signature but perhaps another s or last byte.         *)
(*                                                                         *)
(* ECDSA is computed, on a small curve: a point is its logarithm to the    *)
(* generator, and its coordinates come from a table.                       *)
(***************************************************************************)
EXTENDS Scalar, SequencesExt

CONSTANTS XCoordinate,   \* of each multiple of the generator
          YIsOdd,
          Parties,
          Secrets(_),    \* lists of blinding scalars that a party may have
          Excesses,      \* logarithms of what the deltas leave unbalanced
          Hashes,        \* of messages, modulo Order
          LastBytes      \* that a delivered proof may have

Keys == Scalars \ {0}

\* The order is prime.
ASSUME FieldAssumption == \A x \in Keys : \E y \in Keys : (x * y) % Order = 1

\* A point and its negative, and no others, have the same x, and the y of one
\* of the two is odd.
ASSUME CurveAssumption ==
  /\ XCoordinate \in [Keys -> Nat]
  /\ YIsOdd \in [Keys -> BOOLEAN]
  /\ \A k \in Keys : YIsOdd[k] # YIsOdd[Order - k]
  /\ \A k, l \in Keys : XCoordinate[k] = XCoordinate[l] <=> l \in {k, Order - k}

ASSUME InputsAssumption ==
  /\ IsFiniteSet(Parties)
  /\ \A p \in Parties : Secrets(p) \subseteq Seq(Scalars)
  /\ Excesses \subseteq Scalars
  /\ Hashes \subseteq Scalars
  /\ LastBytes \subseteq 0..255

VARIABLES secrets,    \* the scalars of each party
          excess,     \* zero if the deltas balance
          pool,       \* the delta witnesses: whose they are, and their key
          hash,       \* of the message
          made,       \* the delta proof as bytes, or what was returned instead
          given,      \* the bytes the verifier gets
          verdict

vars == <<secrets, excess, pool, hash, made, given, verdict>>

Nothing    == [is |-> "nothing"]
Error(err) == [is |-> err]

Reciprocal(x)   == CHOOSE y \in Keys : (x * y) % Order = 1
ScalarSum(list) == SumFunction(list) % Order

-----------------------------------------------------------------------------
(* ECDSA as k256 has it: signatures that are not low are negated, and the  *)
(* recovery id tells the parity of y and whether x exceeds the order.      *)

IsHigh(s) == s > Order \div 2

Signature(key, digest, nonce) ==
  LET r   == XCoordinate[nonce] % Order
      s   == (Reciprocal(nonce) * (digest + r * key)) % Order
      odd == IF IsHigh(s) THEN ~YIsOdd[nonce] ELSE YIsOdd[nonce]
  IN  [r |-> r, s |-> IF IsHigh(s) THEN Order - s ELSE s,
       recid |-> (IF odd THEN 1 ELSE 0) + (IF XCoordinate[nonce] >= Order THEN 2 ELSE 0)]

Recovered(digest, r, s, recid) ==
  {(Reciprocal(r) * (s * R + Order * Order - digest)) % Order :
     R \in {k \in Keys : /\ XCoordinate[k] = r + (IF recid > 1 THEN Order ELSE 0)
                         /\ YIsOdd[k] = (recid % 2 = 1)}}

-----------------------------------------------------------------------------
(* Witnesses.                                                              *)

\* Fault: the first witness counts twice.
CompressTwice(keys) == (keys[1] + SumFunction(keys)) % Order

Compress(keys) == (keys[1] + SumFunctionOnSet(keys, 2..Len(keys))) % Order

\* A key of zero is caught in a build with debug assertions only.
MayPanic(key) == key = 0

FromScalars(party) ==
  LET key == ScalarSum(secrets[party])
  IN  /\ \A w \in pool : party \notin w.of
      /\ made = Nothing
      /\ \/ /\ pool' = pool \cup {[of |-> {party}, key |-> key]}
            /\ UNCHANGED made
         \/ /\ MayPanic(key)
            /\ made' = Error("Panic")
            /\ UNCHANGED pool
      /\ UNCHANGED <<secrets, excess, hash, given, verdict>>

Compose(w, x) ==
  LET key == (w.key + x.key) % Order
  IN  /\ made = Nothing
      /\ \/ /\ pool' = (pool \ {w, x}) \cup {[of |-> w.of \cup x.of, key |-> key]}
            /\ UNCHANGED made
         \/ /\ MayPanic(key)
            /\ made' = Error("Panic")
            /\ UNCHANGED pool
      /\ UNCHANGED <<secrets, excess, hash, given, verdict>>

\* All witnesses, serialized, in any order; zero does not parse, and an
\* empty list has no first witness.
FromBytesVec(list) ==
  LET keys == [k \in DOMAIN list |-> list[k].key]
  IN  /\ made = Nothing
      /\ IF list = <<>> THEN made' = Error("Panic") /\ UNCHANGED pool
         ELSE IF 0 \in {keys[k] : k \in DOMAIN keys}
         THEN made' = Error("InvalidSigningKey") /\ UNCHANGED pool
         ELSE \/ /\ pool' = {[of |-> UNION {w.of : w \in pool}, key |-> Compress(keys)]}
                 /\ UNCHANGED made
              \/ /\ \E n \in DOMAIN keys : MayPanic(Compress(SubSeq(keys, 1, n)))
                 /\ made' = Error("Panic")
                 /\ UNCHANGED pool
      /\ UNCHANGED <<secrets, excess, hash, given, verdict>>

-----------------------------------------------------------------------------
(* The proof, as bytes: r, s and a last byte.                              *)

\* Fault: the recovery id as it is.
ToBytesBare(sig) == [is |-> "proof", r |-> sig.r, s |-> sig.s, v |-> sig.recid]

ToBytes(sig) == [is |-> "proof", r |-> sig.r, s |-> sig.s, v |-> sig.recid + 27]

Prove(w, nonce) ==
  LET sig == Signature(w.key, hash, nonce)
  IN  /\ w.of = Parties
      /\ made = Nothing
      /\ made' = IF sig.r = 0 \/ sig.s = 0 THEN Error("DeltaProofGenerationFailed")
                 ELSE IF sig.recid > 1 THEN Error("InvalidDeltaProof")
                 ELSE ToBytes(sig)
      /\ UNCHANGED <<secrets, excess, pool, hash, given, verdict>>

\* A transaction has 65 bytes for it.  The signature parses before the last
\* byte is read, which may panic below 27.
FromBytes(bytes) ==
  IF bytes.r \notin Keys \/ bytes.s \notin Keys THEN {Error("InvalidSignature")}
  ELSE LET recid == (bytes.v - 27) % 256
       IN  {IF recid > 3 THEN Error("InvalidSignature")
            ELSE [is |-> "signature", r |-> bytes.r, s |-> bytes.s, recid |-> recid]}
           \cup {Error("Panic") : b \in {bytes.v} \cap 0..26}

\* Fault: high signatures pass.
CanonicalIdOnly(sig) == sig.recid <= 1

Canonical(sig) == sig.recid <= 1 /\ ~IsHigh(sig.s)

Verified(sig, sum) == IF ~Canonical(sig) THEN "InvalidDeltaProof"
                      ELSE IF {sum} = Recovered(hash, sig.r, sig.s, sig.recid) THEN "Ok"
                      ELSE "DeltaProofVerificationFailed"

\* The sum of the deltas: what the provers blinded with, and the excess.
Blinding(parties) == SumFunction([p \in parties |-> ScalarSum(secrets[p])]) % Order
DeltaSum          == (Blinding(Parties) + excess) % Order

Verdicts(bytes) ==
  IF DeltaSum = 0 THEN {"InvalidPublicKey"}
  ELSE {IF p.is = "signature" THEN Verified(p, DeltaSum) ELSE p.is : p \in FromBytes(bytes)}

WithTail(bytes, s, v) == [bytes EXCEPT !.s = s, !.v = v]

\* The proof as it was made, or with another s and last byte.
Deliveries == {WithTail(made, s, v) : s \in 0..Order, v \in {made.v} \cup LastBytes}

Verify(bytes) == /\ given = Nothing
                 /\ given' = bytes
                 /\ verdict' \in Verdicts(bytes)
                 /\ UNCHANGED <<secrets, excess, pool, hash, made>>

Init == /\ secrets \in {f \in [Parties -> UNION {Secrets(p) : p \in Parties}] :
                          \A p \in Parties : f[p] \in Secrets(p)}
        /\ excess \in Excesses
        /\ pool = {}
        /\ hash \in Hashes
        /\ made = Nothing
        /\ given = Nothing
        /\ verdict = "none"

Next == \/ \E p \in Parties : FromScalars(p)
        \/ \E w, x \in pool : w # x /\ Compose(w, x)
        \/ \E list \in SetToSeqs(pool) : FromBytesVec(list)
        \/ \E w \in pool, nonce \in Keys : Prove(w, nonce)
        \/ made.is = "proof" /\ \E bytes \in Deliveries : Verify(bytes)

Spec == Init /\ [][Next]_vars

-----------------------------------------------------------------------------
(* However the witnesses are put together, in pairs or from bytes, by way  *)
(* of zero or not, a key is the sum of all the scalars behind it.          *)
KeysAddUp == \A w \in pool : w.key = Blinding(w.of)

(* The proof of the composed key, sent as bytes, is accepted if and only   *)
(* if the deltas balance and the blinding does not cancel.                 *)
ProofMeansBalanced ==
  given = made /\ verdict # "none" => (verdict = "Ok" <=> excess = 0 /\ Blinding(Parties) # 0)

(* If a proof is accepted, then of all byte strings with its r, whatever s *)
(* and last byte, no other is: nobody but the signer can make another      *)
(* proof of it.                                                            *)
OneEncoding == verdict = "Ok" /\ "Ok" \in Verdicts(made) => given = made
=============================================================================
