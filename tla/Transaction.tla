----------------------------- MODULE Transaction -----------------------------
(***************************************************************************)
(* Transaction::verify of arm_core/src/instance.rs with what it calls:     *)
(* ActionVerifierInput::verify, verify_stark (proving.rs) and the delta    *)
(* proof (delta.rs).  The verifier first checks the proof of every unit,   *)
(* then scans the tags of all units for duplicates, then decodes and adds  *)
(* up the deltas, and last checks the signature over all tags.  The first  *)
(* check that fails is the result.                                         *)
(*                                                                         *)
(* A compliance proof is what the verifier learns about it: whether it     *)
(* decodes, whether it is valid for COMPLIANCE_VK, and what it reveals.    *)
(* The witness of a valid proof is kept with it for the properties; the    *)
(* verifier never reads it.                                                *)
(***************************************************************************)
EXTENDS VerifierStatement

CONSTANTS Instances,        \* consumed and created instances a unit may list
          VerifierInputs,   \* units, each with its proof
          Transactions      \* what the verifier may be given

\* The 65 bytes of a delta proof: see Recovers for what they stand for.  A key
\* is no identity.
IsDeltaProof(proof) ==
  /\ proof = [wellFormed |-> proof.wellFormed, highS |-> proof.highS, parity |-> proof.parity,
              v |-> proof.v, key |-> proof.key, message |-> proof.message]
  /\ proof.highS \in BOOLEAN /\ proof.parity \in {0, 1} /\ proof.v \in 0..255
  /\ proof.key \in 1..(Order - 1)

ASSUME TransactionsAssumption ==
  /\ {t.units : t \in Transactions} \subseteq Seq(VerifierInputs)
  /\ \A t \in Transactions : IsDeltaProof(t.deltaProof)
  /\ \A u \in VerifierInputs : u.consumed \in Seq(Instances) /\ u.created \in Seq(Instances)

\* Soundness of the proof system: a valid proof was made by a run of the
\* guest that did not abort.
ASSUME GuestSoundness ==
  \A u \in VerifierInputs :
     u.proof.valid => /\ Acceptable(u.proof.witness)
                      /\ u.proof.revealed = DigestOf(u.proof.witness)

\* The unit creates no more resources than an index has values.
Narrow(u) == Len(u.created) <= IndexModulus

VARIABLES tx,                 \* the transaction under verification
          phase,              \* the loop the verifier is in
          unit, entry,        \* position: a unit, and one of its tags
          seenNullifiers, seenCommitments,
          total,              \* sum of the deltas so far
          result

vars == <<tx, phase, unit, entry, seenNullifiers, seenCommitments, total, result>>

Phases == {"units", "tags", "deltas", "end"}
Errors == {"InvalidProof", "ProofVerificationFailed", "InstanceMismatch",
           "NullifierDuplication", "CommitmentDuplication", "InvalidDelta",
           "DeltaProofVerificationFailed", "Panic"}

-----------------------------------------------------------------------------
(* One unit: ActionVerifierInput::verify.                                  *)

NullifiersIn(u)  == [k \in DOMAIN u.consumed |-> u.consumed[k].nullifier]
CommitmentsIn(u) == [k \in DOMAIN u.created |-> u.created[k].commitment]

\* The action tree is built over these, in this order.
Tags(u) == NullifiersIn(u) \o CommitmentsIn(u)

\* No kind is registered.
CanonicalKindTableCommitment == HashKindTable(<<>>)

\* Fault: the kind table of the prover is taken as canonical.
RebuiltJournalAnyKindTable(u) ==
  Journal(u.consumed, u.created, u.delta, HashKindTable(u.proof.witness.kindTable),
          TreeRoot(Tags(u)))

\* Fault: the action root of the prover is not recomputed.
RebuiltJournalAnyRoot(u) ==
  Journal(u.consumed, u.created, u.delta, CanonicalKindTableCommitment,
          u.proof.witness.actionRoot)

\* The journal the guest must have committed to.
RebuiltJournal(u) == Journal(u.consumed, u.created, u.delta,
                             CanonicalKindTableCommitment, TreeRoot(Tags(u)))

\* Fault: the proof is not verified, only what it reveals is compared.
UnitVerdictUnproved(u) ==
  IF Tags(u) = <<>> \/ ~u.proof.decodes THEN "InvalidProof"
  ELSE IF u.proof.revealed # JournalDigest(RebuiltJournal(u)) THEN "InstanceMismatch"
  ELSE "Ok"

UnitVerdict(u) ==
  IF Tags(u) = <<>> \/ ~u.proof.decodes THEN "InvalidProof"
  ELSE IF ~u.proof.valid THEN "ProofVerificationFailed"
  ELSE IF u.proof.revealed # JournalDigest(RebuiltJournal(u)) THEN "InstanceMismatch"
  ELSE "Ok"

-----------------------------------------------------------------------------
(* The deltas and the delta proof.                                         *)

\* The coordinates decode to a point; the identity has no coordinates.
IsDeltaPoint(coordinates) == coordinates \in Points \ {Identity}

\* Fault: the commitments are not signed.
DeltaMsgNullifiersOnly(u) == NullifiersIn(u)

DeltaMsg(u) == NullifiersIn(u) \o CommitmentsIn(u)

Message(t) == FlattenSeq([k \in DOMAIN t.units |-> DeltaMsg(t.units[k])])

\* The last byte less 27, in eight bits.
RecoveryId(proof) == (proof.v - 27) % 256

SubtractionOverflows(proof) == proof.v < 27

\* A signature (r, s) over a message recovers the signer's key for one of
\* the two parities; so does (r, -s) for the other.
Recovers(proof, message, point) ==
  /\ proof.message = Keccak(message)
  /\ RecoveryId(proof) = proof.parity
  /\ point = Times(BasisPoint(Generator), proof.key)

\* Fault: the check for malleable signatures is dropped.
AnyS(proof) == TRUE

LowS(proof) == ~proof.highS

DeltaProofHolds(proof, message, sum) ==
  /\ sum # Identity
  /\ proof.wellFormed
  /\ RecoveryId(proof) <= 1
  /\ LowS(proof)
  /\ Recovers(proof, message, sum)

-----------------------------------------------------------------------------
Units       == tx.units
Unit        == Units[unit]
UnitsRemain == unit <= Len(Units)

\* The tags of the current unit, split as the two inner loops see them.
AtNullifier  == phase = "tags" /\ UnitsRemain /\ entry <= Len(Unit.consumed)
AtCommitment == /\ phase = "tags" /\ UnitsRemain
                /\ entry > Len(Unit.consumed) /\ entry <= Len(Tags(Unit))
EntryTag     == Tags(Unit)[entry]

Finish(verdict) ==
  /\ result' = verdict
  /\ phase' = "end"
  /\ UNCHANGED <<tx, unit, entry, seenNullifiers, seenCommitments, total>>

Enter(next) ==
  /\ ~UnitsRemain
  /\ phase' = next
  /\ unit' = 1
  /\ UNCHANGED <<tx, entry, seenNullifiers, seenCommitments, total, result>>

Init == /\ tx \in Transactions
        /\ phase = "units"
        /\ unit = 1
        /\ entry = 1
        /\ seenNullifiers = {}
        /\ seenCommitments = {}
        /\ total = Identity
        /\ result = "running"

VerifyUnit == /\ phase = "units" /\ UnitsRemain
              /\ UnitVerdict(Unit) = "Ok"
              /\ unit' = unit + 1
              /\ UNCHANGED <<tx, phase, entry, seenNullifiers, seenCommitments, total, result>>

RejectUnit == /\ phase = "units" /\ UnitsRemain
              /\ UnitVerdict(Unit) # "Ok"
              /\ Finish(UnitVerdict(Unit))

StartTags == phase = "units" /\ Enter("tags")

\* Fault: a repeated nullifier goes through.
ScanNullifierUnchecked == /\ AtNullifier
                          /\ seenNullifiers' = seenNullifiers \cup {EntryTag}
                          /\ entry' = entry + 1
                          /\ UNCHANGED <<tx, phase, unit, seenCommitments, total, result>>

ScanNullifier == /\ AtNullifier
                 /\ EntryTag \notin seenNullifiers
                 /\ seenNullifiers' = seenNullifiers \cup {EntryTag}
                 /\ entry' = entry + 1
                 /\ UNCHANGED <<tx, phase, unit, seenCommitments, total, result>>

RejectNullifier == /\ AtNullifier
                   /\ EntryTag \in seenNullifiers
                   /\ Finish("NullifierDuplication")

\* Fault: a repeated commitment goes through.
ScanCommitmentUnchecked == /\ AtCommitment
                           /\ seenCommitments' = seenCommitments \cup {EntryTag}
                           /\ entry' = entry + 1
                           /\ UNCHANGED <<tx, phase, unit, seenNullifiers, total, result>>

ScanCommitment == /\ AtCommitment
                  /\ EntryTag \notin seenCommitments
                  /\ seenCommitments' = seenCommitments \cup {EntryTag}
                  /\ entry' = entry + 1
                  /\ UNCHANGED <<tx, phase, unit, seenNullifiers, total, result>>

RejectCommitment == /\ AtCommitment
                    /\ EntryTag \in seenCommitments
                    /\ Finish("CommitmentDuplication")

NextUnit == /\ phase = "tags" /\ UnitsRemain
            /\ entry > Len(Tags(Unit))
            /\ unit' = unit + 1
            /\ entry' = 1
            /\ UNCHANGED <<tx, phase, seenNullifiers, seenCommitments, total, result>>

StartDeltas == phase = "tags" /\ Enter("deltas")

AddDelta == /\ phase = "deltas" /\ UnitsRemain
            /\ IsDeltaPoint(Unit.delta)
            /\ total' = Plus(total, Unit.delta)
            /\ unit' = unit + 1
            /\ UNCHANGED <<tx, phase, entry, seenNullifiers, seenCommitments, result>>

RejectDelta == /\ phase = "deltas" /\ UnitsRemain
               /\ ~IsDeltaPoint(Unit.delta)
               /\ Finish("InvalidDelta")

AtDeltaProof == phase = "deltas" /\ ~UnitsRemain

Accept == /\ AtDeltaProof
          /\ DeltaProofHolds(tx.deltaProof, Message(tx), total)
          /\ Finish("Ok")

RejectDeltaProof == /\ AtDeltaProof
                    /\ ~DeltaProofHolds(tx.deltaProof, Message(tx), total)
                    /\ Finish("DeltaProofVerificationFailed")

\* The last byte is read when the sum is a key and the signature parsed.  In
\* a build with overflow checks `bytes[64] - 27` panics.
PanicOnRecoveryByte ==
  /\ AtDeltaProof
  /\ total # Identity
  /\ tx.deltaProof.wellFormed /\ SubtractionOverflows(tx.deltaProof)
  /\ Finish("Panic")

Next == \/ VerifyUnit \/ RejectUnit \/ StartTags
        \/ ScanNullifier \/ RejectNullifier
        \/ ScanCommitment \/ RejectCommitment
        \/ NextUnit \/ StartDeltas
        \/ AddDelta \/ RejectDelta
        \/ Accept \/ RejectDeltaProof \/ PanicOnRecoveryByte

Spec == Init /\ [][Next]_vars /\ WF_vars(Next)

-----------------------------------------------------------------------------
\* Every variable has the type the code gives it.
TypeOK ==
  /\ phase \in Phases
  /\ unit \in 1..(Len(Units) + 1)
  /\ entry \in Nat \ {0}
  /\ total \in Points
  /\ result \in {"running", "Ok"} \cup Errors
  /\ (phase = "end") <=> (result # "running")

(* An accepted transaction creates no commitment twice, even if an action  *)
(* has so many resources that the index in the nonce wraps.                *)
NoDoubleCreation ==
  result = "Ok" =>
    \A j, k \in DOMAIN Units :
       \A m \in DOMAIN Units[j].created, n \in DOMAIN Units[k].created :
          Units[j].created[m].commitment = Units[k].created[n].commitment
            => j = k /\ m = n

(* An accepted transaction spends no resource twice, neither in two        *)
(* actions nor in one: the guest does not check this, only the scan does.  *)
NoDoubleSpend ==
  result = "Ok" =>
    \A j, k \in DOMAIN Units :
       \A m \in DOMAIN Units[j].consumed, n \in DOMAIN Units[k].consumed :
          Units[j].consumed[m].nullifier = Units[k].consumed[n].nullifier
            => j = k /\ m = n

(* The scan reports a duplicate commitment only if an index wraps: once    *)
(* every proof holds and no nullifier repeats, the nonces that the guest   *)
(* demands make all other commitments of the transaction differ.           *)
NoCommitmentDuplication ==
  result = "CommitmentDuplication" => \E u \in DOMAIN Units : ~Narrow(Units[u])

ASSUME NumbersAssumption ==
  \A u \in VerifierInputs : u.proof.valid => HasNumbers(WitnessOf(u))

ASSUME QuantitiesAssumption ==
  \A t \in Transactions :
     (\A u \in DOMAIN t.units : t.units[u].proof.valid) => BelowOrder(t)

(* For every kind an accepted transaction creates as much as it consumes,  *)
(* in integers: no other kind, blinding scalar, kind table or reduction    *)
(* modulo the order makes up for a difference.                             *)
Balanced ==
  result = "Ok" =>
    \A kind \in Kinds :
       SumFunction([u \in DOMAIN Units |-> Quantity(WitnessOf(Units[u]).created, kind)
                                             - Quantity(WitnessOf(Units[u]).consumed, kind)]) = 0

(* Every resource logic of an accepted transaction has approved the action *)
(* it appears in: its proof is about the root of exactly the tags that the *)
(* unit lists, though the guest takes that root on trust.                  *)
LogicsApprovedTheAction ==
  result = "Ok" =>
    \A u \in DOMAIN Units :
       LET w    == WitnessOf(Units[u])
           root == TreeRoot(Tags(Units[u]))
       IN  /\ \A k \in DOMAIN w.consumed :
                w.consumed[k].logicProof.output =
                  LogicDigest(Units[u].consumed[k].nullifier, root, TRUE,
                              Units[u].consumed[k].appData)
           /\ \A k \in DOMAIN w.created :
                w.created[k].logicProof.output =
                  LogicDigest(Units[u].created[k].commitment, root, FALSE,
                              Units[u].created[k].appData)

(* The delta proof cannot be moved: its signer signed the nullifiers and   *)
(* commitments of this transaction, all of them, in this order.            *)
DeltaProofCoversTags ==
  result = "Ok" =>
    tx.deltaProof.message = Keccak(FlattenSeq([u \in DOMAIN Units |-> Tags(Units[u])]))

(* Nobody but the signer can turn an accepted delta proof into another:    *)
(* of the encodings of one signature, s or -s and any last byte, the       *)
(* verifier takes one.                                                     *)
Encoding(proof, h, v) ==
  [proof EXCEPT !.highS = h, !.v = v,
                !.parity = IF h = proof.highS THEN proof.parity ELSE 1 - proof.parity]

Encodings(proof) == {Encoding(proof, h, v) : h \in BOOLEAN, v \in 0..255}

DeltaProofNotMalleable ==
  result = "Ok" =>
    \A twin \in Encodings(tx.deltaProof) :
       DeltaProofHolds(twin, Message(tx), total) => twin = tx.deltaProof

(* The verifier accepts exactly the transactions that deserve it by the    *)
(* witnesses behind their proofs, and always answers.                      *)
Contract == INSTANCE VerifierContract
              WITH result <- CASE result = "running" -> "running"
                               [] result = "Ok"      -> "accepted"
                               [] OTHER              -> "rejected"
ImplementsContract == Contract!Spec
==============================================================================
