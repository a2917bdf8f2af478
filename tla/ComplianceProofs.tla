-------------------------- MODULE ComplianceProofs --------------------------
(***************************************************************************)
(* Theorems about the compliance guest, for witnesses of any length.       *)
(***************************************************************************)
EXTENDS Compliance, BasicProofs

(* The delta of an entry is a point once its kind point is one.            *)
LEMMA ToDeltaIsPoint ==
  ASSUME NEW table, NEW e \in ConsumedWitness \cup CreatedWitness, KindFound(table, e)
  PROVE  ToDelta(table, e) \in Points
<1>. DEFINE value == Times(LookupKind(table, e.resource), e.resource.quantity)
            blind == Times(BasisPoint(Generator), e.deltaExtraInput)
<1>1. e.resource.quantity \in Int /\ e.deltaExtraInput \in Int
  BY EntriesAssumption
<1>2. value \in Points
  BY <1>1, TimesIsPoint, PointsAreIntegers DEF KindFound
<1>3. blind \in Points
  BY <1>1, TimesIsPoint, PointsAreIntegers, BasisPointIsPoint
<1>4. Plus(value, blind) \in Points
  BY <1>2, <1>3, PlusIsPoint, PointsAreIntegers
<1>. QED  BY <1>4 DEF ToDelta

-----------------------------------------------------------------------------
(* The inductive invariant: what has been processed is a prefix of the     *)
(* witness, in order, and every created resource processed has the nonce   *)
(* of its index.                                                           *)

ConsumedIsPrefix ==
  /\ consumed \in Seq(ConsumedInstances)
  /\ Len(consumed) <= Len(witness.consumed)
  /\ \A k \in 1..Len(consumed) : consumed[k] = ConsumedInstance(witness.consumed[k])

CreatedIsPrefix ==
  /\ created \in Seq(CreatedInstances)
  /\ Len(created) <= Len(witness.created)
  /\ \A k \in 1..Len(created) : created[k] = CreatedInstance(witness.created[k])

NoncesMatch ==
  \A k \in 1..Len(created) :
     witness.created[k].resource.nonce = CreatedNonce(Nullifiers, k - 1)

LogicsHold ==
  /\ \A k \in 1..Len(consumed) : ConsumedHolds(witness.consumed[k], witness.actionRoot)
  /\ \A k \in 1..Len(created) : CreatedHolds(witness.created[k], witness.actionRoot)

Progress ==
  /\ phase \in Phases
  /\ phase = "consume" => created = <<>>
  /\ outcome \in {"running", "Ok"} \cup Failures
  /\ outcome # "Ok" => revealed = NoDigest
  /\ phase # "end" => outcome = "running"

IInv == /\ witness \in Witnesses
        /\ delta \in Points
        /\ ConsumedIsPrefix
        /\ CreatedIsPrefix
        /\ NoncesMatch
        /\ LogicsHold
        /\ Progress

LEMMA WitnessType ==
  ASSUME NEW w \in Witnesses
  PROVE  w.consumed \in Seq(ConsumedWitness) /\ w.created \in Seq(CreatedWitness)
BY WitnessesAssumption

LEMMA InitInvariant == Init => IInv
<1>. SUFFICES ASSUME Init PROVE IInv
  OBVIOUS
<1>1. witness.consumed \in Seq(ConsumedWitness) /\ witness.created \in Seq(CreatedWitness)
  BY WitnessType DEF Init
<1>2. Len(witness.consumed) \in Nat /\ Len(witness.created) \in Nat
  BY <1>1
<1>3. ConsumedIsPrefix
  BY <1>2 DEF Init, ConsumedIsPrefix
<1>4. CreatedIsPrefix /\ NoncesMatch /\ LogicsHold
  BY <1>2 DEF Init, CreatedIsPrefix, NoncesMatch, LogicsHold
<1>5. Progress
  BY DEF Init, Progress, Phases
<1>. QED
  BY <1>3, <1>4, <1>5, IdentityIsPoint DEF Init, IInv

LEMMA AbortInvariant ==
  ASSUME IInv, phase # "end", NEW failure \in Failures, Abort(failure)
  PROVE  IInv'
<1>1. Nullifiers' = Nullifiers
  BY DEF Abort, Nullifiers
<1>2. ConsumedIsPrefix' /\ CreatedIsPrefix' /\ NoncesMatch' /\ LogicsHold'
  BY <1>1 DEF IInv, Abort, ConsumedIsPrefix, CreatedIsPrefix, NoncesMatch, LogicsHold
<1>3. Progress'
  BY DEF IInv, Abort, Progress, Phases, Failures
<1>. QED  BY <1>2, <1>3 DEF IInv, Abort

LEMMA ConsumeInvariant ==
  ASSUME IInv, Consume
  PROVE  IInv'
<1>. DEFINE entry == NextConsumed
            n == Len(consumed)
<1>1. /\ witness.consumed \in Seq(ConsumedWitness)
      /\ consumed \in Seq(ConsumedInstances)
      /\ n \in Nat /\ n < Len(witness.consumed)
  BY WitnessType DEF IInv, ConsumedIsPrefix, Consume, MoreToConsume
<1>2. entry \in ConsumedWitness
  BY <1>1 DEF NextConsumed
<1>3. consumed' = Append(consumed, ConsumedInstance(entry)) /\ witness' = witness
  BY DEF Consume
<1>4. ConsumedInstance(entry) \in ConsumedInstances
  BY <1>2 DEF ConsumedInstances
<1>5. ConsumedIsPrefix'
  <2>1. consumed' \in Seq(ConsumedInstances) /\ Len(consumed') = n + 1
    BY <1>1, <1>3, <1>4
  <2>2. ASSUME NEW k \in 1..Len(consumed')
        PROVE  consumed'[k] = ConsumedInstance(witness.consumed[k])
    BY <1>1, <1>3, <2>1 DEF IInv, ConsumedIsPrefix, NextConsumed
  <2>. QED  BY <1>1, <1>3, <2>1, <2>2 DEF ConsumedIsPrefix
<1>6. created = <<>> /\ created' = <<>>
  BY DEF IInv, Progress, Consume, MoreToConsume
<1>7. CreatedIsPrefix' /\ NoncesMatch'
  BY <1>3, <1>6 DEF IInv, CreatedIsPrefix, NoncesMatch
<1>10. LogicsHold'
  <2>1. ConsumedHolds(witness.consumed[n + 1], witness.actionRoot)
    BY DEF Consume, ConsumeSucceeds, NextConsumed
  <2>2. Len(consumed') = n + 1
    BY <1>1, <1>3, <1>4
  <2>3. ASSUME NEW k \in 1..(n + 1)
        PROVE  ConsumedHolds(witness.consumed[k], witness.actionRoot)
    <3>1. CASE k \in 1..n
      BY <3>1 DEF IInv, LogicsHold
    <3>2. CASE k = n + 1
      BY <2>1, <3>2
    <3>. QED  BY <1>1, <3>1, <3>2
  <2>4. Len(created') = 0
    BY <1>6
  <2>. QED  BY <1>3, <2>2, <2>3, <2>4 DEF LogicsHold
<1>8. delta' \in Points
  BY <1>2, ToDeltaIsPoint, MinusIsPoint, PointsAreIntegers DEF IInv, Consume, ConsumeSucceeds
<1>9. Progress'
  BY <1>6 DEF IInv, Progress, Consume, MoreToConsume
<1>. QED  BY <1>3, <1>5, <1>7, <1>8, <1>9, <1>10 DEF IInv

LEMMA CreateInvariant ==
  ASSUME IInv, Create
  PROVE  IInv'
<1>. DEFINE entry == NextCreated
            n == Len(created)
<1>1. /\ witness.created \in Seq(CreatedWitness)
      /\ created \in Seq(CreatedInstances)
      /\ n \in Nat /\ n < Len(witness.created)
  BY WitnessType DEF IInv, CreatedIsPrefix, Create, MoreToCreate
<1>2. entry \in CreatedWitness
  BY <1>1 DEF NextCreated
<1>3. /\ created' = Append(created, CreatedInstance(entry))
      /\ witness' = witness /\ consumed' = consumed
  BY DEF Create
<1>4. CreatedInstance(entry) \in CreatedInstances
  BY <1>2 DEF CreatedInstances
<1>5. created' \in Seq(CreatedInstances) /\ Len(created') = n + 1
  BY <1>1, <1>3, <1>4
<1>6. CreatedIsPrefix'
  <2>1. ASSUME NEW k \in 1..Len(created')
        PROVE  created'[k] = CreatedInstance(witness.created[k])
    BY <1>1, <1>3, <1>5 DEF IInv, CreatedIsPrefix, NextCreated
  <2>. QED  BY <1>1, <1>3, <1>5, <2>1 DEF CreatedIsPrefix
<1>7. Nullifiers' = Nullifiers
  BY <1>3 DEF Nullifiers
<1>8. NoncesMatch'
  <2>1. witness.created[n + 1].resource.nonce = CreatedNonce(Nullifiers, n)
    BY DEF Create, NonceMatches, NextCreated
  <2>2. ASSUME NEW k \in 1..Len(created')
        PROVE  witness.created[k].resource.nonce = CreatedNonce(Nullifiers, k - 1)
    <3>1. CASE k \in 1..n
      BY <3>1 DEF IInv, NoncesMatch
    <3>2. CASE k = n + 1
      BY <2>1, <3>2, <1>1
    <3>. QED  BY <1>1, <1>5, <3>1, <3>2
  <2>. QED  BY <1>3, <1>7, <2>2 DEF NoncesMatch
<1>12. LogicsHold'
  <2>1. CreatedHolds(witness.created[n + 1], witness.actionRoot)
    BY DEF Create, NextCreated
  <2>2. ASSUME NEW k \in 1..(n + 1)
        PROVE  CreatedHolds(witness.created[k], witness.actionRoot)
    <3>1. CASE k \in 1..n
      BY <3>1 DEF IInv, LogicsHold
    <3>2. CASE k = n + 1
      BY <2>1, <3>2
    <3>. QED  BY <1>1, <3>1, <3>2
  <2>. QED  BY <1>3, <1>5, <2>2 DEF LogicsHold, IInv
<1>9. delta' \in Points
  BY <1>2, ToDeltaIsPoint, PlusIsPoint, PointsAreIntegers DEF IInv, Create
<1>10. ConsumedIsPrefix'
  BY <1>3 DEF IInv, ConsumedIsPrefix
<1>11. Progress'
  BY DEF IInv, Progress, Create, MoreToCreate
<1>. QED  BY <1>3, <1>6, <1>8, <1>9, <1>10, <1>11, <1>12 DEF IInv

LEMMA StepInvariant == IInv /\ [Next]_vars => IInv'
<1>. SUFFICES ASSUME IInv, [Next]_vars PROVE IInv'
  OBVIOUS
<1>1. CASE Consume
  BY <1>1, ConsumeInvariant
<1>2. CASE ConsumePanics \/ CreatePanics
  BY <1>2, AbortInvariant
  DEF ConsumePanics, CreatePanics, MoreToConsume, MoreToCreate, Failures
<1>3. CASE RejectNoNullifier \/ RejectNonce
  BY <1>3, AbortInvariant DEF RejectNoNullifier, RejectNonce, MoreToCreate, Failures
<1>4. CASE Create
  BY <1>4, CreateInvariant
<1>5. CASE StartCreating \/ Reveal
  <2>1. Nullifiers' = Nullifiers
    BY <1>5 DEF StartCreating, Reveal, Nullifiers
  <2>2. ConsumedIsPrefix' /\ CreatedIsPrefix' /\ NoncesMatch' /\ LogicsHold'
    BY <1>5, <2>1
    DEF IInv, StartCreating, Reveal, ConsumedIsPrefix, CreatedIsPrefix, NoncesMatch, LogicsHold
  <2>3. Progress'
    BY <1>5 DEF IInv, StartCreating, Reveal, Progress, Phases
  <2>. QED  BY <1>5, <2>2, <2>3 DEF IInv, StartCreating, Reveal
<1>6. CASE UNCHANGED vars
  <2>1. Nullifiers' = Nullifiers
    BY <1>6 DEF vars, Nullifiers
  <2>. QED
    BY <1>6, <2>1
    DEF vars, IInv, ConsumedIsPrefix, CreatedIsPrefix, NoncesMatch, LogicsHold, Progress
<1>. QED  BY <1>1, <1>2, <1>3, <1>4, <1>5, <1>6 DEF Next

LEMMA Invariant == Spec => []IInv
BY InitInvariant, StepInvariant, PTL DEF Spec

-----------------------------------------------------------------------------
(* The guest keeps its variables in their types on every witness.          *)
THEOREM TypeCorrect == Spec => []TypeOK
<1>1. IInv => TypeOK
  BY DEF IInv, TypeOK, ConsumedIsPrefix, CreatedIsPrefix, Progress
<1>. QED  BY <1>1, Invariant, PTL

\* The tags of the instances computed so far.
LEMMA CreatedCommitment ==
  ASSUME IInv, NEW k \in 1..Len(created)
  PROVE  created[k].commitment = Commit(witness.created[k].resource)
<1>1. created[k] = CreatedInstance(witness.created[k])
  BY DEF IInv, CreatedIsPrefix
<1>. QED  BY <1>1 DEF CreatedInstance

LEMMA ConsumedNullifier ==
  ASSUME IInv, NEW k \in 1..Len(consumed)
  PROVE  consumed[k].nullifier = Nullifier(witness.consumed[k])
<1>1. consumed[k] = ConsumedInstance(witness.consumed[k])
  BY DEF IInv, ConsumedIsPrefix
<1>. QED  BY <1>1 DEF ConsumedInstance

(* The guest accepts no two created resources with one commitment, however *)
(* many resources the action has, up to the width of the index.            *)
THEOREM CommitmentsDistinct ==
  ASSUME NarrowWitnesses
  PROVE  Spec => []CreatedCommitmentsDistinct
<1>1. ASSUME IInv PROVE CreatedCommitmentsDistinct
  <2>. SUFFICES ASSUME NEW j \in DOMAIN created, NEW k \in DOMAIN created,
                       created[j].commitment = created[k].commitment
                PROVE  j = k
    BY DEF CreatedCommitmentsDistinct
  <2>1. j \in 1..Len(created) /\ k \in 1..Len(created)
    BY <1>1 DEF IInv, CreatedIsPrefix
  <2>2. Commit(witness.created[j].resource) = Commit(witness.created[k].resource)
    BY <1>1, <2>1, CreatedCommitment
  <2>3. witness.created[j].resource.nonce = witness.created[k].resource.nonce
    BY <2>2, CommitDetermines
  <2>4. CreatedNonce(Nullifiers, j - 1) = CreatedNonce(Nullifiers, k - 1)
    BY <1>1, <2>1, <2>3 DEF IInv, NoncesMatch
  <2>5. Nullifiers \in Seq({consumed[m].nullifier : m \in DOMAIN consumed})
    BY <1>1 DEF IInv, ConsumedIsPrefix, Nullifiers
  <2>6. Len(witness.created) \in Nat /\ Len(witness.created) <= IndexModulus
    BY <1>1, NarrowWitnesses, WitnessType DEF IInv, NarrowWitnesses
  <2>7. j - 1 \in 0..(IndexModulus - 1) /\ k - 1 \in 0..(IndexModulus - 1)
    BY <1>1, <2>1, <2>6, IndexAssumption DEF IInv, CreatedIsPrefix
  <2>8. j - 1 = k - 1
    BY <2>4, <2>5, <2>7, NonceDetermines
  <2>. QED  BY <2>1, <2>8
<1>. QED  BY <1>1, Invariant, PTL

(* A resource logic proof never serves for two tags, nor for a consumed    *)
(* and a created resource, in one action.                                  *)
THEOREM LogicProofsServeOnce == Spec => []LogicProofsNotReused
<1>1. ASSUME IInv PROVE LogicProofsNotReused
  <2>. DEFINE Attested(proof, side, tag) ==
                \E root, appData, logic :
                   proof = LogicProof(logic, LogicVmCommit, LogicDigest(tag, root, side, appData))
  <2>1. ASSUME NEW k \in DOMAIN consumed
        PROVE  Attested(witness.consumed[k].logicProof, TRUE, consumed[k].nullifier)
    <3>1. k \in 1..Len(consumed)
      BY <1>1 DEF IInv, ConsumedIsPrefix
    <3>2. ConsumedHolds(witness.consumed[k], witness.actionRoot)
      BY <1>1, <3>1 DEF IInv, LogicsHold
    <3>. QED  BY <1>1, <3>1, <3>2, ConsumedNullifier DEF ConsumedHolds, LogicVerifies
  <2>2. ASSUME NEW k \in DOMAIN created
        PROVE  Attested(witness.created[k].logicProof, FALSE, created[k].commitment)
    <3>1. k \in 1..Len(created)
      BY <1>1 DEF IInv, CreatedIsPrefix
    <3>2. CreatedHolds(witness.created[k], witness.actionRoot)
      BY <1>1, <3>1 DEF IInv, LogicsHold
    <3>. QED  BY <1>1, <3>1, <3>2, CreatedCommitment DEF CreatedHolds, LogicVerifies
  <2>3. ASSUME NEW proof, NEW s1, NEW t1, NEW s2, NEW t2,
               Attested(proof, s1, t1), Attested(proof, s2, t2)
        PROVE  s1 = s2 /\ t1 = t2
    BY <2>3 DEF LogicProof, LogicDigest, Keccak
  <2>. HIDE DEF Attested
  <2>4. ASSUME NEW a \in Accepted
        PROVE  \E proof, side, tag : a = <<proof, side, tag>> /\ Attested(proof, side, tag)
    <3>1. CASE \E k \in DOMAIN consumed :
                 a = <<witness.consumed[k].logicProof, TRUE, consumed[k].nullifier>>
      BY <2>1, <3>1
    <3>2. CASE \E k \in DOMAIN created :
                 a = <<witness.created[k].logicProof, FALSE, created[k].commitment>>
      BY <2>2, <3>2
    <3>. QED  BY <3>1, <3>2 DEF Accepted
  <2>5. ASSUME NEW a \in Accepted, NEW b \in Accepted, a[1] = b[1]
        PROVE  a = b
    <3>1. PICK p1, s1, t1 : a = <<p1, s1, t1>> /\ Attested(p1, s1, t1)
      BY <2>4
    <3>2. PICK p2, s2, t2 : b = <<p2, s2, t2>> /\ Attested(p2, s2, t2)
      BY <2>4
    <3>3. p1 = p2
      BY <2>5, <3>1, <3>2
    <3>4. s1 = s2 /\ t1 = t2
      BY <2>3, <3>1, <3>2, <3>3
    <3>. QED  BY <3>1, <3>2, <3>3, <3>4
  <2>. QED  BY <2>5 DEF LogicProofsNotReused
<1>. QED  BY <1>1, Invariant, PTL

-----------------------------------------------------------------------------
(* The verdict.  Beyond IInv, every kind so far was found, the loop over   *)
(* the created resources starts with all the consumed ones done, the delta *)
(* is, modulo the order, what the entries so far add up to, and the        *)
(* outcome is the one that the statement of the guest asks for.            *)

KindsFound ==
  /\ \A k \in 1..Len(consumed) : KindFound(witness.kindTable, witness.consumed[k])
  /\ \A k \in 1..Len(created) : KindFound(witness.kindTable, witness.created[k])

AllConsumed ==
  phase = "create" => consumed # <<>> /\ Len(consumed) = Len(witness.consumed)

ConsumedShare(b) == SumOver(Coordinates(witness.kindTable, witness.consumed, b), 1..Len(consumed))
CreatedShare(b)  == SumOver(Coordinates(witness.kindTable, witness.created, b), 1..Len(created))

DeltaAddsUp ==
  phase # "end" => \A b \in Basis : Cong(delta[b], CreatedShare(b) - ConsumedShare(b))

VerdictRight ==
  /\ outcome = "Ok" => Acceptable(witness) /\ revealed = DigestOf(witness)
  /\ outcome \in Failures => ~Acceptable(witness)

VInv == KindsFound /\ AllConsumed /\ DeltaAddsUp /\ VerdictRight

LEMMA WitnessLists ==
  ASSUME IInv
  PROVE  /\ Len(witness.consumed) \in Nat /\ DOMAIN witness.consumed = 1..Len(witness.consumed)
         /\ Len(witness.created) \in Nat /\ DOMAIN witness.created = 1..Len(witness.created)
         /\ Len(consumed) \in Nat /\ DOMAIN consumed = 1..Len(consumed)
         /\ Len(created) \in Nat /\ DOMAIN created = 1..Len(created)
BY WitnessType DEF IInv, ConsumedIsPrefix, CreatedIsPrefix

\* When all consumed resources are done, the lists are those of the statement.
LEMMA ConsumedComplete ==
  ASSUME IInv, Len(consumed) = Len(witness.consumed)
  PROVE  consumed = ConsumedOf(witness) /\ Nullifiers = NullifiersOf(witness)
<1>1. /\ DOMAIN consumed = DOMAIN witness.consumed
      /\ \A k \in DOMAIN witness.consumed : consumed[k] = ConsumedInstance(witness.consumed[k])
  BY WitnessLists DEF IInv, ConsumedIsPrefix
<1>2. consumed = ConsumedOf(witness)
  <2>1. consumed = [k \in DOMAIN consumed |-> consumed[k]]
    BY DEF IInv, ConsumedIsPrefix
  <2>. QED  BY <1>1, <2>1 DEF ConsumedOf
<1>3. Nullifiers = NullifiersOf(witness)
  <2>1. \A k \in DOMAIN witness.consumed : consumed[k].nullifier = Nullifier(witness.consumed[k])
    BY WitnessLists, ConsumedNullifier
  <2>. QED  BY <1>1, <2>1 DEF Nullifiers, NullifiersOf
<1>. QED  BY <1>2, <1>3

LEMMA CreatedComplete ==
  ASSUME IInv, Len(created) = Len(witness.created)
  PROVE  created = CreatedOf(witness)
<1>1. /\ DOMAIN created = DOMAIN witness.created
      /\ \A k \in DOMAIN witness.created : created[k] = CreatedInstance(witness.created[k])
  BY WitnessLists DEF IInv, CreatedIsPrefix
<1>2. created = [k \in DOMAIN created |-> created[k]]
  BY DEF IInv, CreatedIsPrefix
<1>. QED  BY <1>1, <1>2 DEF CreatedOf

LEMMA RevealAcceptable ==
  ASSUME IInv, VInv, phase = "create", ~MoreToCreate
  PROVE  Acceptable(witness)
<1>1. /\ Len(consumed) = Len(witness.consumed) /\ consumed # <<>>
      /\ Len(created) = Len(witness.created)
  BY WitnessLists DEF VInv, AllConsumed, MoreToCreate, IInv, CreatedIsPrefix
<1>2. /\ Nullifiers = NullifiersOf(witness)
      /\ DOMAIN witness.consumed = 1..Len(consumed) /\ DOMAIN witness.created = 1..Len(created)
  BY <1>1, ConsumedComplete, WitnessLists
<1>3. NullifiersOf(witness) # <<>>
  <2>1. 1 \in DOMAIN consumed
    BY <1>1, WitnessLists DEF IInv, ConsumedIsPrefix
  <2>2. 1 \in DOMAIN Nullifiers
    BY <2>1 DEF Nullifiers
  <2>. QED  BY <1>2, <2>2
<1>4. EntriesHold(witness)
  BY <1>2 DEF EntriesHold, IInv, LogicsHold, VInv, KindsFound
<1>5. NoncesHold(witness)
  BY <1>2 DEF NoncesHold, IInv, NoncesMatch
<1>. QED  BY <1>3, <1>4, <1>5 DEF Acceptable

LEMMA AbortRight ==
  ASSUME IInv, VInv, ConsumePanics \/ RejectNoNullifier \/ RejectNonce \/ CreatePanics
  PROVE  ~Acceptable(witness)
<1>1. ASSUME ConsumePanics PROVE ~EntriesHold(witness)
  <2>1. Len(consumed) + 1 \in DOMAIN witness.consumed
    BY <1>1, WitnessLists DEF ConsumePanics, MoreToConsume
  <2>. QED  BY <1>1, <2>1 DEF ConsumePanics, ConsumeSucceeds, NextConsumed, EntriesHold
<1>2. ASSUME RejectNoNullifier PROVE NullifiersOf(witness) = <<>>
  <2>1. Len(consumed) = Len(witness.consumed) /\ consumed = <<>>
    BY <1>2, WitnessLists DEF RejectNoNullifier, MoreToConsume, IInv, ConsumedIsPrefix
  <2>2. DOMAIN witness.consumed = {}
    BY <2>1, WitnessLists
  <2>. QED  BY <2>2 DEF NullifiersOf
<1>3. ASSUME RejectNonce \/ CreatePanics
      PROVE  /\ Len(created) + 1 \in DOMAIN witness.created
             /\ Nullifiers = NullifiersOf(witness)
  BY <1>3, WitnessLists, ConsumedComplete
  DEF RejectNonce, CreatePanics, MoreToCreate, VInv, AllConsumed
<1>4. ASSUME RejectNonce PROVE ~NoncesHold(witness)
  <2>1. witness.created[Len(created) + 1].resource.nonce # CreatedNonce(Nullifiers, Len(created))
    BY <1>4 DEF RejectNonce, NonceMatches, NextCreated
  <2>2. (Len(created) + 1) - 1 = Len(created)
    BY WitnessLists
  <2>. QED  BY <1>3, <1>4, <2>1, <2>2 DEF NoncesHold
<1>5. ASSUME CreatePanics PROVE ~EntriesHold(witness)
  BY <1>3, <1>5 DEF CreatePanics, NextCreated, EntriesHold
<1>. QED  BY <1>1, <1>2, <1>4, <1>5 DEF Acceptable

\* The delta of an entry whose kind was found is a point.
LEMMA FoundIsInteger ==
  ASSUME IInv, NEW b \in Basis
  PROVE  /\ \A k \in DOMAIN witness.consumed :
              KindFound(witness.kindTable, witness.consumed[k]) =>
                Coordinates(witness.kindTable, witness.consumed, b)[k] \in Int
         /\ \A k \in DOMAIN witness.created :
              KindFound(witness.kindTable, witness.created[k]) =>
                Coordinates(witness.kindTable, witness.created, b)[k] \in Int
<1>1. ASSUME NEW k \in DOMAIN witness.consumed,
             KindFound(witness.kindTable, witness.consumed[k])
      PROVE  Coordinates(witness.kindTable, witness.consumed, b)[k] \in Int
  <2>1. witness.consumed[k] \in ConsumedWitness
    BY WitnessType DEF IInv
  <2>2. ToDelta(witness.kindTable, witness.consumed[k]) \in [Basis -> Int]
    BY <1>1, <2>1, ToDeltaIsPoint, PointsAreIntegers
  <2>. QED  BY <2>2 DEF Coordinates
<1>2. ASSUME NEW k \in DOMAIN witness.created,
             KindFound(witness.kindTable, witness.created[k])
      PROVE  Coordinates(witness.kindTable, witness.created, b)[k] \in Int
  <2>1. witness.created[k] \in CreatedWitness
    BY WitnessType DEF IInv
  <2>2. ToDelta(witness.kindTable, witness.created[k]) \in [Basis -> Int]
    BY <1>2, <2>1, ToDeltaIsPoint, PointsAreIntegers
  <2>. QED  BY <2>2 DEF Coordinates
<1>. QED  BY <1>1, <1>2

LEMMA SharesAreIntegers ==
  ASSUME IInv, KindsFound, NEW b \in Basis
  PROVE  ConsumedShare(b) \in Int /\ CreatedShare(b) \in Int
<1>. DEFINE f == Coordinates(witness.kindTable, witness.consumed, b)
            g == Coordinates(witness.kindTable, witness.created, b)
<1>1. 1..Len(consumed) \subseteq DOMAIN witness.consumed
  BY WitnessLists DEF IInv, ConsumedIsPrefix
<1>2. 1..Len(created) \subseteq DOMAIN witness.created
  BY WitnessLists DEF IInv, CreatedIsPrefix
<1>3. /\ \A k \in 1..Len(consumed) : f[k] \in Int
      /\ \A k \in 1..Len(created) : g[k] \in Int
  BY <1>1, <1>2, FoundIsInteger DEF KindsFound
<1>. HIDE DEF f, g
<1>4. Summable(f, 1..Len(consumed)) /\ Summable(g, 1..Len(created))
  <2>1. Len(consumed) \in Int /\ Len(created) \in Int /\ 1 \in Int
    BY WitnessLists
  <2>2. IsFiniteSet(1..Len(consumed)) /\ IsFiniteSet(1..Len(created))
    BY <2>1, FS_Interval
  <2>. QED  BY <1>3, <2>2 DEF Summable
<1>5. SumOver(f, 1..Len(consumed)) \in Int /\ SumOver(g, 1..Len(created)) \in Int
  BY <1>4, SumIsInteger
<1>. QED  BY <1>5 DEF f, g, ConsumedShare, CreatedShare

LEMMA ConsumeAddsUp ==
  ASSUME IInv, VInv, Consume
  PROVE  DeltaAddsUp'
<1>. DEFINE n == Len(consumed)
<1>1. /\ consumed' = Append(consumed, ConsumedInstance(NextConsumed))
      /\ witness' = witness /\ created' = created /\ phase' = phase
      /\ phase = "consume" /\ KindFound(witness.kindTable, NextConsumed)
      /\ delta' = Minus(delta, ToDelta(witness.kindTable, NextConsumed))
  BY DEF Consume, MoreToConsume, ConsumeSucceeds
<1>2. n \in Nat /\ Len(consumed') = n + 1
  BY <1>1, WitnessLists DEF IInv, ConsumedIsPrefix
<1>3. 1..(n + 1) \subseteq DOMAIN witness.consumed
  BY WitnessLists DEF Consume, MoreToConsume
<1>4. ASSUME NEW k \in 1..(n + 1)
      PROVE  KindFound(witness.kindTable, witness.consumed[k])
  BY <1>1, <1>2 DEF VInv, KindsFound, NextConsumed
<1>. HIDE DEF n
<1>5. ASSUME NEW b \in Basis
      PROVE  Cong(delta'[b], (CreatedShare(b) - ConsumedShare(b))')
  <2>. DEFINE f == Coordinates(witness.kindTable, witness.consumed, b)
              c == CreatedShare(b)
              s == ConsumedShare(b)
  <2>1. \A k \in 1..(n + 1) : f[k] \in Int
    BY <1>3, <1>4, FoundIsInteger
  <2>2. n + 1 \in 1..(n + 1)
    BY <1>2
  <2>3. f[n + 1] = ToDelta(witness.kindTable, NextConsumed)[b]
    BY <1>3, <2>2 DEF Coordinates, NextConsumed, n
  <2>4. delta[b] \in Int /\ f[n + 1] \in Int
    BY <2>1, <2>2, PointsAreIntegers DEF IInv
  <2>5. delta'[b] = (delta[b] - f[n + 1]) % Order
    BY <1>1, <2>3 DEF Minus
  <2>6. c \in Int /\ s \in Int
    BY SharesAreIntegers DEF VInv
  <2>7. Cong(delta[b], c - s)
    BY <1>1 DEF VInv, DeltaAddsUp
  <2>8. c' = c
    BY <1>1 DEF CreatedShare
  <2>9. s' = s + f[n + 1]
    <3>1. SumOver(f, 1..(n + 1)) = SumOver(f, 1..n) + f[n + 1]
      <4>. HIDE DEF f
      <4>. QED  BY <1>2, <2>1, SumUpTo
    <3>2. s' = SumOver(f, 1..(n + 1))
      BY <1>1, <1>2 DEF ConsumedShare
    <3>3. s = SumOver(f, 1..n)
      BY DEF ConsumedShare, n
    <3>. QED  BY <3>1, <3>2, <3>3
  <2>. HIDE DEF f, c, s
  <2>10. Cong(delta[b] - f[n + 1], (c - s) - f[n + 1])
    <3>1. c - s \in Int /\ Cong(f[n + 1], f[n + 1])
      BY <2>4, <2>6, CongSame
    <3>. QED  BY <2>4, <2>7, <3>1, CongPlus
  <2>11. /\ delta[b] - f[n + 1] \in Int /\ (c - s) - f[n + 1] \in Int
         /\ (c - s) - f[n + 1] = c' - s'
    BY <2>4, <2>6, <2>8, <2>9
  <2>12. delta'[b] \in Int /\ Cong(delta'[b], delta[b] - f[n + 1])
    BY <2>5, <2>11, CongMod
  <2>13. Cong(delta'[b], c' - s')
    BY <2>10, <2>11, <2>12, CongThen
  <2>. QED  BY <2>13 DEF c, s
<1>. QED  BY <1>5 DEF DeltaAddsUp

LEMMA CreateAddsUp ==
  ASSUME IInv, VInv, Create
  PROVE  DeltaAddsUp'
<1>. DEFINE n == Len(created)
<1>1. /\ created' = Append(created, CreatedInstance(NextCreated))
      /\ witness' = witness /\ consumed' = consumed /\ phase' = phase
      /\ phase = "create" /\ KindFound(witness.kindTable, NextCreated)
      /\ delta' = Plus(delta, ToDelta(witness.kindTable, NextCreated))
  BY DEF Create, MoreToCreate
<1>2. n \in Nat /\ Len(created') = n + 1
  BY <1>1, WitnessLists DEF IInv, CreatedIsPrefix
<1>3. 1..(n + 1) \subseteq DOMAIN witness.created
  BY WitnessLists DEF Create, MoreToCreate
<1>4. ASSUME NEW k \in 1..(n + 1)
      PROVE  KindFound(witness.kindTable, witness.created[k])
  BY <1>1, <1>2 DEF VInv, KindsFound, NextCreated
<1>. HIDE DEF n
<1>5. ASSUME NEW b \in Basis
      PROVE  Cong(delta'[b], (CreatedShare(b) - ConsumedShare(b))')
  <2>. DEFINE f == Coordinates(witness.kindTable, witness.created, b)
              c == CreatedShare(b)
              s == ConsumedShare(b)
  <2>1. \A k \in 1..(n + 1) : f[k] \in Int
    BY <1>3, <1>4, FoundIsInteger
  <2>2. n + 1 \in 1..(n + 1)
    BY <1>2
  <2>3. f[n + 1] = ToDelta(witness.kindTable, NextCreated)[b]
    BY <1>3, <2>2 DEF Coordinates, NextCreated, n
  <2>4. delta[b] \in Int /\ f[n + 1] \in Int
    BY <2>1, <2>2, PointsAreIntegers DEF IInv
  <2>5. delta'[b] = (delta[b] + f[n + 1]) % Order
    BY <1>1, <2>3 DEF Plus
  <2>6. c \in Int /\ s \in Int
    BY SharesAreIntegers DEF VInv
  <2>7. Cong(delta[b], c - s)
    BY <1>1 DEF VInv, DeltaAddsUp
  <2>8. s' = s
    BY <1>1 DEF ConsumedShare
  <2>9. c' = c + f[n + 1]
    <3>1. SumOver(f, 1..(n + 1)) = SumOver(f, 1..n) + f[n + 1]
      <4>. HIDE DEF f
      <4>. QED  BY <1>2, <2>1, SumUpTo
    <3>2. c' = SumOver(f, 1..(n + 1))
      BY <1>1, <1>2 DEF CreatedShare
    <3>3. c = SumOver(f, 1..n)
      BY DEF CreatedShare, n
    <3>. QED  BY <3>1, <3>2, <3>3
  <2>. HIDE DEF f, c, s
  <2>10. Cong(delta[b] + f[n + 1], (c - s) + f[n + 1])
    <3>1. c - s \in Int /\ Cong(f[n + 1], f[n + 1])
      BY <2>4, <2>6, CongSame
    <3>. QED  BY <2>4, <2>7, <3>1, CongPlus
  <2>11. /\ delta[b] + f[n + 1] \in Int /\ (c - s) + f[n + 1] \in Int
         /\ (c - s) + f[n + 1] = c' - s'
    BY <2>4, <2>6, <2>8, <2>9
  <2>12. delta'[b] \in Int /\ Cong(delta'[b], delta[b] + f[n + 1])
    BY <2>5, <2>11, CongMod
  <2>13. Cong(delta'[b], c' - s')
    BY <2>10, <2>11, <2>12, CongThen
  <2>. QED  BY <2>13 DEF c, s
<1>. QED  BY <1>5 DEF DeltaAddsUp

\* When all entries are done, the delta is that of the statement.
LEMMA DeltaComplete ==
  ASSUME IInv, VInv, phase = "create", Len(consumed) = Len(witness.consumed),
         Len(created) = Len(witness.created)
  PROVE  delta = NetDelta(witness)
<1>1. ASSUME NEW b \in Basis
      PROVE  delta[b] = NetDelta(witness)[b]
  <2>. DEFINE x == CreatedShare(b) - ConsumedShare(b)
  <2>1. /\ CreatedShare(b) = Total(witness.kindTable, witness.created, b)
        /\ ConsumedShare(b) = Total(witness.kindTable, witness.consumed, b)
    BY WitnessLists, TotalIs DEF CreatedShare, ConsumedShare
  <2>2. NetDelta(witness)[b] = x % Order
    BY <2>1 DEF NetDelta
  <2>3. x \in Int
    BY SharesAreIntegers DEF VInv
  <2>4. Cong(delta[b], x)
    BY DEF VInv, DeltaAddsUp
  <2>. HIDE DEF x
  <2>5. delta[b] \in Scalars
    BY DEF IInv, Points
  <2>6. x % Order \in Scalars /\ x % Order \in Int /\ Cong(x % Order, x)
    <3>1. x % Order \in Int /\ Cong(x % Order, x)
      BY <2>3, CongMod
    <3>2. x % Order \in Scalars
      BY <2>3, OrderAssumption DEF Scalars
    <3>. QED  BY <3>1, <3>2
  <2>7. delta[b] \in Int
    BY <2>5 DEF Scalars
  <2>8. Cong(delta[b], x % Order)
    BY <2>3, <2>4, <2>6, <2>7, CongBack, CongThen
  <2>9. delta[b] - (x % Order) < Order /\ (x % Order) - delta[b] < Order
    BY <2>5, <2>6, OrderAssumption DEF Scalars
  <2>. QED  BY <2>2, <2>6, <2>7, <2>8, <2>9, CongClose
<1>2. delta = [b \in Basis |-> delta[b]]
  BY DEF IInv, Points
<1>3. NetDelta(witness) = [b \in Basis |-> NetDelta(witness)[b]]
  BY DEF NetDelta
<1>. QED  BY <1>1, <1>2, <1>3

LEMMA StepVerdict == IInv /\ VInv /\ [Next]_vars => VInv'
<1>. SUFFICES ASSUME IInv, VInv, [Next]_vars PROVE VInv'
  OBVIOUS
<1>1. CASE Consume
  <2>1. /\ consumed' = Append(consumed, ConsumedInstance(NextConsumed))
        /\ witness' = witness /\ created' = created /\ phase' = phase /\ outcome' = outcome
        /\ phase = "consume" /\ KindFound(witness.kindTable, NextConsumed)
    BY <1>1 DEF Consume, MoreToConsume, ConsumeSucceeds
  <2>2. Len(consumed') = Len(consumed) + 1
    BY <2>1 DEF IInv, ConsumedIsPrefix
  <2>3. ASSUME NEW k \in 1..(Len(consumed) + 1)
        PROVE  KindFound(witness.kindTable, witness.consumed[k])
    BY <2>1, WitnessLists DEF VInv, KindsFound, NextConsumed
  <2>4. outcome = "running"
    BY <2>1 DEF IInv, Progress
  <2>5. DeltaAddsUp'
    BY <1>1, ConsumeAddsUp
  <2>. QED
    BY <2>1, <2>2, <2>3, <2>4, <2>5 DEF VInv, KindsFound, AllConsumed, VerdictRight, Failures
<1>2. CASE Create
  <2>1. /\ created' = Append(created, CreatedInstance(NextCreated))
        /\ witness' = witness /\ consumed' = consumed /\ phase' = phase /\ outcome' = outcome
        /\ phase = "create" /\ KindFound(witness.kindTable, NextCreated)
    BY <1>2 DEF Create, MoreToCreate
  <2>2. Len(created') = Len(created) + 1
    BY <2>1 DEF IInv, CreatedIsPrefix
  <2>3. ASSUME NEW k \in 1..(Len(created) + 1)
        PROVE  KindFound(witness.kindTable, witness.created[k])
    BY <2>1, WitnessLists DEF VInv, KindsFound, NextCreated
  <2>4. outcome = "running"
    BY <2>1 DEF IInv, Progress
  <2>5. DeltaAddsUp'
    BY <1>2, CreateAddsUp
  <2>. QED
    BY <2>1, <2>2, <2>3, <2>4, <2>5 DEF VInv, KindsFound, AllConsumed, VerdictRight, Failures
<1>3. CASE StartCreating
  <2>1. Len(consumed) = Len(witness.consumed) /\ outcome = "running"
    BY <1>3, WitnessLists DEF StartCreating, MoreToConsume, IInv, ConsumedIsPrefix, Progress
  <2>2. DeltaAddsUp'
    BY <1>3 DEF StartCreating, VInv, DeltaAddsUp, CreatedShare, ConsumedShare
  <2>. QED
    BY <1>3, <2>1, <2>2 DEF StartCreating, VInv, KindsFound, AllConsumed, VerdictRight, Failures
<1>4. CASE Reveal
  <2>1. /\ phase = "create" /\ ~MoreToCreate
        /\ witness' = witness /\ consumed' = consumed /\ created' = created
        /\ phase' = "end" /\ outcome' = "Ok"
    BY <1>4 DEF Reveal
  <2>2. Len(consumed) = Len(witness.consumed) /\ Len(created) = Len(witness.created)
    BY <2>1, WitnessLists DEF VInv, AllConsumed, MoreToCreate, IInv, CreatedIsPrefix
  <2>3. /\ consumed = ConsumedOf(witness) /\ created = CreatedOf(witness)
        /\ delta = NetDelta(witness)
    BY <2>1, <2>2, ConsumedComplete, CreatedComplete, DeltaComplete
  <2>4. revealed' = DigestOf(witness)
    BY <1>4, <2>3 DEF Reveal, DigestOf, JournalOf
  <2>. QED
    BY <2>1, <2>4, RevealAcceptable
    DEF VInv, KindsFound, AllConsumed, DeltaAddsUp, VerdictRight, Failures
<1>5. CASE ConsumePanics \/ RejectNoNullifier \/ RejectNonce \/ CreatePanics
  <2>1. /\ witness' = witness /\ consumed' = consumed /\ created' = created
        /\ phase' = "end" /\ outcome' \in Failures
    BY <1>5 DEF ConsumePanics, RejectNoNullifier, RejectNonce, CreatePanics, Abort, Failures
  <2>2. outcome' # "Ok"
    BY <2>1 DEF Failures
  <2>. QED
    BY <1>5, <2>1, <2>2, AbortRight
    DEF VInv, KindsFound, AllConsumed, DeltaAddsUp, VerdictRight
<1>6. CASE UNCHANGED vars
  BY <1>6
  DEF vars, VInv, KindsFound, AllConsumed, DeltaAddsUp, CreatedShare, ConsumedShare, VerdictRight
<1>. QED  BY <1>1, <1>2, <1>3, <1>4, <1>5, <1>6 DEF Next

LEMMA InitVerdict == Init => VInv
<1>. SUFFICES ASSUME Init PROVE VInv
  OBVIOUS
<1>1. \A b \in Basis : delta[b] = 0 /\ CreatedShare(b) = 0 /\ ConsumedShare(b) = 0
  <2>1. 1..Len(consumed) = {} /\ 1..Len(created) = {}
    BY DEF Init
  <2>. QED  BY <2>1, SumEmpty DEF Init, Identity, CreatedShare, ConsumedShare
<1>2. DeltaAddsUp
  BY <1>1, CongSame DEF DeltaAddsUp
<1>. QED  BY <1>2 DEF Init, VInv, KindsFound, AllConsumed, VerdictRight, Failures

(* The guest ends well only on an acceptable witness, of which it reveals  *)
(* the one journal, with the delta added up in whatever order; it aborts   *)
(* only on a witness that is not acceptable, whatever its length.  This is *)
(* what GuestSoundness takes from the guest.                               *)
THEOREM VerdictIsRight == Spec => []VerdictRight
<1>1. Init => VInv
  BY InitVerdict
<1>2. VInv => VerdictRight
  BY DEF VInv
<1>. QED  BY <1>1, <1>2, Invariant, StepVerdict, PTL DEF Spec

-----------------------------------------------------------------------------
(* The guest as one decision.                                              *)

\* A step decides as the contract does, or is none of its business.
LEMMA StepDecides == IInv /\ VInv /\ VInv' /\ [Next]_vars => [Contract!Decide]_(Contract!vars)
<1>. SUFFICES ASSUME IInv, VInv, VInv', [Next]_vars
              PROVE  [Contract!Decide]_(Contract!vars)
  OBVIOUS
<1>1. CASE Consume \/ StartCreating \/ Create \/ UNCHANGED vars
  <2>1. outcome' = outcome /\ revealed' = revealed /\ witness' = witness
    BY <1>1 DEF Consume, StartCreating, Create, vars
  <2>. QED  BY <2>1 DEF Contract!vars
<1>2. CASE Reveal
  <2>1. outcome = "running" /\ outcome' = "Ok" /\ witness' = witness
    BY <1>2 DEF Reveal, IInv, Progress
  <2>2. Acceptable(witness) /\ revealed' = DigestOf(witness)
    BY <2>1 DEF VInv, VerdictRight
  <2>. QED  BY <2>1, <2>2 DEF Contract!Decide, Failures
<1>3. CASE ConsumePanics \/ RejectNoNullifier \/ RejectNonce \/ CreatePanics
  <2>1. /\ outcome = "running" /\ outcome' \in Failures
        /\ witness' = witness /\ revealed' = revealed
    BY <1>3 DEF ConsumePanics, RejectNoNullifier, RejectNonce, CreatePanics, Abort, Failures,
                MoreToConsume, MoreToCreate, IInv, Progress
  <2>2. ~Acceptable(witness)
    BY <1>3, AbortRight
  <2>. QED  BY <2>1, <2>2 DEF Contract!Decide, Failures
<1>. QED  BY <1>1, <1>2, <1>3 DEF Next

(* The guest implements its contract, but for its liveness: seen from      *)
(* outside, the loops over a witness of any length are one decision, made  *)
(* by Acceptable alone, which reveals nothing unless it is favourable.     *)
THEOREM GuestKeepsContract == Spec => Contract!Safety
<1>1. Init => VInv
  BY InitVerdict
<1>2. Init => Contract!Init
  BY DEF Init, Contract!Init, Failures
<1>. QED
  BY <1>1, <1>2, Invariant, StepVerdict, StepDecides, PTL DEF Spec, Contract!Safety
=============================================================================
