----------------------------- MODULE Compliance -----------------------------
(***************************************************************************)
(* The compliance guest: ComplianceWitness::constrain of                   *)
(* arm_core/src/witness.rs as arm_circuits/compliance/src/main.rs runs it. *)
(* The guest reads one witness, folds over the consumed resources, checks  *)
(* that there was one, loops over the created resources and reveals the    *)
(* digest of the journal.  Any failed check, an Err or a panic, aborts it  *)
(* and no proof exists.  The action root and the kind table are taken from *)
(* the witness as they are; the verifier of the transaction checks them.   *)
(***************************************************************************)
EXTENDS GuestStatement

CONSTANTS ConsumedWitness,   \* the entries a witness may consume
          CreatedWitness,    \* the entries a witness may create
          KindTable,         \* the kind tables a witness may carry
          ActionRoot,        \* the action roots a witness may carry
          Witnesses,         \* the witnesses the guest is run on
          NoDigest           \* nothing is revealed

ASSUME WitnessesAssumption ==
  Witnesses \subseteq [consumed   : Seq(ConsumedWitness),
                       created    : Seq(CreatedWitness),
                       kindTable  : KindTable,
                       actionRoot : ActionRoot]

\* Quantities are u128, blinding scalars are 32 bytes.
ASSUME EntriesAssumption ==
  \A e \in ConsumedWitness \cup CreatedWitness :
     e.resource.quantity \in Nat /\ e.deltaExtraInput \in Nat

VARIABLES witness,    \* what the guest read
          phase,      \* the loop the guest is in
          delta,      \* running sum of the deltas
          consumed,   \* consumed instances so far
          created,    \* created instances so far
          outcome,    \* how the run ended
          revealed    \* the public value

vars == <<witness, phase, delta, consumed, created, outcome, revealed>>

ConsumedInstances == {ConsumedInstance(e) : e \in ConsumedWitness}
CreatedInstances  == {CreatedInstance(e) : e \in CreatedWitness}

Phases   == {"consume", "create", "end"}
Failures == {"Panic", "ComplianceProofEmptyNullifierArray",
             "ComplianceProofCreatedResourceNonceMismatch"}

-----------------------------------------------------------------------------
Nullifiers == [k \in DOMAIN consumed |-> consumed[k].nullifier]

NextConsumed == witness.consumed[Len(consumed) + 1]
NextCreated  == witness.created[Len(created) + 1]

MoreToConsume == phase = "consume" /\ Len(consumed) < Len(witness.consumed)
MoreToCreate  == phase = "create" /\ Len(created) < Len(witness.created)

\* No check of the iteration panics: the kind point, then the key and the
\* logic proof.
ConsumeSucceeds == /\ KindFound(witness.kindTable, NextConsumed)
                   /\ ConsumedHolds(NextConsumed, witness.actionRoot)

NonceMatches == NextCreated.resource.nonce = CreatedNonce(Nullifiers, Len(created))

Abort(failure) == /\ outcome' = failure
                  /\ phase' = "end"
                  /\ UNCHANGED <<witness, delta, consumed, created, revealed>>

-----------------------------------------------------------------------------
Init == /\ witness \in Witnesses
        /\ phase = "consume"
        /\ delta = Identity
        /\ consumed = <<>>
        /\ created = <<>>
        /\ outcome = "running"
        /\ revealed = NoDigest

\* One iteration over the consumed resources.
Consume == /\ MoreToConsume
           /\ ConsumeSucceeds
           /\ delta' = Minus(delta, ToDelta(witness.kindTable, NextConsumed))
           /\ consumed' = Append(consumed, ConsumedInstance(NextConsumed))
           /\ UNCHANGED <<witness, phase, created, outcome, revealed>>

ConsumePanics == MoreToConsume /\ ~ConsumeSucceeds /\ Abort("Panic")

\* Without a nullifier the nonces of the created resources are not unique.
RejectNoNullifier == /\ phase = "consume" /\ ~MoreToConsume
                     /\ consumed = <<>>
                     /\ Abort("ComplianceProofEmptyNullifierArray")

\* Fault: the check for an empty nullifier list is dropped.
StartCreatingUnguarded == /\ phase = "consume" /\ ~MoreToConsume
                          /\ phase' = "create"
                          /\ UNCHANGED <<witness, delta, consumed, created, outcome, revealed>>

StartCreating == /\ phase = "consume" /\ ~MoreToConsume
                 /\ consumed # <<>>
                 /\ phase' = "create"
                 /\ UNCHANGED <<witness, delta, consumed, created, outcome, revealed>>

\* One iteration over the created resources.
Create == /\ MoreToCreate
          /\ KindFound(witness.kindTable, NextCreated)
          /\ NonceMatches
          /\ CreatedHolds(NextCreated, witness.actionRoot)
          /\ delta' = Plus(delta, ToDelta(witness.kindTable, NextCreated))
          /\ created' = Append(created, CreatedInstance(NextCreated))
          /\ UNCHANGED <<witness, phase, consumed, outcome, revealed>>

RejectNonce == /\ MoreToCreate
               /\ KindFound(witness.kindTable, NextCreated)
               /\ ~NonceMatches
               /\ Abort("ComplianceProofCreatedResourceNonceMismatch")

CreatePanics == /\ MoreToCreate
                /\ \/ ~KindFound(witness.kindTable, NextCreated)
                   \/ NonceMatches /\ ~CreatedHolds(NextCreated, witness.actionRoot)
                /\ Abort("Panic")

Reveal == /\ phase = "create" /\ ~MoreToCreate
          /\ revealed' = JournalDigest(Journal(consumed, created, delta,
                                               HashKindTable(witness.kindTable),
                                               witness.actionRoot))
          /\ outcome' = "Ok"
          /\ phase' = "end"
          /\ UNCHANGED <<witness, delta, consumed, created>>

Next == \/ Consume \/ ConsumePanics
        \/ RejectNoNullifier \/ StartCreating
        \/ Create \/ RejectNonce \/ CreatePanics
        \/ Reveal

Spec == Init /\ [][Next]_vars /\ WF_vars(Next)

-----------------------------------------------------------------------------
\* Every variable has the type the code gives it.
TypeOK ==
  /\ phase \in Phases
  /\ delta \in Points
  /\ consumed \in Seq(ConsumedInstances) /\ Len(consumed) <= Len(witness.consumed)
  /\ created \in Seq(CreatedInstances) /\ Len(created) <= Len(witness.created)
  /\ outcome \in {"running", "Ok"} \cup Failures
  /\ outcome # "Ok" => revealed = NoDigest

\* No witness creates more resources than an index has values.
NarrowWitnesses == \A w \in Witnesses : Len(w.created) <= IndexModulus

(* No two resources an action creates have the same commitment, whatever   *)
(* the witness says of them: the nonce that the loop over the created      *)
(* resources demands makes them differ, if no index wraps.                 *)
CreatedCommitmentsDistinct ==
  \A j, k \in DOMAIN created :
     created[j].commitment = created[k].commitment => j = k

(* A resource logic proof speaks for one resource in one role: when the    *)
(* guest has accepted a proof twice, it was for the same tag on the same   *)
(* side (process_logic_instance and logic_digest).                         *)
Accepted ==
  {<<witness.consumed[k].logicProof, TRUE, consumed[k].nullifier>> : k \in DOMAIN consumed}
  \cup {<<witness.created[k].logicProof, FALSE, created[k].commitment>> : k \in DOMAIN created}

LogicProofsNotReused == \A a, b \in Accepted : a[1] = b[1] => a = b

(* The guest aborts exactly on the witnesses that are not acceptable and   *)
(* reveals the digest of the one journal an acceptable witness determines; *)
(* it always ends.                                                         *)
Contract == INSTANCE GuestContract
              WITH outcome <- IF outcome \in Failures THEN "aborted" ELSE outcome
ImplementsContract == Contract!Spec

(* witness.rs:185 describes the preimage of a created nonce as the index   *)
(* followed by the nullifiers.                                             *)
NonceIsIndexThenNullifiers ==
  \A k \in DOMAIN created :
     witness.created[k].resource.nonce = Keccak(<<[u32 |-> k - 1]>> \o Nullifiers)
=============================================================================
