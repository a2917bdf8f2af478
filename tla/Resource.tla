------------------------------ MODULE Resource ------------------------------
(***************************************************************************)
(* Resources (arm_core/src/resource.rs, nullifier_key.rs and the trait of  *)
(* arm_traits/src/resource.rs) and the curve points that account for them. *)
(*                                                                         *)
(* A resource is the record of its seven fields.  A point is written in    *)
(* the basis of the generator and of one hash-to-curve point per kind, of  *)
(* which nobody knows a linear relation: it is the function that gives the *)
(* scalar of each, modulo the order of the group.                          *)
(***************************************************************************)
EXTENDS Hash, Scalar

CONSTANTS Kinds,      \* pairs <<logic_ref, label_ref>> in use
          Generator   \* the generator of the curve, which is no kind

ASSUME GeneratorAssumption == Generator \notin Kinds

-----------------------------------------------------------------------------
Basis  == Kinds \cup {Generator}
Points == [Basis -> Scalars]

Identity      == [b \in Basis |-> 0]
BasisPoint(b) == [c \in Basis |-> IF c = b THEN 1 ELSE 0]
PlusUnreduced(p, q)  == [b \in Basis |-> p[b] + q[b]]   \* fault
MinusUnreduced(p, q) == [b \in Basis |-> p[b] - q[b]]   \* fault

Plus(p, q)    == [b \in Basis |-> (p[b] + q[b]) % Order]
Minus(p, q)   == [b \in Basis |-> (p[b] - q[b]) % Order]
Times(p, k)   == [b \in Basis |-> (p[b] * k) % Order]

-----------------------------------------------------------------------------
\* The commitment hashes the 177 bytes of all seven fields.
Commit(resource) == Keccak(<<resource>>)

NkCommit(nk) == Keccak(<<nk>>)

\* Fault: every resource of a holder has one nullifier.
NullifierOfKey(resource, nk) == HashTwo(nk, nk)

ComputeNullifier(resource, nk) == HashTwo(Commit(resource), nk)

\* Fault: whoever spends names the key.
AnyKey(resource, nk) == TRUE

\* nullify returns KeyMismatch unless this holds.
KeyMatches(resource, nk) == NkCommit(nk) = resource.nkCommitment

KindOf(resource)      == <<resource.logicRef, resource.labelRef>>

\* Fault: the logic is left out of the kind.
ComputeKindByLabel(resource) ==
  BasisPoint(CHOOSE kind \in Kinds : kind[2] = resource.labelRef)

ComputeKind(resource) == BasisPoint(KindOf(resource))
=============================================================================
