------------------------------- MODULE Witness -------------------------------
(***************************************************************************)
(* What the compliance guest computes from one entry of its witness        *)
(* (arm_core/src/witness.rs) and the journal it commits to                 *)
(* (arm_core/src/instance.rs).                                             *)
(***************************************************************************)
EXTENDS Resource, ActionTree

CONSTANTS LogicVmCommit,   \* the extension set every resource logic runs on
          ZeroRoot,        \* the all-zero root of an ephemeral resource
          IndexModulus     \* 2^32: `index as u32`

ASSUME IndexAssumption == IndexModulus \in Nat \ {0}

-----------------------------------------------------------------------------
(* Resource logics.                                                        *)

\* Fault: the tag is left out.
LogicDigestWithoutTag(tag, actionRoot, isConsumed, appData) ==
  Keccak(<<[actionRoot |-> actionRoot, isConsumed |-> isConsumed, appData |-> appData]>>)

\* Digest of the ResourceLogicInstance a resource logic reveals.
LogicDigest(tag, actionRoot, isConsumed, appData) ==
  Keccak(<<[tag |-> tag, actionRoot |-> actionRoot,
            isConsumed |-> isConsumed, appData |-> appData]>>)

\* What a deferred STARK proof attests: a program, its VM, its output.
LogicProof(logicRef, vmCommit, output) ==
  [exe |-> logicRef, vm |-> vmCommit, output |-> output]

\* verify_stark of the guest library, which panics when this is false.
LogicVerifies(tag, isConsumed, entry, actionRoot) ==
  entry.logicProof =
    LogicProof(entry.resource.logicRef, LogicVmCommit,
               LogicDigest(tag, actionRoot, isConsumed, entry.appData))

OuterLogicRef(entry) == HashTwo(entry.resource.logicRef, entry.logicHidingInput)

-----------------------------------------------------------------------------
(* The delta of an action.                                                 *)

\* The first entry of the kind table for a kind wins.
LookupKind(kindTable, resource) ==
  LET hits == {k \in DOMAIN kindTable : kindTable[k].kind = KindOf(resource)}
  IN  IF hits = {} THEN ComputeKind(resource)
      ELSE kindTable[CHOOSE k \in hits : \A j \in hits : k <= j].point

\* quantity * kind + rcv * G
ToDelta(kindTable, entry) ==
  Plus(Times(LookupKind(kindTable, entry.resource), entry.resource.quantity),
       Times(BasisPoint(Generator), entry.deltaExtraInput))

\* The unwraps succeed: the coordinates of the table are those of a point.
KindFound(kindTable, entry) == LookupKind(kindTable, entry.resource) \in Points

HashKindTable(kindTable) == Keccak(kindTable)

-----------------------------------------------------------------------------
(* The instances of one action.                                            *)

Nullifier(entry) == ComputeNullifier(entry.resource, entry.nullifierKey)

\* Fault: no resource needs a path.
NoRoot(entry) == ZeroRoot

ConsumedRoot(entry) == IF entry.resource.isEphemeral THEN ZeroRoot
                       ELSE ComputeRoot(entry.path, Commit(entry.resource))

ConsumedInstance(entry) ==
  [nullifier     |-> Nullifier(entry),
   root          |-> ConsumedRoot(entry),
   outerLogicRef |-> OuterLogicRef(entry),
   appData       |-> entry.appData]

\* Neither the key check nor the logic proof check panics.
ConsumedHolds(entry, actionRoot) ==
  /\ KeyMatches(entry.resource, entry.nullifierKey)
  /\ LogicVerifies(Nullifier(entry), TRUE, entry, actionRoot)

CreatedInstance(entry) ==
  [commitment    |-> Commit(entry.resource),
   outerLogicRef |-> OuterLogicRef(entry),
   appData       |-> entry.appData]

CreatedHolds(entry, actionRoot) ==
  LogicVerifies(Commit(entry.resource), FALSE, entry, actionRoot)

\* Fault: the index is left out.
CreatedNonceWithoutIndex(nullifiers, index) == Keccak(nullifiers)

\* Fault: the nullifiers are left out.
CreatedNonceOfIndex(nullifiers, index) == Keccak(<<[u32 |-> index % IndexModulus]>>)

\* The nonce of the created resource at a zero-based index: the hash of all
\* nullifiers, then the index in a block of its own.
CreatedNonce(nullifiers, index) ==
  Keccak(Append(nullifiers, [u32 |-> index % IndexModulus]))

\* The journal, and the digest of its ABI encoding.
Journal(consumed, created, delta, kindTableCommitment, actionRoot) ==
  [consumed |-> consumed, created |-> created, delta |-> delta,
   kindTableCommitment |-> kindTableCommitment, actionRoot |-> actionRoot]

JournalDigest(journal) == Keccak(<<journal>>)
==============================================================================
