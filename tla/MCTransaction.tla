---------------------------- MODULE MCTransaction ----------------------------
(***************************************************************************)
(* The verifier on transactions of up to two actions: honest ones, ones    *)
(* made from witnesses the guest accepts but the verifier must not, ones   *)
(* whose data was altered after proving, and ones whose delta proof was    *)
(* altered or taken from elsewhere.                                        *)
(***************************************************************************)
EXTENDS Transaction, MCWitness, FiniteSets, SequencesExt

CONSTANTS otherRoot,   \* the root of some other action
          otherData    \* app data that no proof is about

CoinA2 == Coin(KindA, 2, seed1, FALSE)
CoinA1 == Coin(KindA, 1, seed2, FALSE)
CoinB1 == Coin(KindB, 1, seed3, FALSE)
Empty0 == Coin(KindA, 0, seed1, TRUE)

-----------------------------------------------------------------------------
(* Witnesses that the guest accepts.                                       *)

\* The created coins of a plan, a list of kinds with quantities, in an action.
CreatedBy(coins, plan, root) ==
  LET nullifiers == [k \in DOMAIN coins |-> ComputeNullifier(coins[k], key)]
  IN  [k \in DOMAIN plan |->
         Creating(plan[k][1], plan[k][2], CreatedNonce(nullifiers, k - 1), root, "none")]

WitnessFor(coins, plan, table, root) ==
  [consumed   |-> [k \in DOMAIN coins |-> Consuming(coins[k], root, "none")],
   created    |-> CreatedBy(coins, plan, root),
   kindTable  |-> table,
   actionRoot |-> root]

\* Nothing in a tag depends on the action root.
OwnRoot(coins, plan) ==
  TreeRoot([k \in DOMAIN coins |-> ComputeNullifier(coins[k], key)]
             \o [k \in DOMAIN plan |-> Commit(CreatedBy(coins, plan, otherRoot)[k].resource)])

Honest(coins, plan) == WitnessFor(coins, plan, NoTable, OwnRoot(coins, plan))

A1 == <<KindA, 1>>
A2 == <<KindA, 2>>
B1 == <<KindB, 1>>

\* Two coins and one new one have blinding scalars that cancel: the delta of
\* <<CoinA1, Empty0>> and <<A1>> is the identity.
CoinLists == {<<CoinA2>>, <<CoinA1>>, <<CoinB1>>, <<CoinA1, CoinA1>>,
              <<CoinA1, Empty0>>, <<Empty0>>}
Plans     == {<<>>, <<A1>>, <<A2>>, <<B1>>, <<A1, A1>>}

\* With two values for an index, the third resource has the nonce of the first.
Wide == Honest(<<CoinA2, CoinA1>>, <<A1, A1, A1>>)

HonestWitnesses == {Honest(c, p) : c \in CoinLists, p \in Plans} \cup {Wide}

\* Accepted by the guest with a kind table that is not the verifier's, or
\* with the root of another action.
StrangeWitnesses ==
  {WitnessFor(c, p, AliasTable, OwnRoot(c, p)) : c \in CoinLists, p \in Plans}
  \cup {WitnessFor(c, p, NoTable, otherRoot) : c \in CoinLists, p \in {<<A1>>, <<A2>>}}

PairedWitnesses ==
  {Honest(<<CoinA2>>, <<A1, A1>>), Honest(<<CoinA2>>, <<A1>>), Honest(<<CoinA1>>, <<B1>>),
   Honest(<<CoinB1>>, <<A1>>), Honest(<<CoinA1>>, <<A2>>), Honest(<<CoinB1>>, <<>>),
   Honest(<<Empty0>>, <<A1>>), WitnessFor(<<CoinB1>>, <<A1>>, AliasTable,
                                          OwnRoot(<<CoinB1>>, <<A1>>))}

-----------------------------------------------------------------------------
(* Units, as proved and as altered afterwards.                             *)

UnitOf(w) ==
  [consumed |-> ConsumedOf(w), created |-> CreatedOf(w), delta |-> NetDelta(w),
   proof |-> [decodes |-> TRUE, valid |-> TRUE, witness |-> w,
              revealed |-> JournalDigest(JournalOf(w))]]

Alter(unitRecord) ==
  {[unitRecord EXCEPT !.proof.decodes = FALSE],
   [unitRecord EXCEPT !.proof.valid = FALSE],
   [unitRecord EXCEPT !.delta = NotOnCurve],
   [unitRecord EXCEPT !.delta = Identity],
   [unitRecord EXCEPT !.consumed = <<>>, !.created = <<>>],
   [unitRecord EXCEPT !.consumed = Tail(@)],
   [unitRecord EXCEPT !.created = Reverse(@) \o @],
   [unitRecord EXCEPT !.consumed[1].appData = otherData],
   [unitRecord EXCEPT !.consumed[1].root = otherRoot]}

MCInstances ==
  UNION {ToSet(ConsumedOf(w)) \cup ToSet(CreatedOf(w)) :
           w \in HonestWitnesses \cup StrangeWitnesses}
  \cup {[i EXCEPT !.appData = otherData] :
          i \in UNION {ToSet(ConsumedOf(w)) : w \in HonestWitnesses}}
  \cup {[i EXCEPT !.root = otherRoot] :
          i \in UNION {ToSet(ConsumedOf(w)) : w \in HonestWitnesses}}

UnitLists ==
  {<<>>}
  \cup {<<UnitOf(w)>> : w \in HonestWitnesses \cup StrangeWitnesses}
  \cup {<<UnitOf(w), UnitOf(x)>> : w \in PairedWitnesses, x \in PairedWitnesses}
  \cup {<<u, UnitOf(Honest(<<CoinB1>>, <<B1>>))>> : u \in Alter(UnitOf(Honest(<<CoinA2>>, <<A2>>)))}
  \cup {<<UnitOf(Honest(<<CoinB1>>, <<B1>>)), u>> : u \in Alter(UnitOf(Honest(<<CoinA2>>, <<A2>>)))}

MCVerifierInputs == UNION {ToSet(units) : units \in UnitLists}

-----------------------------------------------------------------------------
(* Delta proofs for a list of units.                                       *)

\* The blinding scalars that the provers of the units know.
Blinding(units) ==
  FoldLeft(LAMBDA s, u : (s + 2 * Len(u.created) - Len(u.consumed)) % Order, 0, units)

\* A key is not zero.
SignedBy(units) ==
  [wellFormed |-> TRUE, highS |-> FALSE, parity |-> 0, v |-> 27,
   key |-> IF Blinding(units) = 0 THEN 1 ELSE Blinding(units),
   message |-> Keccak(FlattenSeq([k \in DOMAIN units |-> Tags(units[k])]))]

DeltaProofs(units) ==
  LET proof == SignedBy(units)
  IN  {proof,
       [proof EXCEPT !.wellFormed = FALSE],
       [proof EXCEPT !.highS = TRUE, !.parity = 1, !.v = 28],
       [proof EXCEPT !.v = 28],
       [proof EXCEPT !.v = 26],
       [proof EXCEPT !.v = 29],
       [proof EXCEPT !.key = IF @ = 1 THEN 2 ELSE 1],
       [proof EXCEPT !.message = Keccak(FlattenSeq([k \in DOMAIN units |-> NullifiersIn(units[k])]))]}

MCTransactions ==
  UNION {{[units |-> units, deltaProof |-> p] : p \in DeltaProofs(units)} : units \in UnitLists}
==============================================================================
