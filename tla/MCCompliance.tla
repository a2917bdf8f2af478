---------------------------- MODULE MCCompliance ----------------------------
(***************************************************************************)
(* The compliance guest on every witness that can be put together from a   *)
(* few coins, with at most one mistake of the prover in each.              *)
(***************************************************************************)
EXTENDS Compliance, MCWitness, FiniteSets

CONSTANT root   \* the action root

MCKindTable == {NoTable, TrueTable, AliasTable, InvalidTable}

Coins == {Coin(KindA, 2, seed1, FALSE), Coin(KindA, 1, seed2, TRUE),
          Coin(KindB, 1, seed3, FALSE)}

MCConsumedWitness == {Consuming(coin, root, m) : coin \in Coins, m \in {"none", "key", "proof"}}

ConsumedPlans == UNION {[1..n -> Coins \X {"none", "key", "proof"}] : n \in 0..2}
CreatedPlans  == UNION {[1..n -> MCKinds \X {"none", "nonce", "proof", "index"}] : n \in 0..2}

Mistakes(plan) == Cardinality({k \in DOMAIN plan : plan[k][2] # "none"})

ConsumedList(plan) == [k \in DOMAIN plan |-> Consuming(plan[k][1], root, plan[k][2])]

\* The created entries of a plan; "index" takes the nonce of the first.
CreatedList(consumedList, plan) ==
  LET nullifiers == [k \in DOMAIN consumedList |-> Nullifier(consumedList[k])]
  IN  [k \in DOMAIN plan |->
         Creating(plan[k][1], 1,
                  CreatedNonce(nullifiers, IF plan[k][2] = "index" THEN 0 ELSE k - 1),
                  root, plan[k][2])]

MCWitnesses ==
  {[consumed   |-> ConsumedList(p[1]),
    created    |-> CreatedList(ConsumedList(p[1]), p[2]),
    kindTable  |-> p[3],
    actionRoot |-> root] :
     p \in {q \in ConsumedPlans \X CreatedPlans \X MCKindTable :
              Mistakes(q[1]) + Mistakes(q[2]) <= 1}}

MCCreatedWitness == UNION {{w.created[k] : k \in DOMAIN w.created} : w \in MCWitnesses}
=============================================================================
