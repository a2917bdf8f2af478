------------------------------ MODULE MCLedger ------------------------------
(***************************************************************************)
(* Two processes of the node and transactions of one or two actions: coins *)
(* come in, are split, passed on, swapped and paid out, and anybody may    *)
(* spend what is spent, what never was, with a key of his own, in another  *)
(* kind, or nothing at all.                                                *)
(***************************************************************************)
EXTENDS Ledger, MCWitness, SequencesExt, TLC

WorkersSymmetry == Permutations(Workers)

Mints == {Coin(KindA, 2, seed1, TRUE), Coin(KindB, 1, seed2, TRUE)}
Never == Coin(KindA, 1, seed3, FALSE)

\* A plan is a list of coins still without a nonce: kind, quantity, ephemeral.
Whole(kind, quantity) == <<<<kind, quantity, FALSE>>>>
Plans(coin) ==
  LET kind == KindOf(coin)
  IN  {Whole(kind, coin.quantity), <<<<kind, coin.quantity, TRUE>>>>}
      \cup (IF coin.quantity = 2 THEN {Whole(kind, 1) \o Whole(kind, 1)} ELSE {})

OtherKind(coin) == IF KindOf(coin) = KindA THEN KindB ELSE KindA

-----------------------------------------------------------------------------
\* The path of a commitment in the tree over the stored ones; the computed
\* one has its flags the other way round.
PathTo(stored, commitment) ==
  IF commitment \notin ToSet(stored) THEN <<>>
  ELSE LET path == ProveFor(ComputeTree(stored), commitment)
       IN  [k \in DOMAIN path |-> [node |-> path[k].node, isLeft |-> ~path[k].isLeft]]

CreatedCoins(nullifierList, plan) ==
  [k \in DOMAIN plan |->
     Coin(plan[k][1], plan[k][2], CreatedNonce(nullifierList, k - 1), plan[k][3])]

WitnessFor(stored, coins, plan, mistake) ==
  LET tags    == [k \in DOMAIN coins |->
                    ComputeNullifier(coins[k], IF mistake = "key" THEN otherKey ELSE key)]
      created == CreatedCoins(tags, plan)
      leaves  == tags \o [k \in DOMAIN created |-> Commit(created[k])]
      root    == TreeRoot(leaves)
  IN  [consumed   |-> [k \in DOMAIN coins |->
                         [Consuming(coins[k], root, mistake)
                            EXCEPT !.path = PathTo(stored, Commit(coins[k]))]],
       created    |-> [k \in DOMAIN created |-> CreatingCoin(created[k], root, "none")],
       kindTable  |-> NoTable,
       actionRoot |-> root]

\* The guest lets a proof come about exactly when it accepts the witness.
UnitOf(w) ==
  [consumed |-> ConsumedOf(w), created |-> CreatedOf(w), delta |-> NetDelta(w),
   proof |-> [decodes |-> TRUE, valid |-> Acceptable(w), witness |-> w]]

Blinding(units) ==
  FoldLeft(LAMBDA s, u : (s + 2 * Len(u.created) - Len(u.consumed)) % Order, 0, units)

SignedTx(units) ==
  [units |-> units,
   deltaProof |-> [wellFormed |-> TRUE, highS |-> FALSE, parity |-> 0, v |-> 27,
                   key |-> Blinding(units),
                   message |-> Keccak(FlattenSeq([k \in DOMAIN units |->
                       [j \in DOMAIN units[k].consumed |-> units[k].consumed[j].nullifier]
                       \o [j \in DOMAIN units[k].created |-> units[k].created[j].commitment]]))]]

-----------------------------------------------------------------------------
Stored(txs) == FlattenSeq([n \in DOMAIN txs |-> TransactionCommitments(txs[n])])

CreatedIn(txs) ==
  {r \in UNION {{c.resource : c \in ToSet(CreatedBy(txs[n]))} : n \in DOMAIN txs} :
     ~r.isEphemeral}

\* Every coin, spent or not, passed on, paid out or split.
SpendUnits(stored, coins) ==
  {<<UnitOf(WitnessFor(stored, <<c>>, plan, "none"))>> : <<c, plan>> \in
     UNION {{c} \X Plans(c) : c \in coins}}

\* One of each kind, passed on in one transaction.
SwapUnits(stored, coins) ==
  {<<UnitOf(WitnessFor(stored, <<p[1]>>, Whole(KindA, p[1].quantity), "none")),
     UnitOf(WitnessFor(stored, <<p[2]>>, Whole(KindB, p[2].quantity), "none"))>> :
   p \in {q \in coins \X coins : KindOf(q[1]) = KindA /\ KindOf(q[2]) = KindB}}

DishonestUnits(stored, coins) ==
  {<<UnitOf(WitnessFor(stored, <<c>>, Whole(KindOf(c), c.quantity), "key"))>> : c \in coins}
  \cup {<<UnitOf(WitnessFor(stored, <<c>>, Whole(OtherKind(c), c.quantity), "none"))>> : c \in coins}
  \cup {<<UnitOf(WitnessFor(stored, <<Never>>, Whole(KindA, 1), "none"))>>,
        <<UnitOf(WitnessFor(stored, <<>>, Whole(KindA, 0), "none"))>>}

MCSubmissions(txs) ==
  LET stored == Stored(txs)
      coins  == Mints \cup CreatedIn(txs)
      units  == SpendUnits(stored, coins) \cup SwapUnits(stored, CreatedIn(txs))
                  \cup DishonestUnits(stored, coins)
  IN  {[wellFormed |-> TRUE, trailing |-> FALSE, tx |-> SignedTx(u)] : u \in units}
      \cup {[wellFormed |-> b, trailing |-> b, tx |-> SignedTx(CHOOSE u \in units : TRUE)] :
              b \in BOOLEAN}
=============================================================================
