-------------------------- MODULE VerifierStatement --------------------------
(***************************************************************************)
(* The transactions that deserve to be accepted, told about the witnesses  *)
(* that their compliance proofs attest and not about the bytes that the    *)
(* verifier compares.                                                      *)
(***************************************************************************)
EXTENDS GuestStatement, SequencesExt

WitnessOf(u) == u.proof.witness
ActionTags(w) == NullifiersOf(w) \o CommitmentsOf(w)

\* The unit lists what its witness says, in the action it was made for, and
\* accounts for every kind by itself.
Attested(u) ==
  LET w == WitnessOf(u)
  IN  /\ u.proof.decodes /\ u.proof.valid
      /\ u.consumed = ConsumedOf(w) /\ u.created = CreatedOf(w)
      /\ u.delta = NetDelta(w)
      /\ w.kindTable = <<>>
      /\ w.actionRoot = TreeRoot(ActionTags(w))

AllTags(tx) == FlattenSeq([k \in DOMAIN tx.units |-> ActionTags(WitnessOf(tx.units[k]))])

\* No two entries of the lists have the same tag.
Distinct(tx, tagsOf(_)) ==
  \A j, k \in DOMAIN tx.units :
     LET s == tagsOf(WitnessOf(tx.units[j]))
         t == tagsOf(WitnessOf(tx.units[k]))
     IN  \A m \in DOMAIN s, n \in DOMAIN t : s[m] = t[n] => j = k /\ m = n

\* The deltas cancel but for a key, which signed the tags of all actions, in
\* the one encoding that is in use.
Signed(tx) ==
  /\ \A b \in Basis :
       SumFunction([k \in DOMAIN tx.units |-> NetDelta(WitnessOf(tx.units[k]))[b]]) % Order
         = IF b = Generator THEN tx.deltaProof.key ELSE 0
  /\ tx.deltaProof.message = Keccak(AllTags(tx))
  /\ tx.deltaProof.wellFormed /\ ~tx.deltaProof.highS
  /\ tx.deltaProof.v = 27 + tx.deltaProof.parity

\* The order has 256 bits: it takes 2^127 resources to reach it.
BelowOrder(tx) ==
  \A kind \in Kinds :
     /\ SumFunction([k \in DOMAIN tx.units |->
                       Quantity(WitnessOf(tx.units[k]).created, kind)]) < Order
     /\ SumFunction([k \in DOMAIN tx.units |->
                       Quantity(WitnessOf(tx.units[k]).consumed, kind)]) < Order

Deserving(tx) ==
  /\ tx.units # <<>>
  /\ \A k \in DOMAIN tx.units :
       Attested(tx.units[k]) /\ NetDelta(WitnessOf(tx.units[k])) # Identity
  /\ Distinct(tx, NullifiersOf) /\ Distinct(tx, CommitmentsOf)
  /\ Signed(tx)
=============================================================================
