---------------------------- MODULE IdealLedger ----------------------------
(***************************************************************************)
(* What a node that verifies before it applies promises to those who hold  *)
(* resources, without nullifiers, commitments, trees, proofs or processes: *)
(* what is consumed was created before, unless it is ephemeral, and of each*)
(* kind as much goes in as comes out, where only what was not consumed, or *)
(* created, already counts.                                                *)
(***************************************************************************)
EXTENDS Integers, Functions

CONSTANTS Kinds,
          KindOf(_)       \* the kind of a resource

VARIABLES created,        \* the resources created so far
          consumed        \* the resources consumed so far

vars == <<created, consumed>>

Amount(resources, kind) ==
  SumFunction([r \in resources |-> IF KindOf(r) = kind THEN r.quantity ELSE 0])

Init == created = {} /\ consumed = {}

\* One transaction consumes what goes in and creates what comes out.
Transfer(ins, outs) ==
  /\ ins # {}
  /\ {r \in ins : ~r.isEphemeral} \subseteq created
  /\ \A kind \in Kinds : Amount(ins, kind) = Amount(outs, kind)

Next ==
  /\ consumed \subseteq consumed' /\ created \subseteq created'
  /\ Transfer(consumed' \ consumed, created' \ created)

Spec == Init /\ [][Next]_vars
=============================================================================
