------------------------------ MODULE MCWitness ------------------------------
(***************************************************************************)
(* Small witnesses, shared by the model-checked instances: two kinds, one  *)
(* holder, a few coins, and the mistakes a prover can make.                *)
(***************************************************************************)
EXTENDS GuestStatement

CONSTANTS logicA, logicB, label, value, G,   \* fields of resources
          key, otherKey,                     \* nullifier keys
          seed1, seed2, seed3,               \* nonces of the coins
          hiding, data,                      \* logic hiding input, app data
          sibling, wrongProof,               \* a path node, a bad proof
          NotOnCurve                         \* coordinates of no point

KindA   == <<logicA, label>>
KindB   == <<logicB, label>>
MCKinds == {KindA, KindB}

Unit1(b) == [c \in MCKinds \cup {G} |-> IF c = b THEN 1 ELSE 0]

\* Kind tables: none, the true point of A, B counted as A, no point for A.
Entry(k, p)  == [kind |-> k, point |-> p]
NoTable      == <<>>
TrueTable    == <<Entry(KindA, Unit1(KindA))>>
AliasTable   == <<Entry(KindB, Unit1(KindA))>>
InvalidTable == <<Entry(KindA, NotOnCurve)>>

Coin(kind, quantity, nonce, ephemeral) ==
  [logicRef |-> kind[1], labelRef |-> kind[2], valueRef |-> value,
   quantity |-> quantity, nonce |-> nonce, nkCommitment |-> NkCommit(key),
   isEphemeral |-> ephemeral]

Path == <<[node |-> sibling, isLeft |-> TRUE]>>

Proof(resource, tag, side, root, mistake) ==
  IF mistake = "proof" THEN wrongProof
  ELSE LogicProof(resource.logicRef, LogicVmCommit, LogicDigest(tag, root, side, data))

Consuming(coin, root, mistake) ==
  LET nk == IF mistake = "key" THEN otherKey ELSE key
  IN  [resource |-> coin, nullifierKey |-> nk, path |-> Path, deltaExtraInput |-> 1,
       logicHidingInput |-> hiding, appData |-> data,
       logicProof |-> Proof(coin, ComputeNullifier(coin, nk), TRUE, root, mistake)]

CreatingCoin(resource, root, mistake) ==
  [resource |-> resource, deltaExtraInput |-> 2,
   logicHidingInput |-> hiding, appData |-> data,
   logicProof |-> Proof(resource, Commit(resource), FALSE, root, mistake)]

Creating(kind, quantity, nonce, root, mistake) ==
  CreatingCoin(Coin(kind, quantity, IF mistake = "nonce" THEN seed1 ELSE nonce, FALSE),
               root, mistake)
==============================================================================
