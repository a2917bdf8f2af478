-------------------------- MODULE TransactionProofs --------------------------
(***************************************************************************)
(* Theorems about the verifier, for transactions with any number of units  *)
(* of any size.                                                            *)
(***************************************************************************)
EXTENDS Transaction, BasicProofs

LEMMA TagLists ==
  ASSUME NEW u \in VerifierInputs
  PROVE  /\ u.consumed \in Seq(Instances) /\ u.created \in Seq(Instances)
         /\ NullifiersIn(u) \in Seq({i.nullifier : i \in Instances})
         /\ Len(Tags(u)) = Len(u.consumed) + Len(u.created)
         /\ \A m \in 1..Len(u.consumed) : Tags(u)[m] = u.consumed[m].nullifier
         /\ \A k \in 1..Len(u.created) :
              Tags(u)[Len(u.consumed) + k] = u.created[k].commitment
<1>. DEFINE N == {i.nullifier : i \in Instances}
            C == {i.commitment : i \in Instances}
            nfs == NullifiersIn(u)
            cms == CommitmentsIn(u)
            a == Len(u.consumed)
            b == Len(u.created)
<1>1. u.consumed \in Seq(Instances) /\ u.created \in Seq(Instances)
  BY TransactionsAssumption
<1>2. a \in Nat /\ b \in Nat
  BY <1>1
<1>3. /\ nfs \in Seq(N) /\ Len(nfs) = a
      /\ \A m \in 1..a : nfs[m] = u.consumed[m].nullifier
  BY <1>1 DEF NullifiersIn
<1>4. /\ cms \in Seq(C) /\ Len(cms) = b
      /\ \A k \in 1..b : cms[k] = u.created[k].commitment
  BY <1>1 DEF CommitmentsIn
<1>5. nfs \in Seq(N \cup C) /\ cms \in Seq(N \cup C)
  BY <1>3, <1>4
<1>6. Tags(u) = nfs \o cms
  BY DEF Tags
<1>. HIDE DEF nfs, cms, N, C, a, b
<1>7. /\ Len(Tags(u)) = a + b
      /\ \A i \in 1..(a + b) : Tags(u)[i] = IF i <= a THEN nfs[i] ELSE cms[i - a]
  <2>1. /\ Len(nfs \o cms) = Len(nfs) + Len(cms)
        /\ \A i \in 1..(Len(nfs) + Len(cms)) :
             (nfs \o cms)[i] = IF i <= Len(nfs) THEN nfs[i] ELSE cms[i - Len(nfs)]
    BY <1>5, ConcatProperties
  <2>2. Len(nfs) = a /\ Len(cms) = b
    BY <1>3, <1>4
  <2>. QED  BY <1>6, <2>1, <2>2
<1>8. ASSUME NEW m \in 1..a
      PROVE  Tags(u)[m] = u.consumed[m].nullifier
  BY <1>2, <1>3, <1>7
<1>9. ASSUME NEW k \in 1..b
      PROVE  Tags(u)[a + k] = u.created[k].commitment
  <2>1. a + k \in 1..(a + b) /\ ~(a + k <= a) /\ (a + k) - a = k
    BY <1>2
  <2>. QED  BY <1>4, <1>7, <2>1
<1>. QED
  BY <1>1, <1>3, <1>7, <1>8, <1>9 DEF nfs, N, a, b

-----------------------------------------------------------------------------
(* What the proof of a verified unit says about its tags.                  *)

NoncedBy(u, k, r) == /\ u.created[k].commitment = Commit(r)
                     /\ r.nonce = CreatedNonce(NullifiersIn(u), k - 1)

\* The tags of a unit that lists what its witness says.
LEMMA TagsOfWitness ==
  ASSUME NEW u, u.consumed = ConsumedOf(WitnessOf(u)), u.created = CreatedOf(WitnessOf(u))
  PROVE  /\ NullifiersIn(u) = NullifiersOf(WitnessOf(u))
         /\ CommitmentsIn(u) = CommitmentsOf(WitnessOf(u))
         /\ Tags(u) = ActionTags(WitnessOf(u)) /\ DeltaMsg(u) = ActionTags(WitnessOf(u))
<1>1. NullifiersIn(u) = NullifiersOf(WitnessOf(u))
  BY DEF NullifiersIn, NullifiersOf, ConsumedOf, ConsumedInstance
<1>2. CommitmentsIn(u) = CommitmentsOf(WitnessOf(u))
  BY DEF CommitmentsIn, CommitmentsOf, CreatedOf, CreatedInstance
<1>. QED  BY <1>1, <1>2 DEF Tags, DeltaMsg, ActionTags

(* The checks of a unit pass exactly when it lists what its witness says.  *)
LEMMA VerdictIsAttested ==
  ASSUME NEW u \in VerifierInputs
  PROVE  /\ UnitVerdict(u) = "Ok" <=> Attested(u)
         /\ UnitVerdict(u) = "Ok" => Acceptable(WitnessOf(u))
<1>. DEFINE w == WitnessOf(u)
<1>1. ASSUME u.proof.valid
      PROVE  Acceptable(w) /\ u.proof.revealed = JournalDigest(JournalOf(w))
  BY <1>1, GuestSoundness DEF DigestOf, WitnessOf
<1>2. ASSUME UnitVerdict(u) = "Ok"
      PROVE  Attested(u)
  <2>1. u.proof.decodes /\ u.proof.valid /\ u.proof.revealed = JournalDigest(RebuiltJournal(u))
    BY <1>2 DEF UnitVerdict
  <2>2. JournalOf(w) = RebuiltJournal(u)
    BY <1>1, <2>1, JournalDetermines
  <2>3. /\ u.consumed = ConsumedOf(w) /\ u.created = CreatedOf(w) /\ u.delta = NetDelta(w)
        /\ HashKindTable(w.kindTable) = HashKindTable(<<>>)
        /\ w.actionRoot = TreeRoot(Tags(u))
    BY <2>2 DEF JournalOf, RebuiltJournal, Journal, CanonicalKindTableCommitment
  <2>4. w.kindTable = <<>>
    BY <2>3 DEF HashKindTable, Keccak
  <2>5. Tags(u) = ActionTags(w)
    BY <2>3, TagsOfWitness
  <2>. QED  BY <2>1, <2>3, <2>4, <2>5 DEF Attested
<1>3. ASSUME Attested(u)
      PROVE  UnitVerdict(u) = "Ok"
  <2>1. /\ u.proof.decodes /\ u.proof.valid
        /\ u.consumed = ConsumedOf(w) /\ u.created = CreatedOf(w) /\ u.delta = NetDelta(w)
        /\ w.kindTable = <<>> /\ w.actionRoot = TreeRoot(ActionTags(w))
    BY <1>3 DEF Attested
  <2>2. NullifiersIn(u) = NullifiersOf(w) /\ Tags(u) = ActionTags(w)
    BY <2>1, TagsOfWitness
  <2>3. JournalOf(w) = RebuiltJournal(u)
    BY <2>1, <2>2 DEF JournalOf, RebuiltJournal, CanonicalKindTableCommitment
  <2>4. Tags(u) # <<>>
    <3>1. NullifiersIn(u) # <<>>
      BY <1>1, <2>1, <2>2 DEF Acceptable
    <3>2. u.consumed # <<>>
      BY <3>1 DEF NullifiersIn
    <3>3. /\ u.consumed \in Seq(Instances) /\ u.created \in Seq(Instances)
          /\ Len(Tags(u)) = Len(u.consumed) + Len(u.created)
      BY TagLists
    <3>4. Len(Tags(u)) # 0
      <4>. DEFINE a == Len(u.consumed)
                  b == Len(u.created)
      <4>1. a \in Nat \ {0} /\ b \in Nat
        BY <3>2, <3>3
      <4>. HIDE DEF a, b
      <4>2. a + b # 0
        BY <4>1
      <4>. QED  BY <3>3, <4>2 DEF a, b
    <3>5. Len(<<>>) = 0
      OBVIOUS
    <3>. QED  BY <3>4, <3>5
  <2>. QED  BY <1>1, <2>1, <2>3, <2>4 DEF UnitVerdict
<1>4. ASSUME UnitVerdict(u) = "Ok"
      PROVE  Acceptable(w)
  BY <1>1, <1>4 DEF UnitVerdict
<1>. QED  BY <1>2, <1>3, <1>4

LEMMA VerifiedUnit ==
  ASSUME NEW u \in VerifierInputs, UnitVerdict(u) = "Ok"
  PROVE  /\ u.consumed # <<>>
         /\ \A k \in 1..Len(u.created) : \E r : NoncedBy(u, k, r)
<1>. DEFINE w == WitnessOf(u)
<1>1. /\ Acceptable(w)
      /\ u.consumed = ConsumedOf(w) /\ u.created = CreatedOf(w)
  BY VerdictIsAttested DEF Attested
<1>2. NullifiersIn(u) = NullifiersOf(w)
  BY <1>1, TagsOfWitness
<1>3. ASSUME NEW k \in 1..Len(u.created)
      PROVE  NoncedBy(u, k, w.created[k].resource)
  <2>1. u.created \in Seq(Instances)
    BY TagLists
  <2>2. k \in DOMAIN w.created
    BY <1>1, <2>1 DEF CreatedOf
  <2>3. u.created[k] = CreatedInstance(w.created[k])
    BY <1>1, <2>2 DEF CreatedOf
  <2>4. w.created[k].resource.nonce = CreatedNonce(NullifiersOf(w), k - 1)
    BY <1>1, <2>2 DEF Acceptable, NoncesHold
  <2>. QED  BY <1>2, <2>3, <2>4 DEF NoncedBy, CreatedInstance
<1>4. u.consumed # <<>>
  <2>1. NullifiersIn(u) # <<>>
    BY <1>1, <1>2 DEF Acceptable
  <2>. QED  BY <2>1 DEF NullifiersIn
<1>. QED  BY <1>3, <1>4

(* Equal commitments of verified units come from equal nullifier lists and *)
(* equal indices.                                                          *)
LEMMA CommitmentDetermines ==
  ASSUME NEW u \in VerifierInputs, Narrow(u), UnitVerdict(u) = "Ok", NEW k \in 1..Len(u.created),
         NEW v \in VerifierInputs, Narrow(v), UnitVerdict(v) = "Ok", NEW n \in 1..Len(v.created),
         u.created[k].commitment = v.created[n].commitment
  PROVE  NullifiersIn(u) = NullifiersIn(v) /\ k = n
<1>1. PICK r : NoncedBy(u, k, r)
  BY VerifiedUnit
<1>2. PICK s : NoncedBy(v, n, s)
  BY VerifiedUnit
<1>3. CreatedNonce(NullifiersIn(u), k - 1) = CreatedNonce(NullifiersIn(v), n - 1)
  BY <1>1, <1>2, CommitDetermines DEF NoncedBy
<1>4. /\ u.created \in Seq(Instances) /\ v.created \in Seq(Instances)
      /\ Len(u.created) <= IndexModulus /\ Len(v.created) <= IndexModulus
  BY TagLists DEF Narrow
<1>5. k - 1 \in 0..(IndexModulus - 1) /\ n - 1 \in 0..(IndexModulus - 1)
  BY <1>4, IndexAssumption
<1>6. /\ NullifiersIn(u) \in Seq({i.nullifier : i \in Instances})
      /\ NullifiersIn(v) \in Seq({i.nullifier : i \in Instances})
  BY TagLists
<1>7. NullifiersIn(u) = NullifiersIn(v) /\ k - 1 = n - 1
  BY <1>3, <1>5, <1>6, NonceDetermines
<1>. QED  BY <1>7, <1>4

-----------------------------------------------------------------------------
(* The inductive invariant.  The units before the cursor are verified; the *)
(* sets of the scan hold exactly the tags before the cursor, and those     *)
(* nullifiers and those commitments are pairwise different.                *)

Count == Len(Units)
Nfs(u) == 1..Len(Units[u].consumed)
Cms(u) == 1..Len(Units[u].created)

\* Whether the scan has passed a nullifier, or a commitment.
NfPassed(u, m) == u < unit \/ (u = unit /\ m < entry)
CmPassed(u, k) == u < unit \/ (u = unit /\ Len(Units[u].consumed) + k < entry)

TypeInv ==
  /\ tx \in Transactions
  /\ phase \in Phases
  /\ unit \in 1..(Count + 1)
  /\ entry \in Nat \ {0}
  /\ total \in Points
  /\ result \in {"running", "Ok"} \cup Errors
  /\ (phase = "end") <=> (result # "running")

Verified ==
  /\ phase = "units" => \A u \in 1..(unit - 1) : UnitVerdict(Units[u]) = "Ok"
  /\ phase \in {"tags", "deltas"} \/ result = "Ok" => \A u \in 1..Count : UnitVerdict(Units[u]) = "Ok"

ScanFresh ==
  phase = "units" => entry = 1 /\ seenNullifiers = {} /\ seenCommitments = {}

NullifiersScanned ==
  phase = "tags" =>
    /\ \A u \in 1..Count : \A m \in Nfs(u) :
         NfPassed(u, m) => Units[u].consumed[m].nullifier \in seenNullifiers
    /\ \A f \in seenNullifiers : \E u \in 1..Count : \E m \in Nfs(u) :
         NfPassed(u, m) /\ f = Units[u].consumed[m].nullifier
    /\ \A u, v \in 1..Count : \A m \in Nfs(u), n \in Nfs(v) :
         NfPassed(u, m) /\ NfPassed(v, n)
           /\ Units[u].consumed[m].nullifier = Units[v].consumed[n].nullifier
         => u = v /\ m = n

CommitmentsScanned ==
  phase = "tags" =>
    /\ \A u \in 1..Count : \A k \in Cms(u) :
         CmPassed(u, k) => Units[u].created[k].commitment \in seenCommitments
    /\ \A c \in seenCommitments : \E u \in 1..Count : \E k \in Cms(u) :
         CmPassed(u, k) /\ c = Units[u].created[k].commitment
    /\ \A u, v \in 1..Count : \A k \in Cms(u), n \in Cms(v) :
         CmPassed(u, k) /\ CmPassed(v, n)
           /\ Units[u].created[k].commitment = Units[v].created[n].commitment
         => u = v /\ k = n

AllDistinct ==
  /\ \A u, v \in 1..Count : \A m \in Nfs(u), n \in Nfs(v) :
       Units[u].consumed[m].nullifier = Units[v].consumed[n].nullifier => u = v /\ m = n
  /\ \A u, v \in 1..Count : \A k \in Cms(u), n \in Cms(v) :
       Units[u].created[k].commitment = Units[v].created[n].commitment => u = v /\ k = n

ScanPassed == phase = "deltas" \/ result = "Ok" => AllDistinct

IInv == /\ TypeInv
        /\ Verified
        /\ ScanFresh
        /\ NullifiersScanned
        /\ CommitmentsScanned
        /\ ScanPassed

\* The transaction is a sequence of units.
LEMMA UnitsType ==
  ASSUME tx \in Transactions
  PROVE  /\ Units \in Seq(VerifierInputs)
         /\ Count \in Nat
         /\ \A u \in 1..Count : Units[u] \in VerifierInputs
BY TransactionsAssumption DEF Units, Count

LEMMA InitInvariant == Init => IInv
<1>. SUFFICES ASSUME Init PROVE IInv
  OBVIOUS
<1>1. Count \in Nat
  BY UnitsType DEF Init
<1>2. TypeInv
  BY <1>1, IdentityIsPoint DEF Init, TypeInv, Phases, Errors
<1>3. Verified /\ ScanFresh
  BY DEF Init, Verified, ScanFresh
<1>4. NullifiersScanned /\ CommitmentsScanned /\ ScanPassed
  BY DEF Init, NullifiersScanned, CommitmentsScanned, ScanPassed
<1>. QED  BY <1>2, <1>3, <1>4 DEF IInv

LEMMA VerdictType ==
  ASSUME NEW u
  PROVE  UnitVerdict(u) \in {"Ok"} \cup Errors
BY DEF UnitVerdict, Errors

\* A step that ends with an error keeps the invariant.
LEMMA FinishInvariant ==
  ASSUME IInv, NEW verdict \in Errors, Finish(verdict)
  PROVE  IInv'
<1>1. TypeInv'
  BY DEF IInv, TypeInv, Finish, Count, Units, Phases, Errors
<1>2. phase' = "end" /\ result' # "Ok" /\ result' # "running"
  BY DEF Finish, Errors
<1>. QED
  BY <1>1, <1>2
  DEF IInv, Verified, ScanFresh, NullifiersScanned, CommitmentsScanned, ScanPassed

LEMMA SameTransaction ==
  ASSUME tx' = tx
  PROVE  /\ Units' = Units /\ Count' = Count
         /\ \A u : Nfs(u)' = Nfs(u) /\ Cms(u)' = Cms(u)
BY DEF Units, Count, Nfs, Cms

LEMMA VerifyUnitInvariant ==
  ASSUME IInv, VerifyUnit
  PROVE  IInv'
<1>1. /\ tx' = tx /\ phase' = phase /\ phase = "units" /\ unit' = unit + 1
      /\ entry' = entry /\ seenNullifiers' = seenNullifiers
      /\ seenCommitments' = seenCommitments /\ total' = total /\ result' = result
  BY DEF VerifyUnit
<1>2. Count \in Nat /\ unit \in 1..Count
  BY UnitsType DEF IInv, TypeInv, VerifyUnit, UnitsRemain, Count
<1>3. Units' = Units /\ Count' = Count
  BY <1>1, SameTransaction
<1>4. TypeInv'
  BY <1>1, <1>2, <1>3 DEF IInv, TypeInv
<1>5. Verified'
  <2>1. UnitVerdict(Units[unit]) = "Ok"
    BY DEF VerifyUnit, Unit
  <2>2. ASSUME NEW u \in 1..unit
        PROVE  UnitVerdict(Units[u]) = "Ok"
    <3>1. CASE u = unit
      BY <2>1, <3>1
    <3>2. CASE u \in 1..(unit - 1)
      BY <1>1, <3>2 DEF IInv, Verified
    <3>. QED  BY <1>2, <3>1, <3>2
  <2>3. unit' - 1 = unit
    BY <1>1, <1>2
  <2>. QED  BY <1>1, <1>3, <2>2, <2>3 DEF IInv, TypeInv, Verified
<1>6. ScanFresh'
  BY <1>1 DEF IInv, ScanFresh
<1>7. NullifiersScanned' /\ CommitmentsScanned' /\ ScanPassed'
  BY <1>1 DEF IInv, TypeInv, NullifiersScanned, CommitmentsScanned, ScanPassed
<1>. QED  BY <1>4, <1>5, <1>6, <1>7 DEF IInv

LEMMA StartTagsInvariant ==
  ASSUME IInv, StartTags
  PROVE  IInv'
<1>1. /\ tx' = tx /\ phase = "units" /\ phase' = "tags" /\ unit' = 1
      /\ entry' = entry /\ seenNullifiers' = seenNullifiers
      /\ seenCommitments' = seenCommitments /\ total' = total /\ result' = result
      /\ entry = 1 /\ seenNullifiers = {} /\ seenCommitments = {}
  BY DEF StartTags, Enter, IInv, ScanFresh
<1>2. Count \in Nat /\ unit = Count + 1
  BY UnitsType DEF IInv, TypeInv, StartTags, Enter, UnitsRemain, Count
<1>3. Units' = Units /\ Count' = Count /\ \A u : Nfs(u)' = Nfs(u) /\ Cms(u)' = Cms(u)
  BY <1>1, SameTransaction
<1>4. TypeInv'
  BY <1>1, <1>2, <1>3 DEF IInv, TypeInv, Phases
<1>5. Verified' /\ ScanFresh' /\ ScanPassed'
  <2>1. unit - 1 = Count
    BY <1>2
  <2>. QED  BY <1>1, <1>3, <2>1 DEF IInv, TypeInv, Verified, ScanFresh, ScanPassed
<1>6. \A u \in 1..Count : /\ \A m \in Nfs(u) : ~NfPassed(u, m)'
                          /\ \A k \in Cms(u) : ~CmPassed(u, k)'
  <2>1. ASSUME NEW u \in 1..Count
        PROVE  Len(Units[u].consumed) \in Nat
    BY <2>1, UnitsType, TagLists DEF IInv, TypeInv
  <2>. QED  BY <1>1, <1>2, <1>3, <2>1 DEF NfPassed, CmPassed, Nfs, Cms
<1>7. NullifiersScanned' /\ CommitmentsScanned'
  BY <1>1, <1>3, <1>6 DEF NullifiersScanned, CommitmentsScanned
<1>. QED  BY <1>4, <1>5, <1>7 DEF IInv

\* The tag at the cursor, in the list that it comes from.
LEMMA CurrentUnit ==
  ASSUME IInv, phase = "tags", UnitsRemain
  PROVE  /\ Count \in Nat /\ unit \in 1..Count /\ Units[unit] \in VerifierInputs
         /\ \A u \in 1..Count : Len(Units[u].consumed) \in Nat /\ Len(Units[u].created) \in Nat
<1>1. Count \in Nat /\ unit \in 1..Count /\ \A u \in 1..Count : Units[u] \in VerifierInputs
  BY UnitsType DEF IInv, TypeInv, UnitsRemain, Count
<1>2. ASSUME NEW u \in 1..Count
      PROVE  Len(Units[u].consumed) \in Nat /\ Len(Units[u].created) \in Nat
  <2>1. Units[u].consumed \in Seq(Instances) /\ Units[u].created \in Seq(Instances)
    BY <1>1, TagLists
  <2>. QED  BY <2>1
<1>. QED  BY <1>1, <1>2

LEMMA CurrentNullifier ==
  ASSUME IInv, AtNullifier
  PROVE  entry \in Nfs(unit) /\ EntryTag = Units[unit].consumed[entry].nullifier
<1>1. Units[unit] \in VerifierInputs /\ Len(Units[unit].consumed) \in Nat
  BY CurrentUnit DEF AtNullifier
<1>2. entry \in Nat \ {0} /\ entry <= Len(Units[unit].consumed)
  BY DEF IInv, TypeInv, AtNullifier, Unit
<1>3. entry \in 1..Len(Units[unit].consumed)
  BY <1>1, <1>2
<1>4. Tags(Units[unit])[entry] = Units[unit].consumed[entry].nullifier
  BY <1>1, <1>3, TagLists
<1>. QED  BY <1>3, <1>4 DEF Nfs, EntryTag, Unit

LEMMA CurrentCommitment ==
  ASSUME IInv, AtCommitment
  PROVE  \E k \in Cms(unit) : /\ entry = Len(Units[unit].consumed) + k
                              /\ EntryTag = Units[unit].created[k].commitment
<1>. DEFINE a == Len(Units[unit].consumed)
            b == Len(Units[unit].created)
            k == entry - a
<1>1. Units[unit] \in VerifierInputs /\ a \in Nat /\ b \in Nat
  BY CurrentUnit DEF AtCommitment
<1>2. Len(Tags(Units[unit])) = a + b
  BY <1>1, TagLists
<1>3. entry \in Nat \ {0} /\ entry > a /\ entry <= Len(Tags(Units[unit]))
  BY DEF IInv, TypeInv, AtCommitment, Unit
<1>4. \A i \in 1..b : Tags(Units[unit])[a + i] = Units[unit].created[i].commitment
  BY <1>1, TagLists
<1>5. k \in 1..b /\ entry = a + k
  <2>. HIDE DEF a, b
  <2>. QED  BY <1>1, <1>2, <1>3
<1>6. Tags(Units[unit])[entry] = Units[unit].created[k].commitment
  BY <1>4, <1>5
<1>7. k \in Cms(unit)
  BY <1>5 DEF Cms
<1>. QED  BY <1>5, <1>6, <1>7 DEF EntryTag, Unit

LEMMA ScanNullifierInvariant ==
  ASSUME IInv, ScanNullifier
  PROVE  IInv'
<1>1. /\ tx' = tx /\ phase = "tags" /\ phase' = "tags" /\ unit' = unit
      /\ entry' = entry + 1 /\ seenNullifiers' = seenNullifiers \cup {EntryTag}
      /\ seenCommitments' = seenCommitments /\ total' = total /\ result' = result
      /\ EntryTag \notin seenNullifiers
  BY DEF ScanNullifier, AtNullifier
<1>2. Count \in Nat /\ unit \in 1..Count /\ Units[unit] \in VerifierInputs
  BY UnitsType DEF IInv, TypeInv, ScanNullifier, AtNullifier, UnitsRemain, Count
<1>3. Units' = Units /\ Count' = Count /\ \A u : Nfs(u)' = Nfs(u) /\ Cms(u)' = Cms(u)
  BY <1>1, SameTransaction
<1>4. entry \in Nfs(unit) /\ EntryTag = Units[unit].consumed[entry].nullifier
  BY CurrentNullifier DEF ScanNullifier
<1>5. TypeInv'
  BY <1>1, <1>2, <1>3 DEF IInv, TypeInv
<1>6. Verified' /\ ScanFresh' /\ ScanPassed'
  BY <1>1, <1>3 DEF IInv, TypeInv, Verified, ScanFresh, ScanPassed
<1>7. ASSUME NEW u \in 1..Count, NEW m \in Nfs(u)
      PROVE  NfPassed(u, m)' <=> NfPassed(u, m) \/ (u = unit /\ m = entry)
  BY <1>1, <1>2, <1>4 DEF NfPassed, Nfs, IInv, TypeInv
<1>8. ASSUME NEW u \in 1..Count, NEW k \in Cms(u)
      PROVE  CmPassed(u, k)' <=> CmPassed(u, k)
  <2>1. Len(Units[u].consumed) \in Nat
    BY UnitsType, TagLists DEF IInv, TypeInv
  <2>2. u = unit => entry <= Len(Units[u].consumed)
    BY <1>4 DEF Nfs
  <2>. QED  BY <1>1, <1>2, <1>3, <2>1, <2>2 DEF CmPassed, Cms, IInv, TypeInv
<1>9. NullifiersScanned'
  <2>1. ASSUME NEW u \in 1..Count, NEW m \in Nfs(u), NfPassed(u, m)'
        PROVE  Units[u].consumed[m].nullifier \in seenNullifiers'
    BY <1>1, <1>4, <1>7, <2>1 DEF IInv, NullifiersScanned
  <2>2. ASSUME NEW f \in seenNullifiers'
        PROVE  \E u \in 1..Count : \E m \in Nfs(u) :
                 NfPassed(u, m)' /\ f = Units[u].consumed[m].nullifier
    <3>1. CASE f = EntryTag
      BY <1>2, <1>4, <1>7, <3>1
    <3>2. CASE f \in seenNullifiers
      BY <1>1, <1>7, <3>2 DEF IInv, NullifiersScanned
    <3>. QED  BY <1>1, <3>1, <3>2
  <2>3. ASSUME NEW u \in 1..Count, NEW m \in Nfs(u), NfPassed(u, m)',
               NEW v \in 1..Count, NEW n \in Nfs(v), NfPassed(v, n)',
               Units[u].consumed[m].nullifier = Units[v].consumed[n].nullifier
        PROVE  u = v /\ m = n
    BY <1>1, <1>4, <1>7, <2>3 DEF IInv, NullifiersScanned
  <2>. QED  BY <1>3, <2>1, <2>2, <2>3 DEF NullifiersScanned
<1>10. CommitmentsScanned'
  BY <1>1, <1>3, <1>8 DEF IInv, CommitmentsScanned
<1>. QED  BY <1>5, <1>6, <1>9, <1>10 DEF IInv

LEMMA ScanCommitmentInvariant ==
  ASSUME IInv, ScanCommitment
  PROVE  IInv'
<1>1. /\ tx' = tx /\ phase = "tags" /\ phase' = "tags" /\ unit' = unit
      /\ entry' = entry + 1 /\ seenCommitments' = seenCommitments \cup {EntryTag}
      /\ seenNullifiers' = seenNullifiers /\ total' = total /\ result' = result
      /\ EntryTag \notin seenCommitments
  BY DEF ScanCommitment, AtCommitment
<1>2. /\ Count \in Nat /\ unit \in 1..Count
      /\ \A u \in 1..Count : Len(Units[u].consumed) \in Nat
      /\ entry \in Nat /\ entry > Len(Units[unit].consumed)
  BY CurrentUnit DEF ScanCommitment, AtCommitment, Unit, IInv, TypeInv
<1>3. Units' = Units /\ Count' = Count /\ \A u : Nfs(u)' = Nfs(u) /\ Cms(u)' = Cms(u)
  BY <1>1, SameTransaction
<1>4. PICK e \in Cms(unit) : /\ entry = Len(Units[unit].consumed) + e
                            /\ EntryTag = Units[unit].created[e].commitment
  BY CurrentCommitment DEF ScanCommitment
<1>5. TypeInv'
  BY <1>1, <1>2, <1>3 DEF IInv, TypeInv
<1>6. Verified' /\ ScanFresh' /\ ScanPassed'
  BY <1>1, <1>3 DEF IInv, TypeInv, Verified, ScanFresh, ScanPassed
<1>7. ASSUME NEW u \in 1..Count, NEW k \in Cms(u)
      PROVE  CmPassed(u, k)' <=> CmPassed(u, k) \/ (u = unit /\ k = e)
  <2>. DEFINE a == Len(Units[u].consumed)
  <2>1. a \in Nat /\ k \in Nat /\ e \in Nat
    BY <1>2, <1>4 DEF Cms
  <2>2. u = unit => entry = a + e
    BY <1>4
  <2>3. Len(Units[u].consumed)' = a
    BY <1>3
  <2>. HIDE DEF a
  <2>4. u = unit => ((a + k < entry + 1) <=> (a + k < entry \/ k = e))
    BY <2>1, <2>2
  <2>5. CmPassed(u, k)' <=> u < unit \/ (u = unit /\ a + k < entry + 1)
    BY <1>1, <2>3 DEF CmPassed
  <2>6. CmPassed(u, k) <=> u < unit \/ (u = unit /\ a + k < entry)
    BY DEF CmPassed, a
  <2>. QED  BY <1>2, <2>4, <2>5, <2>6
<1>8. ASSUME NEW u \in 1..Count, NEW m \in Nfs(u)
      PROVE  NfPassed(u, m)' <=> NfPassed(u, m)
  <2>1. Len(Units[u].consumed) \in Nat
    BY <1>2
  <2>2. u = unit => m < entry
    BY <1>2, <2>1 DEF Nfs
  <2>. QED  BY <1>1, <1>2, <2>1, <2>2 DEF NfPassed, Nfs
<1>9. NullifiersScanned'
  BY <1>1, <1>3, <1>8 DEF IInv, NullifiersScanned
<1>10. CommitmentsScanned'
  <2>1. ASSUME NEW u \in 1..Count, NEW k \in Cms(u), CmPassed(u, k)'
        PROVE  Units[u].created[k].commitment \in seenCommitments'
    BY <1>1, <1>4, <1>7, <2>1 DEF IInv, CommitmentsScanned
  <2>2. ASSUME NEW c \in seenCommitments'
        PROVE  \E u \in 1..Count : \E k \in Cms(u) :
                 CmPassed(u, k)' /\ c = Units[u].created[k].commitment
    <3>1. CASE c = EntryTag
      BY <1>2, <1>4, <1>7, <3>1
    <3>2. CASE c \in seenCommitments
      BY <1>1, <1>7, <3>2 DEF IInv, CommitmentsScanned
    <3>. QED  BY <1>1, <3>1, <3>2
  <2>3. ASSUME NEW u \in 1..Count, NEW k \in Cms(u), CmPassed(u, k)',
               NEW v \in 1..Count, NEW n \in Cms(v), CmPassed(v, n)',
               Units[u].created[k].commitment = Units[v].created[n].commitment
        PROVE  u = v /\ k = n
    BY <1>1, <1>4, <1>7, <2>3 DEF IInv, CommitmentsScanned
  <2>. QED  BY <1>3, <2>1, <2>2, <2>3 DEF CommitmentsScanned
<1>. QED  BY <1>5, <1>6, <1>9, <1>10 DEF IInv

LEMMA NextUnitInvariant ==
  ASSUME IInv, NextUnit
  PROVE  IInv'
<1>1. /\ tx' = tx /\ phase = "tags" /\ phase' = "tags" /\ unit' = unit + 1
      /\ entry' = 1 /\ seenCommitments' = seenCommitments
      /\ seenNullifiers' = seenNullifiers /\ total' = total /\ result' = result
  BY DEF NextUnit
<1>2. /\ Count \in Nat /\ unit \in 1..Count /\ Units[unit] \in VerifierInputs
      /\ \A u \in 1..Count : Len(Units[u].consumed) \in Nat /\ Len(Units[u].created) \in Nat
  BY CurrentUnit DEF NextUnit
<1>3. Units' = Units /\ Count' = Count /\ \A u : Nfs(u)' = Nfs(u) /\ Cms(u)' = Cms(u)
  BY <1>1, SameTransaction
<1>4. TypeInv'
  BY <1>1, <1>2, <1>3 DEF IInv, TypeInv
<1>5. Verified' /\ ScanFresh' /\ ScanPassed'
  BY <1>1, <1>3 DEF IInv, TypeInv, Verified, ScanFresh, ScanPassed
<1>6. entry > Len(Units[unit].consumed) + Len(Units[unit].created) /\ entry \in Nat
  <2>1. Len(Tags(Units[unit])) = Len(Units[unit].consumed) + Len(Units[unit].created)
    BY <1>2, TagLists
  <2>. QED  BY <2>1 DEF NextUnit, Unit, IInv, TypeInv
<1>7. ASSUME NEW u \in 1..Count, NEW m \in Nfs(u)
      PROVE  NfPassed(u, m)' <=> NfPassed(u, m)
  <2>. DEFINE a == Len(Units[u].consumed)
              b == Len(Units[u].created)
  <2>1. a \in Nat /\ b \in Nat /\ (u = unit => entry > a + b)
    BY <1>2, <1>6
  <2>2. m \in 1..a
    BY DEF Nfs
  <2>. HIDE DEF a, b
  <2>3. u = unit => m < entry
    BY <1>6, <2>1, <2>2
  <2>. QED  BY <1>1, <1>2, <2>1, <2>2, <2>3 DEF NfPassed
<1>8. ASSUME NEW u \in 1..Count, NEW k \in Cms(u)
      PROVE  CmPassed(u, k)' <=> CmPassed(u, k)
  <2>. DEFINE a == Len(Units[u].consumed)
              b == Len(Units[u].created)
  <2>1. a \in Nat /\ b \in Nat /\ (u = unit => entry > a + b)
    BY <1>2, <1>6
  <2>2. k \in 1..b
    BY DEF Cms
  <2>3. CmPassed(u, k)' <=> u < unit + 1 \/ (u = unit + 1 /\ a + k < 1)
    BY <1>1, <1>3 DEF CmPassed
  <2>4. CmPassed(u, k) <=> u < unit \/ (u = unit /\ a + k < entry)
    BY DEF CmPassed
  <2>. HIDE DEF a, b
  <2>5. (u = unit => a + k < entry) /\ ~(a + k < 1)
    BY <1>6, <2>1, <2>2
  <2>. QED  BY <1>2, <2>3, <2>4, <2>5
<1>9. NullifiersScanned'
  BY <1>1, <1>3, <1>7 DEF IInv, NullifiersScanned
<1>10. CommitmentsScanned'
  BY <1>1, <1>3, <1>8 DEF IInv, CommitmentsScanned
<1>. QED  BY <1>4, <1>5, <1>9, <1>10 DEF IInv

\* Once the cursor has left the last unit, every tag is passed.
LEMMA StartDeltasInvariant ==
  ASSUME IInv, StartDeltas
  PROVE  IInv'
<1>1. /\ tx' = tx /\ phase = "tags" /\ phase' = "deltas" /\ unit' = 1
      /\ entry' = entry /\ total' = total /\ result' = result
  BY DEF StartDeltas, Enter
<1>2. Count \in Nat /\ unit = Count + 1
  BY UnitsType DEF IInv, TypeInv, StartDeltas, Enter, UnitsRemain, Count
<1>3. Units' = Units /\ Count' = Count /\ \A u : Nfs(u)' = Nfs(u) /\ Cms(u)' = Cms(u)
  BY <1>1, SameTransaction
<1>4. TypeInv'
  BY <1>1, <1>2, <1>3 DEF IInv, TypeInv, Phases
<1>5. Verified' /\ ScanFresh' /\ NullifiersScanned' /\ CommitmentsScanned'
  BY <1>1, <1>3
  DEF IInv, TypeInv, Verified, ScanFresh, NullifiersScanned, CommitmentsScanned
<1>6. \A u \in 1..Count : u < unit
  BY <1>2
<1>7. AllDistinct
  BY <1>1, <1>6 DEF AllDistinct, IInv, NullifiersScanned, CommitmentsScanned, NfPassed, CmPassed
<1>8. AllDistinct'
  BY <1>3, <1>7 DEF AllDistinct
<1>. QED  BY <1>4, <1>5, <1>8 DEF IInv, ScanPassed

LEMMA AddDeltaInvariant ==
  ASSUME IInv, AddDelta
  PROVE  IInv'
<1>1. /\ tx' = tx /\ phase = "deltas" /\ phase' = "deltas" /\ unit' = unit + 1
      /\ entry' = entry /\ result' = result
      /\ total' = Plus(total, Unit.delta) /\ Unit.delta \in Points
  BY DEF AddDelta, IsDeltaPoint
<1>2. Count \in Nat /\ unit \in 1..Count
  BY UnitsType DEF IInv, TypeInv, AddDelta, UnitsRemain, Count
<1>3. Units' = Units /\ Count' = Count /\ \A u : Nfs(u)' = Nfs(u) /\ Cms(u)' = Cms(u)
  BY <1>1, SameTransaction
<1>4. TypeInv'
  <2>1. total' \in Points
    BY <1>1, PlusIsPoint, PointsAreIntegers DEF IInv, TypeInv
  <2>. QED  BY <1>1, <1>2, <1>3, <2>1 DEF IInv, TypeInv
<1>5. Verified' /\ ScanFresh' /\ NullifiersScanned' /\ CommitmentsScanned'
  BY <1>1, <1>3
  DEF IInv, TypeInv, Verified, ScanFresh, NullifiersScanned, CommitmentsScanned
<1>6. ScanPassed'
  BY <1>1, <1>3 DEF IInv, ScanPassed, AllDistinct
<1>. QED  BY <1>4, <1>5, <1>6 DEF IInv

LEMMA AcceptInvariant ==
  ASSUME IInv, Accept
  PROVE  IInv'
<1>1. /\ tx' = tx /\ phase = "deltas" /\ phase' = "end" /\ result' = "Ok"
      /\ unit' = unit /\ entry' = entry /\ total' = total
  BY DEF Accept, AtDeltaProof, Finish
<1>2. Units' = Units /\ Count' = Count /\ \A u : Nfs(u)' = Nfs(u) /\ Cms(u)' = Cms(u)
  BY <1>1, SameTransaction
<1>3. TypeInv'
  BY <1>1, <1>2 DEF IInv, TypeInv, Phases
<1>4. Verified' /\ ScanFresh' /\ NullifiersScanned' /\ CommitmentsScanned'
  BY <1>1, <1>2 DEF IInv, Verified, ScanFresh, NullifiersScanned, CommitmentsScanned
<1>5. ScanPassed'
  BY <1>1, <1>2 DEF IInv, ScanPassed, AllDistinct
<1>. QED  BY <1>3, <1>4, <1>5 DEF IInv

LEMMA StepInvariant == IInv /\ [Next]_vars => IInv'
<1>. SUFFICES ASSUME IInv, [Next]_vars PROVE IInv'
  OBVIOUS
<1>1. CASE VerifyUnit
  BY <1>1, VerifyUnitInvariant
<1>2. CASE RejectUnit
  <2>1. UnitVerdict(Unit) \in Errors /\ Finish(UnitVerdict(Unit))
    BY <1>2, VerdictType DEF RejectUnit
  <2>. QED  BY <2>1, FinishInvariant
<1>3. CASE StartTags
  BY <1>3, StartTagsInvariant
<1>4. CASE ScanNullifier
  BY <1>4, ScanNullifierInvariant
<1>5. CASE RejectNullifier
  BY <1>5, FinishInvariant DEF RejectNullifier, Errors
<1>6. CASE ScanCommitment
  BY <1>6, ScanCommitmentInvariant
<1>7. CASE RejectCommitment
  BY <1>7, FinishInvariant DEF RejectCommitment, Errors
<1>8. CASE NextUnit
  BY <1>8, NextUnitInvariant
<1>9. CASE StartDeltas
  BY <1>9, StartDeltasInvariant
<1>10. CASE AddDelta
  BY <1>10, AddDeltaInvariant
<1>11. CASE RejectDelta
  BY <1>11, FinishInvariant DEF RejectDelta, Errors
<1>12. CASE Accept
  BY <1>12, AcceptInvariant
<1>13. CASE RejectDeltaProof
  BY <1>13, FinishInvariant DEF RejectDeltaProof, Errors
<1>14. CASE PanicOnRecoveryByte
  BY <1>14, FinishInvariant DEF PanicOnRecoveryByte, Errors
<1>15. CASE UNCHANGED vars
  <2>. USE <1>15 DEF vars, IInv, Units
  <2>1. TypeInv' /\ Verified' /\ ScanFresh'
    BY DEF TypeInv, Verified, ScanFresh, Count
  <2>2. NullifiersScanned'
    BY SMTT(60) DEF NullifiersScanned, Count, Nfs, NfPassed
  <2>3. CommitmentsScanned'
    BY DEF CommitmentsScanned, Count, Cms, CmPassed
  <2>4. ScanPassed'
    BY DEF ScanPassed, AllDistinct, Count, Nfs, Cms
  <2>. QED  BY <2>1, <2>2, <2>3, <2>4
<1>. QED
  BY <1>1, <1>2, <1>3, <1>4, <1>5, <1>6, <1>7, <1>8, <1>9, <1>10, <1>11, <1>12,
     <1>13, <1>14, <1>15 DEF Next

LEMMA Invariant == Spec => []IInv
<1>1. Init => IInv
  BY InitInvariant
<1>2. IInv /\ [Next]_vars => IInv'
  BY StepInvariant
<1>. QED  BY <1>1, <1>2, PTL DEF Spec

-----------------------------------------------------------------------------
(* Every variable of the verifier has the type that the code gives it.     *)
THEOREM TypeCorrect == Spec => []TypeOK
<1>1. IInv => TypeOK
  BY DEF IInv, TypeInv, TypeOK, Count
<1>. QED  BY <1>1, Invariant, PTL

LEMMA Domains ==
  ASSUME IInv
  PROVE  /\ DOMAIN Units = 1..Count
         /\ \A u \in 1..Count : /\ DOMAIN Units[u].consumed = Nfs(u)
                               /\ DOMAIN Units[u].created = Cms(u)
<1>1. Units \in Seq(VerifierInputs) /\ \A u \in 1..Count : Units[u] \in VerifierInputs
  BY UnitsType DEF IInv, TypeInv
<1>2. ASSUME NEW u \in 1..Count
      PROVE  Units[u].consumed \in Seq(Instances) /\ Units[u].created \in Seq(Instances)
  BY <1>1, TagLists
<1>3. ASSUME NEW u \in 1..Count
      PROVE  DOMAIN Units[u].consumed = Nfs(u) /\ DOMAIN Units[u].created = Cms(u)
  BY <1>2 DEF Nfs, Cms
<1>. QED  BY <1>1, <1>3 DEF Count

(* An accepted transaction spends no resource twice, neither in two        *)
(* actions nor in one.                                                     *)
THEOREM SpendsOnce == Spec => []NoDoubleSpend
<1>1. ASSUME IInv PROVE NoDoubleSpend
  <2>. SUFFICES ASSUME result = "Ok",
                       NEW j \in DOMAIN Units, NEW m \in DOMAIN Units[j].consumed,
                       NEW k \in DOMAIN Units, NEW n \in DOMAIN Units[k].consumed,
                       Units[j].consumed[m].nullifier = Units[k].consumed[n].nullifier
                PROVE  j = k /\ m = n
    BY DEF NoDoubleSpend
  <2>1. j \in 1..Count /\ k \in 1..Count
    BY <1>1, Domains
  <2>2. m \in Nfs(j) /\ n \in Nfs(k)
    BY <1>1, <2>1, Domains
  <2>. QED  BY <1>1, <2>1, <2>2 DEF IInv, ScanPassed, AllDistinct
<1>. QED  BY <1>1, Invariant, PTL

(* An accepted transaction creates no commitment twice, however many       *)
(* resources an action creates.                                            *)
THEOREM CreatesOnce == Spec => []NoDoubleCreation
<1>1. ASSUME IInv PROVE NoDoubleCreation
  <2>. SUFFICES ASSUME result = "Ok",
                       NEW j \in DOMAIN Units, NEW m \in DOMAIN Units[j].created,
                       NEW k \in DOMAIN Units, NEW n \in DOMAIN Units[k].created,
                       Units[j].created[m].commitment = Units[k].created[n].commitment
                PROVE  j = k /\ m = n
    BY DEF NoDoubleCreation
  <2>1. j \in 1..Count /\ k \in 1..Count
    BY <1>1, Domains
  <2>2. m \in Cms(j) /\ n \in Cms(k)
    BY <1>1, <2>1, Domains
  <2>. QED  BY <1>1, <2>1, <2>2 DEF IInv, ScanPassed, AllDistinct
<1>. QED  BY <1>1, Invariant, PTL

-----------------------------------------------------------------------------
(* Two units with the same nullifiers are the same unit, once the scan has *)
(* passed the first nullifier of both.                                     *)
LEMMA NullifiersIdentify ==
  ASSUME IInv, phase = "tags",
         NEW u \in 1..Count, NEW v \in 1..Count,
         NfPassed(u, 1), NfPassed(v, 1),
         NullifiersIn(Units[u]) = NullifiersIn(Units[v])
  PROVE  u = v
<1>1. ASSUME NEW w \in 1..Count
      PROVE  1 \in Nfs(w) /\ NullifiersIn(Units[w])[1] = Units[w].consumed[1].nullifier
  <2>1. Units[w] \in VerifierInputs /\ UnitVerdict(Units[w]) = "Ok"
    BY UnitsType DEF IInv, TypeInv, Verified
  <2>2. Units[w].consumed # <<>> /\ Units[w].consumed \in Seq(Instances)
    BY <2>1, VerifiedUnit, TagLists
  <2>3. 1 \in 1..Len(Units[w].consumed) /\ 1 \in DOMAIN Units[w].consumed
    BY <2>2
  <2>. QED  BY <2>3 DEF Nfs, NullifiersIn
<1>2. Units[u].consumed[1].nullifier = Units[v].consumed[1].nullifier
  BY <1>1
<1>. QED  BY <1>1, <1>2 DEF IInv, NullifiersScanned

(* If the check for duplicate commitments fails after the checks before    *)
(* it, an index has wrapped: otherwise an equal commitment would need the  *)
(* same nullifiers, and so the same unit, and the same index.              *)
THEOREM CommitmentsNeverClash ==
  Spec => []NoCommitmentDuplication
<1>1. ASSUME IInv, \A u \in DOMAIN Units : Narrow(Units[u])
      PROVE  ~RejectCommitment
  <2>. SUFFICES ASSUME RejectCommitment PROVE FALSE
    OBVIOUS
  <2>1. AtCommitment /\ phase = "tags" /\ EntryTag \in seenCommitments
    BY DEF RejectCommitment, AtCommitment
  <2>2. /\ unit \in 1..Count /\ entry \in Nat /\ entry > Len(Units[unit].consumed)
        /\ \A u \in 1..Count : Len(Units[u].consumed) \in Nat
    BY <1>1, <2>1, CurrentUnit DEF AtCommitment, Unit, IInv, TypeInv
  <2>3. PICK e \in Cms(unit) : /\ entry = Len(Units[unit].consumed) + e
                              /\ EntryTag = Units[unit].created[e].commitment
    BY <1>1, <2>1, CurrentCommitment
  <2>4a. PICK u \in 1..Count : \E k \in Cms(u) :
           CmPassed(u, k) /\ EntryTag = Units[u].created[k].commitment
    BY <1>1, <2>1 DEF IInv, CommitmentsScanned
  <2>4. PICK k \in Cms(u) : CmPassed(u, k) /\ EntryTag = Units[u].created[k].commitment
    BY <2>4a
  <2>5. /\ Units[unit] \in VerifierInputs /\ UnitVerdict(Units[unit]) = "Ok"
        /\ Units[u] \in VerifierInputs /\ UnitVerdict(Units[u]) = "Ok"
        /\ Narrow(Units[unit]) /\ Narrow(Units[u])
    <3>1. DOMAIN Units = 1..Count
      BY <1>1, UnitsType DEF IInv, TypeInv, Count
    <3>. QED  BY <1>1, <2>1, <2>2, <3>1, UnitsType DEF IInv, TypeInv, Verified
  <2>6. NullifiersIn(Units[u]) = NullifiersIn(Units[unit]) /\ k = e
    <3>1. Units[u].created[k].commitment = Units[unit].created[e].commitment
      BY <2>3, <2>4
    <3>2. k \in 1..Len(Units[u].created) /\ e \in 1..Len(Units[unit].created)
      BY DEF Cms
    <3>. QED  BY <2>5, <3>1, <3>2, CommitmentDetermines
  <2>7. ASSUME NEW v \in 1..Count, v < unit \/ v = unit
        PROVE  NfPassed(v, 1)
    <3>1. Units[v].consumed # <<>> /\ Units[v].consumed \in Seq(Instances)
      <4>1. Units[v] \in VerifierInputs /\ UnitVerdict(Units[v]) = "Ok"
        BY <1>1, <2>1, UnitsType DEF IInv, TypeInv, Verified
      <4>. QED  BY <4>1, VerifiedUnit, TagLists
    <3>2. Len(Units[v].consumed) >= 1
      BY <3>1
    <3>. QED  BY <2>2, <2>7, <3>2 DEF NfPassed
  <2>8. u = unit
    <3>1. u < unit \/ u = unit
      BY <2>4 DEF CmPassed
    <3>2. NfPassed(u, 1) /\ NfPassed(unit, 1)
      BY <2>2, <2>7, <3>1
    <3>. QED  BY <1>1, <2>1, <2>2, <2>6, <3>2, NullifiersIdentify
  <2>9. ~CmPassed(unit, e)
    BY <2>2, <2>3 DEF CmPassed
  <2>. QED  BY <2>4, <2>6, <2>8, <2>9
<1>2. Init => NoCommitmentDuplication
  BY DEF Init, NoCommitmentDuplication
<1>3. IInv /\ NoCommitmentDuplication /\ [Next]_vars => NoCommitmentDuplication'
  <2>. SUFFICES ASSUME IInv, NoCommitmentDuplication, [Next]_vars
                PROVE  NoCommitmentDuplication'
    OBVIOUS
  <2>. SUFFICES ASSUME \A u \in DOMAIN Units : Narrow(Units[u])
                PROVE  result' # "CommitmentDuplication"
    <3>1. tx' = tx
      BY DEF Next, VerifyUnit, RejectUnit, StartTags, ScanNullifier, RejectNullifier,
             ScanCommitment, RejectCommitment, NextUnit, StartDeltas, AddDelta, RejectDelta,
             Accept, RejectDeltaProof, PanicOnRecoveryByte, Finish, Enter, vars
    <3>. QED  BY <3>1 DEF NoCommitmentDuplication, Units
  <2>1. CASE RejectUnit
    BY <2>1 DEF RejectUnit, Finish, UnitVerdict
  <2>2. CASE RejectCommitment
    BY <1>1, <2>2
  <2>3. CASE RejectNullifier \/ RejectDelta \/ Accept \/ RejectDeltaProof \/ PanicOnRecoveryByte
    BY <2>3 DEF RejectNullifier, RejectDelta, Accept, RejectDeltaProof,
                PanicOnRecoveryByte, Finish
  <2>4. CASE UNCHANGED result
    BY <2>4 DEF NoCommitmentDuplication
  <2>5. VerifyUnit \/ StartTags \/ ScanNullifier \/ ScanCommitment \/ NextUnit
          \/ StartDeltas \/ AddDelta \/ UNCHANGED vars => UNCHANGED result
    BY DEF VerifyUnit, StartTags, ScanNullifier, ScanCommitment, NextUnit, StartDeltas,
           AddDelta, Enter, vars
  <2>. QED  BY <2>1, <2>2, <2>3, <2>4, <2>5 DEF Next
<1>. QED  BY <1>2, <1>3, Invariant, PTL DEF Spec

-----------------------------------------------------------------------------
(* The logic proofs behind a verified unit are about the root of the tags  *)
(* that the unit lists.                                                    *)
LEMMA VerifiedLogics ==
  ASSUME NEW u \in VerifierInputs, UnitVerdict(u) = "Ok"
  PROVE  LET w == WitnessOf(u)
         IN  /\ \A k \in DOMAIN w.consumed :
                  w.consumed[k].logicProof.output =
                    LogicDigest(u.consumed[k].nullifier, TreeRoot(Tags(u)), TRUE,
                                u.consumed[k].appData)
             /\ \A k \in DOMAIN w.created :
                  w.created[k].logicProof.output =
                    LogicDigest(u.created[k].commitment, TreeRoot(Tags(u)), FALSE,
                                u.created[k].appData)
<1>. DEFINE w == WitnessOf(u)
<1>1. /\ Acceptable(w)
      /\ u.consumed = ConsumedOf(w) /\ u.created = CreatedOf(w)
      /\ w.actionRoot = TreeRoot(ActionTags(w))
  BY VerdictIsAttested DEF Attested
<1>2. w.actionRoot = TreeRoot(Tags(u))
  BY <1>1, TagsOfWitness
<1>3. ASSUME NEW k \in DOMAIN w.consumed
      PROVE  w.consumed[k].logicProof.output =
               LogicDigest(u.consumed[k].nullifier, w.actionRoot, TRUE, u.consumed[k].appData)
  <2>1. u.consumed[k] = ConsumedInstance(w.consumed[k])
    BY <1>1 DEF ConsumedOf
  <2>2. ConsumedHolds(w.consumed[k], w.actionRoot)
    BY <1>1 DEF Acceptable, EntriesHold
  <2>. QED  BY <2>1, <2>2 DEF ConsumedHolds, ConsumedInstance, LogicVerifies, LogicProof
<1>4. ASSUME NEW k \in DOMAIN w.created
      PROVE  w.created[k].logicProof.output =
               LogicDigest(u.created[k].commitment, w.actionRoot, FALSE, u.created[k].appData)
  <2>1. u.created[k] = CreatedInstance(w.created[k])
    BY <1>1 DEF CreatedOf
  <2>2. CreatedHolds(w.created[k], w.actionRoot)
    BY <1>1 DEF Acceptable, EntriesHold
  <2>. QED  BY <2>1, <2>2 DEF CreatedHolds, CreatedInstance, LogicVerifies, LogicProof
<1>. QED  BY <1>2, <1>3, <1>4

(* Every resource logic of an accepted transaction has approved the action *)
(* it appears in: the root that the guest takes on trust is the one that   *)
(* the verifier computes from the tags.                                    *)
THEOREM LogicsApproved == Spec => []LogicsApprovedTheAction
<1>1. ASSUME IInv PROVE LogicsApprovedTheAction
  <2>1. ASSUME result = "Ok", NEW u \in DOMAIN Units
        PROVE  Units[u] \in VerifierInputs /\ UnitVerdict(Units[u]) = "Ok"
    BY <1>1, <2>1, Domains, UnitsType DEF IInv, TypeInv, Verified
  <2>. QED  BY <2>1, VerifiedLogics DEF LogicsApprovedTheAction
<1>. QED  BY <1>1, Invariant, PTL

-----------------------------------------------------------------------------
(* What was checked of the delta proof stays true of an accepted           *)
(* transaction.                                                            *)
DeltaInv == result = "Ok" => DeltaProofHolds(tx.deltaProof, Message(tx), total)

LEMMA DeltaChecked == Spec => []DeltaInv
<1>1. Init => DeltaInv
  BY DEF Init, DeltaInv
<1>2. IInv /\ DeltaInv /\ [Next]_vars => DeltaInv'
  <2>. SUFFICES ASSUME IInv, DeltaInv, [Next]_vars
                PROVE  DeltaInv'
    OBVIOUS
  <2>1. CASE Accept
    <3>1. tx' = tx /\ total' = total /\ DeltaProofHolds(tx.deltaProof, Message(tx), total)
      BY <2>1 DEF Accept, Finish
    <3>. QED  BY <3>1 DEF DeltaInv
  <2>2. CASE RejectUnit \/ RejectNullifier \/ RejectCommitment \/ RejectDelta
               \/ RejectDeltaProof \/ PanicOnRecoveryByte
    <3>1. result' # "Ok"
      BY <2>2 DEF RejectUnit, RejectNullifier, RejectCommitment, RejectDelta,
                  RejectDeltaProof, PanicOnRecoveryByte, Finish
    <3>. QED  BY <3>1 DEF DeltaInv
  <2>3. CASE VerifyUnit \/ StartTags \/ ScanNullifier \/ ScanCommitment \/ NextUnit
               \/ StartDeltas \/ AddDelta
    <3>1. result' = result /\ phase # "end"
      BY <2>3 DEF VerifyUnit, StartTags, ScanNullifier, ScanCommitment, NextUnit, StartDeltas,
                  AddDelta, Enter, AtNullifier, AtCommitment
    <3>. QED  BY <3>1 DEF DeltaInv, IInv, TypeInv
  <2>4. CASE UNCHANGED vars
    BY <2>4 DEF DeltaInv, vars
  <2>. QED  BY <2>1, <2>2, <2>3, <2>4 DEF Next
<1>. QED  BY <1>1, <1>2, Invariant, PTL DEF Spec

(* The signer of the delta proof of an accepted transaction signed the     *)
(* tags of all its actions, in order.                                      *)
THEOREM DeltaProofSignsTags == Spec => []DeltaProofCoversTags
<1>1. DeltaInv => DeltaProofCoversTags
  <2>1. \A u : DeltaMsg(u) = Tags(u)
    BY DEF DeltaMsg, Tags
  <2>2. [k \in DOMAIN Units |-> DeltaMsg(Units[k])] = [k \in DOMAIN Units |-> Tags(Units[k])]
    BY <2>1
  <2>3. Message(tx) = FlattenSeq([k \in DOMAIN Units |-> Tags(Units[k])])
    BY <2>2 DEF Message, Units
  <2>. QED  BY <2>3 DEF DeltaInv, DeltaProofCoversTags, DeltaProofHolds, Recovers
<1>. QED  BY <1>1, DeltaChecked, PTL

LEMMA LastByteDetermined ==
  ASSUME NEW v \in 0..255, NEW w \in 0..255, (v - 27) % 256 = (w - 27) % 256
  PROVE  v = w
<1>1. ASSUME NEW x \in 0..255
      PROVE  (x - 27) % 256 = IF x >= 27 THEN x - 27 ELSE x + 229
  OBVIOUS
<1>. QED  BY <1>1

(* Of the encodings of an accepted signature the verifier takes one: -s is *)
(* not low, and the last byte is the parity and 27.                        *)
THEOREM DeltaProofUnique == Spec => []DeltaProofNotMalleable
<1>1. ASSUME IInv, DeltaInv PROVE DeltaProofNotMalleable
  <2>. DEFINE proof == tx.deltaProof
  <2>. SUFFICES ASSUME result = "Ok", NEW twin \in Encodings(proof),
                       DeltaProofHolds(twin, Message(tx), total)
                PROVE  twin = proof
    BY DEF DeltaProofNotMalleable
  <2>1. IsDeltaProof(proof)
    BY <1>1, TransactionsAssumption DEF IInv, TypeInv
  <2>2. DeltaProofHolds(proof, Message(tx), total)
    BY <1>1 DEF DeltaInv
  <2>3. PICK h \in BOOLEAN, v \in 0..255 :
          twin = Encoding(proof, h, v)
    BY DEF Encodings
  <2>4. /\ twin.highS = h /\ twin.v = v
        /\ h = proof.highS => twin.parity = proof.parity
    BY <2>1, <2>3 DEF IsDeltaProof, Encoding
  <2>5. h = FALSE /\ proof.highS = FALSE
    BY <2>1, <2>2, <2>4 DEF DeltaProofHolds, LowS, IsDeltaProof
  <2>6. (v - 27) % 256 = proof.parity /\ (proof.v - 27) % 256 = proof.parity
    BY <2>2, <2>4, <2>5 DEF DeltaProofHolds, Recovers, RecoveryId
  <2>7. v = proof.v
    BY <2>1, <2>6, LastByteDetermined DEF IsDeltaProof
  <2>. QED  BY <2>1, <2>3, <2>5, <2>7 DEF IsDeltaProof, Encoding
<1>. QED  BY <1>1, DeltaChecked, Invariant, PTL

-----------------------------------------------------------------------------
(* Balance.  Modulo the order, the delta of a verified unit has for every  *)
(* kind what the unit creates less what it consumes of it.                 *)

\* The lists of a verified unit are finite and made of numbers.
LEMMA WitnessOfUnit ==
  ASSUME NEW u \in VerifierInputs, UnitVerdict(u) = "Ok"
  PROVE  LET w == WitnessOf(u)
         IN  /\ IsFiniteSet(DOMAIN w.consumed) /\ IsFiniteSet(DOMAIN w.created)
             /\ HasNumbers(w)
             /\ u.delta = NetDelta(w) /\ w.kindTable = <<>>
<1>. DEFINE w == WitnessOf(u)
<1>1. u.proof.valid
  BY DEF UnitVerdict
<1>2. /\ u.consumed = ConsumedOf(w) /\ u.created = CreatedOf(w) /\ u.delta = NetDelta(w)
      /\ w.kindTable = <<>>
  BY VerdictIsAttested DEF Attested
<1>3. u.consumed \in Seq(Instances) /\ u.created \in Seq(Instances)
  BY TagLists
<1>4. IsFiniteSet(DOMAIN w.consumed) /\ IsFiniteSet(DOMAIN w.created)
  <2>1. DOMAIN u.consumed = DOMAIN w.consumed /\ DOMAIN u.created = DOMAIN w.created
    BY <1>2 DEF ConsumedOf, CreatedOf
  <2>2. IsFiniteSet(1..Len(u.consumed)) /\ IsFiniteSet(1..Len(u.created))
    BY <1>3, FS_Interval
  <2>. QED  BY <1>3, <2>1, <2>2
<1>5. HasNumbers(w)
  BY <1>1, NumbersAssumption
<1>. QED  BY <1>2, <1>4, <1>5

LEMMA DeltaOfUnit ==
  ASSUME NEW u \in VerifierInputs, UnitVerdict(u) = "Ok", NEW kind \in Kinds
  PROVE  LET w == WitnessOf(u)
         IN  /\ Quantity(w.created, kind) \in Nat /\ Quantity(w.consumed, kind) \in Nat
             /\ u.delta[kind] \in Int
             /\ Cong(u.delta[kind], Quantity(w.created, kind) - Quantity(w.consumed, kind))
BY WitnessOfUnit, DeltaOfWitness

(* The total is the sum of the deltas before the cursor, and in the end of *)
(* all.                                                                    *)
DeltasAt(b) == [u \in 1..Count |-> Units[u].delta[b]]

DeltasArePoints(n) == \A u \in 1..n : IsDeltaPoint(Units[u].delta)

AddsUp(n) == \A b \in Basis : Cong(total[b], SumOver(DeltasAt(b), 1..n))

TotalInv ==
  /\ phase \in {"units", "tags"} => total = Identity
  /\ phase = "deltas" => DeltasArePoints(unit - 1) /\ AddsUp(unit - 1)
  /\ result = "Ok" => DeltasArePoints(Count) /\ AddsUp(Count)

LEMMA AddDeltaTotal ==
  ASSUME IInv, TotalInv, AddDelta
  PROVE  TotalInv'
<1>1. /\ tx' = tx /\ phase = "deltas" /\ phase' = "deltas" /\ unit' = unit + 1
      /\ result' = result /\ total' = Plus(total, Units[unit].delta)
      /\ IsDeltaPoint(Units[unit].delta)
  BY DEF AddDelta, Unit
<1>2. Count \in Nat /\ unit \in 1..Count /\ total \in Points /\ result # "Ok"
  BY UnitsType DEF IInv, TypeInv, AddDelta, UnitsRemain, Count
<1>3. Units' = Units /\ Count' = Count
  BY <1>1, SameTransaction
<1>4. PICK n \in Nat : unit = n + 1
  <2>1. unit - 1 \in Nat /\ unit = (unit - 1) + 1
    BY <1>2
  <2>. QED  BY <2>1
<1>5. DeltasArePoints(n) /\ AddsUp(n)
  <2>1. unit - 1 = n
    BY <1>4
  <2>. QED  BY <1>1, <2>1 DEF TotalInv
<1>6. DeltasArePoints(n + 1)
  <2>1. \A u \in 1..(n + 1) : u \in 1..n \/ u = n + 1
    BY <1>4
  <2>. QED  BY <1>1, <1>4, <1>5, <2>1 DEF DeltasArePoints
<1>7. ASSUME NEW b \in Basis
      PROVE  Cong(total'[b], SumOver(DeltasAt(b), 1..(n + 1)))
  <2>. DEFINE f == DeltasAt(b)
  <2>1. \A k \in 1..(n + 1) : f[k] = Units[k].delta[b] /\ f[k] \in Int
    <3>1. \A k \in 1..(n + 1) : k \in 1..Count
      BY <1>2, <1>4
    <3>2. \A k \in 1..(n + 1) : Units[k].delta \in [Basis -> Int]
      BY <1>6, PointsAreIntegers DEF DeltasArePoints, IsDeltaPoint
    <3>. QED  BY <3>1, <3>2 DEF DeltasAt
  <2>2. n + 1 \in 1..(n + 1)
    BY <1>4
  <2>3. total[b] \in Int /\ f[n + 1] \in Int /\ f[n + 1] = Units[unit].delta[b]
    BY <1>2, <1>4, <2>1, <2>2, PointsAreIntegers
  <2>4. total'[b] = (total[b] + f[n + 1]) % Order
    BY <1>1, <2>3 DEF Plus
  <2>5. Cong(total[b], SumOver(f, 1..n))
    BY <1>5 DEF AddsUp
  <2>. HIDE DEF f
  <2>6. /\ Summable(f, 1..n)
        /\ SumOver(f, 1..(n + 1)) = SumOver(f, 1..n) + f[n + 1]
    BY <1>4, <2>1, SumUpTo
  <2>7. SumOver(f, 1..n) \in Int
    BY <2>6, SumIsInteger
  <2>8. Cong(total[b] + f[n + 1], SumOver(f, 1..(n + 1)))
    BY <2>3, <2>5, <2>6, <2>7, CongSame, CongPlus
  <2>9. total[b] + f[n + 1] \in Int /\ SumOver(f, 1..(n + 1)) \in Int
    BY <2>3, <2>6, <2>7
  <2>10. total'[b] \in Int /\ Cong(total'[b], total[b] + f[n + 1])
    BY <2>4, <2>9, CongMod
  <2>11. Cong(total'[b], SumOver(f, 1..(n + 1)))
    BY <2>8, <2>9, <2>10, CongThen
  <2>. QED  BY <2>11 DEF f
<1>8. DeltasArePoints(n + 1)' /\ AddsUp(n + 1)'
  BY <1>3, <1>6, <1>7 DEF DeltasArePoints, AddsUp, DeltasAt
<1>9. unit' - 1 = n + 1
  BY <1>1, <1>4
<1>. QED  BY <1>1, <1>2, <1>8, <1>9 DEF TotalInv

LEMMA StartDeltasTotal ==
  ASSUME IInv, TotalInv, StartDeltas
  PROVE  TotalInv'
<1>1. /\ tx' = tx /\ phase = "tags" /\ phase' = "deltas" /\ unit' = 1
      /\ result' = result /\ total' = total
  BY DEF StartDeltas, Enter
<1>2. total = Identity /\ result # "Ok" /\ unit' - 1 = 0
  BY <1>1 DEF IInv, TypeInv, TotalInv
<1>3. 1..0 = {}
  OBVIOUS
<1>4. DeltasArePoints(0)'
  BY <1>3 DEF DeltasArePoints
<1>5. AddsUp(0)'
  <2>1. \A b \in Basis : total'[b] = 0
    BY <1>1, <1>2 DEF Identity
  <2>. QED  BY <1>3, <2>1, SumEmpty, CongSame DEF AddsUp
<1>. QED  BY <1>1, <1>2, <1>4, <1>5 DEF TotalInv

LEMMA AcceptTotal ==
  ASSUME IInv, TotalInv, Accept
  PROVE  TotalInv'
<1>1. /\ tx' = tx /\ total' = total /\ phase = "deltas" /\ phase' = "end" /\ result' = "Ok"
      /\ ~(unit <= Len(Units))
  BY DEF Accept, AtDeltaProof, Finish, UnitsRemain
<1>2. Count \in Nat /\ unit - 1 = Count
  BY <1>1, UnitsType DEF IInv, TypeInv, Count
<1>3. Units' = Units /\ Count' = Count
  BY <1>1, SameTransaction
<1>4. DeltasArePoints(Count) /\ AddsUp(Count)
  BY <1>1, <1>2 DEF TotalInv
<1>5. DeltasArePoints(Count)' /\ AddsUp(Count)'
  BY <1>1, <1>3, <1>4 DEF DeltasArePoints, AddsUp, DeltasAt
<1>. QED  BY <1>1, <1>5 DEF TotalInv

LEMMA TotalInvariant == Spec => []TotalInv
<1>1. Init => TotalInv
  BY DEF Init, TotalInv
<1>2. IInv /\ TotalInv /\ [Next]_vars => TotalInv'
  <2>. SUFFICES ASSUME IInv, TotalInv, [Next]_vars
                PROVE  TotalInv'
    OBVIOUS
  <2>1. CASE RejectUnit \/ RejectNullifier \/ RejectCommitment \/ RejectDelta
               \/ RejectDeltaProof \/ PanicOnRecoveryByte
    <3>1. result' # "Ok" /\ phase' = "end"
      BY <2>1, VerdictType
      DEF RejectUnit, RejectNullifier, RejectCommitment, RejectDelta,
          RejectDeltaProof, PanicOnRecoveryByte, Finish
    <3>. QED  BY <3>1 DEF TotalInv
  <2>2. CASE VerifyUnit \/ StartTags \/ ScanNullifier \/ ScanCommitment \/ NextUnit
    <3>1. /\ result' = result /\ total' = total /\ phase \in {"units", "tags"}
          /\ phase' \in {"units", "tags"}
      BY <2>2 DEF VerifyUnit, StartTags, ScanNullifier, ScanCommitment, NextUnit, Enter,
                  AtNullifier, AtCommitment
    <3>. QED  BY <3>1 DEF TotalInv, IInv, TypeInv
  <2>3. CASE UNCHANGED vars
    <3>1. /\ phase' = phase /\ result' = result /\ total' = total /\ unit' = unit
          /\ Units' = Units /\ Count' = Count
      BY <2>3, SameTransaction DEF vars
    <3>. QED  BY <3>1 DEF TotalInv, DeltasArePoints, AddsUp, DeltasAt
  <2>. QED
    BY <2>1, <2>2, <2>3, AddDeltaTotal, StartDeltasTotal, AcceptTotal DEF Next
<1>. QED  BY <1>1, <1>2, Invariant, PTL DEF Spec

\* The delta proof leaves nothing of any kind.
LEMMA NothingLeft ==
  ASSUME tx \in Transactions, DeltaProofHolds(tx.deltaProof, Message(tx), total),
         NEW kind \in Kinds
  PROVE  total[kind] = 0
<1>1. total = Times(BasisPoint(Generator), tx.deltaProof.key) /\ tx.deltaProof.key \in Nat
  <2>1. tx.deltaProof.key \in 1..(Order - 1)
    BY TransactionsAssumption DEF IsDeltaProof
  <2>. QED  BY <2>1, OrderAssumption DEF DeltaProofHolds, Recovers
<1>2. kind \in Basis /\ kind # Generator
  BY GeneratorAssumption DEF Basis
<1>3. total[kind] = (0 * tx.deltaProof.key) % Order
  BY <1>1, <1>2 DEF Times, BasisPoint
<1>4. 0 * tx.deltaProof.key = 0 /\ 0 % Order = 0
  BY <1>1, OrderAssumption
<1>. QED  BY <1>3, <1>4

(* For every kind an accepted transaction creates as much as it consumes,  *)
(* in integers: the deltas add up to a multiple of the generator, so for   *)
(* a kind the sum is zero modulo the order, and the quantities are too     *)
(* small for any other multiple of the order.                              *)
THEOREM AcceptedIsBalanced == Spec => []Balanced
<1>1. ASSUME IInv, DeltaInv, TotalInv PROVE Balanced
  <2>. SUFFICES ASSUME result = "Ok", NEW kind \in Kinds
                PROVE  SumFunction([u \in DOMAIN Units |-> Quantity(WitnessOf(Units[u]).created, kind)
                                                  - Quantity(WitnessOf(Units[u]).consumed, kind)]) = 0
    BY DEF Balanced
  <2>. DEFINE D == 1..Count
              made == [u \in DOMAIN Units |-> Quantity(WitnessOf(Units[u]).created, kind)]
              used == [u \in DOMAIN Units |-> Quantity(WitnessOf(Units[u]).consumed, kind)]
              net == [u \in DOMAIN Units |-> Quantity(WitnessOf(Units[u]).created, kind)
                                               - Quantity(WitnessOf(Units[u]).consumed, kind)]
              deltas == DeltasAt(kind)
  <2>1. tx \in Transactions /\ Count \in Nat /\ DOMAIN Units = D
    BY <1>1, UnitsType DEF IInv, TypeInv, Count
  <2>2. IsFiniteSet(D)
    BY <2>1, FS_Interval
  <2>3. ASSUME NEW u \in D
        PROVE  /\ Units[u] \in VerifierInputs /\ UnitVerdict(Units[u]) = "Ok"
               /\ Units[u].proof.valid
    <3>1. Units[u] \in VerifierInputs /\ UnitVerdict(Units[u]) = "Ok"
      BY <1>1, <2>1, UnitsType DEF IInv, Verified
    <3>. QED  BY <3>1 DEF UnitVerdict
  <2>4. ASSUME NEW u \in D
        PROVE  /\ made[u] \in Nat /\ used[u] \in Nat /\ net[u] = made[u] - used[u]
               /\ deltas[u] \in Int /\ Cong(deltas[u], made[u] - used[u])
    BY <2>1, <2>3, DeltaOfUnit DEF DeltasAt
  <2>5. /\ SumOver(made, D) < Order /\ SumOver(used, D) < Order
    <3>1. \A u \in DOMAIN tx.units : tx.units[u].proof.valid
      BY <2>1, <2>3 DEF Units
    <3>2. SumFunction(made) < Order /\ SumFunction(used) < Order
      BY <2>1, <3>1, QuantitiesAssumption DEF BelowOrder, Units
    <3>3. DOMAIN made = D /\ DOMAIN used = D
      BY <2>1
    <3>. QED  BY <3>2, <3>3, SumFunctionIs
  <2>6. SumFunction(net) = SumOver(net, D)
    BY <2>1, SumFunctionIs
  <2>7. Cong(total[kind], SumOver(deltas, D))
    BY <1>1 DEF TotalInv, AddsUp, Basis
  <2>8. total[kind] = 0
    BY <1>1, <2>1, NothingLeft DEF DeltaInv
  <2>. HIDE DEF D, made, used, net, deltas
  <2>9. Summable(made, D) /\ Summable(used, D)
    BY <2>2, <2>4 DEF Summable
  <2>10. SumOver(net, D) = SumOver(made, D) - SumOver(used, D)
    BY <2>4, <2>9, SumMinus
  <2>11. SumOver(made, D) = SumOver(used, D)
    BY <2>2, <2>4, <2>5, <2>7, <2>8, SmallSumsCancel
  <2>12. SumOver(made, D) \in Int /\ SumOver(used, D) \in Int
    BY <2>9, SumIsInteger
  <2>. QED  BY <2>6, <2>10, <2>11, <2>12 DEF net
<1>. QED  BY <1>1, DeltaChecked, TotalInvariant, Invariant, PTL

-----------------------------------------------------------------------------
(* The verifier as one decision.                                           *)

\* If no kind is registered, the delta of an entry is a point.
LEMMA TotalIsInteger ==
  ASSUME NEW entries, IsFiniteSet(DOMAIN entries), NEW b \in Basis, AreNumbers(entries)
  PROVE  Total(<<>>, entries, b) \in Int
<1>. DEFINE f == Coordinates(<<>>, entries, b)
<1>1. ASSUME NEW k \in DOMAIN entries
      PROVE  f[k] \in Int
  <2>. DEFINE e == entries[k]
              value == Times(BasisPoint(KindOf(e.resource)), e.resource.quantity)
              blind == Times(BasisPoint(Generator), e.deltaExtraInput)
  <2>1. LookupKind(<<>>, e.resource) = BasisPoint(KindOf(e.resource))
    BY DEF LookupKind, ComputeKind
  <2>2. e.resource.quantity \in Int /\ e.deltaExtraInput \in Int
    BY DEF AreNumbers
  <2>3. value \in [Basis -> Int]
    BY <2>2, TimesIsPoint, BasisPointIsPoint, PointsAreIntegers
  <2>4. blind \in [Basis -> Int]
    BY <2>2, TimesIsPoint, BasisPointIsPoint, PointsAreIntegers
  <2>5. Plus(value, blind) \in [Basis -> Int]
    BY <2>3, <2>4, PlusIsPoint, PointsAreIntegers
  <2>6. ToDelta(<<>>, e) = Plus(value, blind)
    BY <2>1 DEF ToDelta
  <2>. QED  BY <2>5, <2>6 DEF Coordinates
<1>. HIDE DEF f
<1>2. SumOver(f, DOMAIN entries) \in Int
  BY <1>1, SumIsInteger DEF Summable
<1>. QED  BY <1>2, TotalIs DEF f

LEMMA NetDeltaIsPoint ==
  ASSUME NEW u \in VerifierInputs, UnitVerdict(u) = "Ok"
  PROVE  u.delta \in Points
<1>. DEFINE w == WitnessOf(u)
<1>1. u.delta = NetDelta(w) /\ w.kindTable = <<>>
  BY WitnessOfUnit
<1>2. ASSUME NEW b \in Basis
      PROVE  (Total(<<>>, w.created, b) - Total(<<>>, w.consumed, b)) % Order \in Scalars
  <2>1. Total(<<>>, w.created, b) \in Int
    BY WitnessOfUnit, TotalIsInteger DEF HasNumbers
  <2>2. Total(<<>>, w.consumed, b) \in Int
    BY WitnessOfUnit, TotalIsInteger DEF HasNumbers
  <2>3. \A x, y \in Int : (x - y) % Order \in Scalars
    BY OrderAssumption DEF Scalars
  <2>. QED  BY <2>1, <2>2, <2>3
<1>. QED  BY <1>1, <1>2 DEF NetDelta, Points

AllAttested == \A u \in 1..Count : Attested(Units[u])

\* The scan compares the tags of the witnesses.
LEMMA DistinctTags ==
  ASSUME IInv, AllAttested
  PROVE  AllDistinct <=> Distinct(tx, NullifiersOf) /\ Distinct(tx, CommitmentsOf)
<1>1. DOMAIN tx.units = 1..Count
  BY Domains DEF Units
<1>. DEFINE nfs(u) == NullifiersOf(WitnessOf(Units[u]))
            cms(u) == CommitmentsOf(WitnessOf(Units[u]))
<1>2. ASSUME NEW u \in 1..Count
      PROVE  /\ DOMAIN nfs(u) = Nfs(u)
             /\ \A m \in Nfs(u) : nfs(u)[m] = Units[u].consumed[m].nullifier
             /\ DOMAIN cms(u) = Cms(u)
             /\ \A k \in Cms(u) : cms(u)[k] = Units[u].created[k].commitment
  <2>1. /\ NullifiersIn(Units[u]) = NullifiersOf(WitnessOf(Units[u]))
        /\ CommitmentsIn(Units[u]) = CommitmentsOf(WitnessOf(Units[u]))
    BY TagsOfWitness DEF AllAttested, Attested
  <2>2. DOMAIN Units[u].consumed = Nfs(u) /\ DOMAIN Units[u].created = Cms(u)
    BY Domains
  <2>3. /\ DOMAIN NullifiersIn(Units[u]) = Nfs(u)
        /\ \A m \in Nfs(u) : NullifiersIn(Units[u])[m] = Units[u].consumed[m].nullifier
    BY <2>2 DEF NullifiersIn
  <2>4. /\ DOMAIN CommitmentsIn(Units[u]) = Cms(u)
        /\ \A k \in Cms(u) : CommitmentsIn(Units[u])[k] = Units[u].created[k].commitment
    BY <2>2 DEF CommitmentsIn
  <2>. QED  BY <2>1, <2>3, <2>4
<1>3. Distinct(tx, NullifiersOf) <=>
        \A u, v \in 1..Count : \A m \in DOMAIN nfs(u), n \in DOMAIN nfs(v) :
          nfs(u)[m] = nfs(v)[n] => u = v /\ m = n
  BY <1>1 DEF Distinct, Units
<1>4. Distinct(tx, CommitmentsOf) <=>
        \A u, v \in 1..Count : \A k \in DOMAIN cms(u), n \in DOMAIN cms(v) :
          cms(u)[k] = cms(v)[n] => u = v /\ k = n
  BY <1>1 DEF Distinct, Units
<1>. HIDE DEF nfs, cms
<1>5. Distinct(tx, NullifiersOf) <=>
        \A u, v \in 1..Count : \A m \in Nfs(u), n \in Nfs(v) :
          Units[u].consumed[m].nullifier = Units[v].consumed[n].nullifier => u = v /\ m = n
  BY <1>2, <1>3
<1>6. Distinct(tx, CommitmentsOf) <=>
        \A u, v \in 1..Count : \A k \in Cms(u), n \in Cms(v) :
          Units[u].created[k].commitment = Units[v].created[n].commitment => u = v /\ k = n
  BY <1>2, <1>4
<1>. QED  BY <1>5, <1>6 DEF AllDistinct

\* The total is the sum that the statement asks for.
LEMMA TotalIsSum ==
  ASSUME IInv, AllAttested, DeltasArePoints(Count), AddsUp(Count), NEW b \in Basis
  PROVE  total[b] = SumFunction([k \in DOMAIN tx.units |->
                                   NetDelta(WitnessOf(tx.units[k]))[b]]) % Order
<1>. DEFINE f == [k \in DOMAIN tx.units |-> NetDelta(WitnessOf(tx.units[k]))[b]]
            x == SumOver(f, 1..Count)
<1>1. DOMAIN tx.units = 1..Count /\ Count \in Nat
  BY Domains, UnitsType DEF Units, IInv, TypeInv
<1>2. \A k \in 1..Count : Units[k].delta = NetDelta(WitnessOf(Units[k]))
  BY DEF AllAttested, Attested
<1>3. f = DeltasAt(b)
  BY <1>1, <1>2 DEF DeltasAt, Units
<1>4. \A k \in 1..Count : f[k] \in Int
  <2>1. \A k \in 1..Count : Units[k].delta \in [Basis -> Int]
    BY PointsAreIntegers DEF DeltasArePoints, IsDeltaPoint
  <2>. QED  BY <1>3, <2>1 DEF DeltasAt
<1>5. SumFunction(f) = x
  BY <1>1, SumFunctionIs
<1>6. Cong(total[b], x)
  BY <1>3 DEF AddsUp
<1>. HIDE DEF f
<1>7. x \in Int
  <2>1. IsFiniteSet(1..Count)
    BY <1>1, FS_Interval
  <2>. QED  BY <1>4, <2>1, SumIsInteger DEF Summable
<1>. HIDE DEF x
<1>8. total[b] \in Scalars /\ x % Order \in Scalars
  BY <1>7, OrderAssumption DEF IInv, TypeInv, Points, Scalars
<1>9. total[b] \in Int /\ x % Order \in Int
  BY <1>8 DEF Scalars
<1>10. Cong(x % Order, x)
  BY <1>7, CongMod
<1>11. Cong(total[b], x % Order)
  BY <1>6, <1>7, <1>9, <1>10, CongBack, CongThen
<1>12. total[b] - (x % Order) < Order /\ (x % Order) - total[b] < Order
  BY <1>8, OrderAssumption DEF Scalars
<1>13. total[b] = x % Order
  BY <1>9, <1>11, <1>12, CongClose
<1>. QED  BY <1>5, <1>13 DEF f

\* The point of a key.
LEMMA KeyPoint ==
  ASSUME NEW key \in 1..(Order - 1), NEW b \in Basis
  PROVE  Times(BasisPoint(Generator), key)[b] = IF b = Generator THEN key ELSE 0
<1>1. Times(BasisPoint(Generator), key)[b] = (BasisPoint(Generator)[b] * key) % Order
  BY DEF Times
<1>2. BasisPoint(Generator)[b] = IF b = Generator THEN 1 ELSE 0
  BY DEF BasisPoint
<1>3. key \in Nat /\ 1 * key = key /\ 0 * key = 0
  BY OrderAssumption
<1>4. key % Order = key /\ 0 % Order = 0
  BY OrderAssumption
<1>. QED  BY <1>1, <1>2, <1>3, <1>4

(* The delta proof is accepted exactly when the statement calls the        *)
(* transaction signed.                                                     *)
LEMMA ProofIsSigned ==
  ASSUME IInv, AllAttested, DeltasArePoints(Count), AddsUp(Count)
  PROVE  DeltaProofHolds(tx.deltaProof, Message(tx), total) <=> Signed(tx)
<1>. DEFINE proof == tx.deltaProof
            key == Times(BasisPoint(Generator), proof.key)
            sums == \A b \in Basis :
                      SumFunction([k \in DOMAIN tx.units |->
                                     NetDelta(WitnessOf(tx.units[k]))[b]]) % Order
                        = IF b = Generator THEN proof.key ELSE 0
<1>1. IsDeltaProof(proof)
  BY TransactionsAssumption DEF IInv, TypeInv
<1>2. proof.key \in 1..(Order - 1) /\ proof.v \in 0..255 /\ proof.parity \in {0, 1}
  BY <1>1 DEF IsDeltaProof
<1>3. \A b \in Basis : key[b] = IF b = Generator THEN proof.key ELSE 0
  BY <1>2, KeyPoint
<1>4. total = [b \in Basis |-> total[b]] /\ key = [b \in Basis |-> key[b]]
  BY DEF IInv, TypeInv, Points, Times
<1>5. total = key <=> sums
  <2>1. sums <=> \A b \in Basis : total[b] = key[b]
    BY <1>3, TotalIsSum
  <2>. HIDE DEF key, sums
  <2>. QED  BY <1>4, <2>1
<1>6. total = key => total # Identity
  <2>1. Generator \in Basis /\ key[Generator] = proof.key
    BY <1>3 DEF Basis
  <2>2. Identity[Generator] = 0 /\ proof.key # 0
    BY <1>2, <2>1 DEF Identity
  <2>. QED  BY <2>1, <2>2
<1>7. RecoveryId(proof) <= 1 /\ RecoveryId(proof) = proof.parity <=> proof.v = 27 + proof.parity
  BY <1>2 DEF RecoveryId
<1>8. Message(tx) = AllTags(tx)
  <2>1. DOMAIN tx.units = 1..Count
    BY Domains DEF Units
  <2>2. \A k \in DOMAIN tx.units : DeltaMsg(tx.units[k]) = ActionTags(WitnessOf(tx.units[k]))
    BY <2>1, TagsOfWitness DEF AllAttested, Attested, Units
  <2>3. [k \in DOMAIN tx.units |-> DeltaMsg(tx.units[k])]
          = [k \in DOMAIN tx.units |-> ActionTags(WitnessOf(tx.units[k]))]
    BY <2>2
  <2>. QED  BY <2>3 DEF Message, AllTags
<1>9. Signed(tx) <=> /\ sums
                     /\ proof.message = Keccak(Message(tx))
                     /\ proof.wellFormed /\ ~proof.highS
                     /\ proof.v = 27 + proof.parity
  BY <1>8 DEF Signed
<1>10. DeltaProofHolds(proof, Message(tx), total) <=>
         /\ total # Identity
         /\ proof.wellFormed /\ RecoveryId(proof) <= 1 /\ ~proof.highS
         /\ proof.message = Keccak(Message(tx)) /\ RecoveryId(proof) = proof.parity
         /\ total = key
  BY DEF DeltaProofHolds, LowS, Recovers
<1>. HIDE DEF sums, key, proof
<1>11. DeltaProofHolds(proof, Message(tx), total) <=> Signed(tx)
  BY <1>5, <1>6, <1>7, <1>9, <1>10
<1>. QED  BY <1>11 DEF proof

\* Without units there is nothing to sign.
LEMMA SumOfNothing ==
  ASSUME IInv, AddsUp(0)
  PROVE  total = Identity
<1>1. ASSUME NEW b \in Basis
      PROVE  total[b] = 0
  <2>1. SumOver(DeltasAt(b), 1..0) = 0
    <3>1. 1..0 = {}
      OBVIOUS
    <3>. QED  BY <3>1, SumEmpty
  <2>2. Cong(total[b], 0)
    BY <2>1 DEF AddsUp
  <2>3. total[b] \in Scalars
    BY DEF IInv, TypeInv, Points
  <2>4. total[b] \in Int /\ total[b] - 0 < Order /\ 0 - total[b] < Order
    BY <2>3, OrderAssumption DEF Scalars
  <2>. QED  BY <2>2, <2>4, CongClose
<1>2. total = [b \in Basis |-> total[b]]
  BY DEF IInv, TypeInv, Points
<1>. QED  BY <1>1, <1>2 DEF Identity

\* Past the first loop the statement holds of every unit.
LEMMA PastUnits ==
  ASSUME IInv, phase \in {"tags", "deltas"}
  PROVE  AllAttested
BY UnitsType, VerdictIsAttested DEF IInv, TypeInv, Verified, AllAttested

\* Past the last unit all deltas are added up.
LEMMA PastDeltas ==
  ASSUME IInv, TotalInv, AtDeltaProof
  PROVE  AllAttested /\ AllDistinct /\ DeltasArePoints(Count) /\ AddsUp(Count)
<1>1. phase = "deltas" /\ ~(unit <= Len(Units))
  BY DEF AtDeltaProof, UnitsRemain
<1>2. unit - 1 = Count
  BY <1>1, UnitsType DEF IInv, TypeInv, Count
<1>3. AllAttested
  BY <1>1, PastUnits
<1>. QED  BY <1>1, <1>2, <1>3 DEF TotalInv, IInv, ScanPassed

LEMMA AcceptDeserved ==
  ASSUME IInv, TotalInv, Accept
  PROVE  Deserving(tx)
<1>1. /\ AllAttested /\ AllDistinct /\ DeltasArePoints(Count) /\ AddsUp(Count)
      /\ DeltaProofHolds(tx.deltaProof, Message(tx), total)
  BY PastDeltas DEF Accept
<1>2. Distinct(tx, NullifiersOf) /\ Distinct(tx, CommitmentsOf) /\ Signed(tx)
  BY <1>1, DistinctTags, ProofIsSigned
<1>3. DOMAIN tx.units = 1..Count /\ Count \in Nat
  BY Domains, UnitsType DEF Units, IInv, TypeInv
<1>4. ASSUME NEW k \in DOMAIN tx.units
      PROVE  Attested(tx.units[k]) /\ NetDelta(WitnessOf(tx.units[k])) # Identity
  BY <1>1, <1>3 DEF AllAttested, Attested, DeltasArePoints, IsDeltaPoint, Units
<1>5. tx.units # <<>>
  <2>1. total # Identity
    BY <1>1 DEF DeltaProofHolds
  <2>2. Count # 0
    BY <1>1, <2>1, SumOfNothing
  <2>. QED  BY <2>2 DEF Count, Units
<1>. QED  BY <1>2, <1>4, <1>5 DEF Deserving

LEMMA RejectUndeserving ==
  ASSUME IInv, TotalInv,
         RejectUnit \/ RejectNullifier \/ RejectCommitment \/ RejectDelta
           \/ RejectDeltaProof \/ PanicOnRecoveryByte
  PROVE  ~Deserving(tx)
<1>. SUFFICES ASSUME Deserving(tx) PROVE FALSE
  OBVIOUS
<1>1. DOMAIN tx.units = 1..Count /\ Count \in Nat /\ Units = tx.units
      /\ \A u \in 1..Count : Units[u] \in VerifierInputs
  BY Domains, UnitsType DEF Units, IInv, TypeInv
<1>2. AllAttested
  BY <1>1 DEF Deserving, AllAttested
<1>3. AllDistinct /\ Signed(tx)
  BY <1>2, DistinctTags DEF Deserving
<1>4. UnitsRemain => unit \in 1..Count
  BY <1>1 DEF UnitsRemain, Count, IInv, TypeInv
<1>5. CASE RejectUnit
  <2>1. unit \in 1..Count /\ UnitVerdict(Units[unit]) # "Ok"
    BY <1>4, <1>5 DEF RejectUnit, Unit
  <2>. QED  BY <1>1, <1>2, <2>1, VerdictIsAttested DEF AllAttested
<1>6. CASE RejectNullifier
  <2>1. /\ unit \in 1..Count /\ entry \in Nfs(unit)
        /\ Units[unit].consumed[entry].nullifier \in seenNullifiers
        /\ phase = "tags"
    BY <1>4, <1>6, CurrentNullifier DEF RejectNullifier, AtNullifier
  <2>2. \E u \in 1..Count : \E m \in Nfs(u) :
          NfPassed(u, m) /\ Units[unit].consumed[entry].nullifier = Units[u].consumed[m].nullifier
    BY <2>1 DEF IInv, NullifiersScanned
  <2>3. ~NfPassed(unit, entry)
    BY <2>1 DEF NfPassed, IInv, TypeInv
  <2>. QED  BY <1>3, <2>1, <2>2, <2>3 DEF AllDistinct
<1>7. CASE RejectCommitment
  <2>1. unit \in 1..Count /\ phase = "tags" /\ EntryTag \in seenCommitments
    BY <1>4, <1>7 DEF RejectCommitment, AtCommitment
  <2>2. PICK e \in Cms(unit) : /\ entry = Len(Units[unit].consumed) + e
                              /\ EntryTag = Units[unit].created[e].commitment
    BY <1>7, CurrentCommitment DEF RejectCommitment
  <2>3. \E u \in 1..Count : \E k \in Cms(u) :
          CmPassed(u, k) /\ EntryTag = Units[u].created[k].commitment
    BY <2>1 DEF IInv, CommitmentsScanned
  <2>4. ~CmPassed(unit, e)
    BY <2>1, <2>2 DEF CmPassed, IInv, TypeInv
  <2>. QED  BY <1>3, <2>1, <2>2, <2>3, <2>4 DEF AllDistinct
<1>8. CASE RejectDelta
  <2>1. unit \in 1..Count /\ ~IsDeltaPoint(Units[unit].delta) /\ Units[unit] \in VerifierInputs
    BY <1>1, <1>4, <1>8 DEF RejectDelta, Unit
  <2>2. Attested(Units[unit]) /\ NetDelta(WitnessOf(Units[unit])) # Identity
    BY <1>1, <2>1 DEF Deserving
  <2>3. Units[unit].delta # Identity
    BY <2>2 DEF Attested
  <2>4. Units[unit].delta \in Points
    BY <2>1, <2>2, VerdictIsAttested, NetDeltaIsPoint
  <2>. QED  BY <2>1, <2>3, <2>4 DEF IsDeltaPoint
<1>9. CASE RejectDeltaProof
  BY <1>3, <1>9, PastDeltas, ProofIsSigned DEF RejectDeltaProof
<1>10. CASE PanicOnRecoveryByte
  <2>1. tx.deltaProof.v < 27 /\ tx.deltaProof.v = 27 + tx.deltaProof.parity
    BY <1>3, <1>10 DEF PanicOnRecoveryByte, SubtractionOverflows, Signed
  <2>2. tx.deltaProof.parity \in {0, 1}
    BY TransactionsAssumption DEF IsDeltaProof, IInv, TypeInv
  <2>. QED  BY <2>1, <2>2
<1>. QED  BY <1>5, <1>6, <1>7, <1>8, <1>9, <1>10

\* A step decides as the contract does, or is none of its business.
LEMMA StepDecides ==
  IInv /\ TotalInv /\ [Next]_vars => [Contract!Decide]_(Contract!vars)
<1>. SUFFICES ASSUME IInv, TotalInv, [Next]_vars
              PROVE  [Contract!Decide]_(Contract!vars)
  OBVIOUS
<1>1. CASE VerifyUnit \/ StartTags \/ ScanNullifier \/ ScanCommitment \/ NextUnit
             \/ StartDeltas \/ AddDelta \/ UNCHANGED vars
  <2>1. tx' = tx /\ result' = result
    BY <1>1 DEF VerifyUnit, StartTags, ScanNullifier, ScanCommitment, NextUnit, StartDeltas,
                AddDelta, Enter, vars
  <2>. QED  BY <2>1 DEF Contract!vars
<1>2. CASE Accept
  <2>1. tx' = tx /\ result = "running" /\ result' = "Ok"
    BY <1>2 DEF Accept, AtDeltaProof, Finish, IInv, TypeInv
  <2>2. Deserving(tx)
    BY <1>2, AcceptDeserved
  <2>. QED  BY <2>1, <2>2 DEF Contract!Decide
<1>3. CASE RejectUnit \/ RejectNullifier \/ RejectCommitment \/ RejectDelta
             \/ RejectDeltaProof \/ PanicOnRecoveryByte
  <2>1. tx' = tx /\ result = "running" /\ result' \in Errors
    BY <1>3, VerdictType
    DEF RejectUnit, RejectNullifier, RejectCommitment, RejectDelta, RejectDeltaProof,
        PanicOnRecoveryByte, AtNullifier, AtCommitment, AtDeltaProof, Finish, Errors, IInv, TypeInv
  <2>2. ~Deserving(tx)
    BY <1>3, RejectUndeserving
  <2>. QED  BY <2>1, <2>2 DEF Contract!Decide, Errors
<1>. QED  BY <1>1, <1>2, <1>3 DEF Next

(* The verifier implements its contract, but for its liveness: the three   *)
(* loops over a transaction of any size are one decision, which accepts    *)
(* exactly the transactions that deserve it by the witnesses behind their  *)
(* proofs and turns down all others.                                       *)
THEOREM VerifierKeepsContract == Spec => Contract!Safety
<1>1. Init => Contract!Init
  BY DEF Init, Contract!Init
<1>. QED
  BY <1>1, Invariant, TotalInvariant, StepDecides, PTL DEF Spec, Contract!Safety
=============================================================================
