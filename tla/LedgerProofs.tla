---------------------------- MODULE LedgerProofs ----------------------------
(***************************************************************************)
(* For any number of processes and whatever arrives: no resource is spent  *)
(* twice, no commitment is stored twice, what is spent had been created,   *)
(* and nothing else turns a transaction down.  The invariant is that the   *)
(* node has stored the nullifiers of the transactions it applied, no two   *)
(* of which share one, and their commitments, and that every historic root *)
(* is the root of the tree as it once was.  All else follows from what a   *)
(* verified transaction is by itself.                                      *)
(***************************************************************************)
EXTENDS BasicProofs, Ledger

-----------------------------------------------------------------------------
\* What is known of a transaction once it was verified.
Trusted(tx) == Deserving(tx) /\ Sound(tx)

IsHistory == IsList(applied)

WorkersTrusted ==
  \A p \in Workers : worker[p] # Idle => Trusted(worker[p].tx)

AppliedTrusted == \A n \in DOMAIN applied : Trusted(applied[n])

NullifiersStored ==
  nullifiers = UNION {TransactionNullifiers(applied[n]) : n \in DOMAIN applied}

NullifiersDisjoint ==
  \A m, n \in DOMAIN applied :
     m # n => TransactionNullifiers(applied[m]) \cap TransactionNullifiers(applied[n]) = {}

\* The transaction consumes, creates the resource.
Spends(tx, r) ==
  \E k \in DOMAIN tx.units : \E e \in Items(WitnessOf(tx.units[k]).consumed) : e.resource = r

Makes(tx, r) ==
  \E k \in DOMAIN tx.units : \E e \in Items(WitnessOf(tx.units[k]).created) : e.resource = r

\* A leaf is the commitment of a resource that was created.
IsLeafOf(txs, c) ==
  \E n \in DOMAIN txs : \E k \in DOMAIN txs[n].units :
     \E a \in DOMAIN WitnessOf(txs[n].units[k]).created :
        c = Commit(WitnessOf(txs[n].units[k]).created[a].resource)

CommitmentsKnown ==
  /\ IsList(commitments)
  /\ \A i \in DOMAIN commitments : IsLeafOf(applied, commitments[i])

Prefix(s, n) == [k \in 1..n |-> s[k]]

RootsHistoric ==
  \A root \in roots : \E n \in DOMAIN commitments : root = TreeRoot(Prefix(commitments, n))

IInv == /\ DOMAIN worker = Workers
        /\ IsHistory
        /\ WorkersTrusted
        /\ AppliedTrusted
        /\ NullifiersStored
        /\ NullifiersDisjoint
        /\ CommitmentsKnown
        /\ RootsHistoric

-----------------------------------------------------------------------------
(* Lists.                                                                  *)

LEMMA ListDomain ==
  ASSUME NEW s, IsList(s)
  PROVE  /\ Len(s) \in Nat
         /\ DOMAIN s = 1..Len(s)
         /\ s # <<>> => 1 \in DOMAIN s
BY DEF IsList

LEMMA ListIsFinite ==
  ASSUME NEW s, IsList(s)
  PROVE  IsFiniteSet(DOMAIN s)
<1>1. Len(s) \in Nat /\ DOMAIN s = 1..Len(s)
  BY ListDomain
<1>2. IsFiniteSet(1..Len(s))
  BY <1>1, FS_Interval
<1>. QED  BY <1>1, <1>2

LEMMA ListAppend ==
  ASSUME NEW s, IsList(s), NEW x
  PROVE  LET t == Append(s, x)
         IN  /\ IsList(t)
             /\ DOMAIN t = DOMAIN s \cup {Len(s) + 1}
             /\ Len(s) + 1 \notin DOMAIN s
             /\ t[Len(s) + 1] = x
             /\ \A k \in DOMAIN s : t[k] = s[k]
<1>. DEFINE S == {s[k] : k \in DOMAIN s} \cup {x}
            t == Append(s, x)
<1>1. s \in Seq(S)
  BY DEF IsList
<1>2. /\ t \in Seq(S)
      /\ Len(t) = Len(s) + 1
      /\ t[Len(s) + 1] = x
      /\ \A k \in 1..Len(s) : t[k] = s[k]
  BY <1>1
<1>3. DOMAIN t = DOMAIN s \cup {Len(s) + 1} /\ Len(s) + 1 \notin DOMAIN s
  BY <1>1, <1>2
<1>4. t \in Seq({t[k] : k \in DOMAIN t})
  BY <1>2
<1>. QED  BY <1>1, <1>2, <1>3, <1>4 DEF IsList

\* Prefixes of a list stay what they are when the list grows.
LEMMA ListConcat ==
  ASSUME NEW s, IsList(s), NEW t, IsList(t)
  PROVE  /\ IsList(s \o t)
         /\ Len(s \o t) = Len(s) + Len(t)
         /\ DOMAIN (s \o t) = 1..(Len(s) + Len(t))
         /\ Items(s \o t) = Items(s) \cup Items(t)
         /\ \A n \in DOMAIN s : n \in DOMAIN (s \o t) /\ Prefix(s \o t, n) = Prefix(s, n)
<1>. DEFINE S == Items(s) \cup Items(t)
            c == s \o t
<1>1. s \in Seq(S) /\ t \in Seq(S)
  <2>1. s \in Seq(Items(s)) /\ t \in Seq(Items(t))
    BY DEF IsList, Items
  <2>. HIDE DEF S
  <2>2. Items(s) \subseteq S /\ Items(t) \subseteq S
    BY DEF S
  <2>. QED  BY <2>1, <2>2
<1>2. Items(c) = S
  BY <1>1, ConcatHas
<1>. HIDE DEF S
<1>3. /\ c \in Seq(S)
      /\ Len(c) = Len(s) + Len(t)
      /\ DOMAIN c = 1..(Len(s) + Len(t))
      /\ \A k \in 1..Len(s) : c[k] = s[k]
  BY <1>1
<1>4. IsList(c)
  BY <1>2, <1>3 DEF IsList, Items
<1>5. ASSUME NEW n \in DOMAIN s
      PROVE  n \in DOMAIN c /\ Prefix(c, n) = Prefix(s, n)
  <2>1. n \in 1..Len(s) /\ n \in DOMAIN c
    BY <1>1, <1>3
  <2>. HIDE DEF c
  <2>. QED  BY <1>1, <1>3, <2>1 DEF Prefix
<1>. QED  BY <1>2, <1>3, <1>4, <1>5 DEF S

LEMMA PrefixOfAll ==
  ASSUME NEW s, IsList(s), s # <<>>
  PROVE  Len(s) \in DOMAIN s /\ s = Prefix(s, Len(s))
BY DEF IsList, Prefix

\* The concatenation of lists has what they have.
LEMMA FlattenLists ==
  ASSUME NEW ss, IsList(ss), \A k \in DOMAIN ss : IsList(ss[k])
  PROVE  /\ IsList(FlattenSeq(ss))
         /\ Items(FlattenSeq(ss)) = UNION {Items(ss[k]) : k \in DOMAIN ss}
<1>. DEFINE S == UNION {Items(ss[k]) : k \in DOMAIN ss}
            f == FlattenSeq(ss)
<1>1. ASSUME NEW k \in DOMAIN ss
      PROVE  ss[k] \in Seq(S)
  <2>1. ss[k] \in Seq(Items(ss[k])) /\ Items(ss[k]) \subseteq S
    BY <1>1 DEF IsList, Items
  <2>. HIDE DEF S
  <2>. QED  BY <2>1
<1>2. ss \in Seq({ss[k] : k \in DOMAIN ss})
  BY DEF IsList
<1>3. {ss[k] : k \in DOMAIN ss} \subseteq Seq(S)
  BY <1>1
<1>. HIDE DEF S
<1>4. ss \in Seq(Seq(S))
  BY <1>2, <1>3
<1>5. f \in Seq(S) /\ Items(f) = UNION {Items(ss[k]) : k \in DOMAIN ss}
  BY <1>4, FlattenHas
<1>. HIDE DEF f
<1>6. f \in Seq(Items(f))
  BY <1>5 DEF S
<1>. QED  BY <1>5, <1>6 DEF IsList, Items, f

LEMMA ListOfFunction ==
  ASSUME NEW n \in Nat, NEW f, f = [k \in 1..n |-> f[k]]
  PROVE  IsList(f) /\ Len(f) = n
<1>. DEFINE S == {f[k] : k \in DOMAIN f}
<1>1. DOMAIN f = 1..n /\ \A k \in 1..n : f[k] \in S
  <2>1. DOMAIN f = 1..n
    OBVIOUS
  <2>. QED  BY <2>1
<1>. HIDE DEF S
<1>2. f \in Seq(S) /\ Len(f) = n
  <2>1. [k \in 1..n |-> f[k]] \in Seq(S) /\ Len([k \in 1..n |-> f[k]]) = n
    BY <1>1
  <2>. QED  BY <2>1
<1>. QED  BY <1>2 DEF IsList, S

-----------------------------------------------------------------------------
(* Transactions by themselves.                                             *)

\* A unit of a verified transaction lists what an acceptable witness says.
LEMMA UnitTrusted ==
  ASSUME NEW tx, Trusted(tx), NEW k \in DOMAIN tx.units
  PROVE  LET u == tx.units[k]
             w == WitnessOf(u)
         IN  /\ Acceptable(w)
             /\ IsList(w.consumed) /\ IsList(w.created)
             /\ u.consumed = ConsumedOf(w) /\ u.created = CreatedOf(w)
BY DEF Trusted, Deserving, Attested, Sound, WitnessOf

\* What a unit consumes is consumed by its transaction.
LEMMA NullifierOfEntry ==
  ASSUME NEW tx, Trusted(tx), NEW k \in DOMAIN tx.units,
         NEW a \in DOMAIN WitnessOf(tx.units[k]).consumed
  PROVE  /\ a \in DOMAIN NullifiersOf(WitnessOf(tx.units[k]))
         /\ NullifiersOf(WitnessOf(tx.units[k]))[a] =
              Nullifier(WitnessOf(tx.units[k]).consumed[a])
         /\ Nullifier(WitnessOf(tx.units[k]).consumed[a]) \in TransactionNullifiers(tx)
<1>. DEFINE c == WitnessOf(tx.units[k]).consumed
<1>1. tx.units[k].consumed = [n \in DOMAIN c |-> ConsumedInstance(c[n])]
  BY UnitTrusted DEF ConsumedOf
<1>2. a \in DOMAIN tx.units[k].consumed /\ tx.units[k].consumed[a] = ConsumedInstance(c[a])
  BY <1>1
<1>3. tx.units[k].consumed[a].nullifier = Nullifier(c[a])
  BY <1>2 DEF ConsumedInstance
<1>4. Nullifier(c[a]) \in TransactionNullifiers(tx)
  BY <1>2, <1>3 DEF TransactionNullifiers
<1>. QED  BY <1>4 DEF NullifiersOf

LEMMA CommitmentOfEntry ==
  ASSUME NEW tx, Trusted(tx), NEW k \in DOMAIN tx.units, NEW a \in DOMAIN tx.units[k].created
  PROVE  /\ a \in DOMAIN WitnessOf(tx.units[k]).created
         /\ tx.units[k].created[a].commitment = Commit(WitnessOf(tx.units[k]).created[a].resource)
<1>. DEFINE c == WitnessOf(tx.units[k]).created
<1>1. tx.units[k].created = [n \in DOMAIN c |-> CreatedInstance(c[n])]
  BY UnitTrusted DEF CreatedOf
<1>2. a \in DOMAIN c /\ tx.units[k].created[a] = CreatedInstance(c[a])
  BY <1>1
<1>. QED  BY <1>2 DEF CreatedInstance

LEMMA EntryCommitment ==
  ASSUME NEW tx, Trusted(tx), NEW k \in DOMAIN tx.units,
         NEW a \in DOMAIN WitnessOf(tx.units[k]).created
  PROVE  /\ a \in DOMAIN tx.units[k].created
         /\ tx.units[k].created[a].commitment = Commit(WitnessOf(tx.units[k]).created[a].resource)
<1>1. tx.units[k].created = CreatedOf(WitnessOf(tx.units[k]))
  BY UnitTrusted
<1>2. a \in DOMAIN tx.units[k].created
  BY <1>1 DEF CreatedOf
<1>. QED  BY <1>2, CommitmentOfEntry

LEMMA NullifierList ==
  ASSUME NEW w, IsList(w.consumed)
  PROVE  NullifiersOf(w) \in Seq({Nullifier(w.consumed[n]) : n \in DOMAIN w.consumed})
<1>. DEFINE S == {Nullifier(w.consumed[n]) : n \in DOMAIN w.consumed}
<1>1. Len(w.consumed) \in Nat /\ DOMAIN w.consumed = 1..Len(w.consumed)
  BY ListDomain
<1>2. \A n \in DOMAIN w.consumed : Nullifier(w.consumed[n]) \in S
  OBVIOUS
<1>. HIDE DEF S
<1>3. [n \in 1..Len(w.consumed) |-> Nullifier(w.consumed[n])] \in Seq(S)
  BY <1>1, <1>2
<1>. QED  BY <1>1, <1>3 DEF NullifiersOf, S

\* Every unit consumes something.
LEMMA UnitConsumes ==
  ASSUME NEW tx, Trusted(tx), NEW k \in DOMAIN tx.units
  PROVE  1 \in DOMAIN WitnessOf(tx.units[k]).consumed
<1>. DEFINE w == WitnessOf(tx.units[k])
<1>1. IsList(w.consumed) /\ NullifiersOf(w) # <<>>
  BY UnitTrusted DEF Acceptable
<1>2. w.consumed # <<>>
  BY <1>1 DEF NullifiersOf
<1>. QED  BY <1>1, <1>2, ListDomain

LEMMA TransactionConsumes ==
  ASSUME NEW tx, Trusted(tx)
  PROVE  TransactionNullifiers(tx) # {}
<1>1. 1 \in DOMAIN tx.units
  BY ListDomain DEF Trusted, Deserving, Sound
<1>. QED  BY <1>1, UnitConsumes, NullifierOfEntry

\* The key is part of the resource, so its nullifier is determined.
LEMMA NullifierDetermined ==
  ASSUME NEW e, NEW f, e.resource = f.resource,
         KeyMatches(e.resource, e.nullifierKey), KeyMatches(f.resource, f.nullifierKey)
  PROVE  Nullifier(e) = Nullifier(f)
<1>1. e.nullifierKey = f.nullifierKey
  BY DEF KeyMatches, NkCommit, Keccak
<1>. QED  BY <1>1 DEF Nullifier

\* Whatever the indices, equal nonces stem from the same nullifiers.
LEMMA NonceNullifiers ==
  ASSUME NEW S, NEW s \in Seq(S), NEW T, NEW t \in Seq(T), NEW i, NEW j,
         CreatedNonce(s, i) = CreatedNonce(t, j)
  PROVE  s = t
<1>. DEFINE x == [u32 |-> i % IndexModulus]
            y == [u32 |-> j % IndexModulus]
<1>1. Append(s, x) = Append(t, y)
  BY DEF CreatedNonce, Keccak
<1>2. s \in Seq(S \cup T \cup {x, y}) /\ t \in Seq(S \cup T \cup {x, y})
  OBVIOUS
<1>. QED  BY <1>1, <1>2, AppendInjective

\* The commitments of a transaction are those of what it creates.
LEMMA StoredByTransaction ==
  ASSUME NEW tx, Trusted(tx)
  PROVE  /\ IsList(TransactionCommitments(tx))
         /\ \A c \in Items(TransactionCommitments(tx)) :
              \E k \in DOMAIN tx.units : \E a \in DOMAIN WitnessOf(tx.units[k]).created :
                 c = Commit(WitnessOf(tx.units[k]).created[a].resource)
<1>. DEFINE tags(k) == [j \in DOMAIN tx.units[k].created |-> tx.units[k].created[j].commitment]
            ss == [k \in DOMAIN tx.units |-> tags(k)]
<1>1. Len(tx.units) \in Nat /\ DOMAIN tx.units = 1..Len(tx.units)
  BY ListDomain DEF Trusted, Sound
<1>2. IsList(ss)
  BY <1>1, ListOfFunction
<1>3. ASSUME NEW k \in DOMAIN tx.units
      PROVE  /\ IsList(tags(k))
             /\ \A c \in Items(tags(k)) :
                  \E a \in DOMAIN WitnessOf(tx.units[k]).created :
                     c = Commit(WitnessOf(tx.units[k]).created[a].resource)
  <2>1. /\ DOMAIN tx.units[k].created = DOMAIN WitnessOf(tx.units[k]).created
        /\ IsList(WitnessOf(tx.units[k]).created)
    <3>1. /\ tx.units[k].created = CreatedOf(WitnessOf(tx.units[k]))
          /\ IsList(WitnessOf(tx.units[k]).created)
      BY UnitTrusted
    <3>. QED  BY <3>1 DEF CreatedOf
  <2>2. /\ Len(WitnessOf(tx.units[k]).created) \in Nat
        /\ DOMAIN tx.units[k].created = 1..Len(WitnessOf(tx.units[k]).created)
    BY <2>1, ListDomain
  <2>3. IsList(tags(k))
    BY <2>2, ListOfFunction
  <2>. QED  BY <2>3, CommitmentOfEntry DEF Items
<1>. HIDE DEF tags
<1>4. DOMAIN ss = DOMAIN tx.units /\ \A k \in DOMAIN ss : ss[k] = tags(k)
  OBVIOUS
<1>. HIDE DEF ss
<1>5. /\ IsList(FlattenSeq(ss))
      /\ Items(FlattenSeq(ss)) = UNION {Items(ss[k]) : k \in DOMAIN ss}
  BY <1>2, <1>3, <1>4, FlattenLists
<1>6. TransactionCommitments(tx) = FlattenSeq(ss)
  BY DEF TransactionCommitments, ss, tags
<1>. QED  BY <1>3, <1>4, <1>5, <1>6

\* What its units consume and create is what a transaction does.
LEMMA EntriesOfUnits ==
  ASSUME NEW tx, Trusted(tx)
  PROVE  /\ IsList(ConsumedBy(tx)) /\ IsList(CreatedBy(tx))
         /\ \A r : Spends(tx, r) <=> \E e \in Items(ConsumedBy(tx)) : e.resource = r
         /\ \A r : Makes(tx, r) <=> \E e \in Items(CreatedBy(tx)) : e.resource = r
<1>. DEFINE ss == [k \in DOMAIN tx.units |-> WitnessOf(tx.units[k]).consumed]
            ts == [k \in DOMAIN tx.units |-> WitnessOf(tx.units[k]).created]
<1>1. Len(tx.units) \in Nat /\ DOMAIN tx.units = 1..Len(tx.units)
  BY ListDomain DEF Trusted, Sound
<1>2. IsList(ss) /\ IsList(ts)
  BY <1>1, ListOfFunction
<1>3. /\ DOMAIN ss = DOMAIN tx.units /\ DOMAIN ts = DOMAIN tx.units
      /\ \A k \in DOMAIN tx.units : /\ ss[k] = WitnessOf(tx.units[k]).consumed
                                    /\ ts[k] = WitnessOf(tx.units[k]).created
  OBVIOUS
<1>4. ConsumedBy(tx) = FlattenSeq(ss) /\ CreatedBy(tx) = FlattenSeq(ts)
  BY DEF ConsumedBy, CreatedBy
<1>. HIDE DEF ss, ts
<1>5. \A k \in DOMAIN tx.units : IsList(ss[k]) /\ IsList(ts[k])
  BY <1>3, UnitTrusted
<1>6. /\ IsList(FlattenSeq(ss))
      /\ Items(FlattenSeq(ss)) = UNION {Items(ss[k]) : k \in DOMAIN ss}
  BY <1>2, <1>3, <1>5, FlattenLists
<1>7. /\ IsList(FlattenSeq(ts))
      /\ Items(FlattenSeq(ts)) = UNION {Items(ts[k]) : k \in DOMAIN ts}
  BY <1>2, <1>3, <1>5, FlattenLists
<1>8. Items(FlattenSeq(ss)) = UNION {Items(WitnessOf(tx.units[k]).consumed) : k \in DOMAIN tx.units}
  BY <1>3, <1>6
<1>9. Items(FlattenSeq(ts)) = UNION {Items(WitnessOf(tx.units[k]).created) : k \in DOMAIN tx.units}
  BY <1>3, <1>7
<1>10. ASSUME NEW r
       PROVE  Spends(tx, r) <=> \E e \in Items(FlattenSeq(ss)) : e.resource = r
  BY <1>8 DEF Spends
<1>11. ASSUME NEW r
       PROVE  Makes(tx, r) <=> \E e \in Items(FlattenSeq(ts)) : e.resource = r
  BY <1>9 DEF Makes
<1>. QED  BY <1>4, <1>6, <1>7, <1>10, <1>11

\* A persistent resource that is consumed has its path checked.
LEMMA RootOfEntry ==
  ASSUME NEW tx, Trusted(tx), NEW k \in DOMAIN tx.units,
         NEW a \in DOMAIN WitnessOf(tx.units[k]).consumed
  PROVE  ConsumedRoot(WitnessOf(tx.units[k]).consumed[a]) \in TransactionRoots(tx)
<1>. DEFINE c == WitnessOf(tx.units[k]).consumed
<1>1. tx.units[k].consumed = [n \in DOMAIN c |-> ConsumedInstance(c[n])]
  BY UnitTrusted DEF ConsumedOf
<1>2. a \in DOMAIN tx.units[k].consumed /\ tx.units[k].consumed[a] = ConsumedInstance(c[a])
  BY <1>1
<1>3. tx.units[k].consumed[a].root = ConsumedRoot(c[a])
  BY <1>2 DEF ConsumedInstance
<1>. QED  BY <1>2, <1>3 DEF TransactionRoots

\* The nullifiers, the roots are those of what the units consume.
LEMMA NullifiersOfUnits ==
  ASSUME NEW tx, Trusted(tx), NEW nf \in TransactionNullifiers(tx)
  PROVE  \E e \in UNION {Items(WitnessOf(tx.units[k]).consumed) : k \in DOMAIN tx.units} :
            nf = Nullifier(e)
<1>1. PICK k \in DOMAIN tx.units :
        nf \in {tx.units[k].consumed[j].nullifier : j \in DOMAIN tx.units[k].consumed}
  BY DEF TransactionNullifiers
<1>2. PICK a \in DOMAIN tx.units[k].consumed : nf = tx.units[k].consumed[a].nullifier
  BY <1>1
<1>3. tx.units[k].consumed = ConsumedOf(WitnessOf(tx.units[k]))
  BY UnitTrusted
<1>4. /\ a \in DOMAIN WitnessOf(tx.units[k]).consumed
      /\ nf = Nullifier(WitnessOf(tx.units[k]).consumed[a])
  <2>1. /\ a \in DOMAIN WitnessOf(tx.units[k]).consumed
        /\ tx.units[k].consumed[a] = ConsumedInstance(WitnessOf(tx.units[k]).consumed[a])
    BY <1>2, <1>3 DEF ConsumedOf
  <2>. QED  BY <1>2, <2>1 DEF ConsumedInstance
<1>5. WitnessOf(tx.units[k]).consumed[a] \in Items(WitnessOf(tx.units[k]).consumed)
  BY <1>4 DEF Items
<1>. QED  BY <1>4, <1>5

LEMMA RootsOfUnits ==
  ASSUME NEW tx, Trusted(tx), NEW root \in TransactionRoots(tx)
  PROVE  \E k \in DOMAIN tx.units : \E e \in Items(WitnessOf(tx.units[k]).consumed) :
            root = ConsumedRoot(e)
<1>1. PICK k \in DOMAIN tx.units :
        root \in {tx.units[k].consumed[j].root : j \in DOMAIN tx.units[k].consumed}
  BY DEF TransactionRoots
<1>2. PICK a \in DOMAIN tx.units[k].consumed : root = tx.units[k].consumed[a].root
  BY <1>1
<1>3. tx.units[k].consumed = ConsumedOf(WitnessOf(tx.units[k]))
  BY UnitTrusted
<1>4. /\ a \in DOMAIN WitnessOf(tx.units[k]).consumed
      /\ root = ConsumedRoot(WitnessOf(tx.units[k]).consumed[a])
  <2>1. /\ a \in DOMAIN WitnessOf(tx.units[k]).consumed
        /\ tx.units[k].consumed[a] = ConsumedInstance(WitnessOf(tx.units[k]).consumed[a])
    BY <1>2, <1>3 DEF ConsumedOf
  <2>. QED  BY <1>2, <2>1 DEF ConsumedInstance
<1>. QED  BY <1>4 DEF Items

-----------------------------------------------------------------------------
(* Two transactions.                                                       *)

\* Entries for one resource have one nullifier.
LEMMA SharedResource ==
  ASSUME NEW tx, Trusted(tx), NEW j \in DOMAIN tx.units,
         NEW ty, Trusted(ty), NEW k \in DOMAIN ty.units,
         NEW a \in DOMAIN WitnessOf(tx.units[j]).consumed,
         NEW b \in DOMAIN WitnessOf(ty.units[k]).consumed,
         WitnessOf(tx.units[j]).consumed[a].resource
           = WitnessOf(ty.units[k]).consumed[b].resource
  PROVE  /\ NullifiersOf(WitnessOf(tx.units[j]))[a] = NullifiersOf(WitnessOf(ty.units[k]))[b]
         /\ NullifiersOf(WitnessOf(tx.units[j]))[a]
              \in TransactionNullifiers(tx) \cap TransactionNullifiers(ty)
<1>. DEFINE v == WitnessOf(tx.units[j])
            w == WitnessOf(ty.units[k])
<1>1. Acceptable(v) /\ Acceptable(w)
  BY UnitTrusted
<1>2. /\ KeyMatches(v.consumed[a].resource, v.consumed[a].nullifierKey)
      /\ KeyMatches(w.consumed[b].resource, w.consumed[b].nullifierKey)
  BY <1>1 DEF Acceptable, EntriesHold, ConsumedHolds
<1>3. Nullifier(v.consumed[a]) = Nullifier(w.consumed[b])
  BY <1>2, NullifierDetermined
<1>. QED  BY <1>3, NullifierOfEntry

\* Entries for one commitment are for resources of one nonce, so of actions
\* with the same nullifiers.
LEMMA SharedCommitment ==
  ASSUME NEW tx, Trusted(tx), NEW j \in DOMAIN tx.units,
         NEW ty, Trusted(ty), NEW k \in DOMAIN ty.units,
         NEW a \in DOMAIN tx.units[j].created,
         NEW b \in DOMAIN ty.units[k].created,
         tx.units[j].created[a].commitment = ty.units[k].created[b].commitment
  PROVE  /\ TransactionNullifiers(tx) \cap TransactionNullifiers(ty) # {}
         /\ a \in DOMAIN CommitmentsOf(WitnessOf(tx.units[j]))
         /\ b \in DOMAIN CommitmentsOf(WitnessOf(ty.units[k]))
         /\ CommitmentsOf(WitnessOf(tx.units[j]))[a] = CommitmentsOf(WitnessOf(ty.units[k]))[b]
<1>. DEFINE v == WitnessOf(tx.units[j])
            w == WitnessOf(ty.units[k])
<1>1. Acceptable(v) /\ IsList(v.consumed) /\ Acceptable(w) /\ IsList(w.consumed)
  BY UnitTrusted
<1>2. a \in DOMAIN v.created /\ b \in DOMAIN w.created
  BY CommitmentOfEntry
<1>3. Commit(v.created[a].resource) = Commit(w.created[b].resource)
  BY CommitmentOfEntry
<1>4. v.created[a].resource.nonce = w.created[b].resource.nonce
  BY <1>3, CommitDetermines
<1>5. CreatedNonce(NullifiersOf(v), a - 1) = CreatedNonce(NullifiersOf(w), b - 1)
  BY <1>1, <1>2, <1>4 DEF Acceptable, NoncesHold
<1>6. /\ NullifiersOf(v) \in Seq({Nullifier(v.consumed[n]) : n \in DOMAIN v.consumed})
      /\ NullifiersOf(w) \in Seq({Nullifier(w.consumed[n]) : n \in DOMAIN w.consumed})
  BY <1>1, NullifierList
<1>7. NullifiersOf(v) = NullifiersOf(w)
  BY <1>5, <1>6, NonceNullifiers
<1>8. 1 \in DOMAIN v.consumed /\ 1 \in DOMAIN w.consumed
  BY UnitConsumes
<1>9. NullifiersOf(v)[1] \in TransactionNullifiers(tx) \cap TransactionNullifiers(ty)
  BY <1>7, <1>8, NullifierOfEntry
<1>. QED  BY <1>2, <1>3, <1>9 DEF CommitmentsOf

-----------------------------------------------------------------------------
(* The invariant.                                                          *)

LEMMA InitInvariant == Init => IInv
BY DEF Init, IInv, IsHistory, IsList, WorkersTrusted, AppliedTrusted, NullifiersStored,
       NullifiersDisjoint, CommitmentsKnown, RootsHistoric

\* A process holds on to what it verified.
LEMMA TakeInvariant ==
  ASSUME IInv, GuestSoundness,
         NEW p \in Workers, NEW bytes \in Submissions(applied), NEW call, Take(p, bytes, call)
  PROVE  IInv'
<1>1. Trusted(bytes.tx)
  BY DEF Take, Verifies, GuestSoundness, Trusted
<1>2. worker' = [worker EXCEPT ![p] = [at |-> call, tx |-> bytes.tx]]
  BY DEF Take
<1>3. DOMAIN worker' = Workers
  BY <1>2 DEF IInv
<1>4. \A q \in Workers : worker'[q] # Idle => Trusted(worker'[q].tx)
  <2>. SUFFICES ASSUME NEW q \in Workers, worker'[q] # Idle
                PROVE  Trusted(worker'[q].tx)
    OBVIOUS
  <2>1. CASE q = p
    <3>1. worker'[q] = [at |-> call, tx |-> bytes.tx]
      BY <1>2, <2>1 DEF IInv
    <3>2. worker'[q].tx = bytes.tx
      BY <3>1
    <3>. QED  BY <1>1, <3>2
  <2>2. CASE q # p
    BY <1>2, <2>2 DEF IInv, WorkersTrusted
  <2>. QED  BY <2>1, <2>2
<1>5. WorkersTrusted'
  BY <1>4 DEF WorkersTrusted
<1>. QED  BY <1>3, <1>5 DEF Take, IInv, IsHistory, AppliedTrusted, NullifiersStored,
                          NullifiersDisjoint, CommitmentsKnown, RootsHistoric

\* The nullifiers of what is applied were not stored, now they are.
LEMMA ApplyInvariant ==
  ASSUME IInv, NEW p \in Workers, Apply(p)
  PROVE  IInv'
<1>. DEFINE tx == worker[p].tx
            last == Len(applied) + 1
<1>1. worker[p] # Idle
  BY DEF Apply, Idle
<1>2. Trusted(tx)
  BY <1>1 DEF IInv, WorkersTrusted
<1>3. /\ applied' = Append(applied, tx)
      /\ nullifiers' = nullifiers \cup TransactionNullifiers(tx)
      /\ TransactionNullifiers(tx) \cap nullifiers = {}
      /\ worker' = [worker EXCEPT ![p] = Idle]
  BY DEF Apply, Fresh
<1>4. /\ IsHistory'
      /\ DOMAIN applied' = DOMAIN applied \cup {last}
      /\ last \notin DOMAIN applied
      /\ applied'[last] = tx
      /\ \A n \in DOMAIN applied : applied'[n] = applied[n]
  BY <1>3, ListAppend DEF IInv, IsHistory
<1>5. DOMAIN worker' = Workers /\ WorkersTrusted'
  BY <1>3 DEF IInv, WorkersTrusted
<1>6. AppliedTrusted'
  BY <1>2, <1>4 DEF IInv, AppliedTrusted
<1>7. NullifiersStored'
  BY <1>3, <1>4 DEF IInv, NullifiersStored
<1>8. NullifiersDisjoint'
  BY <1>3, <1>4 DEF IInv, NullifiersStored, NullifiersDisjoint
<1>. DEFINE new == TransactionCommitments(tx)
<1>9. /\ commitments' = commitments \o new
      /\ IsList(commitments) /\ IsList(new)
      /\ \A c \in Items(new) :
           \E k \in DOMAIN tx.units : \E a \in DOMAIN WitnessOf(tx.units[k]).created :
              c = Commit(WitnessOf(tx.units[k]).created[a].resource)
  BY <1>2, StoredByTransaction DEF Apply, IInv, CommitmentsKnown
<1>. HIDE DEF new, tx
<1>10. /\ IsList(commitments')
       /\ DOMAIN commitments' = 1..Len(commitments')
       /\ Items(commitments') = Items(commitments) \cup Items(new)
       /\ \A n \in DOMAIN commitments :
            n \in DOMAIN commitments' /\ Prefix(commitments', n) = Prefix(commitments, n)
  BY <1>9, ListConcat
<1>11. CommitmentsKnown'
  <2>1. \A c \in Items(commitments) : IsLeafOf(applied', c)
    <3>. SUFFICES ASSUME NEW i \in DOMAIN commitments
                  PROVE  IsLeafOf(applied', commitments[i])
      BY DEF Items
    <3>1. PICK n \in DOMAIN applied : \E k \in DOMAIN applied[n].units :
            \E a \in DOMAIN WitnessOf(applied[n].units[k]).created :
               commitments[i] = Commit(WitnessOf(applied[n].units[k]).created[a].resource)
      BY DEF IInv, CommitmentsKnown, IsLeafOf
    <3>2. n \in DOMAIN applied' /\ applied'[n] = applied[n]
      BY <1>4
    <3>. QED  BY <3>1, <3>2 DEF IsLeafOf
  <2>2. \A c \in Items(new) : IsLeafOf(applied', c)
    <3>1. last \in DOMAIN applied' /\ applied'[last] = tx
      BY <1>4
    <3>. HIDE DEF last
    <3>. QED  BY <1>9, <3>1 DEF IsLeafOf
  <2>. QED  BY <1>10, <2>1, <2>2 DEF CommitmentsKnown, Items
<1>12. RootsHistoric'
  <2>1. \A root \in roots : \E n \in DOMAIN commitments' : root = TreeRoot(Prefix(commitments', n))
    BY <1>10 DEF IInv, RootsHistoric
  <2>2. roots' = IF commitments' = <<>> THEN roots ELSE roots \cup {TreeRoot(commitments')}
    BY DEF Apply
  <2>3. commitments' # <<>> =>
          /\ Len(commitments') \in DOMAIN commitments'
          /\ commitments' = Prefix(commitments', Len(commitments'))
    BY <1>10, PrefixOfAll
  <2>. QED  BY <2>1, <2>2, <2>3 DEF RootsHistoric
<1>. QED  BY <1>4, <1>5, <1>6, <1>7, <1>8, <1>11, <1>12 DEF IInv

LEMMA NextInvariant ==
  ASSUME IInv, GuestSoundness, [Next]_vars
  PROVE  IInv'
<1>. USE DEF IInv, IsHistory, AppliedTrusted, NullifiersStored, NullifiersDisjoint,
            CommitmentsKnown, RootsHistoric
<1>1. ASSUME NEW bytes \in Submissions(applied), NEW p \in IdleWorkers, Answer(p, bytes)
      PROVE  IInv'
  <2>1. p \in Workers
    BY DEF IdleWorkers
  <2>2. CASE TurnDown(p, bytes)
    BY <2>2 DEF TurnDown, vars, WorkersTrusted
  <2>3. CASE VerifyAndExtract(p, bytes)
    BY <2>1, <2>3, TakeInvariant DEF VerifyAndExtract
  <2>4. CASE VerifyTransaction(p, bytes)
    BY <2>1, <2>4, TakeInvariant DEF VerifyTransaction
  <2>. QED  BY <1>1, <2>2, <2>3, <2>4 DEF Answer
<1>2. ASSUME NEW p \in Workers, ReadLists(p)
      PROVE  IInv'
  <2>1. worker[p] # Idle
    BY <1>2 DEF ReadLists, Idle
  <2>2. DOMAIN worker' = Workers /\ WorkersTrusted'
    BY <1>2, <2>1 DEF ReadLists, WorkersTrusted
  <2>. QED  BY <1>2, <2>2 DEF ReadLists
<1>3. ASSUME NEW p \in Workers, Conflict(p)
      PROVE  IInv'
  BY <1>3 DEF Conflict, WorkersTrusted
<1>4. CASE UNCHANGED vars
  BY <1>4 DEF vars, WorkersTrusted
<1>. QED  BY <1>1, <1>2, <1>3, <1>4, ApplyInvariant DEF Next

LEMMA Invariant == Spec /\ []GuestSoundness => []IInv
BY InitInvariant, NextInvariant, PTL DEF Spec

-----------------------------------------------------------------------------
(* The theorems.                                                           *)

\* Two entries for one resource share a nullifier.  They are of one
\* transaction, whose nullifiers the verifier compared (verify).
LEMMA InvariantConsumedOnce == IInv => ConsumedOnce
<1>. SUFFICES ASSUME IInv,
                     NEW m \in DOMAIN applied, NEW n \in DOMAIN applied,
                     NEW j \in DOMAIN applied[m].units, NEW k \in DOMAIN applied[n].units,
                     NEW a \in DOMAIN WitnessOf(applied[m].units[j]).consumed,
                     NEW b \in DOMAIN WitnessOf(applied[n].units[k]).consumed,
                     WitnessOf(applied[m].units[j]).consumed[a].resource
                       = WitnessOf(applied[n].units[k]).consumed[b].resource
              PROVE  m = n /\ j = k /\ a = b
  BY DEF ConsumedOnce
<1>1. Trusted(applied[m]) /\ Trusted(applied[n])
  BY DEF IInv, AppliedTrusted
<1>2. /\ NullifiersOf(WitnessOf(applied[m].units[j]))[a]
           = NullifiersOf(WitnessOf(applied[n].units[k]))[b]
      /\ NullifiersOf(WitnessOf(applied[m].units[j]))[a]
           \in TransactionNullifiers(applied[m]) \cap TransactionNullifiers(applied[n])
  BY <1>1, SharedResource
<1>3. m = n
  BY <1>2 DEF IInv, NullifiersDisjoint
<1>4. /\ a \in DOMAIN NullifiersOf(WitnessOf(applied[m].units[j]))
      /\ b \in DOMAIN NullifiersOf(WitnessOf(applied[n].units[k]))
  BY <1>1, NullifierOfEntry
<1>5. Distinct(applied[m], NullifiersOf)
  BY <1>1 DEF Trusted, Deserving
<1>. DEFINE L(i) == NullifiersOf(WitnessOf(applied[m].units[i]))
<1>6. \A i, l \in DOMAIN applied[m].units : \A x \in DOMAIN L(i), y \in DOMAIN L(l) :
         L(i)[x] = L(l)[y] => i = l /\ x = y
  BY <1>5 DEF Distinct
<1>7. k \in DOMAIN applied[m].units /\ b \in DOMAIN L(k) /\ L(j)[a] = L(k)[b]
  BY <1>2, <1>3, <1>4
<1>. HIDE DEF L
<1>. QED  BY <1>3, <1>4, <1>6, <1>7 DEF L

\* Two entries for one commitment are of transactions that share nullifiers.
LEMMA InvariantCommitmentsUnique == IInv => CommitmentsUnique
<1>. SUFFICES ASSUME IInv,
                     NEW m \in DOMAIN applied, NEW n \in DOMAIN applied,
                     NEW j \in DOMAIN applied[m].units, NEW k \in DOMAIN applied[n].units,
                     NEW a \in DOMAIN applied[m].units[j].created,
                     NEW b \in DOMAIN applied[n].units[k].created,
                     applied[m].units[j].created[a].commitment
                       = applied[n].units[k].created[b].commitment
              PROVE  m = n /\ j = k /\ a = b
  BY DEF CommitmentsUnique
<1>1. Trusted(applied[m]) /\ Trusted(applied[n])
  BY DEF IInv, AppliedTrusted
<1>2. /\ TransactionNullifiers(applied[m]) \cap TransactionNullifiers(applied[n]) # {}
      /\ a \in DOMAIN CommitmentsOf(WitnessOf(applied[m].units[j]))
      /\ b \in DOMAIN CommitmentsOf(WitnessOf(applied[n].units[k]))
      /\ CommitmentsOf(WitnessOf(applied[m].units[j]))[a]
           = CommitmentsOf(WitnessOf(applied[n].units[k]))[b]
  BY <1>1, SharedCommitment
<1>3. m = n
  BY <1>2 DEF IInv, NullifiersDisjoint
<1>4. Distinct(applied[m], CommitmentsOf)
  BY <1>1 DEF Trusted, Deserving
<1>. QED  BY <1>2, <1>3, <1>4 DEF Distinct

LEMMA InvariantAppliedOnce == IInv => AppliedOnce
<1>. SUFFICES ASSUME IInv, NEW m \in DOMAIN applied, NEW n \in DOMAIN applied,
                     applied[m] = applied[n]
              PROVE  m = n
  BY DEF AppliedOnce
<1>1. TransactionNullifiers(applied[m]) # {}
  BY TransactionConsumes DEF IInv, AppliedTrusted
<1>. QED  BY <1>1 DEF IInv, NullifiersDisjoint

\* The root that stands for ephemeral resources is no digest: nobody knows
\* 32 bytes that hash to zero.
ZeroRootIsNoDigest == \A x : ZeroRoot # Keccak(x)

\* The tree never has an empty leaf.
LEMMA PrefixIsCommitments ==
  ASSUME IInv, NEW n \in DOMAIN commitments
  PROVE  IsCommitmentList(Prefix(commitments, n))
<1>. DEFINE s == Prefix(commitments, n)
<1>1. /\ n \in Nat \ {0} /\ 1..n \subseteq DOMAIN commitments
      /\ \A i \in DOMAIN commitments : IsLeafOf(applied, commitments[i])
  BY ListDomain DEF IInv, CommitmentsKnown
<1>2. DOMAIN s = 1..n /\ \A k \in 1..n : s[k] = commitments[k]
  BY DEF Prefix
<1>3. Len(s) = n
  BY <1>1, ListOfFunction DEF Prefix
<1>4. s = [k \in 1..n |-> s[k]]
  BY <1>2 DEF Prefix
<1>. HIDE DEF s
<1>5. IsLevel(s, Len(s))
  BY <1>1, <1>3, <1>4 DEF IsLevel
<1>6. ASSUME NEW k \in DOMAIN s
      PROVE  \E r : r # EmptyLeaf /\ s[k] = Keccak(<<r>>)
  <2>1. PICK m \in DOMAIN applied : \E j \in DOMAIN applied[m].units :
          \E a \in DOMAIN WitnessOf(applied[m].units[j]).created :
             s[k] = Commit(WitnessOf(applied[m].units[j]).created[a].resource)
    BY <1>1, <1>2 DEF IsLeafOf
  <2>2. PICK j \in DOMAIN applied[m].units :
          \E a \in DOMAIN WitnessOf(applied[m].units[j]).created :
             s[k] = Commit(WitnessOf(applied[m].units[j]).created[a].resource)
    BY <2>1
  <2>3. PICK a \in DOMAIN WitnessOf(applied[m].units[j]).created :
          s[k] = Commit(WitnessOf(applied[m].units[j]).created[a].resource)
    BY <2>2
  <2>4. IsResource(WitnessOf(applied[m].units[j]).created[a].resource)
    BY DEF IInv, AppliedTrusted, Trusted, Sound
  <2>. QED  BY <2>3, <2>4 DEF IsResource, Commit
<1>. QED  BY <1>5, <1>6 DEF IsCommitmentList, s

\* Only what was created can be spent: the path of a persistent resource
\* leads to a historic root, so it starts at a stored commitment.
LEMMA SpendableWasMade ==
  ASSUME IInv, ZeroRootIsNoDigest, NEW tx, Trusted(tx),
         TransactionRoots(tx) \ {ZeroRoot} \subseteq roots,
         NEW r, Spends(tx, r), ~r.isEphemeral
  PROVE  \E m \in DOMAIN applied : Makes(applied[m], r)
<1>1. PICK k \in DOMAIN tx.units :
         \E a \in DOMAIN WitnessOf(tx.units[k]).consumed :
            WitnessOf(tx.units[k]).consumed[a].resource = r
  BY DEF Spends, Items
<1>2. PICK a \in DOMAIN WitnessOf(tx.units[k]).consumed :
        WitnessOf(tx.units[k]).consumed[a].resource = r
  BY <1>1
<1>. DEFINE e == WitnessOf(tx.units[k]).consumed[a]
<1>3. IsList(e.path) /\ r # EmptyLeaf
  BY <1>2 DEF Trusted, Sound, IsResource
<1>4. ConsumedRoot(e) = ComputeRoot(e.path, Keccak(<<r>>))
  BY <1>2 DEF ConsumedRoot, Commit
<1>5. ConsumedRoot(e) \in TransactionRoots(tx)
  BY RootOfEntry
<1>. HIDE DEF e
<1>6. Len(e.path) \in Nat /\ DOMAIN e.path = 1..Len(e.path)
  BY <1>3, ListDomain
<1>7. ConsumedRoot(e) # ZeroRoot
  <2>1. PICK y : ComputeRoot(e.path, Keccak(<<r>>)) = Keccak(y)
    BY <1>6, AssertsDigest
  <2>. QED  BY <1>4, <2>1 DEF ZeroRootIsNoDigest
<1>8. PICK n \in DOMAIN commitments : ConsumedRoot(e) = TreeRoot(Prefix(commitments, n))
  BY <1>5, <1>7 DEF IInv, RootsHistoric
<1>9. IsCommitmentList(Prefix(commitments, n))
  BY PrefixIsCommitments
<1>10. PICK i \in DOMAIN Prefix(commitments, n) : Prefix(commitments, n)[i] = Keccak(<<r>>)
  BY <1>3, <1>4, <1>6, <1>8, <1>9, PathsStartAtLeaves
<1>11. i \in DOMAIN commitments /\ commitments[i] = Keccak(<<r>>)
  <2>1. Len(commitments) \in Nat /\ DOMAIN commitments = 1..Len(commitments)
    BY ListDomain DEF IInv, CommitmentsKnown
  <2>. QED  BY <1>10, <2>1 DEF Prefix
<1>12. PICK m \in DOMAIN applied :
         \E j \in DOMAIN applied[m].units :
            \E b \in DOMAIN WitnessOf(applied[m].units[j]).created :
               commitments[i] = Commit(WitnessOf(applied[m].units[j]).created[b].resource)
  BY <1>11 DEF IInv, CommitmentsKnown, IsLeafOf
<1>13. PICK j \in DOMAIN applied[m].units :
         \E b \in DOMAIN WitnessOf(applied[m].units[j]).created :
            commitments[i] = Commit(WitnessOf(applied[m].units[j]).created[b].resource)
  BY <1>12
<1>14. PICK b \in DOMAIN WitnessOf(applied[m].units[j]).created :
         commitments[i] = Commit(WitnessOf(applied[m].units[j]).created[b].resource)
  BY <1>13
<1>15. WitnessOf(applied[m].units[j]).created[b].resource = r
  BY <1>11, <1>14, CommitDetermines DEF Commit
<1>. QED  BY <1>15 DEF Makes, Items

\* What is applied next spends what was created before.
LEMMA NextConsumedWereCreated ==
  ASSUME IInv, ZeroRootIsNoDigest, ConsumedWereCreated, [Next]_vars
  PROVE  ConsumedWereCreated'
<1>1. ASSUME NEW p \in Workers, Apply(p)
      PROVE  ConsumedWereCreated'
  <2>. DEFINE tx == worker[p].tx
              last == Len(applied) + 1
  <2>1. worker[p] # Idle
    BY <1>1 DEF Apply, Idle
  <2>2. Trusted(tx)
    BY <2>1 DEF IInv, WorkersTrusted
  <2>3. applied' = Append(applied, tx) /\ TransactionRoots(tx) \ {ZeroRoot} \subseteq roots
    BY <1>1 DEF Apply, Fresh
  <2>4. /\ DOMAIN applied' = DOMAIN applied \cup {last}
        /\ last \notin DOMAIN applied
        /\ applied'[last] = tx
        /\ \A n \in DOMAIN applied : applied'[n] = applied[n]
    BY <2>3, ListAppend DEF IInv, IsHistory
  <2>5. Len(applied) \in Nat /\ DOMAIN applied = 1..Len(applied)
    BY ListDomain DEF IInv, IsHistory
  <2>. HIDE DEF tx
  <2>6. ASSUME NEW n \in DOMAIN applied', NEW k \in DOMAIN ConsumedBy(applied'[n]),
               ~ConsumedBy(applied'[n])[k].resource.isEphemeral
        PROVE  \E m \in 1..(n - 1) : \E j \in DOMAIN CreatedBy(applied'[m]) :
                  CreatedBy(applied'[m])[j].resource = ConsumedBy(applied'[n])[k].resource
    <3>. DEFINE r == ConsumedBy(applied'[n])[k].resource
    <3>1. CASE n \in DOMAIN applied
      <4>1. PICK m \in 1..(n - 1) : \E j \in DOMAIN CreatedBy(applied[m]) :
              CreatedBy(applied[m])[j].resource = r
        BY <2>4, <2>6, <3>1 DEF ConsumedWereCreated
      <4>2. m \in DOMAIN applied
        BY <2>5, <3>1
      <4>. QED  BY <2>4, <4>1, <4>2
    <3>2. CASE n = last
      <4>1. Spends(tx, r)
        BY <2>2, <2>4, <3>2, EntriesOfUnits DEF Items
      <4>. HIDE DEF r
      <4>2. PICK m \in DOMAIN applied : Makes(applied[m], r)
        BY <2>2, <2>3, <2>6, <4>1, SpendableWasMade DEF tx, r
      <4>3. m \in 1..(n - 1)
        BY <2>5, <3>2
      <4>4. Trusted(applied[m])
        BY DEF IInv, AppliedTrusted
      <4>5. \E e \in Items(CreatedBy(applied[m])) : e.resource = r
        BY <4>2, <4>4, EntriesOfUnits
      <4>. QED  BY <2>4, <4>3, <4>5 DEF Items, r
    <3>. QED  BY <2>4, <3>1, <3>2
  <2>. QED  BY <2>6 DEF ConsumedWereCreated
<1>2. CASE applied' = applied
  BY <1>2 DEF ConsumedWereCreated
<1>3. ASSUME NEW bytes \in Submissions(applied), NEW p \in IdleWorkers, Answer(p, bytes)
      PROVE  applied' = applied
  BY <1>3 DEF Answer, TurnDown, VerifyAndExtract, VerifyTransaction, Take, vars
<1>4. ASSUME NEW p \in Workers, ReadLists(p) \/ Conflict(p)
      PROVE  applied' = applied
  BY <1>4 DEF ReadLists, Conflict
<1>. QED  BY <1>1, <1>2, <1>3, <1>4 DEF Next, vars

(* However many processes verify at the same time (verify_and_extract), no *)
(* resource is consumed by two of the transactions that were applied.      *)
THEOREM LedgerConsumedOnce == Spec /\ []GuestSoundness => []ConsumedOnce
BY Invariant, InvariantConsumedOnce, PTL

(* No two entries of the node's commitment tree are equal, though neither  *)
(* the bindings nor the node compare commitments of two transactions.      *)
THEOREM LedgerCommitmentsUnique == Spec /\ []GuestSoundness => []CommitmentsUnique
BY Invariant, InvariantCommitmentsUnique, PTL

(* No transaction takes effect twice, however often its bytes are handed   *)
(* to the bindings.                                                        *)
THEOREM LedgerAppliedOnce == Spec /\ []GuestSoundness => []AppliedOnce
BY Invariant, InvariantAppliedOnce, PTL

(* Every persistent resource that is consumed was created by a transaction *)
(* applied before: the guest takes any path (compute_root), but none leads *)
(* to a historic root unless it starts at a stored commitment, and none to *)
(* the root of ephemeral resources.                                        *)
THEOREM LedgerConsumedWereCreated ==
  ASSUME ZeroRootIsNoDigest
  PROVE  Spec /\ []GuestSoundness => []ConsumedWereCreated
<1>1. Init => ConsumedWereCreated
  BY DEF Init, ConsumedWereCreated
<1>2. IInv /\ ConsumedWereCreated /\ [Next]_vars => ConsumedWereCreated'
  BY NextConsumedWereCreated
<1>. QED  BY Invariant, <1>1, <1>2, PTL DEF Spec

-----------------------------------------------------------------------------
(* Turned down for cause.                                                  *)

\* A spender takes the path of a persistent resource from the tree, unless
\* the resource is one of these.
PathsFromTree(foreign) ==
  \A bytes \in Submissions(applied) : \A k \in DOMAIN bytes.tx.units :
     \A e \in Items(WitnessOf(bytes.tx.units[k]).consumed) :
        ~e.resource.isEphemeral /\ e.resource \notin foreign => ConsumedRoot(e) \in roots

\* Which are never created.
NeverCreated(foreign) == \A r \in foreign : r \notin ToSet(Created)

\* Such a path stays good as the tree grows.
PathsStayGood(foreign) ==
  \A p \in Workers : worker[p] # Idle =>
     \A k \in DOMAIN worker[p].tx.units :
        \A e \in Items(WitnessOf(worker[p].tx.units[k]).consumed) :
           ~e.resource.isEphemeral /\ e.resource \notin foreign => ConsumedRoot(e) \in roots

LEMMA TakePathsStayGood ==
  ASSUME IInv, NEW CONSTANT foreign, PathsFromTree(foreign), PathsStayGood(foreign),
         NEW p \in Workers, NEW bytes \in Submissions(applied), NEW call, Take(p, bytes, call)
  PROVE  PathsStayGood(foreign)'
<1>1. /\ worker' = [worker EXCEPT ![p] = [at |-> call, tx |-> bytes.tx]]
      /\ roots' = roots /\ DOMAIN worker = Workers
  BY DEF Take, IInv
<1>. SUFFICES ASSUME NEW q \in Workers, worker'[q] # Idle,
                     NEW k \in DOMAIN worker'[q].tx.units,
                     NEW e \in Items(WitnessOf(worker'[q].tx.units[k]).consumed),
                     ~e.resource.isEphemeral, e.resource \notin foreign
              PROVE  ConsumedRoot(e) \in roots
  BY <1>1 DEF PathsStayGood
<1>2. CASE q = p
  <2>1. worker'[q] = [at |-> call, tx |-> bytes.tx]
    BY <1>1, <1>2
  <2>2. worker'[q].tx = bytes.tx
    BY <2>1
  <2>. QED  BY <2>2 DEF PathsFromTree
<1>3. CASE q # p
  <2>1. worker'[q] = worker[q]
    BY <1>1, <1>3
  <2>. QED  BY <2>1 DEF PathsStayGood
<1>. QED  BY <1>2, <1>3

LEMMA NextPathsStayGood ==
  ASSUME IInv, NEW CONSTANT foreign, PathsFromTree(foreign), PathsStayGood(foreign), [Next]_vars
  PROVE  PathsStayGood(foreign)'
<1>1. ASSUME NEW p \in Workers, ReadLists(p) \/ Apply(p) \/ Conflict(p)
      PROVE  PathsStayGood(foreign)'
  <2>1. roots \subseteq roots' /\ DOMAIN worker = Workers
    BY <1>1 DEF ReadLists, Apply, Conflict, IInv
  <2>2. ASSUME NEW q \in Workers, worker'[q] # Idle
        PROVE  worker[q] # Idle /\ worker'[q].tx = worker[q].tx
    <3>1. CASE ReadLists(p)
      <4>1. worker[p] # Idle /\ worker' = [worker EXCEPT ![p].at = "extracted"]
        BY <3>1 DEF ReadLists, Idle
      <4>. QED  BY <2>1, <2>2, <4>1
    <3>2. CASE Apply(p) \/ Conflict(p)
      <4>1. worker' = [worker EXCEPT ![p] = Idle]
        BY <3>2 DEF Apply, Conflict
      <4>. QED  BY <2>1, <2>2, <4>1
    <3>. QED  BY <1>1, <3>1, <3>2
  <2>. QED  BY <2>1, <2>2 DEF PathsStayGood
<1>2. ASSUME NEW bytes \in Submissions(applied), NEW p \in IdleWorkers, Answer(p, bytes)
      PROVE  PathsStayGood(foreign)'
  <2>1. p \in Workers
    BY DEF IdleWorkers
  <2>2. CASE TurnDown(p, bytes)
    BY <2>2 DEF TurnDown, vars, PathsStayGood
  <2>3. CASE VerifyAndExtract(p, bytes) \/ VerifyTransaction(p, bytes)
    BY <2>1, <2>3, TakePathsStayGood DEF VerifyAndExtract, VerifyTransaction
  <2>. QED  BY <1>2, <2>2, <2>3 DEF Answer
<1>3. CASE UNCHANGED vars
  BY <1>3 DEF vars, PathsStayGood
<1>. QED  BY <1>1, <1>2, <1>3 DEF Next

\* The resources that a unit, a transaction, the history consumes, creates.
ResourcesOf(entries) == {entries[a].resource : a \in DOMAIN entries}

Used(tx) == UNION {ResourcesOf(WitnessOf(tx.units[k]).consumed) : k \in DOMAIN tx.units}
Made(tx) == UNION {ResourcesOf(WitnessOf(tx.units[k]).created) : k \in DOMAIN tx.units}

AllUsed == UNION {Used(applied[n]) : n \in DOMAIN applied}
AllMade == UNION {Made(applied[n]) : n \in DOMAIN applied}

LEMMA UsedAndMade ==
  ASSUME NEW tx, Trusted(tx)
  PROVE  /\ IsList(ConsumedBy(tx)) /\ ResourcesOf(ConsumedBy(tx)) = Used(tx)
         /\ IsList(CreatedBy(tx)) /\ ResourcesOf(CreatedBy(tx)) = Made(tx)
<1>1. \A entries, r : r \in ResourcesOf(entries) <=> \E e \in Items(entries) : e.resource = r
  BY DEF ResourcesOf, Items
<1>2. \A r : r \in Used(tx) <=> Spends(tx, r)
  BY <1>1 DEF Used, Spends
<1>3. \A r : r \in Made(tx) <=> Makes(tx, r)
  BY <1>1 DEF Made, Makes
<1>4. ResourcesOf(ConsumedBy(tx)) = Used(tx)
  BY <1>1, <1>2, EntriesOfUnits
<1>5. ResourcesOf(CreatedBy(tx)) = Made(tx)
  BY <1>1, <1>3, EntriesOfUnits
<1>. QED  BY <1>4, <1>5, EntriesOfUnits

\* The lists name them one by one.
LEMMA ResourcesListed ==
  ASSUME NEW ss, IsList(ss), \A n \in DOMAIN ss : IsList(ss[n])
  PROVE  ToSet(FlattenSeq([n \in DOMAIN ss |-> [k \in DOMAIN ss[n] |-> ss[n][k].resource]]))
           = UNION {ResourcesOf(ss[n]) : n \in DOMAIN ss}
<1>. DEFINE names(n) == [k \in DOMAIN ss[n] |-> ss[n][k].resource]
            ts == [n \in DOMAIN ss |-> names(n)]
<1>1. IsList(ts)
  BY ListDomain, ListOfFunction
<1>2. ASSUME NEW n \in DOMAIN ss
      PROVE  IsList(names(n)) /\ Items(names(n)) = ResourcesOf(ss[n])
  BY ListDomain, ListOfFunction DEF Items, ResourcesOf
<1>3. FlattenSeq(ts) = FlattenSeq([n \in DOMAIN ss |-> [k \in DOMAIN ss[n] |-> ss[n][k].resource]])
  OBVIOUS
<1>. HIDE DEF names
<1>4. DOMAIN ts = DOMAIN ss /\ \A n \in DOMAIN ss : ts[n] = names(n)
  OBVIOUS
<1>. HIDE DEF ts
<1>5. Items(FlattenSeq(ts)) = UNION {Items(ts[n]) : n \in DOMAIN ts}
  BY <1>1, <1>2, <1>4, FlattenLists
<1>6. UNION {Items(ts[n]) : n \in DOMAIN ts} = UNION {ResourcesOf(ss[n]) : n \in DOMAIN ss}
  BY <1>2, <1>4
<1>. QED  BY <1>3, <1>5, <1>6 DEF Items, ToSet

LEMMA HistoryListed ==
  ASSUME IInv
  PROVE  ToSet(Consumed) = AllUsed /\ ToSet(Created) = AllMade
<1>. DEFINE ss == [n \in DOMAIN applied |-> ConsumedBy(applied[n])]
            ts == [n \in DOMAIN applied |-> CreatedBy(applied[n])]
<1>1. IsList(ss) /\ IsList(ts)
  BY ListDomain, ListOfFunction DEF IInv, IsHistory
<1>2. ASSUME NEW n \in DOMAIN applied
      PROVE  /\ IsList(ConsumedBy(applied[n])) /\ ResourcesOf(ConsumedBy(applied[n])) = Used(applied[n])
             /\ IsList(CreatedBy(applied[n])) /\ ResourcesOf(CreatedBy(applied[n])) = Made(applied[n])
  BY UsedAndMade DEF IInv, AppliedTrusted
<1>3. /\ DOMAIN ss = DOMAIN applied /\ \A n \in DOMAIN applied : ss[n] = ConsumedBy(applied[n])
      /\ DOMAIN ts = DOMAIN applied /\ \A n \in DOMAIN applied : ts[n] = CreatedBy(applied[n])
  OBVIOUS
<1>. HIDE DEF ss, ts
<1>4. /\ Consumed = FlattenSeq([n \in DOMAIN ss |-> [k \in DOMAIN ss[n] |-> ss[n][k].resource]])
      /\ Created = FlattenSeq([n \in DOMAIN ts |-> [k \in DOMAIN ts[n] |-> ts[n][k].resource]])
  BY <1>3 DEF Consumed, Created, Resources
<1>5. ToSet(Consumed) = UNION {ResourcesOf(ss[n]) : n \in DOMAIN ss}
  <2>1. \A n \in DOMAIN ss : IsList(ss[n])
    BY <1>2, <1>3
  <2>2. ToSet(FlattenSeq([n \in DOMAIN ss |-> [k \in DOMAIN ss[n] |-> ss[n][k].resource]]))
          = UNION {ResourcesOf(ss[n]) : n \in DOMAIN ss}
    BY <1>1, <2>1, ResourcesListed
  <2>. QED  BY <1>4, <2>2
<1>6. ToSet(Created) = UNION {ResourcesOf(ts[n]) : n \in DOMAIN ts}
  <2>1. \A n \in DOMAIN ts : IsList(ts[n])
    BY <1>2, <1>3
  <2>2. ToSet(FlattenSeq([n \in DOMAIN ts |-> [k \in DOMAIN ts[n] |-> ts[n][k].resource]]))
          = UNION {ResourcesOf(ts[n]) : n \in DOMAIN ts}
    BY <1>1, <2>1, ResourcesListed
  <2>. QED  BY <1>4, <2>2
<1>. QED  BY <1>2, <1>3, <1>5, <1>6 DEF AllUsed, AllMade

LEMMA AppliedIsListed ==
  ASSUME IInv, NEW n \in DOMAIN applied, NEW r, Spends(applied[n], r)
  PROVE  r \in ToSet(Consumed)
<1>1. r \in Used(applied[n])
  BY DEF Spends, Used, ResourcesOf, Items
<1>. QED  BY <1>1, HistoryListed DEF AllUsed

\* A stored nullifier is that of a resource that was consumed.
LEMMA StoredWasConsumed ==
  ASSUME IInv, NEW e, Nullifier(e) \in nullifiers
  PROVE  e.resource \in ToSet(Consumed)
<1>1. PICK n \in DOMAIN applied : Nullifier(e) \in TransactionNullifiers(applied[n])
  BY DEF IInv, NullifiersStored
<1>2. Trusted(applied[n])
  BY DEF IInv, AppliedTrusted
<1>3. PICK f : f \in UNION {Items(WitnessOf(applied[n].units[k]).consumed) : k \in DOMAIN applied[n].units}
                /\ Nullifier(e) = Nullifier(f)
  BY <1>1, <1>2, NullifiersOfUnits
<1>4. e.resource = f.resource
  <2>1. Commit(e.resource) = Commit(f.resource)
    BY <1>3 DEF Nullifier, ComputeNullifier, HashTwo, Keccak
  <2>. QED  BY <2>1, CommitDetermines
<1>5. Spends(applied[n], e.resource)
  BY <1>3, <1>4 DEF Spends
<1>. QED  BY <1>5, AppliedIsListed

LEMMA ConflictHasCause ==
  ASSUME IInv, NEW CONSTANT foreign, NeverCreated(foreign), PathsStayGood(foreign),
         NEW p \in Workers, Conflict(p)
  PROVE  \E k \in DOMAIN ConsumedBy(worker[p].tx) :
            LET resource == ConsumedBy(worker[p].tx)[k].resource
            IN  \/ resource \in ToSet(Consumed)
                \/ ~resource.isEphemeral /\ resource \notin ToSet(Created)
<1>. DEFINE tx == worker[p].tx
            Cause(resource) == \/ resource \in ToSet(Consumed)
                               \/ ~resource.isEphemeral /\ resource \notin ToSet(Created)
<1>1. worker[p] # Idle /\ ~Fresh(tx)
  BY DEF Conflict, Idle
<1>2. Trusted(tx)
  BY <1>1 DEF IInv, WorkersTrusted
<1>3. ASSUME NEW k \in DOMAIN tx.units,
             NEW e \in Items(WitnessOf(tx.units[k]).consumed), Cause(e.resource)
      PROVE  \E j \in DOMAIN ConsumedBy(tx) : Cause(ConsumedBy(tx)[j].resource)
  <2>. HIDE DEF Cause, tx
  <2>1. Spends(tx, e.resource)
    BY DEF Spends
  <2>2. \E f \in Items(ConsumedBy(tx)) : f.resource = e.resource
    BY <1>2, <2>1, EntriesOfUnits
  <2>. QED  BY <1>3, <2>2 DEF Items
<1>4. CASE TransactionNullifiers(tx) \cap nullifiers # {}
  <2>1. PICK nf \in TransactionNullifiers(tx) : nf \in nullifiers
    BY <1>4
  <2>2. PICK e : /\ e \in UNION {Items(WitnessOf(tx.units[k]).consumed) : k \in DOMAIN tx.units}
                 /\ nf = Nullifier(e)
    BY <1>2, <2>1, NullifiersOfUnits
  <2>3. Cause(e.resource)
    BY <2>1, <2>2, StoredWasConsumed
  <2>. HIDE DEF Cause, tx
  <2>4. \E j \in DOMAIN ConsumedBy(tx) : Cause(ConsumedBy(tx)[j].resource)
    BY <1>3, <2>2, <2>3
  <2>. QED  BY <2>4 DEF Cause, tx
<1>5. CASE ~(TransactionRoots(tx) \ {ZeroRoot} \subseteq roots)
  <2>1. PICK root \in TransactionRoots(tx) : root # ZeroRoot /\ root \notin roots
    BY <1>5
  <2>2. PICK k \in DOMAIN tx.units :
          \E e \in Items(WitnessOf(tx.units[k]).consumed) : root = ConsumedRoot(e)
    BY <1>2, <2>1, RootsOfUnits
  <2>3. PICK e \in Items(WitnessOf(tx.units[k]).consumed) : root = ConsumedRoot(e)
    BY <2>2
  <2>4. ~e.resource.isEphemeral
    BY <2>1, <2>3 DEF ConsumedRoot
  <2>5. e.resource \in foreign
    BY <1>1, <2>1, <2>3, <2>4 DEF PathsStayGood
  <2>6. Cause(e.resource)
    BY <2>4, <2>5 DEF NeverCreated
  <2>. HIDE DEF Cause, tx
  <2>7. \E j \in DOMAIN ConsumedBy(tx) : Cause(ConsumedBy(tx)[j].resource)
    BY <1>3, <2>3, <2>6
  <2>. QED  BY <2>7 DEF Cause, tx
<1>. QED  BY <1>1, <1>4, <1>5 DEF Fresh

(* A verified transaction is turned down only because a resource it        *)
(* consumes is consumed already or was never created, if spenders take     *)
(* their paths from the tree, whatever version of it they saw.             *)
THEOREM LedgerTurnedDownForCause ==
  ASSUME NEW CONSTANT foreign
  PROVE  Spec /\ []GuestSoundness /\ []PathsFromTree(foreign) /\ []NeverCreated(foreign)
           => TurnedDownForCause
<1>1. Init => PathsStayGood(foreign)
  BY DEF Init, PathsStayGood
<1>2. IInv /\ PathsFromTree(foreign) /\ PathsStayGood(foreign) /\ [Next]_vars
        => PathsStayGood(foreign)'
  BY NextPathsStayGood
<1>3. IInv /\ NeverCreated(foreign) /\ PathsStayGood(foreign) /\ [Next]_vars =>
        [\A p \in Workers :
           Conflict(p) =>
             \E k \in DOMAIN ConsumedBy(worker[p].tx) :
                LET resource == ConsumedBy(worker[p].tx)[k].resource
                IN  \/ resource \in ToSet(Consumed)
                    \/ ~resource.isEphemeral /\ resource \notin ToSet(Created)]_vars
  BY ConflictHasCause
<1>. QED  BY Invariant, <1>1, <1>2, <1>3, PTL DEF Spec, TurnedDownForCause

-----------------------------------------------------------------------------
(* Nothing is made out of nothing.                                         *)

\* What resources are worth in a kind.
Worth(S, kind) == [r \in S |-> IF KindOf(r) = kind THEN r.quantity ELSE 0]
Value(S, kind) == SumOver(Worth(S, kind), S)

Counted(S) == IsFiniteSet(S) /\ \A r \in S : r.quantity \in Nat

LEMMA WorthIsCounted ==
  ASSUME NEW S, Counted(S), NEW kind
  PROVE  /\ Summable(Worth(S, kind), S)
         /\ \A r \in S : Worth(S, kind)[r] \in Nat
         /\ Value(S, kind) \in Nat
<1>1. \A r \in S : Worth(S, kind)[r] \in Nat
  BY DEF Counted, Worth
<1>2. Summable(Worth(S, kind), S)
  BY <1>1 DEF Counted, Summable
<1>. QED  BY <1>1, <1>2, SumIsNatural DEF Counted, Value

\* It does not matter what they are part of.
LEMMA WorthOfPart ==
  ASSUME NEW S, NEW T \in SUBSET S, Counted(S), NEW kind
  PROVE  /\ Counted(T)
         /\ Summable(Worth(S, kind), T)
         /\ SumOver(Worth(S, kind), T) = Value(T, kind)
<1>1. Counted(T)
  BY FS_Subset DEF Counted
<1>2. \A r \in T : Worth(S, kind)[r] = Worth(T, kind)[r]
  BY DEF Worth
<1>3. Summable(Worth(T, kind), T)
  BY <1>1, WorthIsCounted
<1>4. SumOver(Worth(T, kind), T) = SumOver(Worth(S, kind), T)
  BY <1>2, <1>3, SumSame
<1>. QED  BY <1>1, <1>2, <1>3, <1>4 DEF Value, Summable

LEMMA ValueOfParts ==
  ASSUME NEW S, NEW T, Counted(S), Counted(T), S \cap T = {}, NEW kind
  PROVE  /\ Counted(S \cup T)
         /\ Value(S \cup T, kind) = Value(S, kind) + Value(T, kind)
<1>. DEFINE A == S \cup T
<1>1. Counted(A)
  BY FS_Union DEF Counted
<1>2. S \in SUBSET A /\ T \in SUBSET A
  OBVIOUS
<1>. HIDE DEF A
<1>3. /\ Summable(Worth(A, kind), S) /\ SumOver(Worth(A, kind), S) = Value(S, kind)
      /\ Summable(Worth(A, kind), T) /\ SumOver(Worth(A, kind), T) = Value(T, kind)
  BY <1>1, <1>2, WorthOfPart
<1>4. SumOver(Worth(A, kind), S \cup T)
        = SumOver(Worth(A, kind), S) + SumOver(Worth(A, kind), T)
  BY <1>3, SumDisjoint
<1>5. Value(A, kind) = Value(S, kind) + Value(T, kind)
  BY <1>3, <1>4 DEF Value, A
<1>. QED  BY <1>1, <1>5 DEF A

\* Entries for different resources have what the resources are worth.
LEMMA ValueOfEntries ==
  ASSUME NEW entries, IsList(entries), AreNumbers(entries), NEW kind,
         \A a, b \in DOMAIN entries : entries[a].resource = entries[b].resource => a = b
  PROVE  /\ Counted(ResourcesOf(entries))
         /\ Value(ResourcesOf(entries), kind) = Quantity(entries, kind)
<1>. DEFINE D == DOMAIN entries
            h == [a \in D |-> entries[a].resource]
            S == ResourcesOf(entries)
            f == Worth(S, kind)
            g == Share(entries, kind)
<1>1. IsFiniteSet(D)
  BY ListIsFinite
<1>2. S = {h[a] : a \in D}
  BY DEF ResourcesOf
<1>3. \A a \in D : f[h[a]] \in Int /\ g[a] = f[h[a]]
  BY <1>2 DEF Worth, Share, AreNumbers
<1>4. \A a, b \in D : h[a] = h[b] => a = b
  OBVIOUS
<1>5. \A r \in S : r.quantity \in Nat
  BY DEF ResourcesOf, AreNumbers
<1>. HIDE DEF D, h, f, g
<1>6. Summable(f, {h[a] : a \in D}) /\ SumOver(f, {h[a] : a \in D}) = SumOver(g, D)
  BY <1>1, <1>3, <1>4, SumImage
<1>7. Counted(S)
  BY <1>2, <1>5, <1>6 DEF Summable, Counted
<1>8. Value(S, kind) = SumOver(g, D)
  BY <1>2, <1>6 DEF Value, f
<1>9. Quantity(entries, kind) = SumOver(g, D)
  BY QuantityIs DEF g, D
<1>. QED  BY <1>7, <1>8, <1>9

\* And the units of a transaction have what its resources are worth.
LEMMA ValueOfUnits ==
  ASSUME NEW D, IsFiniteSet(D), NEW sets, NEW kind, NEW g,
         \A k \in D : Counted(sets[k]) /\ g[k] = Value(sets[k], kind),
         \A j, k \in D : j # k => sets[j] \cap sets[k] = {}
  PROVE  /\ Counted(UNION {sets[k] : k \in D})
         /\ Value(UNION {sets[k] : k \in D}, kind) = SumOver(g, D)
<1>. DEFINE S == UNION {sets[k] : k \in D}
            f == Worth(S, kind)
<1>1. \A r \in S : r.quantity \in Nat
  BY DEF Counted
<1>2. ASSUME NEW k \in D
      PROVE  Summable(f, sets[k]) /\ g[k] = SumOver(f, sets[k])
  <2>1. Counted(sets[k]) /\ g[k] = Value(sets[k], kind)
    OBVIOUS
  <2>2. \A r \in sets[k] : Worth(sets[k], kind)[r] = f[r]
    BY DEF Worth
  <2>3. Summable(Worth(sets[k], kind), sets[k])
    BY <2>1, WorthIsCounted
  <2>. HIDE DEF f
  <2>4. SumOver(Worth(sets[k], kind), sets[k]) = SumOver(f, sets[k])
    BY <2>2, <2>3, SumSame
  <2>. QED  BY <2>1, <2>2, <2>3, <2>4 DEF Value, Summable
<1>. HIDE DEF f
<1>3. Summable(f, UNION {sets[k] : k \in D}) /\ SumOver(f, UNION {sets[k] : k \in D}) = SumOver(g, D)
  BY <1>2, SumUnion
<1>. QED  BY <1>1, <1>3 DEF f, Value, Counted, Summable

\* Within a transaction no resource is listed twice, on either side.
LEMMA MadeAreDistinct ==
  ASSUME NEW tx, Trusted(tx), NEW j \in DOMAIN tx.units, NEW k \in DOMAIN tx.units,
         NEW a \in DOMAIN WitnessOf(tx.units[j]).created,
         NEW b \in DOMAIN WitnessOf(tx.units[k]).created,
         WitnessOf(tx.units[j]).created[a].resource = WitnessOf(tx.units[k]).created[b].resource
  PROVE  j = k /\ a = b
<1>. DEFINE L(i) == CommitmentsOf(WitnessOf(tx.units[i]))
<1>1. Distinct(tx, CommitmentsOf)
  BY DEF Trusted, Deserving
<1>2. \A i, l \in DOMAIN tx.units : \A x \in DOMAIN L(i), y \in DOMAIN L(l) :
         L(i)[x] = L(l)[y] => i = l /\ x = y
  BY <1>1 DEF Distinct
<1>3. a \in DOMAIN L(j) /\ b \in DOMAIN L(k) /\ L(j)[a] = L(k)[b]
  BY DEF CommitmentsOf
<1>. HIDE DEF L
<1>. QED  BY <1>2, <1>3

LEMMA UsedAreDistinct ==
  ASSUME NEW tx, Trusted(tx), NEW j \in DOMAIN tx.units, NEW k \in DOMAIN tx.units,
         NEW a \in DOMAIN WitnessOf(tx.units[j]).consumed,
         NEW b \in DOMAIN WitnessOf(tx.units[k]).consumed,
         WitnessOf(tx.units[j]).consumed[a].resource = WitnessOf(tx.units[k]).consumed[b].resource
  PROVE  j = k /\ a = b
<1>. DEFINE L(i) == NullifiersOf(WitnessOf(tx.units[i]))
<1>1. Distinct(tx, NullifiersOf)
  BY DEF Trusted, Deserving
<1>2. \A i, l \in DOMAIN tx.units : \A x \in DOMAIN L(i), y \in DOMAIN L(l) :
         L(i)[x] = L(l)[y] => i = l /\ x = y
  BY <1>1 DEF Distinct
<1>3. /\ NullifiersOf(WitnessOf(tx.units[j]))[a] = NullifiersOf(WitnessOf(tx.units[k]))[b]
      /\ NullifiersOf(WitnessOf(tx.units[j]))[a]
           \in TransactionNullifiers(tx) \cap TransactionNullifiers(tx)
  BY SharedResource
<1>4. L(j)[a] = L(k)[b]
  BY <1>3
<1>5. a \in DOMAIN L(j) /\ b \in DOMAIN L(k)
  BY NullifierOfEntry
<1>. HIDE DEF L
<1>. QED  BY <1>2, <1>4, <1>5

\* What a transaction creates of a kind is what it consumes of it.
LEMMA TransactionEven ==
  ASSUME NEW tx, Trusted(tx), NEW kind \in Kinds
  PROVE  /\ Counted(Made(tx)) /\ Counted(Used(tx))
         /\ Value(Made(tx), kind) = Value(Used(tx), kind)
<1>. DEFINE D == DOMAIN tx.units
            w(k) == WitnessOf(tx.units[k])
            madeBy == [k \in D |-> ResourcesOf(w(k).created)]
            usedBy == [k \in D |-> ResourcesOf(w(k).consumed)]
            made == [k \in D |-> Quantity(w(k).created, kind)]
            used == [k \in D |-> Quantity(w(k).consumed, kind)]
            deltas == [k \in D |-> NetDelta(w(k))[kind]]
<1>1. IsFiniteSet(D)
  BY ListIsFinite DEF Trusted, Sound
<1>2. BelowOrder(tx)
  BY DEF Trusted, Deserving, Attested, Sound
<1>3. kind \in Basis /\ kind # Generator
  BY GeneratorAssumption DEF Basis
<1>4. SumFunction(deltas) % Order = 0
  BY <1>3 DEF Trusted, Deserving, Signed
<1>5. SumFunction(made) < Order /\ SumFunction(used) < Order
  BY <1>2 DEF BelowOrder
<1>6. /\ SumFunction(deltas) = SumOver(deltas, D)
      /\ SumFunction(made) = SumOver(made, D) /\ SumFunction(used) = SumOver(used, D)
  <2>1. DOMAIN deltas = D /\ DOMAIN made = D /\ DOMAIN used = D
    OBVIOUS
  <2>. HIDE DEF deltas, made, used
  <2>. QED  BY <2>1, SumFunctionIs
<1>7. ASSUME NEW k \in D
      PROVE  /\ IsList(w(k).created) /\ IsList(w(k).consumed) /\ HasNumbers(w(k))
             /\ w(k).kindTable = <<>>
  BY UnitTrusted DEF Trusted, Deserving, Attested, Sound
<1>8. ASSUME NEW k \in D
      PROVE  /\ made[k] \in Nat /\ used[k] \in Nat /\ deltas[k] \in Int
             /\ Cong(deltas[k], made[k] - used[k])
  <2>1. IsFiniteSet(DOMAIN w(k).created) /\ IsFiniteSet(DOMAIN w(k).consumed)
    BY <1>7, ListIsFinite
  <2>. HIDE DEF w
  <2>2. /\ Quantity(w(k).created, kind) \in Nat /\ Quantity(w(k).consumed, kind) \in Nat
        /\ NetDelta(w(k))[kind] \in Int
        /\ Cong(NetDelta(w(k))[kind], Quantity(w(k).created, kind) - Quantity(w(k).consumed, kind))
    BY <1>7, <2>1, DeltaOfWitness
  <2>. QED  BY <2>2
<1>9. ASSUME NEW j \in D, NEW k \in D, j # k
      PROVE  madeBy[j] \cap madeBy[k] = {} /\ usedBy[j] \cap usedBy[k] = {}
  <2>1. ResourcesOf(w(j).created) \cap ResourcesOf(w(k).created) = {}
    BY <1>9, MadeAreDistinct DEF ResourcesOf
  <2>2. ResourcesOf(w(j).consumed) \cap ResourcesOf(w(k).consumed) = {}
    BY <1>9, UsedAreDistinct DEF ResourcesOf
  <2>. HIDE DEF w
  <2>. QED  BY <2>1, <2>2
<1>10. ASSUME NEW k \in D
       PROVE  /\ Counted(madeBy[k]) /\ made[k] = Value(madeBy[k], kind)
              /\ Counted(usedBy[k]) /\ used[k] = Value(usedBy[k], kind)
  <2>1. AreNumbers(w(k).created) /\ AreNumbers(w(k).consumed)
    BY <1>7 DEF HasNumbers
  <2>2. \A a, b \in DOMAIN w(k).created : w(k).created[a].resource = w(k).created[b].resource => a = b
    BY MadeAreDistinct
  <2>3. \A a, b \in DOMAIN w(k).consumed : w(k).consumed[a].resource = w(k).consumed[b].resource => a = b
    BY UsedAreDistinct
  <2>. HIDE DEF w
  <2>4. /\ Counted(ResourcesOf(w(k).created))
        /\ Value(ResourcesOf(w(k).created), kind) = Quantity(w(k).created, kind)
    BY <1>7, <2>1, <2>2, ValueOfEntries
  <2>5. /\ Counted(ResourcesOf(w(k).consumed))
        /\ Value(ResourcesOf(w(k).consumed), kind) = Quantity(w(k).consumed, kind)
    BY <1>7, <2>1, <2>3, ValueOfEntries
  <2>. QED  BY <2>4, <2>5
<1>11. Made(tx) = UNION {madeBy[k] : k \in D} /\ Used(tx) = UNION {usedBy[k] : k \in D}
  BY DEF Made, Used
<1>. HIDE DEF D, madeBy, usedBy, made, used, deltas
<1>12. Counted(Made(tx)) /\ Value(Made(tx), kind) = SumOver(made, D)
  BY <1>1, <1>9, <1>10, <1>11, ValueOfUnits
<1>13. Counted(Used(tx)) /\ Value(Used(tx), kind) = SumOver(used, D)
  BY <1>1, <1>9, <1>10, <1>11, ValueOfUnits
<1>14. Cong(0, SumOver(deltas, D))
  <2>1. SumOver(deltas, D) \in Int
    BY <1>1, <1>8, SumIsInteger DEF Summable
  <2>2. SumOver(deltas, D) % Order = 0
    BY <1>4, <1>6
  <2>. QED  BY <2>1, <2>2, CongMod
<1>15. SumOver(made, D) < Order /\ SumOver(used, D) < Order
  BY <1>5, <1>6
<1>16. SumOver(made, D) = SumOver(used, D)
  BY <1>1, <1>8, <1>14, <1>15, SmallSumsCancel
<1>. QED  BY <1>12, <1>13, <1>16

\* So it is for all transactions together, whose resources are different.
Even ==
  \A kind \in Kinds : /\ Counted(AllMade) /\ Counted(AllUsed)
                      /\ Value(AllMade, kind) = Value(AllUsed, kind)

\* No resource is on the same side of two transactions.
LEMMA ResourcesDisjoint ==
  ASSUME NEW tx, Trusted(tx), NEW ty, Trusted(ty),
         TransactionNullifiers(tx) \cap TransactionNullifiers(ty) = {}
  PROVE  Used(tx) \cap Used(ty) = {} /\ Made(tx) \cap Made(ty) = {}
<1>1. ASSUME NEW r \in Used(tx), r \in Used(ty)
      PROVE  FALSE
  <2>1. PICK j \in DOMAIN tx.units : r \in ResourcesOf(WitnessOf(tx.units[j]).consumed)
    BY DEF Used
  <2>2. PICK k \in DOMAIN ty.units : r \in ResourcesOf(WitnessOf(ty.units[k]).consumed)
    BY <1>1 DEF Used
  <2>3. PICK a \in DOMAIN WitnessOf(tx.units[j]).consumed : r = WitnessOf(tx.units[j]).consumed[a].resource
    BY <2>1 DEF ResourcesOf
  <2>4. PICK b \in DOMAIN WitnessOf(ty.units[k]).consumed : r = WitnessOf(ty.units[k]).consumed[b].resource
    BY <2>2 DEF ResourcesOf
  <2>5. /\ NullifiersOf(WitnessOf(tx.units[j]))[a] = NullifiersOf(WitnessOf(ty.units[k]))[b]
        /\ NullifiersOf(WitnessOf(tx.units[j]))[a]
             \in TransactionNullifiers(tx) \cap TransactionNullifiers(ty)
    <3>1. WitnessOf(tx.units[j]).consumed[a].resource = WitnessOf(ty.units[k]).consumed[b].resource
      BY <2>3, <2>4
    <3>. QED  BY <3>1, SharedResource, SMTT(30)
  <2>. QED  BY <2>5
<1>2. ASSUME NEW r \in Made(tx), r \in Made(ty)
      PROVE  FALSE
  <2>1. PICK j \in DOMAIN tx.units : r \in ResourcesOf(WitnessOf(tx.units[j]).created)
    BY DEF Made
  <2>2. PICK k \in DOMAIN ty.units : r \in ResourcesOf(WitnessOf(ty.units[k]).created)
    BY <1>2 DEF Made
  <2>3. PICK a \in DOMAIN WitnessOf(tx.units[j]).created : r = WitnessOf(tx.units[j]).created[a].resource
    BY <2>1 DEF ResourcesOf
  <2>4. PICK b \in DOMAIN WitnessOf(ty.units[k]).created : r = WitnessOf(ty.units[k]).created[b].resource
    BY <2>2 DEF ResourcesOf
  <2>5. a \in DOMAIN tx.units[j].created /\ tx.units[j].created[a].commitment = Commit(r)
    BY <2>3, EntryCommitment
  <2>6. b \in DOMAIN ty.units[k].created /\ ty.units[k].created[b].commitment = Commit(r)
    BY <2>4, EntryCommitment
  <2>7. tx.units[j].created[a].commitment = ty.units[k].created[b].commitment
    BY <2>5, <2>6
  <2>. QED  BY <2>5, <2>6, <2>7, SharedCommitment
<1>. QED  BY <1>1, <1>2

LEMMA InitEven == Init => Even
<1>. SUFFICES ASSUME Init
              PROVE  Even
  OBVIOUS
<1>1. AllMade = {} /\ AllUsed = {}
  BY DEF Init, AllMade, AllUsed
<1>2. Counted({})
  BY FS_EmptySet DEF Counted
<1>. QED  BY <1>1, <1>2 DEF Even

\* Applying a transaction adds its resources, of which none was there.
LEMMA ApplyAdds ==
  ASSUME IInv, NEW p \in Workers, Apply(p)
  PROVE  /\ Trusted(worker[p].tx)
         /\ AllMade' = AllMade \cup Made(worker[p].tx) /\ AllMade \cap Made(worker[p].tx) = {}
         /\ AllUsed' = AllUsed \cup Used(worker[p].tx) /\ AllUsed \cap Used(worker[p].tx) = {}
<1>. DEFINE tx == worker[p].tx
<1>1. worker[p] # Idle
  BY DEF Apply, Idle
<1>2. Trusted(tx)
  BY <1>1 DEF IInv, WorkersTrusted
<1>3. applied' = Append(applied, tx) /\ TransactionNullifiers(tx) \cap nullifiers = {}
  BY DEF Apply, Fresh
<1>4. /\ DOMAIN applied' = DOMAIN applied \cup {Len(applied) + 1}
      /\ Len(applied) + 1 \notin DOMAIN applied
      /\ applied'[Len(applied) + 1] = tx
      /\ \A n \in DOMAIN applied : applied'[n] = applied[n]
  BY <1>3, ListAppend DEF IInv, IsHistory
<1>. HIDE DEF tx
<1>5. AllMade' = AllMade \cup Made(tx) /\ AllUsed' = AllUsed \cup Used(tx)
  BY <1>4 DEF AllMade, AllUsed
<1>6. ASSUME NEW n \in DOMAIN applied
      PROVE  Used(applied[n]) \cap Used(tx) = {} /\ Made(applied[n]) \cap Made(tx) = {}
  <2>1. Trusted(applied[n])
    BY DEF IInv, AppliedTrusted
  <2>2. TransactionNullifiers(applied[n]) \cap TransactionNullifiers(tx) = {}
    BY <1>3 DEF IInv, NullifiersStored
  <2>. QED  BY <1>2, <2>1, <2>2, ResourcesDisjoint
<1>7. AllMade \cap Made(tx) = {} /\ AllUsed \cap Used(tx) = {}
  BY <1>6 DEF AllMade, AllUsed
<1>. QED  BY <1>2, <1>5, <1>7 DEF tx

LEMMA NextEven ==
  ASSUME IInv, Even, [Next]_vars
  PROVE  Even'
<1>1. ASSUME NEW p \in Workers, Apply(p)
      PROVE  Even'
  <2>. DEFINE tx == worker[p].tx
  <2>1. /\ Trusted(tx)
        /\ AllMade' = AllMade \cup Made(tx) /\ AllMade \cap Made(tx) = {}
        /\ AllUsed' = AllUsed \cup Used(tx) /\ AllUsed \cap Used(tx) = {}
    BY <1>1, ApplyAdds
  <2>. HIDE DEF tx
  <2>2. ASSUME NEW kind \in Kinds
        PROVE  /\ Counted(AllMade') /\ Counted(AllUsed')
               /\ Value(AllMade', kind) = Value(AllUsed', kind)
    <3>1. /\ Counted(Made(tx)) /\ Counted(Used(tx))
          /\ Value(Made(tx), kind) = Value(Used(tx), kind)
      BY <2>1, TransactionEven
    <3>2. /\ Counted(AllMade) /\ Counted(AllUsed)
          /\ Value(AllMade, kind) = Value(AllUsed, kind)
      BY DEF Even
    <3>3. /\ Counted(AllMade \cup Made(tx))
          /\ Value(AllMade \cup Made(tx), kind) = Value(AllMade, kind) + Value(Made(tx), kind)
      BY <2>1, <3>1, <3>2, ValueOfParts
    <3>4. /\ Counted(AllUsed \cup Used(tx))
          /\ Value(AllUsed \cup Used(tx), kind) = Value(AllUsed, kind) + Value(Used(tx), kind)
      BY <2>1, <3>1, <3>2, ValueOfParts
    <3>. QED  BY <2>1, <3>1, <3>2, <3>3, <3>4
  <2>3. \A kind \in Kinds : /\ Counted(AllMade') /\ Counted(AllUsed')
                            /\ Value(AllMade', kind) = Value(AllUsed', kind)
    BY <2>2
  <2>. QED  BY <2>3 DEF Even, Counted, Value, Worth
<1>2. CASE applied' = applied
  BY <1>2 DEF Even, AllMade, AllUsed
<1>3. ASSUME NEW bytes \in Submissions(applied), NEW p \in IdleWorkers, Answer(p, bytes)
      PROVE  applied' = applied
  BY <1>3 DEF Answer, TurnDown, VerifyAndExtract, VerifyTransaction, Take, vars
<1>4. ASSUME NEW p \in Workers, ReadLists(p) \/ Conflict(p)
      PROVE  applied' = applied
  BY <1>4 DEF ReadLists, Conflict
<1>. QED  BY <1>1, <1>2, <1>3, <1>4 DEF Next, vars

\* What is persistent, what is ephemeral.
Flagged(S, ephemeral) == {r \in S : r.isEphemeral = ephemeral}

Kept(S) == Flagged(S, FALSE)
Gone(S) == Flagged(S, TRUE)

LEMMA ValueByFlag ==
  ASSUME NEW S, Counted(S), \A r \in S : r.isEphemeral \in BOOLEAN, NEW kind
  PROVE  /\ Counted(Kept(S)) /\ Counted(Gone(S))
         /\ Value(S, kind) = Value(Kept(S), kind) + Value(Gone(S), kind)
<1>. DEFINE A == Kept(S)
            B == Gone(S)
<1>1. A \in SUBSET S /\ B \in SUBSET S
  BY DEF Kept, Gone, Flagged
<1>2. A \cup B = S
  BY DEF Kept, Gone, Flagged
<1>3. A \cap B = {}
  BY DEF Kept, Gone, Flagged
<1>. HIDE DEF A, B
<1>4. Counted(A) /\ Counted(B)
  BY <1>1, WorthOfPart
<1>5. Counted(A \cup B) /\ Value(A \cup B, kind) = Value(A, kind) + Value(B, kind)
  BY <1>3, <1>4, ValueOfParts, SMTT(30)
<1>. QED  BY <1>2, <1>4, <1>5 DEF A, B

\* What the ledger holds of a kind.
LEMMA HoldingsAre ==
  ASSUME NEW S, Counted(S), NEW kind, NEW ephemeral
  PROVE  Holdings(S, kind, ephemeral) = Value(Flagged(S, ephemeral), kind)
<1>. DEFINE T == Flagged(S, ephemeral)
            H == {r \in S : KindOf(r) = kind /\ r.isEphemeral = ephemeral}
            g == [r \in H |-> r.quantity]
            f == Worth(T, kind)
<1>1. T \in SUBSET S /\ H \in SUBSET T /\ DOMAIN g = H
  BY DEF Flagged
<1>2. Counted(T)
  BY <1>1, WorthOfPart
<1>3. \A r \in T \ H : f[r] = 0
  BY DEF Worth, Flagged
<1>4. \A r \in H : f[r] = g[r]
  BY DEF Worth, Flagged
<1>5. Summable(f, T)
  BY <1>2, WorthIsCounted
<1>6. Holdings(S, kind, ephemeral) = SumFunction(g)
  BY DEF Holdings
<1>. HIDE DEF T, H, f, g
<1>7. SumFunction(g) = SumOver(g, H)
  BY <1>1, SumFunctionIs
<1>8. Summable(f, H) /\ SumOver(f, T) = SumOver(f, H)
  BY <1>1, <1>3, <1>5, SumWithin
<1>9. SumOver(f, H) = SumOver(g, H)
  BY <1>4, <1>8, SumSame
<1>10. SumOver(f, T) = Value(T, kind)
  BY DEF Value, f
<1>. QED  BY <1>6, <1>7, <1>8, <1>9, <1>10 DEF T

LEMMA HoldingsIs ==
  ASSUME NEW S, Counted(S), NEW kind
  PROVE  /\ Holdings(S, kind, FALSE) = Value(Kept(S), kind)
         /\ Holdings(S, kind, TRUE) = Value(Gone(S), kind)
<1>. DEFINE persistent == FALSE
            ephemeral == TRUE
<1>. HIDE DEF persistent, ephemeral
<1>1. Holdings(S, kind, persistent) = Value(Flagged(S, persistent), kind)
  BY HoldingsAre
<1>2. Holdings(S, kind, ephemeral) = Value(Flagged(S, ephemeral), kind)
  BY HoldingsAre
<1>. QED  BY <1>1, <1>2 DEF Kept, Gone, persistent, ephemeral

\* A resource is ephemeral or persistent.
LEMMA ResourcesAreFlagged ==
  ASSUME IInv, NEW r \in AllMade \cup AllUsed
  PROVE  r.isEphemeral \in BOOLEAN
<1>1. ASSUME NEW n \in DOMAIN applied, NEW k \in DOMAIN applied[n].units,
             r \in ResourcesOf(WitnessOf(applied[n].units[k]).created)
                     \cup ResourcesOf(WitnessOf(applied[n].units[k]).consumed)
      PROVE  r.isEphemeral \in BOOLEAN
  <2>1. IsResource(r)
    BY <1>1 DEF IInv, AppliedTrusted, Trusted, Sound, ResourcesOf
  <2>. QED  BY <2>1 DEF IsResource
<1>. QED  BY <1>1 DEF AllMade, AllUsed, Made, Used

\* A persistent resource that was consumed was created.
LEMMA PersistentWereMade ==
  ASSUME IInv, ConsumedWereCreated, NEW r \in AllUsed, ~r.isEphemeral
  PROVE  r \in AllMade
<1>1. PICK n \in DOMAIN applied : r \in Used(applied[n])
  BY DEF AllUsed
<1>2. r \in ResourcesOf(ConsumedBy(applied[n]))
  BY <1>1, UsedAndMade DEF IInv, AppliedTrusted
<1>3. PICK k \in DOMAIN ConsumedBy(applied[n]) : ConsumedBy(applied[n])[k].resource = r
  BY <1>2 DEF ResourcesOf
<1>4. PICK m \in 1..(n - 1) :
         \E j \in DOMAIN CreatedBy(applied[m]) : CreatedBy(applied[m])[j].resource = r
  BY <1>3 DEF ConsumedWereCreated
<1>5. m \in DOMAIN applied
  BY ListDomain DEF IInv, IsHistory
<1>6. r \in ResourcesOf(CreatedBy(applied[m]))
  BY <1>4 DEF ResourcesOf
<1>7. r \in Made(applied[m])
  BY <1>5, <1>6, UsedAndMade DEF IInv, AppliedTrusted
<1>. QED  BY <1>5, <1>7 DEF AllMade

\* Of what was created there is what is unspent, what was spent and what was
\* ephemeral; of what was consumed, what was spent and what was ephemeral.
LEMMA InvariantConserved == IInv /\ Even /\ ConsumedWereCreated => Conserved
<1>. SUFFICES ASSUME IInv, Even, ConsumedWereCreated, NEW kind \in Kinds
              PROVE  Holdings(ToSet(Created) \ ToSet(Consumed), kind, FALSE)
                       = Holdings(ToSet(Consumed), kind, TRUE) - Holdings(ToSet(Created), kind, TRUE)
  BY DEF Conserved
<1>. DEFINE C == AllMade
            K == AllUsed
            U == C \ K
<1>1. ToSet(Consumed) = K /\ ToSet(Created) = C
  BY HistoryListed
<1>2. Counted(C) /\ Counted(K) /\ Value(C, kind) = Value(K, kind)
  BY DEF Even
<1>3. \A r \in C \cup K : r.isEphemeral \in BOOLEAN
  BY ResourcesAreFlagged
<1>4. Kept(K) \subseteq Kept(C)
  BY PersistentWereMade DEF Kept, Flagged
<1>5. U \in SUBSET C /\ Kept(U) \cup Kept(K) = Kept(C) /\ Kept(U) \cap Kept(K) = {}
  BY <1>4 DEF Kept, Flagged
<1>. HIDE DEF C, K, U
<1>6. Counted(U) /\ \A r \in U : r.isEphemeral \in BOOLEAN
  BY <1>2, <1>3, <1>5, WorthOfPart
<1>. DEFINE made == Value(C, kind)
            kept == Value(Kept(C), kind)
            came == Value(Gone(C), kind)
            used == Value(K, kind)
            spent == Value(Kept(K), kind)
            went == Value(Gone(K), kind)
            unspent == Value(Kept(U), kind)
<1>7. Counted(Kept(C)) /\ Counted(Gone(C)) /\ made = kept + came
  BY <1>2, <1>3, ValueByFlag
<1>8. Counted(Kept(K)) /\ Counted(Gone(K)) /\ used = spent + went
  BY <1>2, <1>3, ValueByFlag
<1>9. Counted(Kept(U))
  BY <1>6, ValueByFlag
<1>10. kept = unspent + spent
  <2>1. /\ Counted(Kept(U) \cup Kept(K))
        /\ Value(Kept(U) \cup Kept(K), kind) = Value(Kept(U), kind) + Value(Kept(K), kind)
    BY <1>5, <1>8, <1>9, ValueOfParts
  <2>. QED  BY <1>5, <2>1
<1>11. /\ kept \in Nat /\ came \in Nat /\ spent \in Nat /\ went \in Nat /\ unspent \in Nat
       /\ made = used
  BY <1>2, <1>7, <1>8, <1>9, WorthIsCounted
<1>12. Holdings(U, kind, FALSE) = unspent
  BY <1>6, HoldingsIs
<1>13. Holdings(K, kind, TRUE) = went
  BY <1>2, HoldingsIs
<1>14. Holdings(C, kind, TRUE) = came
  BY <1>2, HoldingsIs
<1>. HIDE DEF made, kept, came, used, spent, went, unspent
<1>15. unspent = went - came
  BY <1>7, <1>8, <1>10, <1>11
<1>. QED  BY <1>1, <1>12, <1>13, <1>14, <1>15 DEF U

(* Nothing is made out of nothing: of every kind, what is unspent is what  *)
(* came in by ephemeral resources less what went out by them.  The deltas  *)
(* of a verified transaction cancel (verify of the delta proof), quantities*)
(* are too small to cancel modulo the order only, no resource counts twice *)
(* and none is spent that was not created.                                 *)
THEOREM LedgerConserved ==
  ASSUME ZeroRootIsNoDigest
  PROVE  Spec /\ []GuestSoundness => []Conserved
<1>1. IInv /\ Even /\ [Next]_vars => Even'
  BY NextEven
<1>2. Spec /\ []GuestSoundness => []ConsumedWereCreated
  BY LedgerConsumedWereCreated
<1>. QED  BY Invariant, InitEven, <1>1, <1>2, InvariantConserved, PTL DEF Spec

-----------------------------------------------------------------------------
(* One ledger.                                                             *)

\* The ideal ledger adds up as the history does.
LEMMA AmountIs ==
  ASSUME NEW S, NEW kind
  PROVE  Ideal!Amount(S, kind) = Value(S, kind)
<1>1. \A f : Ideal!SumFunction(f) = SumOver(f, DOMAIN f)
  BY DEF Ideal!SumFunction, Ideal!SumFunctionOnSet, Ideal!FoldFunctionOnSet,
         Ideal!MapThenFoldSet, SumOver, IsSums, Summed, AnyOf
<1>2. Ideal!Amount(S, kind) = Ideal!SumFunction(Worth(S, kind))
  BY DEF Ideal!Amount, Worth
<1>3. DOMAIN Worth(S, kind) = S
  BY DEF Worth
<1>. QED  BY <1>1, <1>2, <1>3 DEF Value

\* What the lists of the history name.
Listed == ToSet(Consumed) = AllUsed /\ ToSet(Created) = AllMade

\* It transfers them.
LEMMA ApplyTransfers ==
  ASSUME IInv, ZeroRootIsNoDigest, NEW p \in Workers, Apply(p)
  PROVE  /\ AllUsed \subseteq AllUsed' /\ AllMade \subseteq AllMade'
         /\ AllUsed' \ AllUsed # {}
         /\ {r \in AllUsed' \ AllUsed : ~r.isEphemeral} \subseteq AllMade
         /\ \A kind \in Kinds : Value(AllUsed' \ AllUsed, kind) = Value(AllMade' \ AllMade, kind)
<1>. DEFINE tx == worker[p].tx
<1>1. /\ Trusted(tx)
      /\ AllMade' = AllMade \cup Made(tx) /\ AllMade \cap Made(tx) = {}
      /\ AllUsed' = AllUsed \cup Used(tx) /\ AllUsed \cap Used(tx) = {}
  BY ApplyAdds
<1>2. TransactionRoots(tx) \ {ZeroRoot} \subseteq roots
  BY DEF Apply, Fresh
<1>. HIDE DEF tx
<1>3. AllUsed' \ AllUsed = Used(tx) /\ AllMade' \ AllMade = Made(tx)
  BY <1>1
<1>4. Used(tx) # {}
  <2>1. PICK nf : nf \in TransactionNullifiers(tx)
    BY <1>1, TransactionConsumes
  <2>2. PICK e : e \in UNION {Items(WitnessOf(tx.units[k]).consumed) : k \in DOMAIN tx.units}
    BY <1>1, <2>1, NullifiersOfUnits
  <2>3. e.resource \in Used(tx)
    BY <2>2 DEF Used, ResourcesOf, Items
  <2>. QED  BY <2>3
<1>5. ASSUME NEW r \in Used(tx), ~r.isEphemeral
      PROVE  r \in AllMade
  <2>1. Spends(tx, r)
    BY DEF Used, ResourcesOf, Spends, Items
  <2>2. PICK m \in DOMAIN applied : Makes(applied[m], r)
    BY <1>1, <1>2, <1>5, <2>1, SpendableWasMade
  <2>3. r \in Made(applied[m])
    BY <2>2 DEF Makes, Made, ResourcesOf, Items
  <2>. QED  BY <2>3 DEF AllMade
<1>6. \A kind \in Kinds : Value(Used(tx), kind) = Value(Made(tx), kind)
  BY <1>1, TransactionEven
<1>. QED  BY <1>1, <1>3, <1>4, <1>5, <1>6

LEMMA NextTransfers ==
  ASSUME IInv, ZeroRootIsNoDigest, Listed, Listed', [Next]_vars
  PROVE  [Ideal!Next]_(Ideal!vars)
<1>1. ASSUME NEW p \in Workers, Apply(p)
      PROVE  Ideal!Next
  <2>. DEFINE ins == AllUsed' \ AllUsed
              outs == AllMade' \ AllMade
  <2>1. /\ AllUsed \subseteq AllUsed' /\ AllMade \subseteq AllMade'
        /\ ins # {} /\ {r \in ins : ~r.isEphemeral} \subseteq AllMade
        /\ \A kind \in Kinds : Value(ins, kind) = Value(outs, kind)
    BY <1>1, ApplyTransfers
  <2>2. ins = ToSet(Consumed)' \ ToSet(Consumed) /\ outs = ToSet(Created)' \ ToSet(Created)
    BY DEF Listed
  <2>. HIDE DEF ins, outs
  <2>3. \A kind \in Kinds : Ideal!Amount(ins, kind) = Ideal!Amount(outs, kind)
    BY <2>1, AmountIs
  <2>4. Ideal!Transfer(ins, outs)
    BY <2>1, <2>3 DEF Ideal!Transfer, Listed
  <2>. QED  BY <2>1, <2>2, <2>4 DEF Ideal!Next, Listed
<1>2. CASE applied' = applied
  BY <1>2 DEF Listed, AllMade, AllUsed, Ideal!vars
<1>3. ASSUME NEW bytes \in Submissions(applied), NEW p \in IdleWorkers, Answer(p, bytes)
      PROVE  applied' = applied
  BY <1>3 DEF Answer, TurnDown, VerifyAndExtract, VerifyTransaction, Take, vars
<1>4. ASSUME NEW p \in Workers, ReadLists(p) \/ Conflict(p)
      PROVE  applied' = applied
  BY <1>4 DEF ReadLists, Conflict
<1>. QED  BY <1>1, <1>2, <1>3, <1>4 DEF Next, vars

(* The bindings and the node (verify_and_extract, and what is done with    *)
(* its answer) implement the ledger of those who hold resources: what is   *)
(* transferred between two states of it is one verified transaction.       *)
THEOREM LedgerImplementsIdeal ==
  ASSUME ZeroRootIsNoDigest
  PROVE  Spec /\ []GuestSoundness => ImplementsIdeal
<1>1. Init => Ideal!Init
  <2>. SUFFICES ASSUME Init
                PROVE  Ideal!Init
    OBVIOUS
  <2>1. IInv
    BY InitInvariant
  <2>2. AllUsed = {} /\ AllMade = {}
    BY DEF Init, AllUsed, AllMade
  <2>. QED  BY <2>1, <2>2, HistoryListed DEF Ideal!Init
<1>2. IInv => Listed
  BY HistoryListed DEF Listed
<1>3. IInv /\ Listed /\ Listed' /\ [Next]_vars => [Ideal!Next]_(Ideal!vars)
  BY NextTransfers
<1>. QED  BY Invariant, <1>1, <1>2, <1>3, PTL DEF Spec, ImplementsIdeal, Ideal!Spec

=============================================================================
