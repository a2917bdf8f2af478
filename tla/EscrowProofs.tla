---------------------------- MODULE EscrowProofs ----------------------------
(***************************************************************************)
(* For any accounts, keys, tokens and actions: a resource that was created *)
(* for a key can be spent by its holder, and by nobody else; the forwarder *)
(* holds what the unspent resources are worth; an account gets what it is  *)
(* named for.  The invariant says that a persistent resource hashes the    *)
(* key it was created for and the ciphertext that was published with it,   *)
(* that what was signed is the root of a list of tags, that no two         *)
(* resources are the same, and that what is nullified was there.           *)
(***************************************************************************)
EXTENDS TokenEscrow, BasicProofs

-----------------------------------------------------------------------------
(* What is assumed of the actions that may be put together.                *)

StringOrNone(x) == x = None \/ IsString(x)

\* Keys and ciphertexts are strings, quantities are numbers, and no resource
\* is the word "EMPTY", which is shorter.
ProperEntry(w) ==
  /\ StringOrNone(w.authPk) /\ StringOrNone(w.payload)
  /\ w.resource # EmptyLeaf /\ w.resource.quantity \in Nat

\* Lists are lists, and entries are on the side they say.  Creators name the
\* common nullifier key.  All resources have the logic of the wrapper.
Proper(action) ==
  /\ IsString(action.consumed) /\ IsString(action.created)
  /\ \A k \in DOMAIN action.consumed :
       action.consumed[k].isConsumed /\ ProperEntry(action.consumed[k])
  /\ \A k \in DOMAIN action.created :
       LET w == action.created[k]
       IN  ~w.isConsumed /\ ProperEntry(w) /\ KeyMatches(w.resource, HolderKey)
  /\ \A v, w \in ToSet(Entries(action)) : v.resource.logicRef = w.resource.logicRef

ProperProposals == \A action \in Proposals(Unspent, Signatures) : Proper(action)

-----------------------------------------------------------------------------
\* A persistent resource is bound to its key and its published ciphertext.
Bound(r) ==
  /\ KeyMatches(r.resource, HolderKey)
  /\ IsString(r.to) /\ IsString(r.published[1])
  /\ r.published[1] # None
  /\ r.resource.valueRef = PersistentValueRef(r.to, r.published[1])

IInv == /\ \A r \in Persistent(resources) : Bound(r)
        /\ \A i \in intents : IsTagList(i.tags)

-----------------------------------------------------------------------------
(* Strings.                                                                *)

LEMMA StringOver ==
  ASSUME NEW x, IsString(x), NEW S, \A k \in DOMAIN x : x[k] \in S
  PROVE  x \in Seq(S)
BY SeqMonotonic DEF IsString

\* A string of which none starts another ends where it ends, whatever follows.
LEMMA PartsDetermined ==
  ASSUME NEW Firsts, \A a \in Firsts : IsString(a),
         \A a, b \in Firsts : (\A k \in DOMAIN a \cap DOMAIN b : a[k] = b[k]) => a = b,
         NEW key \in Firsts, NEW other \in Firsts,
         NEW x, IsString(x), NEW y, IsString(y), key \o x = other \o y
  PROVE  key = other /\ x = y
<1>. DEFINE S == {key[b] : b \in DOMAIN key} \cup {other[b] : b \in DOMAIN other}
                 \cup {x[b] : b \in DOMAIN x} \cup {y[b] : b \in DOMAIN y}
<1>1. key \in Seq(S) /\ other \in Seq(S) /\ x \in Seq(S) /\ y \in Seq(S)
  <2>1. IsString(key) /\ IsString(other)
    OBVIOUS
  <2>. QED  BY <2>1, StringOver
<1>. HIDE DEF S
<1>2. /\ \A b \in DOMAIN key : (key \o x)[b] = key[b]
      /\ \A b \in DOMAIN other : (other \o y)[b] = other[b]
  BY <1>1
<1>3. \A b \in DOMAIN key \cap DOMAIN other : key[b] = other[b]
  BY <1>2
<1>4. key = other
  BY <1>3
<1>5. key \o x = key \o y
  BY <1>4
<1>6. x = y
  BY <1>1, <1>5, ConcatSimplifications
<1>. QED  BY <1>4, <1>6

\* A key, and an address.
LEMMA KeyDetermined ==
  ASSUME NEW key \in AuthorityKeys, NEW other \in AuthorityKeys,
         NEW x, IsString(x), NEW y, IsString(y), key \o x = other \o y
  PROVE  key = other
BY KeysAssumption, PartsDetermined

\* A label is for one forwarder and one token.
LEMMA LabelDetermined ==
  ASSUME NEW l, l.forwarder \in Addresses, l.token \in Addresses, NEW t \in Tokens
  PROVE  LabelRef(l) = LabelRef([forwarder |-> Forwarder, token |-> t])
           <=> l.forwarder = Forwarder /\ l.token = t
<1>1. Forwarder \in Addresses /\ t \in Addresses
  BY EscrowAssumption
<1>2. ASSUME l.forwarder \o l.token = Forwarder \o t
      PROVE  l.forwarder = Forwarder /\ l.token = t
  <2>. DEFINE fw == l.forwarder
              tk == l.token
  <2>1. /\ fw \in Addresses /\ tk \in Addresses /\ IsString(tk) /\ IsString(t)
        /\ fw \o tk = Forwarder \o t
    BY <1>1, <1>2, AddressesAssumption
  <2>. HIDE DEF fw, tk
  <2>2. fw = Forwarder /\ tk = t
    BY <1>1, <2>1, AddressesAssumption, PartsDetermined
  <2>. QED  BY <2>2 DEF fw, tk
<1>3. \A x, y : Keccak(x) = Keccak(y) => x = y
  BY DEF Keccak
<1>. QED  BY <1>2, <1>3 DEF LabelRef

-----------------------------------------------------------------------------
(* The entries of an action.                                               *)

LEMMA ConcatHasBoth ==
  ASSUME NEW S, NEW c \in Seq(S), NEW d \in Seq(S)
  PROVE  ToSet(c) \subseteq ToSet(c \o d) /\ ToSet(d) \subseteq ToSet(c \o d)
<1>1. ASSUME NEW k \in DOMAIN c
      PROVE  k \in DOMAIN (c \o d) /\ (c \o d)[k] = c[k]
  OBVIOUS
<1>2. ASSUME NEW k \in DOMAIN d
      PROVE  Len(c) + k \in DOMAIN (c \o d) /\ (c \o d)[Len(c) + k] = d[k]
  OBVIOUS
<1>. QED  BY <1>1, <1>2 DEF ToSet

LEMMA EntriesAreBoth ==
  ASSUME NEW action, Proper(action)
  PROVE  /\ ToSet(action.consumed) \subseteq ToSet(Entries(action))
         /\ ToSet(action.created) \subseteq ToSet(Entries(action))
<1>. DEFINE S == ToSet(action.consumed) \cup ToSet(action.created)
<1>1. action.consumed \in Seq(S) /\ action.created \in Seq(S)
  BY StringOver DEF Proper, ToSet
<1>. HIDE DEF S
<1>. QED  BY <1>1, ConcatHasBoth DEF Entries

\* The tags of a verified action are a list with a nullifier at its head, so
\* that the root of their tree determines them.
LEMMA TagsAreTagList ==
  ASSUME NEW action, Proper(action), action.consumed # <<>>
  PROVE  IsTagList(TagList(action))
<1>. DEFINE S == ToSet(action.consumed) \cup ToSet(action.created)
            c == action.consumed
            d == action.created
            e == Entries(action)
            t == TagList(action)
<1>1. c \in Seq(S) /\ d \in Seq(S)
  BY StringOver DEF Proper, ToSet
<1>2. \A w \in S : w.resource # EmptyLeaf
  BY DEF Proper, ProperEntry, ToSet
<1>. HIDE DEF S
<1>3. e \in Seq(S) /\ Len(e) \in Nat \ {0} /\ e[1] = c[1] /\ 1 \in DOMAIN c
  <2>1. e = c \o d /\ c # <<>>
    BY DEF Entries
  <2>. HIDE DEF c, d, e
  <2>2. 1 \in DOMAIN c
    BY <1>1, <2>1
  <2>. QED  BY <1>1, <2>1, <2>2
<1>. HIDE DEF d, e
<1>4. t = [k \in 1..Len(e) |-> TagOf(e[k])] /\ Len(t) = Len(e) /\ 1 \in 1..Len(e)
  BY <1>3 DEF TagList, e
<1>5. IsLevel(t, Len(t))
  <2>. HIDE DEF t
  <2>. QED  BY <1>3, <1>4 DEF IsLevel
<1>6. \E r, key : t[1] = HashTwo(Keccak(<<r>>), key)
  <2>1. c[1].isConsumed
    BY <1>3 DEF Proper
  <2>2. t[1] = TagOf(c[1])
    BY <1>3, <1>4
  <2>. HIDE DEF c, t
  <2>3. t[1] = HashTwo(Keccak(<<c[1].resource>>), c[1].nullifierKey)
    BY <2>1, <2>2 DEF TagOf, ComputeNullifier, Commit
  <2>. QED  BY <2>3
<1>7. ASSUME NEW k \in DOMAIN t, t[k] = Keccak(<<EmptyLeaf>>)
      PROVE  FALSE
  <2>1. e[k] \in S /\ TagOf(e[k]) = Keccak(<<EmptyLeaf>>)
    BY <1>3, <1>4, <1>7
  <2>2. TagOf(e[k]) = Keccak(<<e[k].resource>>)
    BY <2>1, HashTwoIsNotOne DEF TagOf, ComputeNullifier, Commit
  <2>3. e[k].resource = EmptyLeaf
    BY <2>1, <2>2 DEF Keccak
  <2>. QED  BY <1>2, <2>1, <2>3
<1>. HIDE DEF t
<1>. QED  BY <1>5, <1>6, <1>7 DEF IsTagList, t

\* The nullifiers of an action are among the tags whose root is signed.
LEMMA NullifiersAreTags ==
  ASSUME NEW action, Proper(action), NEW k \in DOMAIN action.consumed
  PROVE  NullifiersIn(action)[k] \in ToSet(TagList(action))
<1>. DEFINE w == action.consumed[k]
<1>1. w \in ToSet(Entries(action))
  BY EntriesAreBoth DEF ToSet
<1>2. PICK j \in DOMAIN Entries(action) : Entries(action)[j] = w
  BY <1>1 DEF ToSet
<1>3. j \in DOMAIN TagList(action) /\ TagList(action)[j] = TagOf(w)
  BY <1>2 DEF TagList
<1>. QED  BY <1>3 DEF ToSet, NullifiersIn

-----------------------------------------------------------------------------
\* What the logic has checked of a created persistent resource.
LEMMA CreatedBound ==
  ASSUME NEW action, Proper(action), Verified(action), NEW r \in Persistent(Created(action))
  PROVE  Bound(r)
<1>1. PICK w \in ToSet(action.created) :
        r = [resource |-> w.resource, to |-> w.authPk,
             published |-> AppDataOf(w).resourcePayload]
  BY DEF Persistent, Created
<1>2. /\ ~w.isConsumed /\ StringOrNone(w.authPk) /\ StringOrNone(w.payload)
      /\ KeyMatches(w.resource, HolderKey)
  BY DEF Proper, ProperEntry, ToSet
<1>3. ~w.resource.isEphemeral
  BY <1>1 DEF Persistent
<1>4. Approves(w)
  BY EntriesAreBoth DEF Verified
<1>5. w.authPk # None /\ w.payload # None /\ ValueBound(w)
  BY <1>2, <1>3, <1>4 DEF Approves, PersistentCreateApproves
<1>6. r.published[1] = w.payload
  BY <1>1, <1>2, <1>3 DEF AppDataOf, NoAppData
<1>. QED  BY <1>1, <1>2, <1>5, <1>6 DEF Bound, ValueBound, StringOrNone

LEMMA InitInvariant == Init => IInv
BY DEF Init, IInv, Persistent

LEMMA NextInvariant == IInv /\ ProperProposals /\ [Next]_vars => IInv'
<1>. SUFFICES ASSUME IInv, ProperProposals, [Next]_vars
              PROVE  IInv'
  OBVIOUS
<1>1. ASSUME NEW action \in Proposals(Unspent, Signatures), Authorize(action)
      PROVE  IInv'
  <2>1. /\ resources' = resources /\ Verified(action)
        /\ \E w : intents' = intents \cup {[signer |-> SignerOf(w), tags |-> TagList(action)]}
    BY <1>1 DEF Authorize
  <2>2. IsTagList(TagList(action))
    BY <2>1, TagsAreTagList DEF ProperProposals, Verified
  <2>3. \A i \in intents' : IsTagList(i.tags)
    BY <2>1, <2>2 DEF IInv
  <2>. QED  BY <2>1, <2>3 DEF IInv, Persistent, Bound
<1>2. ASSUME NEW action \in Proposals(Unspent, Signatures), Settle(action)
      PROVE  IInv'
  <2>1. Proper(action) /\ Verified(action)
    BY <1>2 DEF ProperProposals, Settle
  <2>2. Persistent(resources') = Persistent(resources) \cup Persistent(Created(action))
    BY <1>2 DEF Settle, Persistent
  <2>3. \A r \in Persistent(resources') : Bound(r)
    BY <2>1, <2>2, CreatedBound DEF IInv
  <2>. QED  BY <1>2, <2>3 DEF IInv, Persistent, Bound, Settle
<1>3. CASE UNCHANGED vars
  BY <1>3 DEF vars, IInv, Persistent, Bound
<1>. QED  BY <1>1, <1>2, <1>3 DEF Next

LEMMA Invariant == Spec /\ []ProperProposals => []IInv
BY InitInvariant, NextInvariant, PTL DEF Spec

-----------------------------------------------------------------------------
(* The holders of resources.                                               *)

LEMMA InvariantCreatedIsSpendable == IInv => CreatedIsSpendable
<1>. SUFFICES ASSUME IInv, NEW r \in Persistent(Unspent), r.to \in AuthorityKeys
              PROVE  Approves(SpendingWitness(r, r.to, ZeroRoot))
  BY DEF CreatedIsSpendable
<1>. DEFINE w == SpendingWitness(r, r.to, ZeroRoot)
<1>1. Bound(r) /\ ~r.resource.isEphemeral
  BY DEF IInv, Persistent, Unspent
<1>2. /\ w.isConsumed /\ w.resource = r.resource /\ w.nullifierKey = HolderKey
      /\ w.authPk = r.to /\ w.payload = r.published[1]
      /\ w.authSig = Signature(r.to, ZeroRoot) /\ w.actionRoot = ZeroRoot
  BY DEF SpendingWitness
<1>. HIDE DEF w
<1>3. HasTag(w)
  BY <1>1, <1>2, EscrowAssumption DEF HasTag, Bound
<1>4. PersistentConsumeApproves(w)
  BY <1>1, <1>2, EscrowAssumption, KeysAssumption
     DEF PersistentConsumeApproves, ValueBound, Bound
<1>5. Approves(w)
  BY <1>1, <1>2, <1>3, <1>4 DEF Approves
<1>. QED  BY <1>5 DEF w

\* A spend of a resource reveals the key that the resource hashes.
LEMMA SpenderHasKey ==
  ASSUME NEW r, Bound(r), ~r.resource.isEphemeral, r.to \in AuthorityKeys,
         NEW w, w.isConsumed, StringOrNone(w.payload), Approves(w),
         TagOf(w) = NullifierOf(r)
  PROVE  w.authSig = Signature(r.to, w.actionRoot) /\ w.authSig # None
<1>1. w.resource = r.resource
  BY CommitDetermines DEF TagOf, NullifierOf, ComputeNullifier, HashTwo, Keccak
<1>2. PersistentConsumeApproves(w)
  BY <1>1 DEF Approves
<1>3. w.authPk \in AuthorityKeys /\ IsString(w.payload)
  BY <1>2 DEF PersistentConsumeApproves, StringOrNone
<1>4. w.authPk \o w.payload = r.to \o r.published[1]
  <2>1. PersistentValueRef(w.authPk, w.payload) = PersistentValueRef(r.to, r.published[1])
    BY <1>1, <1>2 DEF PersistentConsumeApproves, ValueBound, Bound
  <2>2. \A x, y : Keccak(x) = Keccak(y) => x = y
    BY DEF Keccak
  <2>. QED  BY <2>1, <2>2 DEF PersistentValueRef
<1>5. w.authPk = r.to
  BY <1>3, <1>4, KeyDetermined DEF Bound
<1>. QED  BY <1>2, <1>5 DEF PersistentConsumeApproves

\* And the signature it carries was given over the tags of its action.
LEMMA SettleAuthorized ==
  ASSUME IInv, NEW action, Proper(action), Settle(action),
         NEW r \in Persistent(resources), r.to \in AuthorityKeys,
         NullifierOf(r) \in nullified' \ nullified
  PROVE  \E i \in intents : i.signer = r.to /\ NullifierOf(r) \in ToSet(i.tags)
<1>1. PICK k \in DOMAIN action.consumed : NullifiersIn(action)[k] = NullifierOf(r)
  BY DEF Settle, ToSet, NullifiersIn
<1>. DEFINE w == action.consumed[k]
<1>2. w.isConsumed /\ StringOrNone(w.payload) /\ TagOf(w) = NullifierOf(r)
  BY <1>1 DEF Proper, ProperEntry, NullifiersIn
<1>3. w \in ToSet(action.consumed) /\ w \in ToSet(Entries(action))
  BY EntriesAreBoth DEF ToSet
<1>4. Approves(w) /\ w.actionRoot = TreeRoot(TagList(action))
  BY <1>3 DEF Settle, Verified
<1>5. Bound(r) /\ ~r.resource.isEphemeral
  BY DEF IInv, Persistent
<1>6. w.authSig \in Signatures \cup {None}
  BY <1>3 DEF Settle
<1>7. w.authSig = Signature(r.to, TreeRoot(TagList(action))) /\ w.authSig \in Signatures
  <2>. HIDE DEF w
  <2>. QED  BY <1>2, <1>4, <1>5, <1>6, SpenderHasKey
<1>8. PICK i \in intents :
        Signature(i.signer, TreeRoot(i.tags)) = Signature(r.to, TreeRoot(TagList(action)))
  BY <1>7 DEF Signatures
<1>9. i.signer = r.to /\ TreeRoot(i.tags) = TreeRoot(TagList(action))
  BY <1>8 DEF Signature
<1>10. i.tags = TagList(action)
  <2>1. IsTagList(TagList(action))
    BY TagsAreTagList DEF Settle, Verified
  <2>2. IsTagList(i.tags)
    BY DEF IInv
  <2>. QED  BY <1>9, <2>1, <2>2, RootDetermines
<1>. QED  BY <1>1, <1>9, <1>10, NullifiersAreTags

LEMMA NextAuthorized ==
  IInv /\ ProperProposals /\ [Next]_vars =>
    [\A r \in Persistent(resources) :
       r.to \in AuthorityKeys /\ NullifierOf(r) \in nullified' \ nullified =>
         \E i \in intents : i.signer = r.to /\ NullifierOf(r) \in ToSet(i.tags)]_vars
<1>. SUFFICES ASSUME IInv, ProperProposals, Next,
                     NEW r \in Persistent(resources), r.to \in AuthorityKeys,
                     NullifierOf(r) \in nullified' \ nullified
              PROVE  \E i \in intents : i.signer = r.to /\ NullifierOf(r) \in ToSet(i.tags)
  OBVIOUS
<1>1. PICK action \in Proposals(Unspent, Signatures) : Authorize(action) \/ Settle(action)
  BY DEF Next
<1>2. Settle(action)
  BY <1>1 DEF Authorize
<1>. QED  BY <1>1, <1>2, SettleAuthorized DEF ProperProposals

(* What persistent_create publishes is what persistent_consume asks for:   *)
(* whatever actions settle, no resource fails the comparison of value_ref  *)
(* when it is spent.                                                       *)
THEOREM CreateMatchesConsume == Spec /\ []ProperProposals => []CreatedIsSpendable
BY Invariant, InvariantCreatedIsSpendable, PTL

(* A resource created for a key is spent only in an action whose tags the  *)
(* key has signed (persistent_consume), though the key and the ciphertext  *)
(* are hashed as one string and the signature is over a root: whatever the *)
(* sizes of actions, no two lists of tags share a root.                    *)
THEOREM OwnersSign == Spec /\ []ProperProposals => SpendsAuthorized
BY Invariant, NextAuthorized, PTL DEF Spec, SpendsAuthorized
-----------------------------------------------------------------------------
(* The calls of an action.                                                 *)

LEMMA EntriesAt ==
  ASSUME NEW action, Proper(action)
  PROVE  LET c == action.consumed
             d == action.created
         IN  /\ Len(c) \in Nat /\ DOMAIN c = 1..Len(c)
             /\ Len(d) \in Nat /\ DOMAIN d = 1..Len(d)
             /\ DOMAIN Entries(action) = 1..(Len(c) + Len(d))
             /\ \A k \in 1..Len(c) : Entries(action)[k] = c[k]
             /\ \A k \in 1..Len(d) : Entries(action)[Len(c) + k] = d[k]
<1>. DEFINE S == ToSet(action.consumed) \cup ToSet(action.created)
            c == action.consumed
            d == action.created
<1>1. c \in Seq(S) /\ d \in Seq(S)
  BY StringOver DEF Proper, ToSet
<1>2. Entries(action) = c \o d
  BY DEF Entries
<1>. HIDE DEF S, c, d
<1>3. Len(c) \in Nat /\ DOMAIN c = 1..Len(c) /\ Len(d) \in Nat /\ DOMAIN d = 1..Len(d)
  BY <1>1
<1>4. DOMAIN (c \o d) = 1..(Len(c) + Len(d))
  BY <1>1
<1>5. \A k \in 1..Len(c) : (c \o d)[k] = c[k]
  BY <1>1
<1>6. \A k \in 1..Len(d) : (c \o d)[Len(c) + k] = d[k]
  BY <1>1
<1>. QED  BY <1>2, <1>3, <1>4, <1>5, <1>6 DEF c, d

\* One call for each ephemeral entry.
LEMMA SlotsAre ==
  ASSUME NEW action
  PROVE  /\ \A s : s \in Slots(action) <=>
                     \E k \in DOMAIN Entries(action) :
                        s = <<k, 1>> /\ Entries(action)[k].resource.isEphemeral
         /\ \A k \in DOMAIN Entries(action) :
              Entries(action)[k].resource.isEphemeral =>
                CallAt(action, <<k, 1>>) = Calldata(Entries(action)[k])
<1>1. ASSUME NEW k \in DOMAIN Entries(action)
      PROVE  AppDataOf(Entries(action)[k]).externalPayload
               = IF Entries(action)[k].resource.isEphemeral
                 THEN <<Calldata(Entries(action)[k])>> ELSE <<>>
  BY DEF AppDataOf, NoAppData
<1>2. \A x : DOMAIN <<x>> = {1} /\ <<x>>[1] = x
  OBVIOUS
<1>3. DOMAIN <<>> = {}
  OBVIOUS
<1>4. ASSUME NEW k \in DOMAIN Entries(action)
      PROVE  DOMAIN AppDataOf(Entries(action)[k]).externalPayload
               = IF Entries(action)[k].resource.isEphemeral THEN {1} ELSE {}
  BY <1>1, <1>2, <1>3
<1>. DEFINE Places(k) == DOMAIN AppDataOf(Entries(action)[k]).externalPayload
<1>5. Slots(action) = UNION {{k} \X Places(k) : k \in DOMAIN Entries(action)}
  BY DEF Slots
<1>6. \A k \in DOMAIN Entries(action) :
         Places(k) = IF Entries(action)[k].resource.isEphemeral THEN {1} ELSE {}
  BY <1>4
<1>. HIDE DEF Places
<1>7. \A s : s \in Slots(action) <=>
               \E k \in DOMAIN Entries(action) :
                  s = <<k, 1>> /\ Entries(action)[k].resource.isEphemeral
  BY <1>5, <1>6
<1>8. ASSUME NEW k \in DOMAIN Entries(action), Entries(action)[k].resource.isEphemeral
      PROVE  CallAt(action, <<k, 1>>) = Calldata(Entries(action)[k])
  BY <1>1, <1>2, <1>8 DEF CallAt
<1>. QED  BY <1>7, <1>8

\* What the logic has checked of an ephemeral entry.
LEMMA EphemeralChecked ==
  ASSUME NEW action, Proper(action), Verified(action), NEW w \in ToSet(Entries(action)),
         w.resource.isEphemeral
  PROVE  /\ w.label.forwarder \in Addresses /\ w.label.token \in Addresses
         /\ \A t \in Tokens : Wrapped(w, t) <=> w.label.forwarder = Forwarder /\ w.label.token = t
         /\ ~w.isConsumed => w.resource.valueRef = ValueRefFromAddress(w.forwarderInfo.account)
         /\ w.actionRoot = TreeRoot(TagList(action))
<1>1. Approves(w) /\ w.actionRoot = TreeRoot(TagList(action))
  BY DEF Verified
<1>2. EphemeralApproves(w)
  BY <1>1 DEF Approves
<1>3. /\ w.label.forwarder \in Addresses /\ w.label.token \in Addresses
      /\ w.resource.labelRef = LabelRef(w.label)
      /\ ~w.isConsumed => w.resource.valueRef = ValueRefFromAddress(w.forwarderInfo.account)
  BY <1>2 DEF EphemeralApproves, LabelMatches, WrapApproves, UnwrapApproves
<1>4. \A t \in Tokens : Wrapped(w, t) <=> w.label.forwarder = Forwarder /\ w.label.token = t
  BY <1>3, LabelDetermined DEF Wrapped
<1>. QED  BY <1>1, <1>3, <1>4

\* The places of the calls of some entries, after the first m.
Places(m, K) == {<<m + k, 1>> : k \in K}

\* h names the elements of S, each once, and g is f by these names.
Names(h, D, S) == /\ \A i \in D : h[i] \in S
                  /\ \A x \in S : \E i \in D : x = h[i]
                  /\ \A i, j \in D : h[i] = h[j] => i = j
ByNames(g, f, h, D) == \A i \in D : f[h[i]] \in Int /\ g[i] = f[h[i]]

LEMMA SumNamed ==
  ASSUME NEW D, IsFiniteSet(D), NEW h, NEW S, Names(h, D, S),
         NEW f, NEW g, ByNames(g, f, h, D)
  PROVE  Summable(f, S) /\ SumOver(f, S) = SumOver(g, D)
<1>1. S = {h[i] : i \in D}
  BY DEF Names
<1>2. /\ \A i \in D : f[h[i]] \in Int /\ g[i] = f[h[i]]
      /\ \A i, j \in D : h[i] = h[j] => i = j
  BY DEF Names, ByNames
<1>. QED  BY <1>1, <1>2, SumImage

\* What a call moves of a token.
Moves(action, s, t) == IF InputAt(action, s).token = t THEN InputAt(action, s).quantity ELSE 0

\* What calls move, if the k-th of them moves g[k].
LEMMA AmountOf ==
  ASSUME NEW action, NEW K, IsFiniteSet(K), NEW h, NEW S, Names(h, K, S), NEW t, NEW g,
         \A k \in K : Moves(action, h[k], t) \in Nat /\ g[k] = Moves(action, h[k], t)
  PROVE  Amount(action, S, t) = SumOver(g, K)
<1>. DEFINE f == [s \in S |-> Moves(action, s, t)]
<1>1. Amount(action, S, t) = SumOver(f, DOMAIN f)
  BY SumFunctionIs DEF Amount, Moves
<1>2. DOMAIN f = S
  OBVIOUS
<1>3. ByNames(g, f, h, K)
  BY DEF Names, ByNames
<1>. HIDE DEF f
<1>4. Summable(f, S) /\ SumOver(f, S) = SumOver(g, K)
  BY <1>3, SumNamed
<1>. QED  BY <1>1, <1>2, <1>4

\* The k-th call after the first m moves g[k], for k in K.
MovesAt(action, m, K, t, g) ==
  \A k \in K : /\ Moves(action, <<m + k, 1>>, t) \in Nat
              /\ g[k] = Moves(action, <<m + k, 1>>, t)
ZeroOutside(g, n, K) == \A k \in (1..n) \ K : g[k] = 0

LEMMA AmountIs ==
  ASSUME NEW action, NEW n \in Nat, NEW m \in Nat, NEW K \in SUBSET (1..n), NEW t, NEW g,
         MovesAt(action, m, K, t, g), ZeroOutside(g, n, K)
  PROVE  /\ Amount(action, Places(m, K), t) = SumOver(g, 1..n)
         /\ Summable(g, 1..n)
<1>. DEFINE S == Places(m, K)
            h == [k \in K |-> <<m + k, 1>>]
            D == K
<1>1. Names(h, D, S)
  BY DEF Places, Names
<1>2. \A k \in D : Moves(action, h[k], t) \in Nat /\ g[k] = Moves(action, h[k], t)
  BY DEF MovesAt
<1>3. IsFiniteSet(1..n) /\ IsFiniteSet(D)
  <2>1. IsFiniteSet(1..n)
    BY FS_Interval
  <2>. QED  BY <2>1, FS_Subset
<1>4. Summable(g, 1..n)
  <2>1. \A k \in K : g[k] \in Int
    <3>1. ASSUME NEW k \in K
          PROVE  g[k] \in Int
      <4>1. Moves(action, <<m + k, 1>>, t) \in Nat /\ g[k] = Moves(action, <<m + k, 1>>, t)
        BY DEF MovesAt
      <4>. QED  BY <4>1
    <3>. QED  BY <3>1
  <2>2. \A k \in 1..n : g[k] \in Int
    BY <2>1 DEF ZeroOutside
  <2>. QED  BY <1>3, <2>2 DEF Summable
<1>5. SumOver(g, 1..n) = SumOver(g, K)
  BY <1>4, SumWithin DEF ZeroOutside
<1>. HIDE DEF h, D, S
<1>6. Amount(action, S, t) = SumOver(g, D)
  BY <1>1, <1>2, <1>3, AmountOf
<1>. QED  BY <1>4, <1>5, <1>6 DEF D, S

-----------------------------------------------------------------------------
(* What the calls of an action move, entry by entry.                       *)

\* What the entries that P holds of have of a token.
Ephemerals(entries, t) ==
  [k \in DOMAIN entries |-> IF entries[k].resource.isEphemeral /\ Wrapped(entries[k], t)
                            THEN entries[k].resource.quantity ELSE 0]
Persistents(entries, t) ==
  [k \in DOMAIN entries |-> IF ~entries[k].resource.isEphemeral /\ Wrapped(entries[k], t)
                            THEN entries[k].resource.quantity ELSE 0]
OfToken(entries, t) ==
  [k \in DOMAIN entries |-> IF Wrapped(entries[k], t) THEN entries[k].resource.quantity ELSE 0]

IsFor(w, t, a) == /\ w.resource.isEphemeral /\ Wrapped(w, t)
                  /\ w.resource.valueRef = ValueRefFromAddress(a)
ForAccount(entries, t, a) ==
  [k \in DOMAIN entries |-> IF IsFor(entries[k], t, a) THEN entries[k].resource.quantity ELSE 0]

LEMMA InputIs ==
  ASSUME NEW action, NEW k \in DOMAIN Entries(action), Entries(action)[k].resource.isEphemeral
  PROVE  LET w == Entries(action)[k]
             i == InputAt(action, <<k, 1>>)
         IN  /\ <<k, 1>> \in Slots(action)
             /\ CallAt(action, <<k, 1>>).forwarder = w.label.forwarder
             /\ i.token = w.label.token /\ i.quantity = w.resource.quantity
             /\ w.isConsumed => /\ i.call = "Wrap" /\ i.owner = w.forwarderInfo.account
                                /\ i.root = w.actionRoot
             /\ ~w.isConsumed => i.call = "Unwrap" /\ i.receiver = w.forwarderInfo.account
<1>. DEFINE w == Entries(action)[k]
<1>1. <<k, 1>> \in Slots(action) /\ CallAt(action, <<k, 1>>) = Calldata(w)
  BY SlotsAre
<1>. HIDE DEF w
<1>2. /\ CallAt(action, <<k, 1>>).forwarder = w.label.forwarder
      /\ InputAt(action, <<k, 1>>) = Input(w)
  BY <1>1 DEF Calldata, InputAt
<1>3. CASE w.isConsumed
  BY <1>1, <1>2, <1>3 DEF Input, w
<1>4. CASE ~w.isConsumed
  BY <1>1, <1>2, <1>4 DEF Input, w
<1>. QED  BY <1>3, <1>4

\* A call is at an ephemeral entry.
LEMMA SlotIs ==
  ASSUME NEW action, Proper(action), NEW s \in Slots(action)
  PROVE  \/ \E k \in 1..Len(action.consumed) :
              /\ s = <<k, 1>> /\ action.consumed[k].resource.isEphemeral
              /\ InputAt(action, s).call = "Wrap"
         \/ \E k \in 1..Len(action.created) :
              /\ s = <<Len(action.consumed) + k, 1>> /\ action.created[k].resource.isEphemeral
              /\ InputAt(action, s).call = "Unwrap"
<1>. DEFINE n == Len(action.consumed)
<1>1. PICK j \in DOMAIN Entries(action) :
        s = <<j, 1>> /\ Entries(action)[j].resource.isEphemeral
  BY SlotsAre
<1>2. /\ n \in Nat /\ Len(action.created) \in Nat
      /\ DOMAIN Entries(action) = 1..(n + Len(action.created))
      /\ DOMAIN action.consumed = 1..n /\ DOMAIN action.created = 1..Len(action.created)
  BY EntriesAt
<1>3. CASE j \in 1..n
  <2>1. Entries(action)[j] = action.consumed[j] /\ action.consumed[j].isConsumed
    BY <1>2, <1>3, EntriesAt DEF Proper
  <2>2. InputAt(action, s).call = "Wrap"
    BY <1>1, <2>1, InputIs
  <2>. QED  BY <1>1, <1>3, <2>1, <2>2
<1>4. CASE j \notin 1..n
  <2>1. PICK k \in 1..Len(action.created) : j = n + k
    <3>. DEFINE m == Len(action.created)
    <3>1. n \in Nat /\ m \in Nat /\ j \in 1..(n + m) /\ j \notin 1..n
      BY <1>2, <1>4
    <3>. HIDE DEF n, m
    <3>2. j - n \in 1..m /\ j = n + (j - n)
      BY <3>1
    <3>. QED  BY <3>2 DEF m
  <2>2. Entries(action)[j] = action.created[k] /\ ~action.created[k].isConsumed
    BY <1>2, <2>1, EntriesAt DEF Proper
  <2>3. InputAt(action, s).call = "Unwrap"
    BY <1>1, <2>2, InputIs
  <2>. QED  BY <1>1, <2>1, <2>2, <2>3
<1>. QED  BY <1>3, <1>4

LEMMA WrapsMove ==
  ASSUME NEW action, Proper(action), Verified(action), NEW t \in Tokens
  PROVE  LET g == Ephemerals(action.consumed, t)
         IN  /\ Amount(action, Inputs(action, "Wrap"), t) = SumOver(g, DOMAIN action.consumed)
             /\ Summable(g, DOMAIN action.consumed)
<1>. DEFINE c == action.consumed
            n == Len(c)
            g == Ephemerals(c, t)
            K == {k \in 1..n : c[k].resource.isEphemeral /\ c[k].label.forwarder = Forwarder}
<1>1. n \in Nat /\ DOMAIN c = 1..n /\ 1..n \subseteq DOMAIN Entries(action)
  <2>. DEFINE m == Len(action.created)
  <2>1. /\ n \in Nat /\ m \in Nat /\ DOMAIN c = 1..n
        /\ DOMAIN Entries(action) = 1..(n + m)
    BY EntriesAt
  <2>. HIDE DEF n, m, c
  <2>2. 1..n \subseteq 1..(n + m)
    BY <2>1
  <2>. QED  BY <2>1, <2>2
<1>2. ASSUME NEW k \in 1..n
      PROVE  /\ Entries(action)[k] = c[k] /\ c[k] \in ToSet(Entries(action))
             /\ c[k].isConsumed /\ c[k].resource.quantity \in Nat
  BY <1>1, EntriesAt DEF ToSet, Proper, ProperEntry
<1>3. ASSUME NEW k \in 1..n, c[k].resource.isEphemeral
      PROVE  /\ <<k, 1>> \in Slots(action)
             /\ CallAt(action, <<k, 1>>).forwarder = c[k].label.forwarder
             /\ InputAt(action, <<k, 1>>).token = c[k].label.token
             /\ InputAt(action, <<k, 1>>).quantity = c[k].resource.quantity
             /\ InputAt(action, <<k, 1>>).call = "Wrap"
             /\ Wrapped(c[k], t) <=> c[k].label.forwarder = Forwarder /\ c[k].label.token = t
  <2>1. Wrapped(c[k], t) <=> c[k].label.forwarder = Forwarder /\ c[k].label.token = t
    BY <1>2, <1>3, EphemeralChecked
  <2>. QED  BY <1>1, <1>2, <1>3, <2>1, InputIs
<1>4. Inputs(action, "Wrap") = Places(0, K)
  <2>1. ASSUME NEW s \in Inputs(action, "Wrap")
        PROVE  s \in Places(0, K)
    <3>1. s \in Slots(action) /\ CallAt(action, s).forwarder = Forwarder
          /\ InputAt(action, s).call = "Wrap"
      BY DEF Inputs, Calls
    <3>2. PICK k \in 1..n : s = <<k, 1>> /\ c[k].resource.isEphemeral
      BY <3>1, SlotIs
    <3>3. k \in K /\ s = <<0 + k, 1>>
      BY <1>3, <3>1, <3>2
    <3>. QED  BY <3>3 DEF Places
  <2>2. ASSUME NEW s \in Places(0, K)
        PROVE  s \in Inputs(action, "Wrap")
    <3>1. PICK k \in K : s = <<0 + k, 1>>
      BY DEF Places
    <3>2. s = <<k, 1>>
      BY <3>1
    <3>. QED  BY <1>3, <3>2 DEF Inputs, Calls
  <2>. QED  BY <2>1, <2>2
<1>5. MovesAt(action, 0, K, t, g)
  <2>1. ASSUME NEW k \in K
        PROVE  /\ Moves(action, <<0 + k, 1>>, t) \in Nat
               /\ g[k] = Moves(action, <<0 + k, 1>>, t)
    <3>1. /\ k \in 1..n /\ c[k].resource.isEphemeral /\ c[k].label.forwarder = Forwarder
          /\ 0 + k = k
      OBVIOUS
    <3>2. g[k] = IF c[k].label.token = t THEN c[k].resource.quantity ELSE 0
      BY <1>1, <1>3, <3>1 DEF Ephemerals
    <3>3. Moves(action, <<k, 1>>, t) = IF c[k].label.token = t
                                       THEN c[k].resource.quantity ELSE 0
      BY <1>3, <3>1 DEF Moves
    <3>. QED  BY <1>2, <3>1, <3>2, <3>3
  <2>. QED  BY <2>1 DEF MovesAt
<1>6. ZeroOutside(g, n, K)
  BY <1>1, <1>3 DEF Ephemerals, ZeroOutside
<1>. HIDE DEF n, g, K
<1>7. K \in SUBSET (1..n)
  BY DEF K
<1>8. Amount(action, Places(0, K), t) = SumOver(g, 1..n) /\ Summable(g, 1..n)
  BY <1>1, <1>5, <1>6, <1>7, AmountIs
<1>9. Amount(action, Inputs(action, "Wrap"), t) = SumOver(g, DOMAIN c) /\ Summable(g, DOMAIN c)
  BY <1>1, <1>4, <1>8
<1>. QED  BY <1>9 DEF g

\* The call of a created entry.
LEMMA CreatedCalls ==
  ASSUME NEW action, Proper(action), Verified(action)
  PROVE  LET n == Len(action.consumed)
             d == action.created
         IN  /\ n \in Nat /\ Len(d) \in Nat /\ DOMAIN d = 1..Len(d)
             /\ \A k \in DOMAIN d : d[k].resource.quantity \in Nat
             /\ \A k \in DOMAIN d : d[k].resource.isEphemeral =>
                  /\ <<n + k, 1>> \in Slots(action)
                  /\ CallAt(action, <<n + k, 1>>).forwarder = d[k].label.forwarder
                  /\ InputAt(action, <<n + k, 1>>).token = d[k].label.token
                  /\ InputAt(action, <<n + k, 1>>).quantity = d[k].resource.quantity
                  /\ InputAt(action, <<n + k, 1>>).call = "Unwrap"
                  /\ InputAt(action, <<n + k, 1>>).receiver = d[k].forwarderInfo.account
                  /\ \A t \in Tokens :
                       Wrapped(d[k], t) <=> /\ d[k].label.forwarder = Forwarder
                                            /\ d[k].label.token = t
                  /\ d[k].resource.valueRef = ValueRefFromAddress(d[k].forwarderInfo.account)
<1>. DEFINE n == Len(action.consumed)
            d == action.created
            m == Len(d)
<1>1. /\ n \in Nat /\ m \in Nat /\ DOMAIN d = 1..m
      /\ DOMAIN Entries(action) = 1..(n + m)
      /\ \A k \in 1..m : Entries(action)[n + k] = d[k]
  BY EntriesAt
<1>2. \A k \in DOMAIN d : ~d[k].isConsumed /\ d[k].resource.quantity \in Nat
  BY DEF Proper, ProperEntry
<1>3. ASSUME NEW k \in DOMAIN d, d[k].resource.isEphemeral
      PROVE  /\ <<n + k, 1>> \in Slots(action)
             /\ CallAt(action, <<n + k, 1>>).forwarder = d[k].label.forwarder
             /\ InputAt(action, <<n + k, 1>>).token = d[k].label.token
             /\ InputAt(action, <<n + k, 1>>).quantity = d[k].resource.quantity
             /\ InputAt(action, <<n + k, 1>>).call = "Unwrap"
             /\ InputAt(action, <<n + k, 1>>).receiver = d[k].forwarderInfo.account
             /\ \A t \in Tokens :
                  Wrapped(d[k], t) <=> /\ d[k].label.forwarder = Forwarder
                                       /\ d[k].label.token = t
             /\ d[k].resource.valueRef = ValueRefFromAddress(d[k].forwarderInfo.account)
  <2>. DEFINE j == n + k
  <2>1. j \in DOMAIN Entries(action) /\ Entries(action)[j] = d[k]
    <3>. HIDE DEF n, m, d
    <3>1. k \in 1..m
      BY <1>1
    <3>. QED  BY <1>1, <3>1
  <2>2. ~d[k].isConsumed /\ d[k] \in ToSet(Entries(action))
    BY <1>2, <2>1 DEF ToSet
  <2>. HIDE DEF j
  <2>3. /\ \A t \in Tokens : Wrapped(d[k], t) <=> /\ d[k].label.forwarder = Forwarder
                                                  /\ d[k].label.token = t
        /\ d[k].resource.valueRef = ValueRefFromAddress(d[k].forwarderInfo.account)
    BY <1>3, <2>2, EphemeralChecked
  <2>4. /\ <<j, 1>> \in Slots(action)
        /\ CallAt(action, <<j, 1>>).forwarder = d[k].label.forwarder
        /\ InputAt(action, <<j, 1>>).token = d[k].label.token
        /\ InputAt(action, <<j, 1>>).quantity = d[k].resource.quantity
        /\ InputAt(action, <<j, 1>>).call = "Unwrap"
        /\ InputAt(action, <<j, 1>>).receiver = d[k].forwarderInfo.account
    BY <1>3, <2>1, <2>2, InputIs
  <2>. QED  BY <2>3, <2>4 DEF j
<1>. QED  BY <1>1, <1>2, <1>3

\* What goes out, to all or to one account.
LEMMA UnwrapsMove ==
  ASSUME NEW action, Proper(action), Verified(action), NEW t \in Tokens
  PROVE  LET g == Ephemerals(action.created, t)
         IN  /\ Amount(action, Inputs(action, "Unwrap"), t) = SumOver(g, DOMAIN action.created)
             /\ Summable(g, DOMAIN action.created)
<1>. DEFINE d == action.created
            n == Len(action.consumed)
            m == Len(d)
            g == Ephemerals(d, t)
            K == {k \in 1..m : d[k].resource.isEphemeral /\ d[k].label.forwarder = Forwarder}
<1>1. n \in Nat /\ m \in Nat /\ DOMAIN d = 1..m
  BY CreatedCalls
<1>2. ASSUME NEW k \in 1..m, d[k].resource.isEphemeral
      PROVE  /\ <<n + k, 1>> \in Slots(action)
             /\ CallAt(action, <<n + k, 1>>).forwarder = d[k].label.forwarder
             /\ InputAt(action, <<n + k, 1>>).call = "Unwrap"
             /\ Moves(action, <<n + k, 1>>, t) = IF d[k].label.token = t
                                                 THEN d[k].resource.quantity ELSE 0
             /\ Moves(action, <<n + k, 1>>, t) \in Nat
             /\ Wrapped(d[k], t) <=> d[k].label.forwarder = Forwarder /\ d[k].label.token = t
  BY <1>1, <1>2, CreatedCalls DEF Moves
<1>3. Inputs(action, "Unwrap") = Places(n, K)
  <2>1. ASSUME NEW s \in Inputs(action, "Unwrap")
        PROVE  s \in Places(n, K)
    <3>1. s \in Slots(action) /\ CallAt(action, s).forwarder = Forwarder
          /\ InputAt(action, s).call = "Unwrap"
      BY DEF Inputs, Calls
    <3>2. PICK k \in 1..m : s = <<n + k, 1>> /\ d[k].resource.isEphemeral
      BY <3>1, SlotIs
    <3>3. k \in K
      BY <1>2, <3>1, <3>2
    <3>. QED  BY <3>2, <3>3 DEF Places
  <2>2. ASSUME NEW s \in Places(n, K)
        PROVE  s \in Inputs(action, "Unwrap")
    <3>1. PICK k \in K : s = <<n + k, 1>>
      BY DEF Places
    <3>. QED  BY <1>2, <3>1 DEF Inputs, Calls
  <2>. QED  BY <2>1, <2>2
<1>4. MovesAt(action, n, K, t, g)
  BY <1>1, <1>2 DEF MovesAt, Ephemerals
<1>5. ZeroOutside(g, m, K)
  BY <1>1, <1>2 DEF Ephemerals, ZeroOutside
<1>6. K \in SUBSET (1..m)
  OBVIOUS
<1>. HIDE DEF n, m, g, K
<1>7. Amount(action, Places(n, K), t) = SumOver(g, 1..m) /\ Summable(g, 1..m)
  BY <1>1, <1>4, <1>5, <1>6, AmountIs
<1>8. Amount(action, Inputs(action, "Unwrap"), t) = SumOver(g, DOMAIN d) /\ Summable(g, DOMAIN d)
  BY <1>1, <1>3, <1>7
<1>. QED  BY <1>8 DEF g

LEMMA ReceivedIs ==
  ASSUME NEW action, Proper(action), Verified(action), NEW t \in Tokens, NEW a
  PROVE  LET g == ForAccount(action.created, t, a)
         IN  /\ Amount(action, Received(action, a), t) = SumOver(g, DOMAIN action.created)
             /\ Summable(g, DOMAIN action.created)
<1>. DEFINE d == action.created
            n == Len(action.consumed)
            m == Len(d)
            g == ForAccount(d, t, a)
            K == {k \in 1..m : /\ d[k].resource.isEphemeral /\ d[k].label.forwarder = Forwarder
                               /\ d[k].forwarderInfo.account = a}
<1>1. n \in Nat /\ m \in Nat /\ DOMAIN d = 1..m
  BY CreatedCalls
<1>2. ASSUME NEW k \in 1..m, d[k].resource.isEphemeral
      PROVE  /\ <<n + k, 1>> \in Slots(action)
             /\ CallAt(action, <<n + k, 1>>).forwarder = d[k].label.forwarder
             /\ InputAt(action, <<n + k, 1>>).call = "Unwrap"
             /\ InputAt(action, <<n + k, 1>>).receiver = d[k].forwarderInfo.account
             /\ Moves(action, <<n + k, 1>>, t) = IF d[k].label.token = t
                                                 THEN d[k].resource.quantity ELSE 0
             /\ Moves(action, <<n + k, 1>>, t) \in Nat
             /\ IsFor(d[k], t, a) <=> /\ d[k].label.forwarder = Forwarder /\ d[k].label.token = t
                                      /\ d[k].forwarderInfo.account = a
  <2>1. d[k].resource.valueRef = ValueRefFromAddress(a) <=> d[k].forwarderInfo.account = a
    <3>0. k \in DOMAIN action.created
      BY <1>1
    <3>. HIDE DEF d, n, m, g, K
    <3>1. d[k].resource.valueRef = ValueRefFromAddress(d[k].forwarderInfo.account)
      BY <3>0, <1>2, CreatedCalls DEF d
    <3>2. \A x, y : ValueRefFromAddress(x) = ValueRefFromAddress(y) => x = y
      BY DEF ValueRefFromAddress
    <3>. QED  BY <3>1, <3>2
  <2>2. Wrapped(d[k], t) <=> d[k].label.forwarder = Forwarder /\ d[k].label.token = t
    BY <1>1, <1>2, CreatedCalls
  <2>3. IsFor(d[k], t, a) <=> /\ d[k].label.forwarder = Forwarder /\ d[k].label.token = t
                              /\ d[k].forwarderInfo.account = a
    BY <1>2, <2>1, <2>2 DEF IsFor
  <2>. QED  BY <1>1, <1>2, <2>3, CreatedCalls DEF Moves
<1>3. Received(action, a) = Places(n, K)
  <2>1. ASSUME NEW s \in Received(action, a)
        PROVE  s \in Places(n, K)
    <3>1. s \in Slots(action) /\ CallAt(action, s).forwarder = Forwarder
          /\ InputAt(action, s).call = "Unwrap" /\ InputAt(action, s).receiver = a
      BY DEF Received, Inputs, Calls
    <3>2. PICK k \in 1..m : s = <<n + k, 1>> /\ d[k].resource.isEphemeral
      BY <3>1, SlotIs
    <3>3. k \in K
      BY <1>2, <3>1, <3>2
    <3>. QED  BY <3>2, <3>3 DEF Places
  <2>2. ASSUME NEW s \in Places(n, K)
        PROVE  s \in Received(action, a)
    <3>1. PICK k \in K : s = <<n + k, 1>>
      BY DEF Places
    <3>. QED  BY <1>2, <3>1 DEF Received, Inputs, Calls
  <2>. QED  BY <2>1, <2>2
<1>4. MovesAt(action, n, K, t, g)
  BY <1>1, <1>2 DEF MovesAt, ForAccount
<1>5. ZeroOutside(g, m, K)
  BY <1>1, <1>2 DEF ForAccount, IsFor, ZeroOutside
<1>6. K \in SUBSET (1..m)
  OBVIOUS
<1>. HIDE DEF n, m, g, K
<1>7. Amount(action, Places(n, K), t) = SumOver(g, 1..m) /\ Summable(g, 1..m)
  BY <1>1, <1>4, <1>5, <1>6, AmountIs
<1>8. Amount(action, Received(action, a), t) = SumOver(g, DOMAIN d) /\ Summable(g, DOMAIN d)
  BY <1>1, <1>3, <1>7
<1>. QED  BY <1>8 DEF g

-----------------------------------------------------------------------------
(* An action keeps the balance of a token.                                 *)

LEMMA SumsOfEntries ==
  ASSUME NEW entries, NEW n \in Nat, DOMAIN entries = 1..n,
         \A k \in DOMAIN entries : entries[k].resource.quantity \in Nat, NEW t
  PROVE  LET D == DOMAIN entries
         IN  /\ IsFiniteSet(D)
             /\ Summable(OfToken(entries, t), D) /\ Summable(Ephemerals(entries, t), D)
             /\ Summable(Persistents(entries, t), D)
             /\ SumOver(Persistents(entries, t), D)
                  = SumOver(OfToken(entries, t), D) - SumOver(Ephemerals(entries, t), D)
<1>. DEFINE D == DOMAIN entries
            f == OfToken(entries, t)
            g == Ephemerals(entries, t)
            h == Persistents(entries, t)
<1>1. IsFiniteSet(D)
  BY FS_Interval
<1>2. \A k \in D : f[k] \in Int /\ g[k] \in Int /\ h[k] \in Int /\ h[k] = f[k] - g[k]
  BY DEF OfToken, Ephemerals, Persistents
<1>. HIDE DEF f, g, h, D
<1>3. Summable(f, D) /\ Summable(g, D) /\ Summable(h, D)
  BY <1>1, <1>2 DEF Summable
<1>4. SumOver(h, D) = SumOver(f, D) - SumOver(g, D)
  BY <1>2, <1>3, SumMinus
<1>. QED  BY <1>1, <1>3, <1>4 DEF f, g, h, D

LEMMA QuantitiesAre ==
  ASSUME NEW action, Proper(action)
  PROVE  /\ Len(action.consumed) \in Nat /\ DOMAIN action.consumed = 1..Len(action.consumed)
         /\ Len(action.created) \in Nat /\ DOMAIN action.created = 1..Len(action.created)
         /\ \A k \in DOMAIN action.consumed : action.consumed[k].resource.quantity \in Nat
         /\ \A k \in DOMAIN action.created : action.created[k].resource.quantity \in Nat
BY EntriesAt DEF Proper, ProperEntry

\* All resources having one logic, the kind of a resource is its label.
LEMMA KindIsLabel ==
  ASSUME NEW action, Proper(action), NEW w \in ToSet(Entries(action)), NEW t, Wrapped(w, t)
  PROVE  \A v \in ToSet(Entries(action)) :
           KindOf(v.resource) = KindOf(w.resource) <=> Wrapped(v, t)
<1>1. \A v \in ToSet(Entries(action)) : v.resource.logicRef = w.resource.logicRef
  BY DEF Proper
<1>2. \A v : Wrapped(v, t) <=> v.resource.labelRef = w.resource.labelRef
  BY DEF Wrapped
<1>3. \A v : KindOf(v.resource) = KindOf(w.resource)
               <=> /\ v.resource.logicRef = w.resource.logicRef
                   /\ v.resource.labelRef = w.resource.labelRef
  BY DEF KindOf
<1>. QED  BY <1>1, <1>2, <1>3

LEMMA TokenBalance ==
  ASSUME NEW action, Proper(action), Verified(action), NEW t
  PROVE  SumOver(OfToken(action.consumed, t), DOMAIN action.consumed)
           = SumOver(OfToken(action.created, t), DOMAIN action.created)
<1>. DEFINE E == ToSet(Entries(action))
<1>1. /\ \A k \in DOMAIN action.consumed : action.consumed[k] \in E
      /\ \A k \in DOMAIN action.created : action.created[k] \in E
  BY EntriesAreBoth DEF ToSet
<1>. HIDE DEF E
<1>2. CASE \E w \in E : Wrapped(w, t)
  <2>1. PICK w \in E : Wrapped(w, t)
    BY <1>2
  <2>. DEFINE kind == KindOf(w.resource)
  <2>2. Quantity(action.consumed, kind) = Quantity(action.created, kind)
    BY <2>1 DEF Verified, E
  <2>3. \A v \in E : KindOf(v.resource) = kind <=> Wrapped(v, t)
    BY <2>1, KindIsLabel DEF E
  <2>. HIDE DEF kind
  <2>4. /\ Share(action.consumed, kind) = OfToken(action.consumed, t)
        /\ Share(action.created, kind) = OfToken(action.created, t)
    BY <1>1, <2>3 DEF Share, OfToken
  <2>. QED  BY <2>2, <2>4, QuantityIs
<1>3. CASE ~\E w \in E : Wrapped(w, t)
  <2>1. /\ \A k \in DOMAIN action.consumed : OfToken(action.consumed, t)[k] = 0
        /\ \A k \in DOMAIN action.created : OfToken(action.created, t)[k] = 0
    BY <1>1, <1>3 DEF OfToken
  <2>2. IsFiniteSet(DOMAIN action.consumed) /\ IsFiniteSet(DOMAIN action.created)
    BY QuantitiesAre, FS_Interval
  <2>3. SumOver(OfToken(action.consumed, t), DOMAIN action.consumed) = 0
    BY <2>1, <2>2, SumOfZeros
  <2>4. SumOver(OfToken(action.created, t), DOMAIN action.created) = 0
    BY <2>1, <2>2, SumOfZeros
  <2>. QED  BY <2>3, <2>4
<1>. QED  BY <1>2, <1>3

\* What the forwarder gets is what the persistent resources of the action
\* become more.
LEMMA HeldChange ==
  ASSUME NEW action, Proper(action), Verified(action), NEW t \in Tokens
  PROVE  LET made == SumOver(Persistents(action.created, t), DOMAIN action.created)
             used == SumOver(Persistents(action.consumed, t), DOMAIN action.consumed)
             ins  == Amount(action, Inputs(action, "Wrap"), t)
             outs == Amount(action, Inputs(action, "Unwrap"), t)
         IN  /\ made \in Int /\ used \in Int /\ ins \in Int /\ outs \in Int
             /\ ins - outs = made - used
<1>. DEFINE c == action.consumed
            d == action.created
            ins  == Amount(action, Inputs(action, "Wrap"), t)
            outs == Amount(action, Inputs(action, "Unwrap"), t)
            made == SumOver(Persistents(d, t), DOMAIN d)
            used == SumOver(Persistents(c, t), DOMAIN c)
            all  == SumOver(OfToken(c, t), DOMAIN c)
<1>1. /\ Len(c) \in Nat /\ DOMAIN c = 1..Len(c)
      /\ Len(d) \in Nat /\ DOMAIN d = 1..Len(d)
      /\ \A k \in DOMAIN c : c[k].resource.quantity \in Nat
      /\ \A k \in DOMAIN d : d[k].resource.quantity \in Nat
  BY QuantitiesAre
<1>2. all = SumOver(OfToken(d, t), DOMAIN d)
  BY TokenBalance
<1>3. ins = SumOver(Ephemerals(c, t), DOMAIN c) /\ outs = SumOver(Ephemerals(d, t), DOMAIN d)
  BY WrapsMove, UnwrapsMove
<1>. HIDE DEF c, d
<1>4. /\ Summable(OfToken(c, t), DOMAIN c) /\ Summable(Ephemerals(c, t), DOMAIN c)
      /\ used = all - SumOver(Ephemerals(c, t), DOMAIN c)
  BY <1>1, SumsOfEntries
<1>5. /\ Summable(OfToken(d, t), DOMAIN d) /\ Summable(Ephemerals(d, t), DOMAIN d)
      /\ made = SumOver(OfToken(d, t), DOMAIN d) - SumOver(Ephemerals(d, t), DOMAIN d)
  BY <1>1, SumsOfEntries
<1>6. /\ all \in Int /\ SumOver(Ephemerals(c, t), DOMAIN c) \in Int
      /\ SumOver(Ephemerals(d, t), DOMAIN d) \in Int
  BY <1>4, <1>5, SumIsInteger
<1>. HIDE DEF ins, outs, made, used, all
<1>7. used = all - ins /\ made = all - outs /\ all \in Int /\ ins \in Int /\ outs \in Int
  BY <1>2, <1>3, <1>4, <1>5, <1>6
<1>8. /\ made \in Int /\ used \in Int /\ ins \in Int /\ outs \in Int
      /\ ins - outs = made - used
  BY <1>7
<1>. QED  BY <1>8 DEF ins, outs, made, used, all, c, d

-----------------------------------------------------------------------------
(* What there is: resources differ, and what is nullified was there.       *)

Made(w) == [resource |-> w.resource, to |-> w.authPk, published |-> AppDataOf(w).resourcePayload]

\* The nonce was made from nullifiers that are known.
HasNonce(r) == \E ns, i : /\ IsString(ns) /\ ns # <<>> /\ ns[1] \in nullified
                          /\ r.resource.nonce = CreatedNonce(ns, i)

WasThere(x) == x.isEphemeral \/ \E r \in resources : r.resource = x

Recorded ==
  /\ IsFiniteSet(resources)
  /\ \A r \in resources : r.resource.quantity \in Nat /\ HasNonce(r)
  /\ \A r, s \in resources : r.resource = s.resource => r = s
  /\ \A n \in nullified : \E x, key : n = ComputeNullifier(x, key) /\ WasThere(x)

LEMMA NullifiersAreList ==
  ASSUME NEW action, Proper(action), action.consumed # <<>>
  PROVE  LET ns == NullifiersIn(action)
         IN  IsString(ns) /\ ns # <<>> /\ ns[1] \in ToSet(ns)
<1>. DEFINE ns == NullifiersIn(action)
            n == Len(action.consumed)
            S == ToSet(ns)
<1>1. n \in Nat /\ ns = [k \in 1..n |-> TagOf(action.consumed[k])] /\ n # 0
  <2>1. n \in Nat /\ DOMAIN action.consumed = 1..n
    BY EntriesAt
  <2>2. n # 0
    <3>. DEFINE U == ToSet(action.consumed)
    <3>1. action.consumed \in Seq(U)
      BY StringOver DEF Proper, ToSet
    <3>. HIDE DEF U
    <3>. QED  BY <3>1
  <2>. QED  BY <2>1, <2>2 DEF NullifiersIn
<1>. HIDE DEF ns, n
<1>2. \A k \in 1..n : ns[k] \in {ns[j] : j \in DOMAIN ns}
  BY <1>1
<1>3. ns \in Seq({ns[j] : j \in DOMAIN ns})
  <2>. DEFINE U == {ns[j] : j \in DOMAIN ns}
  <2>. HIDE DEF U
  <2>1. \A k \in 1..n : ns[k] \in U
    BY <1>2 DEF U
  <2>2. ns \in Seq(U)
    BY <1>1, <2>1
  <2>. QED  BY <2>2 DEF U
<1>4. DOMAIN ns = 1..n /\ 1 \in DOMAIN ns /\ Len(ns) = n
  BY <1>1
<1>5. ns # <<>>
  BY <1>1, <1>4
<1>. QED  BY <1>3, <1>4, <1>5 DEF IsString, ToSet, ns

\* A nonce determines the nullifiers, whatever the index.
LEMMA NonceHasNullifiers ==
  ASSUME NEW s, IsString(s), NEW i, NEW t, IsString(t), NEW j,
         CreatedNonce(s, i) = CreatedNonce(t, j)
  PROVE  s = t
<1>. DEFINE x == [u32 |-> i % IndexModulus]
            y == [u32 |-> j % IndexModulus]
            S == {s[k] : k \in DOMAIN s} \cup {t[k] : k \in DOMAIN t} \cup {x, y}
<1>1. Append(s, x) = Append(t, y)
  BY DEF CreatedNonce, Keccak
<1>2. s \in Seq(S) /\ t \in Seq(S) /\ x \in S /\ y \in S
  BY StringOver
<1>. HIDE DEF S, x, y
<1>. QED  BY <1>1, <1>2, AppendInjective

\* What an action creates was not there.
LEMMA CreatedAreNew ==
  ASSUME Recorded, NEW action, Proper(action), Verified(action), Fresh(action),
         NEW k \in DOMAIN action.created, NEW r \in resources
  PROVE  r.resource # action.created[k].resource
<1>. SUFFICES ASSUME r.resource = action.created[k].resource
              PROVE  FALSE
  OBVIOUS
<1>. DEFINE ms == NullifiersIn(action)
<1>1. IsString(ms) /\ ms[1] \in ToSet(ms)
  BY NullifiersAreList DEF Verified
<1>2. PICK ns, i : /\ IsString(ns) /\ ns # <<>> /\ ns[1] \in nullified
                   /\ r.resource.nonce = CreatedNonce(ns, i)
  BY DEF Recorded, HasNonce
<1>3. r.resource.nonce = CreatedNonce(ms, k - 1)
  BY DEF Verified
<1>. HIDE DEF ms
<1>4. ms = ns
  BY <1>1, <1>2, <1>3, NonceHasNullifiers
<1>. QED  BY <1>1, <1>2, <1>4 DEF Fresh, ms

\* A persistent resource that is consumed is one that was there, and unspent.
LEMMA ConsumedAreUnspent ==
  ASSUME IInv, NEW action, Proper(action), Verified(action), Fresh(action),
         NEW k \in DOMAIN action.consumed, ~action.consumed[k].resource.isEphemeral
  PROVE  \E r \in Persistent(Unspent) : /\ r.resource = action.consumed[k].resource
                                        /\ NullifierOf(r) = NullifiersIn(action)[k]
<1>. DEFINE w == action.consumed[k]
<1>1. w \in ToSet(action.consumed) /\ w \in ToSet(Entries(action)) /\ w.isConsumed
  BY EntriesAreBoth DEF ToSet, Proper
<1>2. PICK r \in resources : r.resource = w.resource
  BY <1>1 DEF Fresh
<1>3. KeyMatches(w.resource, HolderKey)
  <2>1. r \in Persistent(resources)
    BY <1>2 DEF Persistent
  <2>2. Bound(r)
    BY <2>1 DEF IInv
  <2>. QED  BY <1>2, <2>2 DEF Bound
<1>4. KeyMatches(w.resource, w.nullifierKey)
  BY <1>1 DEF Verified, Approves, HasTag
<1>5. w.nullifierKey = HolderKey
  <2>1. Keccak(<<w.nullifierKey>>) = Keccak(<<HolderKey>>)
    BY <1>3, <1>4 DEF KeyMatches, NkCommit
  <2>2. \A x, y : Keccak(<<x>>) = Keccak(<<y>>) => x = y
    BY DEF Keccak
  <2>. QED  BY <2>1, <2>2
<1>6. NullifierOf(r) = NullifiersIn(action)[k]
  BY <1>1, <1>2, <1>5 DEF NullifierOf, NullifiersIn, TagOf
<1>7. NullifierOf(r) \notin nullified
  BY <1>6 DEF Fresh, ToSet, NullifiersIn
<1>. QED  BY <1>2, <1>6, <1>7 DEF Unspent, Persistent

\* Nothing that is created is nullified already.
LEMMA CreatedAreUnspent ==
  ASSUME IInv, Recorded, NEW action, Proper(action), Settle(action),
         NEW k \in DOMAIN action.created, ~action.created[k].resource.isEphemeral
  PROVE  NullifierOf(Made(action.created[k])) \notin nullified'
<1>. DEFINE v == action.created[k]
<1>1. Verified(action) /\ Fresh(action) /\ nullified' = nullified \cup ToSet(NullifiersIn(action))
  BY DEF Settle
<1>2. NullifierOf(Made(v)) = ComputeNullifier(v.resource, HolderKey)
  BY DEF NullifierOf, Made
<1>3. \A x, key : ComputeNullifier(v.resource, HolderKey) = ComputeNullifier(x, key)
                     => x = v.resource
  BY CommitDetermines DEF ComputeNullifier, HashTwo, Keccak
<1>4. NullifierOf(Made(v)) \notin nullified
  <2>. SUFFICES ASSUME NullifierOf(Made(v)) \in nullified
                PROVE  FALSE
    OBVIOUS
  <2>1. PICK x, key : NullifierOf(Made(v)) = ComputeNullifier(x, key) /\ WasThere(x)
    BY DEF Recorded
  <2>2. WasThere(v.resource)
    BY <1>2, <1>3, <2>1
  <2>. QED  BY <1>1, <2>2, CreatedAreNew DEF WasThere
<1>5. ASSUME NEW j \in DOMAIN action.consumed, NullifierOf(Made(v)) = NullifiersIn(action)[j]
      PROVE  FALSE
  <2>1. NullifiersIn(action)[j]
          = ComputeNullifier(action.consumed[j].resource, action.consumed[j].nullifierKey)
    BY DEF NullifiersIn, TagOf, Proper
  <2>2. action.consumed[j].resource = v.resource
    BY <1>2, <1>3, <1>5, <2>1
  <2>3. \E r \in resources : r.resource = v.resource
    BY <1>1, <2>2, ConsumedAreUnspent DEF Persistent, Unspent
  <2>. QED  BY <1>1, <2>3, CreatedAreNew
<1>6. NullifierOf(Made(v)) \notin ToSet(NullifiersIn(action))
  BY <1>5 DEF ToSet, NullifiersIn
<1>. QED  BY <1>1, <1>4, <1>6

\* The created resources are named by their entries, since commitments differ.
LEMMA CreatedIs ==
  ASSUME NEW action, Proper(action), Verified(action)
  PROVE  /\ Created(action) = {Made(action.created[k]) : k \in DOMAIN action.created}
         /\ IsFiniteSet(Created(action))
         /\ \A i, j \in DOMAIN action.created :
              action.created[i].resource = action.created[j].resource => i = j
<1>. DEFINE d == action.created
<1>1. Created(action) = {Made(d[k]) : k \in DOMAIN d}
  BY DEF Created, Made, ToSet
<1>2. IsFiniteSet(Created(action))
  <2>1. IsFiniteSet(DOMAIN d)
    BY QuantitiesAre, FS_Interval
  <2>. DEFINE D == DOMAIN d
              h == [k \in D |-> Made(d[k])]
              S == {Made(d[k]) : k \in D}
  <2>2. h \in Surjection(D, S)
    BY DEF Surjection
  <2>. HIDE DEF D, h, S
  <2>3. IsFiniteSet(S)
    BY <2>1, <2>2, FS_Surjection DEF D
  <2>. QED  BY <1>1, <2>3 DEF D, S
<1>3. ASSUME NEW i \in DOMAIN d, NEW j \in DOMAIN d, d[i].resource = d[j].resource
      PROVE  i = j
  <2>1. /\ CommitmentsIn(action)[i] = Commit(d[i].resource)
        /\ CommitmentsIn(action)[j] = Commit(d[j].resource)
        /\ DOMAIN CommitmentsIn(action) = DOMAIN d
    BY DEF CommitmentsIn, TagOf, Proper
  <2>2. IsInjective(CommitmentsIn(action))
    BY DEF Verified
  <2>. QED  BY <1>3, <2>1, <2>2 DEF IsInjective
<1>. QED  BY <1>1, <1>2, <1>3

LEMMA SettleRecorded ==
  ASSUME IInv, Recorded, NEW action, Proper(action), Settle(action)
  PROVE  Recorded'
<1>. DEFINE ms == NullifiersIn(action)
            d  == action.created
<1>1. /\ Verified(action) /\ Fresh(action)
      /\ resources' = resources \cup Created(action)
      /\ nullified' = nullified \cup ToSet(ms)
  BY DEF Settle
<1>2. IsString(ms) /\ ms # <<>> /\ ms[1] \in ToSet(ms)
  BY <1>1, NullifiersAreList DEF Verified
<1>3. /\ \A r \in Created(action) : \E k \in DOMAIN d : r = Made(d[k])
      /\ IsFiniteSet(Created(action))
      /\ \A i, j \in DOMAIN d : d[i].resource = d[j].resource => i = j
  BY <1>1, CreatedIs
<1>4. IsFiniteSet(resources')
  BY <1>1, <1>3, FS_Union DEF Recorded
<1>5. ASSUME NEW r \in resources'
      PROVE  r.resource.quantity \in Nat /\ HasNonce(r)'
  <2>1. CASE r \in resources
    <3>1. PICK ns, i : /\ IsString(ns) /\ ns # <<>> /\ ns[1] \in nullified
                       /\ r.resource.nonce = CreatedNonce(ns, i)
      BY <2>1 DEF Recorded, HasNonce
    <3>2. ns[1] \in nullified'
      BY <1>1, <3>1
    <3>3. HasNonce(r)'
      BY <3>1, <3>2 DEF HasNonce
    <3>. QED  BY <2>1, <3>3 DEF Recorded
  <2>2. CASE r \in Created(action)
    <3>1. PICK k \in DOMAIN d : r = Made(d[k])
      BY <1>3, <2>2
    <3>2. r.resource = d[k].resource /\ d[k].resource.quantity \in Nat
      BY <3>1, QuantitiesAre DEF Made
    <3>3. r.resource.nonce = CreatedNonce(ms, k - 1)
      BY <1>1, <3>2 DEF Verified
    <3>4. ms[1] \in nullified'
      BY <1>1, <1>2
    <3>. HIDE DEF ms
    <3>5. HasNonce(r)'
      BY <1>2, <3>3, <3>4 DEF HasNonce
    <3>. QED  BY <3>2, <3>5
  <2>. QED  BY <1>1, <2>1, <2>2
<1>6. ASSUME NEW r \in resources', NEW s \in resources', r.resource = s.resource
      PROVE  r = s
  <2>1. ASSUME NEW x \in Created(action), NEW y \in resources
        PROVE  x.resource # y.resource
    <3>1. PICK k \in DOMAIN d : x = Made(d[k])
      BY <1>3
    <3>2. x.resource = d[k].resource
      BY <3>1 DEF Made
    <3>. QED  BY <1>1, <3>2, CreatedAreNew
  <2>2. ASSUME NEW x \in Created(action), NEW y \in Created(action), x.resource = y.resource
        PROVE  x = y
    <3>1. PICK i \in DOMAIN d : x = Made(d[i])
      BY <1>3
    <3>2. PICK j \in DOMAIN d : y = Made(d[j])
      BY <1>3
    <3>3. i = j
      BY <1>3, <2>2, <3>1, <3>2 DEF Made
    <3>. QED  BY <3>1, <3>2, <3>3
  <2>3. \A x, y \in resources : x.resource = y.resource => x = y
    BY DEF Recorded
  <2>. QED  BY <1>1, <1>6, <2>1, <2>2, <2>3
<1>7. ASSUME NEW n \in nullified'
      PROVE  \E x, key : n = ComputeNullifier(x, key) /\ WasThere(x)'
  <2>1. CASE n \in nullified
    <3>1. PICK x, key : n = ComputeNullifier(x, key) /\ WasThere(x)
      BY <2>1 DEF Recorded
    <3>2. WasThere(x)'
      BY <1>1, <3>1 DEF WasThere
    <3>. QED  BY <3>1, <3>2
  <2>2. CASE n \in ToSet(ms)
    <3>1. PICK k \in DOMAIN action.consumed : n = ms[k]
      BY <2>2 DEF ToSet, NullifiersIn
    <3>2. n = ComputeNullifier(action.consumed[k].resource, action.consumed[k].nullifierKey)
      BY <3>1 DEF NullifiersIn, TagOf, Proper
    <3>3. WasThere(action.consumed[k].resource)'
      <4>1. ~action.consumed[k].resource.isEphemeral =>
              \E r \in resources : r.resource = action.consumed[k].resource
        BY <1>1, ConsumedAreUnspent DEF Persistent, Unspent
      <4>. QED  BY <1>1, <4>1 DEF WasThere
    <3>. QED  BY <3>2, <3>3
  <2>. QED  BY <1>1, <2>1, <2>2
<1>. QED  BY <1>4, <1>5, <1>6, <1>7 DEF Recorded

-----------------------------------------------------------------------------
(* What resources are worth.                                               *)

HasQuantities(S) == \A r \in S : r.resource.quantity \in Nat

LEMMA WorthIn ==
  ASSUME NEW R, IsFiniteSet(R), HasQuantities(R), NEW S \in SUBSET R
  PROVE  LET f == [r \in R |-> r.resource.quantity]
         IN  Summable(f, S) /\ Worth(S) = SumOver(f, S) /\ Worth(S) \in Nat
<1>. DEFINE f == [r \in R |-> r.resource.quantity]
            g == [r \in S |-> r.resource.quantity]
<1>1. Worth(S) = SumOver(g, DOMAIN g) /\ DOMAIN g = S
  BY SumFunctionIs DEF Worth
<1>2. \A r \in S : f[r] \in Nat /\ f[r] = g[r]
  BY DEF HasQuantities
<1>3. IsFiniteSet(S)
  BY FS_Subset
<1>. HIDE DEF f, g
<1>4. Summable(f, S)
  BY <1>2, <1>3 DEF Summable
<1>5. SumOver(f, S) = SumOver(g, S) /\ SumOver(f, S) \in Nat
  BY <1>2, <1>3, <1>4, SumSame, SumIsNatural
<1>. QED  BY <1>1, <1>4, <1>5 DEF f

\* Resources without some of them, and with others.
LEMMA WorthChanges ==
  ASSUME NEW R, IsFiniteSet(R), HasQuantities(R),
         NEW old \in SUBSET R, NEW gone \in SUBSET old, NEW new \in SUBSET R, old \cap new = {}
  PROVE  /\ Worth((old \ gone) \cup new) = Worth(old) - Worth(gone) + Worth(new)
         /\ Worth(old) \in Nat /\ Worth(gone) \in Nat /\ Worth(new) \in Nat
<1>. DEFINE f == [r \in R |-> r.resource.quantity]
            kept == old \ gone
            now  == kept \cup new
<1>1. gone \in SUBSET R /\ kept \in SUBSET R /\ now \in SUBSET R
  OBVIOUS
<1>2. kept \cup gone = old /\ kept \cap gone = {} /\ kept \cap new = {}
  OBVIOUS
<1>3. /\ Summable(f, kept) /\ Worth(kept) = SumOver(f, kept) /\ Worth(kept) \in Nat
      /\ Summable(f, gone) /\ Worth(gone) = SumOver(f, gone) /\ Worth(gone) \in Nat
      /\ Summable(f, new) /\ Worth(new) = SumOver(f, new) /\ Worth(new) \in Nat
      /\ Worth(old) = SumOver(f, old) /\ Worth(old) \in Nat
      /\ Worth(now) = SumOver(f, now)
  <2>. HIDE DEF kept, now
  <2>. QED  BY <1>1, WorthIn
<1>. HIDE DEF f, kept
<1>4. SumOver(f, kept \cup gone) = SumOver(f, kept) + SumOver(f, gone)
  BY <1>2, <1>3, SumDisjoint
<1>5. SumOver(f, kept \cup new) = SumOver(f, kept) + SumOver(f, new)
  BY <1>2, <1>3, SumDisjoint
<1>6. Worth(old) = Worth(kept) + Worth(gone) /\ Worth(now) = Worth(kept) + Worth(new)
  BY <1>2, <1>3, <1>4, <1>5
<1>. HIDE DEF now
<1>7. Worth(now) = Worth(old) - Worth(gone) + Worth(new)
  BY <1>3, <1>6
<1>. QED  BY <1>3, <1>7 DEF now, kept

\* h names resources, whose quantities are g where K is and nothing else.
Weighs(g, h, D, K) ==
  /\ \A k \in K : h[k].resource.quantity \in Nat /\ g[k] = h[k].resource.quantity
  /\ \A k \in D \ K : g[k] = 0

LEMMA WorthNamed ==
  ASSUME NEW D, IsFiniteSet(D), NEW K \in SUBSET D, NEW h, NEW S, Names(h, K, S),
         NEW g, Weighs(g, h, D, K)
  PROVE  Worth(S) = SumOver(g, D)
<1>. DEFINE f == [r \in S |-> r.resource.quantity]
<1>1. Worth(S) = SumOver(f, DOMAIN f) /\ DOMAIN f = S
  BY SumFunctionIs DEF Worth
<1>2. ByNames(g, f, h, K)
  BY DEF Names, ByNames, Weighs
<1>3. IsFiniteSet(K) /\ \A k \in D : g[k] \in Int
  BY FS_Subset DEF Weighs
<1>. HIDE DEF f
<1>4. SumOver(f, S) = SumOver(g, K)
  BY <1>2, <1>3, SumNamed
<1>5. Summable(g, D)
  BY <1>3 DEF Summable
<1>6. SumOver(g, D) = SumOver(g, K)
  BY <1>5, SumWithin DEF Weighs
<1>. QED  BY <1>1, <1>4, <1>6

\* What the created resources of some kind are worth.
PersistentOf(S, t)   == {r \in Persistent(S) : Wrapped(r, t)}
EphemeralFor(S, t, a) == {r \in S \ Persistent(S) :
                            Wrapped(r, t) /\ r.resource.valueRef = ValueRefFromAddress(a)}

LEMMA MadeWorth ==
  ASSUME NEW action, Proper(action), Verified(action), NEW t
  PROVE  Worth(PersistentOf(Created(action), t))
           = SumOver(Persistents(action.created, t), DOMAIN action.created)
<1>. DEFINE d == action.created
            D == DOMAIN d
            K == {k \in D : ~d[k].resource.isEphemeral /\ Wrapped(d[k], t)}
            h == [k \in D |-> Made(d[k])]
            g == Persistents(d, t)
            S == PersistentOf(Created(action), t)
<1>1. Created(action) = {Made(d[k]) : k \in D}
  BY CreatedIs
<1>2. \A k \in D : h[k] = Made(d[k]) /\ h[k].resource = d[k].resource
  BY DEF Made
<1>3. \A i, j \in D : d[i].resource = d[j].resource => i = j
  BY CreatedIs
<1>4. IsFiniteSet(D) /\ \A k \in D : d[k].resource.quantity \in Nat
  BY QuantitiesAre, FS_Interval
<1>. HIDE DEF h, D
<1>5. \A k \in D : k \in K <=> h[k] \in S
  BY <1>1, <1>2 DEF PersistentOf, Persistent, Wrapped
<1>6. Names(h, K, S)
  <2>1. ASSUME NEW x \in S
        PROVE  \E i \in K : x = h[i]
    <3>1. PICK i \in D : x = Made(d[i])
      BY <1>1 DEF PersistentOf, Persistent
    <3>2. x = h[i]
      BY <1>2, <3>1
    <3>. QED  BY <1>5, <3>2
  <2>2. \A i \in K : h[i] \in S
    BY <1>5
  <2>3. \A i, j \in K : h[i] = h[j] => i = j
    BY <1>2, <1>3
  <2>. QED  BY <2>1, <2>2, <2>3 DEF Names
<1>7. Weighs(g, h, D, K)
  BY <1>2, <1>4 DEF Weighs, Persistents, D
<1>. HIDE DEF g, S
<1>8. K \in SUBSET D
  OBVIOUS
<1>. HIDE DEF K
<1>9. Worth(S) = SumOver(g, D)
  BY <1>4, <1>6, <1>7, <1>8, WorthNamed
<1>. QED  BY <1>9 DEF S, g, D

LEMMA NamedWorth ==
  ASSUME NEW action, Proper(action), Verified(action), NEW t, NEW a
  PROVE  Worth(EphemeralFor(Created(action), t, a))
           = SumOver(ForAccount(action.created, t, a), DOMAIN action.created)
<1>. DEFINE d == action.created
            D == DOMAIN d
            K == {k \in D : IsFor(d[k], t, a)}
            h == [k \in D |-> Made(d[k])]
            g == ForAccount(d, t, a)
            S == EphemeralFor(Created(action), t, a)
<1>1. Created(action) = {Made(d[k]) : k \in D}
  BY CreatedIs
<1>2. \A k \in D : h[k] = Made(d[k]) /\ h[k].resource = d[k].resource
  BY DEF Made
<1>3. \A i, j \in D : d[i].resource = d[j].resource => i = j
  BY CreatedIs
<1>4. IsFiniteSet(D) /\ \A k \in D : d[k].resource.quantity \in Nat
  BY QuantitiesAre, FS_Interval
<1>. HIDE DEF h, D
<1>5. \A k \in D : k \in K <=> h[k] \in S
  BY <1>1, <1>2 DEF EphemeralFor, Persistent, Wrapped, IsFor
<1>6. Names(h, K, S)
  <2>1. ASSUME NEW x \in S
        PROVE  \E i \in K : x = h[i]
    <3>1. PICK i \in D : x = Made(d[i])
      BY <1>1 DEF EphemeralFor
    <3>2. x = h[i]
      BY <1>2, <3>1
    <3>. QED  BY <1>5, <3>2
  <2>2. \A i \in K : h[i] \in S
    BY <1>5
  <2>3. \A i, j \in K : h[i] = h[j] => i = j
    BY <1>2, <1>3
  <2>. QED  BY <2>1, <2>2, <2>3 DEF Names
<1>7. Weighs(g, h, D, K)
  BY <1>2, <1>4 DEF Weighs, ForAccount, D
<1>. HIDE DEF g, S
<1>8. K \in SUBSET D
  OBVIOUS
<1>. HIDE DEF K
<1>9. Worth(S) = SumOver(g, D)
  BY <1>4, <1>6, <1>7, <1>8, WorthNamed
<1>. QED  BY <1>9 DEF S, g, D

\* The unspent resources of a token that an action consumes.
Spent(action, t) ==
  {r \in PersistentOf(Unspent, t) : NullifierOf(r) \in ToSet(NullifiersIn(action))}

LEMMA SpentWorth ==
  ASSUME IInv, Recorded, NEW action, Proper(action), Verified(action), Fresh(action), NEW t
  PROVE  Worth(Spent(action, t))
           = SumOver(Persistents(action.consumed, t), DOMAIN action.consumed)
<1>. DEFINE c == action.consumed
            D == DOMAIN c
            K == {k \in D : ~c[k].resource.isEphemeral /\ Wrapped(c[k], t)}
            h == [k \in D |-> CHOOSE r \in resources : r.resource = c[k].resource]
            g == Persistents(c, t)
            S == Spent(action, t)
            ns == NullifiersIn(action)
<1>1. IsFiniteSet(D) /\ \A k \in D : c[k].resource.quantity \in Nat
  BY QuantitiesAre, FS_Interval
<1>2. ASSUME NEW k \in K
      PROVE  /\ h[k] \in Persistent(Unspent) /\ h[k].resource = c[k].resource
             /\ NullifierOf(h[k]) = ns[k]
  <2>1. PICK r \in Persistent(Unspent) : r.resource = c[k].resource /\ NullifierOf(r) = ns[k]
    BY <1>2, ConsumedAreUnspent
  <2>2. r \in resources
    BY DEF Persistent, Unspent
  <2>3. \A s \in resources : s.resource = c[k].resource => s = r
    BY <2>1, <2>2 DEF Recorded
  <2>4. (CHOOSE s \in resources : s.resource = c[k].resource) = r
    BY <2>1, <2>2, <2>3
  <2>5. h[k] = r
    BY <1>2, <2>4
  <2>. QED  BY <2>1, <2>5
<1>3. DOMAIN ns = D
  BY DEF NullifiersIn
<1>4. ASSUME NEW x \in S
      PROVE  \E k \in K : x = h[k]
  <2>1. /\ x \in resources /\ ~x.resource.isEphemeral /\ Wrapped(x, t)
        /\ NullifierOf(x) \in ToSet(ns)
    BY DEF Spent, PersistentOf, Persistent, Unspent
  <2>2. PICK k \in D : NullifierOf(x) = ns[k]
    BY <1>3, <2>1 DEF ToSet
  <2>3. ns[k] = ComputeNullifier(c[k].resource, c[k].nullifierKey)
    BY <2>2 DEF NullifiersIn, TagOf, Proper
  <2>4. \A y, key : NullifierOf(x) = ComputeNullifier(y, key) => y = x.resource
    BY CommitDetermines DEF NullifierOf, ComputeNullifier, HashTwo, Keccak
  <2>5. c[k].resource = x.resource
    BY <2>2, <2>3, <2>4
  <2>6. k \in K
    BY <2>1, <2>5 DEF Wrapped
  <2>7. h[k] \in resources /\ h[k].resource = x.resource
    <3>. HIDE DEF h, K
    <3>. QED  BY <1>2, <2>5, <2>6 DEF Persistent, Unspent
  <2>8. x = h[k]
    BY <2>1, <2>7 DEF Recorded
  <2>. QED  BY <2>6, <2>8
<1>5. ASSUME NEW k \in K
      PROVE  h[k] \in S
  <2>1. k \in D /\ Wrapped(c[k], t)
    OBVIOUS
  <2>2. /\ h[k] \in Persistent(Unspent) /\ h[k].resource = c[k].resource
        /\ NullifierOf(h[k]) = ns[k]
    BY <1>2
  <2>3. ns[k] \in ToSet(ns)
    BY <1>3, <2>1 DEF ToSet
  <2>. HIDE DEF h, K, ns
  <2>4. Wrapped(h[k], t)
    BY <2>1, <2>2 DEF Wrapped
  <2>. QED  BY <2>2, <2>3, <2>4 DEF Spent, PersistentOf, ns
<1>6. ASSUME NEW i \in K, NEW j \in K, h[i] = h[j]
      PROVE  i = j
  <2>1. ns[i] = ns[j]
    <3>1. NullifierOf(h[i]) = ns[i] /\ NullifierOf(h[j]) = ns[j]
      BY <1>2
    <3>. HIDE DEF h, ns
    <3>. QED  BY <1>6, <3>1
  <2>2. IsInjective(ns)
    BY DEF Verified
  <2>. QED  BY <1>3, <2>1, <2>2 DEF IsInjective
<1>. HIDE DEF h, D, S, ns
<1>7. Names(h, K, S)
  <2>. HIDE DEF K
  <2>. QED  BY <1>4, <1>5, <1>6 DEF Names
<1>8. Weighs(g, h, D, K)
  <2>1. \A k \in K : h[k].resource.quantity \in Nat /\ g[k] = h[k].resource.quantity
    BY <1>1, <1>2 DEF Persistents, D
  <2>2. \A k \in D \ K : g[k] = 0
    BY DEF Persistents, D
  <2>. QED  BY <2>1, <2>2 DEF Weighs
<1>9. K \in SUBSET D
  OBVIOUS
<1>. HIDE DEF K, g
<1>10. Worth(S) = SumOver(g, D)
  BY <1>1, <1>7, <1>8, <1>9, WorthNamed
<1>. QED  BY <1>10 DEF S, g, D

\* What is unspent after an action.
LEMMA UnspentAfter ==
  ASSUME IInv, Recorded, NEW action, Proper(action), Settle(action), NEW t
  PROVE  /\ PersistentOf(Unspent, t)'
              = (PersistentOf(Unspent, t) \ Spent(action, t))
                  \cup PersistentOf(Created(action), t)
         /\ PersistentOf(Unspent, t) \cap PersistentOf(Created(action), t) = {}
<1>. DEFINE d == action.created
            ns == ToSet(NullifiersIn(action))
<1>1. /\ Verified(action) /\ Fresh(action)
      /\ resources' = resources \cup Created(action)
      /\ nullified' = nullified \cup ns
  BY DEF Settle
<1>2. Created(action) = {Made(d[k]) : k \in DOMAIN d}
  BY <1>1, CreatedIs
<1>3. ASSUME NEW r \in PersistentOf(Created(action), t)
      PROVE  NullifierOf(r) \notin nullified' /\ r \notin resources
  <2>1. r \in Created(action) /\ ~r.resource.isEphemeral
    BY DEF PersistentOf, Persistent
  <2>2. PICK k \in DOMAIN d : r = Made(d[k])
    BY <1>2, <2>1
  <2>3. r.resource = d[k].resource
    BY <2>2 DEF Made
  <2>4. NullifierOf(r) \notin nullified'
    BY <2>1, <2>2, <2>3, CreatedAreUnspent
  <2>5. r \notin resources
    BY <1>1, <2>3, CreatedAreNew
  <2>. QED  BY <2>4, <2>5
<1>4. PersistentOf(Unspent, t)'
        = {r \in resources' : /\ NullifierOf(r) \notin nullified' /\ ~r.resource.isEphemeral
                              /\ Wrapped(r, t)}
  BY DEF PersistentOf, Persistent, Unspent, NullifierOf, Wrapped
<1>5. PersistentOf(Unspent, t)
        = {r \in resources : /\ NullifierOf(r) \notin nullified /\ ~r.resource.isEphemeral
                             /\ Wrapped(r, t)}
  BY DEF PersistentOf, Persistent, Unspent
<1>6. PersistentOf(Created(action), t)
        = {r \in Created(action) : ~r.resource.isEphemeral /\ Wrapped(r, t)}
  BY DEF PersistentOf, Persistent
<1>7. Spent(action, t) = {r \in PersistentOf(Unspent, t) : NullifierOf(r) \in ns}
  BY DEF Spent
<1>. HIDE DEF ns
<1>8. PersistentOf(Unspent, t)'
        = (PersistentOf(Unspent, t) \ Spent(action, t)) \cup PersistentOf(Created(action), t)
  BY <1>1, <1>3, <1>4, <1>5, <1>6, <1>7
<1>. QED  BY <1>3, <1>5, <1>8

LEMMA SettleBacked ==
  ASSUME IInv, Recorded, Backed, NEW action, Proper(action), Settle(action)
  PROVE  Backed'
<1>. SUFFICES ASSUME NEW t \in Tokens
              PROVE  held'[t] = Worth(PersistentOf(Unspent, t)')
  BY DEF Backed, PersistentOf, Persistent, Unspent, Wrapped, NullifierOf
<1>. DEFINE old  == PersistentOf(Unspent, t)
            gone == Spent(action, t)
            new  == PersistentOf(Created(action), t)
            ins  == Amount(action, Inputs(action, "Wrap"), t)
            outs == Amount(action, Inputs(action, "Unwrap"), t)
<1>1. Verified(action) /\ Fresh(action) /\ resources' = resources \cup Created(action)
  BY DEF Settle
<1>2. held[t] = Worth(old)
  BY DEF Backed, PersistentOf
<1>3. held'[t] = held[t] + ins - outs
  BY DEF Settle, HeldAfter
<1>4. /\ ins \in Int /\ outs \in Int /\ Worth(gone) \in Int /\ Worth(new) \in Int
      /\ ins - outs = Worth(new) - Worth(gone)
  BY <1>1, HeldChange, MadeWorth, SpentWorth
<1>5. PersistentOf(Unspent, t)' = (old \ gone) \cup new /\ old \cap new = {}
  BY UnspentAfter
<1>. DEFINE R == resources'
<1>6. gone \in SUBSET old /\ old \in SUBSET R /\ new \in SUBSET R
  BY <1>1 DEF Spent, PersistentOf, Persistent, Unspent
<1>7. IsFiniteSet(R) /\ HasQuantities(R)
  BY SettleRecorded DEF Recorded, HasQuantities
<1>. HIDE DEF old, gone, new, ins, outs, R
<1>8. /\ Worth((old \ gone) \cup new) = Worth(old) - Worth(gone) + Worth(new)
      /\ Worth(old) \in Nat /\ Worth(gone) \in Nat /\ Worth(new) \in Nat
  <2>1. old \cap new = {}
    BY <1>5
  <2>. QED  BY <2>1, <1>6, <1>7, WorthChanges
<1>9. held[t] + ins - outs = Worth(old) - Worth(gone) + Worth(new)
  BY <1>2, <1>4, <1>8
<1>. QED  BY <1>3, <1>5, <1>8, <1>9

LEMMA NothingIsWorthNothing == Worth({}) = 0
<1>. DEFINE f == [r \in {} |-> r.resource.quantity]
<1>1. Worth({}) = SumOver(f, DOMAIN f) /\ DOMAIN f = {}
  BY SumFunctionIs DEF Worth
<1>. QED  BY <1>1, SumEmpty

\* The invariant of the accounts.
Accounted == /\ IInv /\ Recorded /\ Backed
             /\ wallet \in [Accounts -> [Tokens -> Int]]

LEMMA InitAccounted == Init => Accounted
<1>. SUFFICES ASSUME Init
              PROVE  Accounted
  OBVIOUS
<1>1. IInv
  BY InitInvariant
<1>2. Recorded
  BY FS_EmptySet DEF Init, Recorded
<1>3. wallet \in [Accounts -> [Tokens -> Int]]
  BY EscrowAssumption DEF Init
<1>4. Backed
  <2>1. \A t : {r \in Persistent(Unspent) : Wrapped(r, t)} = {}
    BY DEF Init, Persistent, Unspent
  <2>2. Worth({}) = 0
    BY NothingIsWorthNothing
  <2>3. \A t \in Tokens : held[t] = 0
    BY DEF Init
  <2>. QED  BY <2>1, <2>2, <2>3 DEF Backed
<1>. QED  BY <1>1, <1>2, <1>3, <1>4 DEF Accounted

-----------------------------------------------------------------------------
(* What accounts get and pay.                                              *)

LEMMA PlacesAreFinite ==
  ASSUME NEW n \in Nat
  PROVE  IsFiniteSet(Places(0, 1..n))
<1>. DEFINE D == 1..n
            h == [k \in D |-> <<0 + k, 1>>]
            S == Places(0, D)
<1>1. h \in Surjection(D, S)
  BY DEF Surjection, Places
<1>2. IsFiniteSet(D)
  BY FS_Interval
<1>. HIDE DEF D, h, S
<1>3. IsFiniteSet(S)
  BY <1>1, <1>2, FS_Surjection
<1>. QED  BY <1>3 DEF S, D

\* An account pays no less than nothing, and nothing without a call.
LEMMA PaidIs ==
  ASSUME NEW action, Proper(action), NEW a, NEW t
  PROVE  /\ Amount(action, Paid(action, a), t) \in Nat
         /\ Amount(action, Paid(action, a), t) # 0 => Paid(action, a) # {}
<1>. DEFINE n == Len(action.consumed)
            P == Paid(action, a)
            f == [s \in P |-> Moves(action, s, t)]
<1>1. n \in Nat /\ DOMAIN action.consumed = 1..n /\ 1..n \subseteq DOMAIN Entries(action)
  <2>. DEFINE m == Len(action.created)
              c == action.consumed
  <2>1. n \in Nat /\ m \in Nat /\ DOMAIN c = 1..n /\ DOMAIN Entries(action) = 1..(n + m)
    BY EntriesAt
  <2>. HIDE DEF n, m, c
  <2>2. 1..n \subseteq 1..(n + m)
    BY <2>1
  <2>. QED  BY <2>1, <2>2 DEF c
<1>2. ASSUME NEW s \in P
      PROVE  s \in Places(0, 1..n) /\ Moves(action, s, t) \in Nat
  <2>1. s \in Slots(action) /\ InputAt(action, s).call = "Wrap"
    BY DEF Paid, Inputs, Calls
  <2>2. PICK k \in 1..n : s = <<k, 1>> /\ action.consumed[k].resource.isEphemeral
    BY <2>1, SlotIs
  <2>3. Entries(action)[k] = action.consumed[k] /\ action.consumed[k].resource.quantity \in Nat
    BY <1>1, <2>2, EntriesAt DEF Proper, ProperEntry
  <2>4. InputAt(action, s).quantity = action.consumed[k].resource.quantity
    BY <1>1, <2>2, <2>3, InputIs
  <2>5. s = <<0 + k, 1>>
    <3>1. 0 + k = k
      BY <1>1
    <3>. QED  BY <2>2, <3>1
  <2>6. s \in Places(0, 1..n)
    BY <2>5 DEF Places
  <2>. QED  BY <2>3, <2>4, <2>6 DEF Moves
<1>3. IsFiniteSet(P)
  <2>1. IsFiniteSet(Places(0, 1..n))
    BY <1>1, PlacesAreFinite
  <2>2. P \subseteq Places(0, 1..n)
    BY <1>2
  <2>. QED  BY <2>1, <2>2, FS_Subset
<1>4. Amount(action, P, t) = SumOver(f, DOMAIN f) /\ DOMAIN f = P
  BY SumFunctionIs DEF Amount, Moves
<1>5. \A s \in P : f[s] \in Nat
  BY <1>2
<1>. HIDE DEF P, f
<1>6. SumOver(f, P) \in Nat
  BY <1>3, <1>5, SumIsNatural
<1>7. P = {} => SumOver(f, P) = 0
  BY SumEmpty
<1>. QED  BY <1>4, <1>6, <1>7 DEF P

\* Who pays has signed the tags of the action.
LEMMA PayerSigned ==
  ASSUME IInv, NEW action, Proper(action), Settle(action), NEW a, NEW s \in Paid(action, a)
  PROVE  \E i \in intents : i.signer = a /\ nullified' \ nullified \subseteq ToSet(i.tags)
<1>1. Verified(action) /\ nullified' = nullified \cup ToSet(NullifiersIn(action))
      /\ Executes(action)
  BY DEF Settle
<1>2. /\ s \in Slots(action) /\ s \in Inputs(action, "Wrap")
      /\ InputAt(action, s).call = "Wrap" /\ InputAt(action, s).owner = a
  BY DEF Paid, Inputs, Calls
<1>3. PICK j \in DOMAIN Entries(action) :
        s = <<j, 1>> /\ Entries(action)[j].resource.isEphemeral
  BY <1>2, SlotsAre
<1>. DEFINE w == Entries(action)[j]
<1>4. w.isConsumed
  BY <1>2, <1>3, InputIs
<1>5. InputAt(action, s).root = w.actionRoot
  BY <1>3, <1>4, InputIs
<1>6. w.actionRoot = TreeRoot(TagList(action))
  BY <1>1 DEF Verified, ToSet
<1>7. Signature(a, TreeRoot(TagList(action))) \in Signatures
  BY <1>1, <1>2, <1>5, <1>6 DEF Executes
<1>8. PICK i \in intents : Signature(i.signer, TreeRoot(i.tags)) = Signature(a, TreeRoot(TagList(action)))
  BY <1>7 DEF Signatures
<1>9. i.signer = a /\ TreeRoot(i.tags) = TreeRoot(TagList(action))
  BY <1>8 DEF Signature
<1>10. i.tags = TagList(action)
  <2>1. IsTagList(TagList(action))
    BY <1>1, TagsAreTagList DEF Verified
  <2>2. IsTagList(i.tags)
    BY DEF IInv
  <2>. QED  BY <1>9, <2>1, <2>2, RootDetermines
<1>11. ToSet(NullifiersIn(action)) \subseteq ToSet(TagList(action))
  <2>1. ASSUME NEW n \in ToSet(NullifiersIn(action))
        PROVE  n \in ToSet(TagList(action))
    <3>1. PICK k \in DOMAIN action.consumed : n = NullifiersIn(action)[k]
      BY DEF ToSet, NullifiersIn
    <3>. QED  BY <3>1, NullifiersAreTags
  <2>. QED  BY <2>1
<1>. QED  BY <1>1, <1>9, <1>10, <1>11

LEMMA AmountsAre ==
  ASSUME NEW action, Proper(action), Verified(action), NEW t \in Tokens, NEW a
  PROVE  /\ Amount(action, Received(action, a), t)
              = Worth(EphemeralFor(Created(action), t, a))
         /\ Amount(action, Received(action, a), t) \in Int
BY ReceivedIs, NamedWorth, SumIsInteger

LEMMA SettleWallet ==
  ASSUME Accounted, NEW action, Proper(action), Settle(action)
  PROVE  wallet' \in [Accounts -> [Tokens -> Int]]
<1>1. Verified(action) /\ wallet' = WalletAfter(action)
  BY DEF Settle
<1>2. ASSUME NEW a \in Accounts, NEW t \in Tokens
      PROVE  wallet[a][t] - Amount(action, Paid(action, a), t)
               + Amount(action, Received(action, a), t) \in Int
  <2>. DEFINE x == wallet[a][t]
              y == Amount(action, Paid(action, a), t)
              z == Amount(action, Received(action, a), t)
  <2>1. x \in Int /\ y \in Nat /\ z \in Int
    BY <1>1, PaidIs, AmountsAre DEF Accounted
  <2>. HIDE DEF x, y, z
  <2>2. x - y + z \in Int
    BY <2>1
  <2>. QED  BY <2>2 DEF x, y, z
<1>. QED  BY <1>1, <1>2 DEF WalletAfter

LEMMA NextAccounted == Accounted /\ ProperProposals /\ [Next]_vars => Accounted'
<1>. SUFFICES ASSUME Accounted, ProperProposals, [Next]_vars
              PROVE  Accounted'
  OBVIOUS
<1>1. IInv'
  BY NextInvariant DEF Accounted
<1>2. ASSUME NEW action \in Proposals(Unspent, Signatures), Settle(action)
      PROVE  Accounted'
  <2>1. Proper(action)
    BY DEF ProperProposals
  <2>2. Recorded' /\ Backed'
    BY <1>2, <2>1, SettleRecorded, SettleBacked DEF Accounted
  <2>3. wallet' \in [Accounts -> [Tokens -> Int]]
    BY <1>2, <2>1, SettleWallet
  <2>. QED  BY <1>1, <2>2, <2>3 DEF Accounted
<1>3. ASSUME UNCHANGED <<resources, nullified, held, wallet>>
      PROVE  Accounted'
  <2>1. Recorded'
    BY <1>3 DEF Accounted, Recorded, HasNonce, WasThere
  <2>2. Backed'
    BY <1>3 DEF Accounted, Backed, Persistent, Unspent, Wrapped, NullifierOf
  <2>. QED  BY <1>1, <1>3, <2>1, <2>2 DEF Accounted
<1>. QED  BY <1>2, <1>3 DEF Next, Authorize, vars

LEMMA AlwaysAccounted == Spec /\ []ProperProposals => []Accounted
BY InitAccounted, NextAccounted, PTL DEF Spec

\* The resources created in a step that name an account.
NamedFor(a, t) ==
  {r \in (resources' \ resources) \ Persistent(resources') :
     Wrapped(r, t) /\ r.resource.valueRef = ValueRefFromAddress(a)}

LEMMA NamedAre ==
  ASSUME IInv, Recorded, NEW action, Proper(action), Settle(action), NEW a, NEW t
  PROVE  NamedFor(a, t) = EphemeralFor(Created(action), t, a)
<1>. DEFINE d == action.created
            C == Created(action)
<1>1. Verified(action) /\ Fresh(action) /\ resources' = resources \cup C
  BY DEF Settle
<1>2. C = {Made(d[k]) : k \in DOMAIN d}
  BY <1>1, CreatedIs
<1>3. ASSUME NEW r \in C
      PROVE  r \notin resources
  <2>1. PICK k \in DOMAIN d : r = Made(d[k])
    BY <1>2
  <2>2. r.resource = d[k].resource
    BY <2>1 DEF Made
  <2>. QED  BY <1>1, <2>2, CreatedAreNew
<1>4. \A r : r \in (resources' \ resources) \ Persistent(resources')
               <=> r \in C \ Persistent(C)
  BY <1>1, <1>3 DEF Persistent
<1>. HIDE DEF C
<1>5. (resources' \ resources) \ Persistent(resources') = C \ Persistent(C)
  BY <1>4
<1>. QED  BY <1>5 DEF NamedFor, EphemeralFor, C

LEMMA SettlePaid ==
  ASSUME Accounted, NEW action, Proper(action), Settle(action),
         NEW a \in Accounts, NEW t \in Tokens
  PROVE  LET due == wallet[a][t] + Worth(NamedFor(a, t))
         IN  /\ wallet'[a][t] <= due
             /\ wallet'[a][t] < due =>
                  \E i \in intents : i.signer = a /\ nullified' \ nullified \subseteq ToSet(i.tags)
<1>. DEFINE x == wallet[a][t]
            y == Amount(action, Paid(action, a), t)
            z == Amount(action, Received(action, a), t)
            due == x + Worth(NamedFor(a, t))
<1>1. Verified(action) /\ IInv /\ Recorded
  BY DEF Settle, Accounted
<1>2. z = Worth(NamedFor(a, t)) /\ z \in Int
  <2>1. z = Worth(EphemeralFor(Created(action), t, a)) /\ z \in Int
    BY <1>1, AmountsAre
  <2>2. NamedFor(a, t) = EphemeralFor(Created(action), t, a)
    BY <1>1, NamedAre
  <2>. HIDE DEF z
  <2>. QED  BY <2>1, <2>2
<1>3. wallet'[a][t] = x - y + z
  BY DEF Settle, WalletAfter
<1>4. x \in Int /\ y \in Nat /\ (y # 0 => Paid(action, a) # {})
  BY PaidIs DEF Accounted
<1>5. Paid(action, a) # {} =>
        \E i \in intents : i.signer = a /\ nullified' \ nullified \subseteq ToSet(i.tags)
  BY <1>1, PayerSigned
<1>. HIDE DEF x, y, z
<1>6. due = x + z
  BY <1>2
<1>. HIDE DEF due
<1>7. wallet'[a][t] <= due /\ (wallet'[a][t] < due => y # 0)
  BY <1>2, <1>3, <1>4, <1>6
<1>. QED  BY <1>4, <1>5, <1>7 DEF due, x

LEMMA NextPaid ==
  Accounted /\ ProperProposals /\ [Next]_vars =>
    [\A a \in Accounts, t \in Tokens :
       LET named == {r \in (resources' \ resources) \ Persistent(resources') :
                       Wrapped(r, t) /\ r.resource.valueRef = ValueRefFromAddress(a)}
           due   == wallet[a][t] + Worth(named)
       IN  /\ wallet'[a][t] <= due
           /\ wallet'[a][t] < due =>
                \E i \in intents : /\ i.signer = a
                                   /\ (nullified' \ nullified) \subseteq ToSet(i.tags)]_vars
<1>. SUFFICES ASSUME Accounted, ProperProposals, Next, NEW a \in Accounts, NEW t \in Tokens
              PROVE  LET due == wallet[a][t] + Worth(NamedFor(a, t))
                     IN  /\ wallet'[a][t] <= due
                         /\ wallet'[a][t] < due =>
                              \E i \in intents :
                                i.signer = a /\ nullified' \ nullified \subseteq ToSet(i.tags)
  BY DEF NamedFor
<1>1. PICK action \in Proposals(Unspent, Signatures) : Authorize(action) \/ Settle(action)
  BY DEF Next
<1>2. CASE Settle(action)
  BY <1>1, <1>2, SettlePaid DEF ProperProposals
<1>3. CASE Authorize(action)
  <2>1. resources' = resources /\ wallet' = wallet
    BY <1>3 DEF Authorize
  <2>2. NamedFor(a, t) = {}
    BY <2>1 DEF NamedFor
  <2>3. wallet[a][t] \in Int
    BY DEF Accounted
  <2>4. Worth(NamedFor(a, t)) = 0
    BY <2>2, NothingIsWorthNothing
  <2>5. \A x \in Int : x <= x + 0 /\ ~(x < x + 0)
    OBVIOUS
  <2>. QED  BY <2>1, <2>3, <2>4, <2>5
<1>. QED  BY <1>1, <1>2, <1>3

(* The tokens in the forwarder are worth exactly the unspent persistent    *)
(* resources (ephemeral_resource_check), whatever is wrapped, transferred  *)
(* and unwrapped in one action or in several: no resource is without       *)
(* tokens, and no tokens are without a resource.                           *)
THEOREM ForwarderBacks == Spec /\ []ProperProposals => []Backed
BY AlwaysAccounted, PTL DEF Accounted

(* An account gets what the created ephemeral resources name it for, and   *)
(* pays only in an action whose nullifiers it has signed                   *)
(* (ephemeral_resource_check), though what is paid is read from the app    *)
(* data and not from the resources.                                        *)
THEOREM AccountsGetTheirs == Spec /\ []ProperProposals => PaidAsCommitted
BY AlwaysAccounted, NextPaid, PTL DEF Spec, PaidAsCommitted
=============================================================================
