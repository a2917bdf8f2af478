----------------------------- MODULE TokenEscrow -----------------------------
(***************************************************************************)
(* The ERC20 wrapper at work: actions whose resources all have the logic   *)
(* of TransferAuth settle one after the other, and the forwarder, which    *)
(* holds the tokens, executes the calls in their app data.                 *)
(*                                                                         *)
(* What Transaction and its properties say of an accepted transaction is   *)
(* the guard of Settle, for a transaction with one action.  The node that  *)
(* stores commitments and nullifiers and the forwarder contract are not    *)
(* part of the repository; they do what the code expects of its callers    *)
(* (witness.rs:186, the comments of evm.rs and transfer_auth.rs).          *)
(***************************************************************************)
EXTENDS TransferAuth, GuestStatement, SequencesExt

CONSTANTS Forwarder,         \* address of the forwarder contract
          Tokens, Accounts,  \* addresses of token contracts and of holders
          Deposits,          \* the tokens each account starts with
          HolderKey,         \* the nullifier key, which all holders share
          Proposals(_, _),   \* actions somebody may put together from the
                             \* unspent resources and the known signatures
          MaxResources,      \* bound on the resources ever created
          MaxIntents         \* bound on the signatures over action roots

ASSUME EscrowAssumption ==
  /\ Tokens \subseteq Addresses /\ Accounts \subseteq Addresses /\ Forwarder \in Addresses
  /\ Deposits \in [Accounts -> [Tokens -> Nat]]
  /\ HolderKey # None
  /\ \A key \in AuthorityKeys : Signature(key, ZeroRoot) # None

VARIABLES resources,   \* what was created, the key its creator named, and the
                       \* payload that was published
          nullified,   \* nullifiers of settled actions
          held,        \* tokens in the forwarder
          wallet,      \* tokens of the accounts
          intents      \* who signed the root of which tags

vars == <<resources, nullified, held, wallet, intents>>

-----------------------------------------------------------------------------
(* An action is a record of two lists of witnesses, and the hiding input   *)
(* of its compliance witness.                                              *)

Entries(action) == action.consumed \o action.created
NullifiersIn(action)  == [k \in DOMAIN action.consumed |-> TagOf(action.consumed[k])]
CommitmentsIn(action) == [k \in DOMAIN action.created |-> TagOf(action.created[k])]
TagList(action) == [k \in DOMAIN Entries(action) |-> TagOf(Entries(action)[k])]

Signatures == {Signature(i.signer, TreeRoot(i.tags)) : i \in intents}

\* What holds of an accepted transaction with this one action.
Verified(action) ==
  /\ action.consumed # <<>>
  /\ IsInjective(NullifiersIn(action)) /\ IsInjective(CommitmentsIn(action))
  /\ \A k \in DOMAIN action.created :
       action.created[k].resource.nonce = CreatedNonce(NullifiersIn(action), k - 1)
  /\ \A w \in ToSet(Entries(action)) : w.actionRoot = TreeRoot(TagList(action)) /\ Approves(w)
  /\ \A w \in ToSet(Entries(action)) :
       Quantity(action.consumed, KindOf(w.resource)) = Quantity(action.created, KindOf(w.resource))

\* What the node checks: nullifiers are new, and a persistent resource was
\* created, with a path to a root in the history.
Fresh(action) ==
  /\ ToSet(NullifiersIn(action)) \cap nullified = {}
  /\ \A w \in ToSet(action.consumed) :
       ~w.resource.isEphemeral => \E r \in resources : r.resource = w.resource

-----------------------------------------------------------------------------
(* The calls of an action to the forwarder, which executes all or none.  A *)
(* call is at an entry, and at a place in its external payload.            *)

Slots(action) ==
  UNION {{k} \X DOMAIN AppDataOf(Entries(action)[k]).externalPayload :
         k \in DOMAIN Entries(action)}

CallAt(action, s)  == AppDataOf(Entries(action)[s[1]]).externalPayload[s[2]]
InputAt(action, s) == CallAt(action, s).input

Calls(action)        == {s \in Slots(action) : CallAt(action, s).forwarder = Forwarder}
Inputs(action, call) == {s \in Calls(action) : InputAt(action, s).call = call}

Paid(action, account) ==
  {s \in Inputs(action, "Wrap") : InputAt(action, s).owner = account}

Received(action, account) ==
  {s \in Inputs(action, "Unwrap") : InputAt(action, s).receiver = account}

\* What some of the calls move of a token.
Amount(action, slots, token) ==
  SumFunction([s \in slots |-> IF InputAt(action, s).token = token
                               THEN InputAt(action, s).quantity ELSE 0])

HeldAfter(action) ==
  [t \in Tokens |-> held[t] + Amount(action, Inputs(action, "Wrap"), t)
                            - Amount(action, Inputs(action, "Unwrap"), t)]

WalletAfter(action) ==
  [a \in Accounts |-> [t \in Tokens |-> wallet[a][t] - Amount(action, Paid(action, a), t)
                                                     + Amount(action, Received(action, a), t)]]

\* The outer logic is that of this wrapper, a permit is for this action, and
\* no transfer exceeds a balance.
Executes(action) ==
  /\ \A s \in Calls(action) : CallAt(action, s).hiding = action.hiding
  /\ \A s \in Inputs(action, "Wrap") :
       LET i == InputAt(action, s)
       IN  i.permit = Signature(i.owner, i.root) /\ i.permit \in Signatures
  /\ \A t \in Tokens : HeldAfter(action)[t] >= 0
  /\ \A a \in Accounts, t \in Tokens : WalletAfter(action)[a][t] >= 0

-----------------------------------------------------------------------------
NullifierOf(r) == ComputeNullifier(r.resource, HolderKey)
Unspent        == {r \in resources : NullifierOf(r) \notin nullified}
Persistent(S)  == {r \in S : ~r.resource.isEphemeral}

Init == /\ resources = {}
        /\ nullified = {}
        /\ held = [t \in Tokens |-> 0]
        /\ wallet = Deposits
        /\ intents = {}

\* Whose signature a consumed resource asks for.
SignerOf(w) == IF w.resource.isEphemeral THEN w.forwarderInfo.account ELSE w.authPk

\* A holder signs the root of an action that it has checked.
Authorize(action) ==
  /\ Cardinality(intents) < MaxIntents
  /\ Verified(action) /\ Fresh(action)
  /\ \E w \in ToSet(action.consumed) :
       /\ SignerOf(w) \in AuthorityKeys \cup Accounts
       /\ intents' = intents \cup {[signer |-> SignerOf(w), tags |-> TagList(action)]}
  /\ UNCHANGED <<resources, nullified, held, wallet>>

Created(action) ==
  {[resource |-> w.resource, to |-> w.authPk, published |-> AppDataOf(w).resourcePayload] :
     w \in ToSet(action.created)}

\* Signatures cannot be forged.
Settle(action) ==
  /\ {w.authSig : w \in ToSet(action.consumed)} \subseteq Signatures \cup {None}
  /\ Verified(action) /\ Fresh(action) /\ Executes(action)
  /\ resources' = resources \cup Created(action)
  /\ nullified' = nullified \cup ToSet(NullifiersIn(action))
  /\ held' = HeldAfter(action)
  /\ wallet' = WalletAfter(action)
  /\ UNCHANGED intents

Bounded(action) == Cardinality(resources) + Len(action.created) <= MaxResources

Next == \E action \in Proposals(Unspent, Signatures) :
          Bounded(action) /\ (Authorize(action) \/ Settle(action))

Spec == Init /\ [][Next]_vars

-----------------------------------------------------------------------------
Wrapped(r, t) == r.resource.labelRef = LabelRef([forwarder |-> Forwarder, token |-> t])

Worth(S) == SumFunction([r \in S |-> r.resource.quantity])

(* The forwarder holds, of each token, exactly the quantities of the       *)
(* unspent persistent resources that stand for it: no order of wraps,      *)
(* transfers and unwraps leaves a resource without tokens, or tokens       *)
(* without a resource (ephemeral_resource_check).                          *)
Backed ==
  \A t \in Tokens : held[t] = Worth({r \in Persistent(Unspent) : Wrapped(r, t)})

(* A resource created for a key is spent only in an action that the key    *)
(* signed, though a signature is over a root and names no resource, and    *)
(* the resource holds but a hash of key and ciphertext run together        *)
(* (persistent_consume).                                                   *)
SpendsAuthorized ==
  [][\A r \in Persistent(resources) :
       r.to \in AuthorityKeys /\ NullifierOf(r) \in nullified' \ nullified =>
         \E i \in intents : i.signer = r.to /\ NullifierOf(r) \in ToSet(i.tags)]_vars

(* An account receives what the created ephemeral resources name it for,   *)
(* and no more; it gets less only when it pays, in an action it signed.    *)
PaidAsCommitted ==
  [][\A a \in Accounts, t \in Tokens :
       LET named == {r \in (resources' \ resources) \ Persistent(resources') :
                       Wrapped(r, t) /\ r.resource.valueRef = ValueRefFromAddress(a)}
           due   == wallet[a][t] + Worth(named)
       IN  /\ wallet'[a][t] <= due
           /\ wallet'[a][t] < due =>
                \E i \in intents : /\ i.signer = a
                                   /\ (nullified' \ nullified) \subseteq ToSet(i.tags)]_vars

\* What the holder of a key can put together from the published data.
SpendingWitness(r, key, root) ==
  [resource |-> r.resource, isConsumed |-> TRUE, actionRoot |-> root,
   nullifierKey |-> HolderKey, authPk |-> key, authSig |-> Signature(key, root),
   payload |-> r.published[1], discovery |-> None, label |-> None, forwarderInfo |-> None]

(* What persistent_create makes value_ref of, persistent_consume accepts   *)
(* with the ciphertext that was published and a signature by the valid key *)
(* the resource was created for.  That is the comparison of the logic; all *)
(* resources here have the common nullifier key, which persistent_create   *)
(* does not check.                                                         *)
CreatedIsSpendable ==
  \A r \in Persistent(Unspent) :
     r.to \in AuthorityKeys => Approves(SpendingWitness(r, r.to, ZeroRoot))
==============================================================================
