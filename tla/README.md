# Anoma OpenVM resource machine: TLA+ models

These modules model what `arm-openvm` does of its own: the guest program that
proves one action (`ComplianceWitness::constrain`), the verifier of a whole
transaction (`Transaction::verify`), the signing and verifying of the delta proof,
the point of a kind, the resource logic of the ERC20 wrapper
(`TransferAuthWitness::constrain`), the bindings for an Erlang node with a node
behind them, the proof cache of the bench and the steps that bring keys and
commits up to date. TLC checks them on small instances and TLAPS proves theorems
about them for instances of every size. Paths below are relative to the root of
the repository; line numbers are those of the modelled commit.

## The system

| part | where | state it keeps | what it does |
| --- | --- | --- | --- |
| action tree | `arm_core/src/tree.rs` | the stored nodes, level by level | `compute_tree`, `root`, `prove_for`, `verify`, `compute_root` |
| hashing | `arm_core/src/hash.rs` | none | Keccak-256 of bytes, and of two digests |
| resources, keys | `arm_core/src/resource.rs`, `nullifier_key.rs`, `arm_traits/` | a resource: seven fields | `commit`, `nullify`, `kind` |
| compliance guest | `arm_core/src/witness.rs`, `arm_circuits/compliance` | the running delta, the instances so far | checks a witness, reveals the digest of a journal |
| transaction verifier | `arm_core/src/instance.rs`, `proving.rs` | the tags seen, the sum of the deltas | checks units, scans tags, adds deltas, checks the delta proof |
| delta proof | `arm_core/src/delta.rs` | a signature with a recovery id; the signing keys | signs and verifies that the deltas cancel but for a known key |
| transfer logic | `arm_core/src/transfer_auth.rs`, `evm.rs` | none | the resource logic of the ERC20 wrapper and its forwarder calldata |
| hash to curve | `arm_core/src/hash_to_curve.rs` | none | the point of a kind |
| NIF | `arm_nif/`, `lib/arm_openvm/verifier.ex` | none; the node has nullifiers, commitments and roots | decodes and verifies for an Elixir node, hands out tags and roots |
| VM commits | `arm_vm_commit/` | `LOGIC_VM_COMMIT`, `compliance.vk`, the key in the NIF | recomputes what the guest and the verifier embed |
| benches | `arm_circuits/src/bin` | the three files of the proof cache | prove and verify a fixture, with cached logic proofs |

How they interact. A prover runs every resource logic, then the guest with the
logic proofs deferred to it. The guest reads one witness; it folds over the
consumed resources (delta, nullifier, root, logic proof), stops if there was
none, loops over the created ones (delta, nonce, commitment, logic proof) and
reveals one digest. The prover publishes a *unit*: the instances of the action,
the coordinates of its delta and the proof. Units and a delta proof make a
transaction. The verifier rebuilds the journal of each unit from what it lists,
with the root of its tags and the canonical kind table, and compares digests.
Then it looks for duplicates among all tags, adds the deltas up to a public key
and recovers that key from the signature over all tags. A node calls the
verifier through the NIF and does the checks against its history itself.

Guest and verifier have no threads, callbacks or persistent state. What is hard
about them is that every guarantee is split among parts that trust each other:
the guest takes the action root and the kind table on trust, the verifier never
sees a resource, uniqueness of commitments needs a check of the guest and one of
the verifier, and the balance of quantities rests on points, on a canonical table
and on a signature. Around them there is concurrency and failure: processes of
the node verify at the same time and apply later, transactions arrive twice, runs
of the bench share files and may be stopped while they write one, keys and
constants go stale. `PROJECT.json` lists these hazards at their lines, with the
properties that cover them.

What makes each part correct:

* action tree: the root is that of the full tree, binds the list of tags, and
  the path of a leaf leads to it;
* guest: it ends, it accepts exactly the acceptable witnesses, it reveals the
  one journal they determine; created commitments differ; a logic proof serves
  one tag on one side;
* verifier: it ends, it accepts exactly the deserving transactions; nothing is
  spent or created twice; each kind is balanced in integers; each logic approved
  the action it appears in; the delta proof covers all tags and has one encoding;
* transfer logic: forwarder calls match the resources that are wrapped and
  unwrapped; a persistent resource moves only with its owner's signature;
* delta proof: in whatever order keys are composed, the proof they make passes
  exactly if the deltas balance;
* hash to curve: every message has a point, the one that simplified SWU defines;
  the constants are right;
* NIF and node: nothing is spent or created twice across transactions, whatever
  arrives again or at once; kinds are conserved over the history; a verified
  transaction is turned down only for a cause;
* proof cache: a file that does not decode is never due to a change of guest or
  fixture, a refused proof never to a run that was stopped, and a stopped run does
  harm in one place only;
* keys: the documented steps, in any order, end where honest proofs are accepted.

## The modules

| module | models | remarks |
| --- | --- | --- |
| `Hash` | `hash.rs` | a digest is the term of its preimage |
| `ActionTree` | `tree.rs` | pure operators, levels as functions |
| `MCActionTree` | | grows a list of tags; reference definition of the root |
| `Scalar` | the scalars of the curve | numbers below the order of the group |
| `Resource` | `resource.rs`, `nullifier_key.rs`, traits | points as functions from a basis to scalars |
| `Witness` | one entry of a witness, the journal | shared by guest, contracts and verifier |
| `GuestStatement` | what a compliance proof states | acceptable witnesses, their journal and their quantities, without an order of work |
| `Compliance` | `ComplianceWitness::constrain`, the guest's `main` | step machine |
| `GuestContract` | | abstract specification: one step |
| `Transaction` | `Transaction::verify` and what it calls | step machine |
| `VerifierStatement` | what an accepted transaction is | told about witnesses, without an order of work |
| `VerifierContract` | | abstract specification: one step |
| `Ledger` | `arm_nif/src/verifier.rs`, and an external node | composes the decoder, the verdict of `VerifierStatement` and a history |
| `IdealLedger` | | abstract specification: what `Ledger` is to those who hold resources |
| `DeltaProof` | `delta.rs`, the signer's side and the verifier's | ECDSA computed on a small curve |
| `HashToCurve` | `hash_to_curve.rs`, the algorithm | over small fields |
| `MapConstants`, `SecpField` | `hash_to_curve.rs`, the constants | over the field of secp256k1 |
| `TransferAuth` | `transfer_auth.rs`, `evm.rs` | what a witness must be for the guest not to abort, and the app data it then emits |
| `TokenEscrow` | actions under that logic, settled one by one | composes `TransferAuth` with a node and a forwarder, both external |
| `ProofCache` | `bench_compliance.rs` | runs that overlap, stop and find files of others |
| `KeyRegeneration` | `arm_vm_commit`, `proving.rs`, the embedded key | what depends on what, and the steps that mend it |
| `MCWitness`, `MCCompliance`, `MCTransaction`, `MCLedger`, `MCDeltaProof`, `MCHashToCurve`, `MCTokenEscrow`, `MCProofCache` | | the instances for TLC |
| `BasicProofs` | | induction over numbers and finite sets, powers of two, finite sums; lemmas about points, deltas, nonces, trees, paths |
| `ActionTreeProofs`, `ComplianceProofs`, `DeltaProofs`, `TransactionProofs`, `LedgerProofs`, `EscrowProofs`, `ProofCacheProofs` | | the theorems about one module each |

Three specifications are abstract. Two are parameterised by the statement they
decide: `GuestContract` decides in one step by `Acceptable`, `VerifierContract` by
`Deserving`; `Compliance` and `Transaction` implement them (`ImplementsContract` in
both: TLC checks all of it, its safety is a theorem). `Ledger` uses `Deserving` as the
verdict of the NIF, so the three fit together: what is shown of the loops is what
the node is given. The third one, `IdealLedger`, is what all of this amounts to. Its
state is two sets, the resources `created` and those `consumed`; a step transfers what
was not consumed yet, and was created before unless it is ephemeral, into as much of
each kind.
`Ledger` implements it (`ImplementsIdeal`, checked and proved), where `created` and
`consumed` are the resources of the history: nullifiers, commitments, roots, stale
verdicts and processes add nothing to it and take nothing away.

`Compliance`. `witness` is the guest's input, `consumed` and `created` its two
vectors, `delta` the running point, `phase` the loop it is in, `outcome` and
`revealed` how it ended. `Consume` and `Create` are one iteration each, of all
that the iteration calls; `ConsumePanics`, `CreatePanics`, `RejectNonce` and
`RejectNoNullifier` are the early exits, in the order of the code: the kind
point is looked up before the nonce is compared, the nonce before the logic proof
is verified. An `Err` and a panic both abort the guest, and then no proof
exists.

`Transaction`. `tx` is the input, `unit` and `entry` the position of the loops,
`seenNullifiers` and `seenCommitments` the two `BTreeSet`s, `total` the fold over
the deltas. `VerifyUnit` and `RejectUnit` are one call of
`ActionVerifierInput::verify`; `ScanNullifier`, `RejectNullifier`,
`ScanCommitment` and `RejectCommitment` one insertion; `AddDelta` and
`RejectDelta` decode and add one delta (the code decodes all before it adds, which
nothing observes); `Accept`, `RejectDeltaProof` and `PanicOnRecoveryByte` end the
run. The recovery byte is reduced modulo 256. A build with overflow checks panics
when it is below 27 and a build without them goes on, so both steps are possible.

`TransferAuth` and `TokenEscrow`. The logic keeps no state, so it is the predicate
`Approves` and the operator `AppDataOf`; every error and panic aborts the guest and
which of several comes first is left out. Concatenations are concatenations:
`label_ref` and `value_ref` hash two strings run together, and nothing marks where
the first one ends. `TokenEscrow` gives the logic something to be right about.
`Settle` is one transaction of one action: its guard is what `Transaction` and its
properties say of an accepted transaction (`Verified`: no tag twice, nonces, roots,
approving logics, balance), what the node checks (`Fresh`: new nullifiers,
persistent resources that exist) and what the forwarder checks (`Executes`: a call is
at an entry and at a place in its external payload, which is a slot; the hiding bytes are those of the compliance witness, as
`evm.rs:15` demands; a permit is for this root; balances suffice). It does all of
what follows: tags are stored, payloads published, calls executed. `Authorize` is
a holder who signs the root of an action, whether or not it settles later. Any
witness can be put forward, but signatures cannot be forged. All holders share one
nullifier key, so spending is up to the logic alone.

`Ledger`. `worker` is what each Erlang process holds of its call, the rest is the
node's. `TurnDown`, `VerifyAndExtract` and `VerifyTransaction` are calls of the
NIF, `ReadLists` the separate calls for nullifiers, commitments and roots that a
caller of `verify_transaction` makes afterwards. Between the call and `Apply` any
other process may apply, so the verdict is stale when it is used. `Apply` and
`Conflict` are the node, which is not in the repository: it does what
`lib/arm_openvm/verifier.ex` asks of its caller, no more; above all it never compares
commitments. Bytes arrive in any order and again.

`DeltaProof`. Each party turns its scalars into a key (`FromScalars`), keys are
composed in pairs or read from bytes (`Compose`, `FromBytesVec`), the key of all
signs (`Prove`) and the verifier gets the proof or another `s` or last byte
(`Verify`). A key of zero is no key; `SecretKey::new` notices in a debug build
only, so both steps are possible. Nonces are any; `s = 0` and an `x` above the order, which are as good as
impossible on the real curve, do occur here and take the code's error paths.

`HashToCurve`. One step maps an expanded message to its point, operation by
operation; the numbers that the code has as constants are fields of a small curve,
with the same properties. `MapConstants` asks whether the code's numbers have these
properties. Its loop is `pow_c1`, bit by bit, for three bases, and
`SecpField` has the 256-bit arithmetic.

`ProofCache`. `file` is the directory, `guest` and `fixture` what is on disk
otherwise. A run of `bench_compliance` looks at the three files one by one, reads
them or proves anew, writes them one by one (a file in the middle of a write does
not decode), then proves compliance with them and verifies. `Stop` ends a run at
any step, and `DeleteCache` may come between two: what is then written to a file that
is gone is lost, and the next file finds no directory (but for the baseline: the call
of the SDK that writes it may make the directory). Two runs that write one file may
leave either content, one that does not decode, or a `Mixture` that decodes and
proves nothing. A run that fails at a file or at the directory is `Unusable`, one
whose proofs decode and are turned down is `Refused`. `suspect` collects what has
happened since the cache was last deleted while nobody ran: the guest or the fixture
changed over a cache that was not clean, two runs overlapped, one was stopped in
(`cut`) the last write, or the cache was deleted under a run.

`KeyRegeneration`. A commit or key stands for the versions it is computed from.
`PrintLogicVmCommit`, `BuildGuest`, `StartPrinting` with `FinishPrinting`, and
`BuildNif` are the four steps of `arm_circuits/README.md`; `Edit` and
`FailPrinting` undo them.

Operators marked *Fault* are variants of a definition with a plausible bug. No
specification uses them; each shows that some property would notice the bug.

Abstractions:

* Keccak-256 is injective. Nothing separates the domains of two callers, as in
  the code, but a preimage keeps its blocks apart (for `transfer_auth.rs`, the chunks
  of which strings of different lengths are made, not the strings).
* A point is its coordinates in the basis of the generator and one point per
  kind, modulo `Order`: nobody knows a relation between these points.
* A STARK proof is whether it decodes, whether it is valid and what it
  reveals. `GuestSoundness` says that a valid proof comes from an acceptable
  witness; it is the one assumption about the proof system, and `Compliance`
  is checked against the same `GuestStatement`.
* A signature is the key that it recovers to for the right parity, whether its
  `s` is high, and the digest that was signed; `DeltaProof` computes it.
* `app_data`, logic references, labels and values are opaque. `quantity` is a
  natural number, far below `Order` in sums, as 128 bits are below 256.

## The runs

| run | configuration | states | what it shows |
| --- | --- | --- | --- |
| `tree` | `MCActionTree.cfg` | 682 | the root is that of the padded tree; roots bind tags; siblings lead to the root |
| `tree_proof` | `MCActionTreeProof.cfg` | violation | `prove_for` and `verify` disagree about `is_left` |
| `compliance` | `MCCompliance.cfg` | 10094 | the guest implements its contract; commitments differ; logic proofs serve once |
| `compliance_nonce` | `MCComplianceNonce.cfg` | violation | the order of the nonce's preimage is not the commented one |
| `transaction` | `MCTransaction.cfg` | 8311 | the verifier implements its contract and its guarantees hold; the scan suffices by itself when nonces repeat |
| `ledger` | `MCLedger.cfg` | 11913 | across transactions nothing is spent or stored twice, kinds are conserved, conflicts have a cause; it implements the ideal ledger |
| `delta_proof` | `MCDeltaProof.cfg` | 75726 | keys add up in any order; a proof means balance; it has one encoding |
| `hash_to_curve` | `MCHashToCurve.cfg` | 22815 | every message has a point and it is the right one; the constants fit |
| `map_constants_c2` | `MapConstantsC2.cfg` | violation | `c2` is not the root that its comment says |
| `escrow` | `MCTokenEscrow.cfg` | 3291 | tokens in the forwarder equal the unspent resources; owners sign what they spend; accounts get what was committed to; the value reference that is made is the one that is asked for |
| `proof_cache` | `MCProofCache.cfg` | 776077 | a run finds unusable files only after overlap, cut or deletion, and its proofs are refused only after change or overlap |
| `key_regeneration` | `KeyRegeneration.cfg` | 18134 | after edits and failed runs, honest proofs are accepted in the end |

Bounds, and why they suffice.

* `MaxLeaves = 5` tags out of four (of two resources), a nullifier first, as the guest
  demands at least one (a list of two commitments could have the root of a single nullifier whose key is
  the second of them): depths 0 to 3, odd levels at two heights, one
  level that is mostly default nodes, equal tags in a list.
* The guest: two kinds, three coins (one ephemeral, two of a kind), up to two
  consumed and two created entries with at most one mistake among them (a wrong
  key, a wrong proof, a wrong nonce, the nonce of another index), and four kind
  tables (none, the true point, a point of another kind, coordinates of no point).
  Loops reach their second iteration on both sides, and each early exit is taken
  at the first and at the second.
* The verifier: no unit, one unit of any honest or strange witness, all pairs of
  eight witnesses (balanced alone, balanced only together, unbalanced, spending
  the same coin, with a kind table of the prover), and pairs with one unit altered
  after proving in nine ways. Each list comes with eight delta proofs: the right
  one, one that does not parse, the malleated twin, a wrong parity, recovery bytes
  below and above the range, another key, a signature over the nullifiers only.
* `Order = 11` is above every sum of quantities and blinding scalars in the
  instance. `IndexModulus` is 4, above the number of created resources. In
  `transaction` it is 2, and one witness creates three resources, so that the index
  wraps. No 32-bit guest creates 2^32 resources, so this does not happen; the small
  modulus shows that the scan of the verifier keeps commitments apart by itself, where
  nonces do not.
* The ledger: two processes, interchangeable (symmetry), and `MaxApplied = 3`, so a
  coin can come in, be split or passed on, and be spent by two processes at once or
  paid out. Beside honest transactions there are such as spend what is spent, what
  never was, with another key, in another kind, or nothing at all, some with two
  actions, earlier ones again, and bytes that do not decode.
* The delta proof: the curve of order 31 over the field of 43 elements, where some
  `x` exceed the order; three parties with scalars that may cancel alone, in pairs
  or together; every nonce; every `s`, and the last bytes at the edges of what is accepted.
* The map: fields of 67 and 79 elements with all pairs of inputs, the exceptional
  ones among them. Of the constants, polynomials of degree 15 are compared at 16
  points, and the exponent is used with all its 256 bits.
* The cache: two runs, one change of the guest and one of the fixture
  (`MaxVersion = 1`), stops at every step, any number of runs in a row; two at a time
  are enough for one to read or write what the other is writing. Every cause that the
  two properties name is needed: without any one of them TLC finds a failure.
* The keys: `MaxMishaps = 4` edits and failed runs, which suffice to have constant,
  guest, key file, running print and NIF all of different versions.
* The escrow: two tokens, two accounts, two keys, a mint of two of the first token
  and one of the second; actions that wrap one resource or spend one or two (the
  same twice included) and pay out, move or split; each honest, with one witness
  that lies about one field, or with any other known signature. `MaxResources = 4`
  and `MaxIntents = 3` allow a wrap, a split and a payout in a row, or a wrap to two
  keys and a spend that both sign.

Guest, verifier and the other machines with an answer stop when they have it,
ledger and escrow at their bounds, so deadlock is not checked there.

Fairness. Guest and verifier are sequential loops over finite vectors without any
wait, so `WF_vars(Next)` says that the processor goes on. The refinements use
it: the abstract `Decide` happens eventually, so guest and verifier always answer.
In `KeyRegeneration` the steps of `arm_circuits/README.md` are weakly fair, one by
one: maintainers do what it asks for as long as it is due, in any order.
`FailPrinting` and `Edit` are not fair and are bounded, so mishaps end. No other
specification has liveness: a node may leave a transaction unapplied, and nothing
in the code retries.

## Findings

* `tree.rs:107`: `prove_for` records whether the *node on the path* is a left
  child, `compute_root` (`tree.rs:129`) reads whether the *sibling* is. A path
  computed by `prove_for` does not verify. `SiblingsLeadToRoot` shows that the
  siblings are right and only the flag is inverted.
* `witness.rs:185` describes the nonce as `[index] ++ nullifier array`; the code
  hashes the nullifiers first and the index last.
* `hash_to_curve.rs:67`: `c2` is a square root of `-Z^3`, which line 117 needs; the
  comment at line 65 says `-Z`. The constant is right and the comment is wrong.

No run is about this remark: the message at `error.rs:21` says that a nullifier
appears in more than one action; the error is also returned when one action lists
a nullifier twice.

## What is proved

The proofs assume what the modules state as named assumptions: the types of the
inputs, `Order > 1`, `IndexModulus > 0`, that no encoded key is the start of
another (`KeysAssumption`) and no address either, all having 20 bytes (`AddressesAssumption`), that resources are not the word `"EMPTY"`, and, for the verifier and the
ledger, `GuestSoundness`. Where quantities are added, two more are needed:
quantities and blinding scalars are numbers (`HasNumbers`; they are read from 16 and
32 bytes), and the quantities of a kind in one transaction stay below the order
(`BelowOrder`; a sum of 128-bit numbers reaches 2^256 with 2^128 of them). Balance is
thus said of sums that do not reach the order, and of no others. The
verifier states them as `NumbersAssumption` and `QuantitiesAssumption`, the ledger in
`Sound`, only of what holds a valid proof. Where what may arrive depends on the
state, an assumption is a hypothesis of the theorem, under `[]`. Nothing bounds the
number of units, entries, kinds, leaves, processes or runs.

### Induction and the shared lemmas

`BasicProofs` has induction for a set of numbers (`Induction`) and for a set of
finite sets (`SetInduction`), from the existence of minimal elements, so that no
lemma has an operator for a parameter. From it come powers of two, and sums: a fold
over a finite set, as the community modules define it, chooses a function that
satisfies an equation; one lemma shows that such a function exists, and all else
(adding an element, disjoint unions, equal summands, reindexing) uses the equation
alone. It does the same for the recursive functions of the models: the
running delta, levels of a tree, folds of a path. `Cong` is congruence modulo
`Order`, by which a delta's coordinate becomes a difference of two quantities.

`ActionTreeProofs`. `RootsArePerfect`: a stored level is the full level without the
nodes over padding alone, since these are the default node of their height; by
induction over the height. `RootsBindTags`: a root determines the depth (the first
leaf is a nullifier, which hashes a commitment first, and neither a nullifier nor a
parent is a commitment; so a first leaf is no parent) and then, level by level, the
list.
`PathsLeadToRoot`: after `h` steps the fold is the node above the leaf at height
`h`, with the default node where there is no sibling.

### The delta proof

`DeltaProofs` holds for every group of prime order and every curve over it, any number
of provers, any lists of scalars, any nonce and hash. What the module assumes of the
curve is `FieldAssumption` (scalars other than zero have inverses) and
`CurveAssumption` (a point and its negative, and no others, share an x, and differ in the
parity of y); TLC evaluates both for the curve of the run. Then

* `KeysAddUpAlways`: the witnesses in the pool belong to disjoint sets of provers, each
  of which is not empty, and each key is the sum of its provers' scalars (`PoolOK`). The
  disjointness is what makes it inductive: without it a composition would count a
  prover twice. `from_bytes_vec` reads the keys from a list, in any order, so a sum over
  a list is one over the provers of all its entries;
* `ProofBalances`: what was made is the signature of the whole blinding (`MadeOK`), what
  was given comes from what was made, and the verdict is on that (`GivenOK`). The point
  recovered from a signature is that of the key that made it, also if `s` was negated,
  since then the parity in the recovery id is that of the negative; and it is the sum of
  the deltas only if the excess is zero;
* `EncodingIsUnique`: one `r` has two points, opposite ones; with either, an `s` recovers
  the sum only if it is the signer's or its negative, of which the high one is refused;
  and of the last bytes two have a recovery id below 2, of which one fits the point.

### The guest and the verifier

`ComplianceProofs`. The invariant says that `consumed` and `created` are the
instances of a prefix of the witness, that every entry in the prefix passed its
checks, and that the nonce of each created entry is the hash of all nullifiers
and its own index. The types alone are not inductive, since `delta` stays a
point only because the entries hold. From it follow `TypeCorrect`,
`CommitmentsDistinct` (equal commitments are of equal resources, so of equal
nonces, so of equal indices) and `LogicProofsServeOnce`. `CommitmentsDistinct` assumes
`NarrowWitnesses`: no action creates more resources than an index has values.
`VInv` adds what the guest needs in order to be right when it stops: a kind looked
up is in the table, creation begins only after all consumed entries passed, and
`delta` is the sum over the entries done. `VerdictIsRight` says that `Ok` is answered
on acceptable witnesses only, with the journal they determine, its delta included,
and that an abort needs a witness that is not acceptable. That is what
`GuestSoundness` asks of the guest. `GuestKeepsContract` puts it as a refinement: every
step is the `Decide` of `GuestContract` or leaves its variables alone.

`TransactionProofs`. The properties speak of the end, the checks happen before, so
the invariant `IInv` describes the work done so far: the units before the cursor
are verified (`Verified`), the sets hold exactly the tags before the cursor and
these differ (`NullifiersScanned`, `CommitmentsScanned`), and after the last tag
all tags differ (`ScanPassed`). It gives

* `TypeCorrect`, `SpendsOnce`, `CreatesOnce`;
* `CommitmentsNeverClash`: a clash without a wrapped index would need equal nonces,
  thus equal nullifier lists, which are not empty and of which the scan has already
  seen the first; so it is the same unit, and the same index;
* `LogicsApproved`: a verified unit has the digest of the journal of an acceptable
  witness, so the root the guest took on trust is the root of the unit's tags;
* `DeltaProofSignsTags` and `DeltaProofUnique`, with `DeltaInv`: at the answer `Ok` the
  delta proof holds for the message of all tags. Of the encodings of one signature
  a high `s` is refused, and 27 and the parity leave one last byte;
* `AcceptedIsBalanced`, with `total` as the sum of the deltas of the units done: under
  the canonical table the coordinate of a kind is, modulo the order, what a unit
  creates less what it consumes of it; the key that signed has no part in a kind, so
  the sum over all units is congruent to zero; created and consumed each stay
  below the order, so they are equal as numbers;
* `VerifierKeepsContract`: every step decides as `VerifierContract` does or leaves its
  variables alone. Where the loops stop with a cause, the transaction does not
  deserve acceptance (a duplicate in the scan is a duplicate in the lists, an
  altered unit has no digest of its journal), and where they reach the end, it does.

### Across transactions

`LedgerProofs`. `IInv` says that every transaction in a worker or in the history is
trusted (verified, and from acceptable witnesses), that the nullifiers of the
history are stored and that no two of its transactions share one
(`NullifiersStored`, `NullifiersDisjoint`), that stored commitments are of created
resources (`CommitmentsKnown`) and that every historic root is that of the tree as it
once was (`RootsHistoric`). Only `Apply` can break it, and it checks against what is
stored at that moment, however old the verdict. The hypothesis is
`[]GuestSoundness`. Then

* `LedgerConsumedOnce` (a resource has one nullifier), `LedgerAppliedOnce` (a verified
  transaction has a nullifier) and `LedgerCommitmentsUnique` (a commitment hashes its
  resource, thus its nonce, thus all nullifiers of the action and the index);
* `LedgerConsumedWereCreated`: a path whose fold is a historic root begins at a leaf of
  the tree of that time, by induction over the path, since a commitment is not the
  hash of two digests; so the resource is one that was created. It needs
  `ZeroRootIsNoDigest`: nothing hashes to the zeros that stand for no tree;
* `LedgerTurnedDownForCause`: a path taken from the tree stays good, as old roots are
  never dropped (`PathsStayGood`). Hence a conflict has a cause in the nullifiers or in a
  resource that is not there. The hypotheses say that spenders take paths of
  created resources from the tree (`PathsFromTree`), and which resources are never
  created (`NeverCreated`);
* `LedgerConserved`: one transaction keeps created and consumed of a kind equal
  (`TransactionEven`, as in the verifier), and so does the history (`Even`); resources
  of two entries differ, so sums over lists are sums over sets; what is consumed of
  the persistent ones was created; the rest is arithmetic;
* `LedgerImplementsIdeal`: the lists of the history name, as sets, what its transactions
  used and made (`Listed`). Applying a transaction adds its resources, of which none was
  there (`ApplyAdds`), so the transfer of the ideal ledger is that of the transaction:
  it uses something, what it uses and is persistent was made before
  (`SpendableWasMade`), and it is even. All other steps leave both sets alone.

`EscrowProofs`. `IInv` says that a persistent resource hashes the key it was created
for together with the ciphertext that was published (`Bound`), which is what
`persistent_create` has checked, and that what holders sign is the root of a list of
tags. `CreateMatchesConsume` follows, since that is what `persistent_consume` compares
with. It is about this comparison alone: the nullifier key is the common one, which
`persistent_create` does not check, so a creator who names another key makes a resource
that its holder may be unable to nullify. `OwnersSign`: a nullifier determines its resource; two ways to cut one string
into a key and a ciphertext have the same key, since no key starts another
(`KeyDetermined`); so the signature is by the owner, on the root of this action, and
the root determines the tags (the lemma behind `RootsBindTags`).

The accounts need more, `Accounted`. `Recorded` says that resources are finitely many
and differ, that the nonce of each is made from a nullifier that is stored
(`HasNonce`), and that what is nullified was there or is ephemeral. So a created
resource is new, since its nonce is made from a nullifier of its own action, which is
not stored yet (`CreatedAreNew`); it is not nullified before it exists
(`CreatedAreUnspent`); and a persistent resource that is consumed is one of the unspent,
under the common key (`ConsumedAreUnspent`). For `ForwarderBacks` an action is counted
in three ways, entry by entry: the calls move what the ephemeral entries hold
(`WrapsMove`, `UnwrapsMove`; the forwarder and the token in a call are those of the label,
`LabelDetermined`), the unspent resources lose and gain what the persistent entries hold
(`SpentWorth`, `MadeWorth`), and all entries of a token balance (`TokenBalance`); so both
sides change by as much (`HeldChange`). For `AccountsGetTheirs` the calls that pay an
account are those of the created resources that name it (`ReceivedIs`, `NamedWorth`), and
a call that takes from it has a permit for this root (`PayerSigned`).

The hypothesis is `[]ProperProposals`: entries are on the side they say, creators name the
common nullifier key, quantities are numbers, and all resources have the logic of the
wrapper, of which the module is the model. All that `MCTokenEscrow` proposes is so.

### The proof cache

`ProofCacheProofs`. The invariant has a part for each group of causes that are absent.
Without overlap, one run at most is at work, and the file it writes does not decode yet
(`Peaceful`); so what it leaves is its own, or nothing where the file was deleted
(`WriteAlone`). Without overlap or change, every run and every file that decodes is of
the present guest and fixture (`Fresh`), wherever runs were stopped: what they prove is
accepted (`CacheRefusedOnlyIfStaleOrMixed`). Without overlap, cut or deletion, the
baseline is there only if every file decodes, and a run that writes has left those
before the one it is at complete (`Whole`), of whatever versions they are; so a run that
has found all three reads all three (`CacheUnusableOnlyIfDisturbed`).

### Only model-checked

* `HashToCurve` and `MapConstants`. That the map stays on the curve is an identity of
  polynomials of high degree over a field, with a square root by exponentiation, and
  that the isogeny merges only opposite points is a count of its kernel; neither is
  within reach of the provers' arithmetic. That the constants fit is a computation
  with given numbers, which TLC does in full;
* liveness, which the prover does not reach: `ImplementsContract` as far as it says that
  there is an answer, and `Recovers`.

## What is not modelled

* The proving system and its circuits: a proof is whether it decodes, whether it is
  valid and what it reveals. `GuestSoundness` is what is assumed of it.
* The computation of commits and keys from configurations. `COMPLIANCE_VM_COMMIT`,
  which nothing reads, is left out.
* The bytes of ABI and bincode encodings, which are injective in the models, the
  conversion of app data to Erlang terms, texts of errors.
* `trivial_logic`, which checks nothing, `bench_trivial.rs`, which is one call of the
  prover with a timer, and `arm_circuits/src/lib.rs`, a placeholder.
* Which of several failing checks of the transfer logic comes first: each of them
  aborts the guest.
* What lies outside the repository and is taken as done: the forwarder's comparison
  of `logicHidingBytes`, a client's conversion of scalars between byte orders, and that
  the trace depth has the same value in the four places where it is written.

## What could follow

1. The ledger under the escrow, in place of `Fresh`, with one history for both.
2. The group law of `HashToCurve` as a theorem over any field, for which identities of
   polynomials would have to be proved step by step.
