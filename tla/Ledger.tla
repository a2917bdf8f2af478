------------------------------- MODULE Ledger -------------------------------
(***************************************************************************)
(* The boundary to the Erlang node, arm_nif/src/verifier.rs, and the node  *)
(* behind it.  Processes of the node receive encoded transactions and call *)
(* the NIF concurrently, on dirty schedulers; the NIF keeps no state.  It  *)
(* is the verdict of VerifierContract, which Transaction implements, behind*)
(* a decoder.                                                              *)
(*                                                                         *)
(* The node is not part of the repository.  It does what the documentation *)
(* of the bindings asks of it (lib/arm_openvm/verifier.ex): one transaction*)
(* at a time it checks the nullifiers against those it has stored and the  *)
(* roots against the historic ones.  It never compares commitments.        *)
(***************************************************************************)
EXTENDS VerifierStatement, SequencesExt

CONSTANTS Workers,          \* processes of the node that call the NIF
          Submissions(_),   \* the encodings that may arrive after the
                            \* transactions applied so far
          MaxApplied        \* calls arrive while fewer are applied

VARIABLES worker,           \* what each process holds of its call
          nullifiers,       \* the stored nullifiers
          commitments,      \* the stored commitments, leaves of the tree
          roots,            \* the historic roots of that tree
          applied           \* the transactions applied, in order

vars == <<worker, nullifiers, commitments, roots, applied>>

-----------------------------------------------------------------------------
(* The bindings.                                                           *)

\* bincode reads a transaction, within the limit, and nothing is left over.
Decodes(bytes) == bytes.wellFormed /\ ~bytes.trailing

\* Fault: the deltas are not asked to cancel.
VerifiesUnbalanced(tx) ==
  tx.units # <<>> /\ \A k \in DOMAIN tx.units : Attested(tx.units[k])

Verifies(tx) == Deserving(tx)

\* The effects need no valid proof.  The order of the nullifiers is left out.
TransactionNullifiers(tx) ==
  UNION {{tx.units[k].consumed[j].nullifier : j \in DOMAIN tx.units[k].consumed} :
           k \in DOMAIN tx.units}

TransactionCommitments(tx) ==
  FlattenSeq([k \in DOMAIN tx.units |->
                [j \in DOMAIN tx.units[k].created |-> tx.units[k].created[j].commitment]])

TransactionRoots(tx) ==
  UNION {{tx.units[k].consumed[j].root : j \in DOMAIN tx.units[k].consumed} :
           k \in DOMAIN tx.units}

Idle == [at |-> "idle"]

Init == /\ worker = [p \in Workers |-> Idle]
        /\ nullifiers = {}
        /\ commitments = <<>>
        /\ roots = {}
        /\ applied = <<>>

\* An error or false, for which the process drops the bytes.
TurnDown(p, bytes) ==
  /\ worker[p] = Idle
  /\ ~Decodes(bytes) \/ ~Verifies(bytes.tx)
  /\ UNCHANGED vars

Take(p, bytes, call) ==
  /\ worker[p] = Idle
  /\ Decodes(bytes) /\ Verifies(bytes.tx)
  /\ worker' = [worker EXCEPT ![p] = [at |-> call, tx |-> bytes.tx]]
  /\ UNCHANGED <<nullifiers, commitments, roots, applied>>

\* One call decodes, verifies and returns the effects.
VerifyAndExtract(p, bytes) == Take(p, bytes, "extracted")

\* Or the answer is true, and further calls on the same bytes read the lists.
VerifyTransaction(p, bytes) == Take(p, bytes, "verified")

ReadLists(p) ==
  /\ worker[p].at = "verified"
  /\ worker' = [worker EXCEPT ![p].at = "extracted"]
  /\ UNCHANGED <<nullifiers, commitments, roots, applied>>

Answer(p, bytes) ==
  TurnDown(p, bytes) \/ VerifyAndExtract(p, bytes) \/ VerifyTransaction(p, bytes)

-----------------------------------------------------------------------------
(* The node.                                                               *)

\* Ephemeral resources have no root.
Fresh(tx) ==
  /\ TransactionNullifiers(tx) \cap nullifiers = {}
  /\ TransactionRoots(tx) \ {ZeroRoot} \subseteq roots

Apply(p) ==
  /\ worker[p].at = "extracted"
  /\ LET tx == worker[p].tx
     IN  /\ Fresh(tx)
         /\ nullifiers' = nullifiers \cup TransactionNullifiers(tx)
         /\ commitments' = commitments \o TransactionCommitments(tx)
         /\ roots' = IF commitments' = <<>> THEN roots ELSE roots \cup {TreeRoot(commitments')}
         /\ applied' = Append(applied, tx)
  /\ worker' = [worker EXCEPT ![p] = Idle]

Conflict(p) ==
  /\ worker[p].at = "extracted"
  /\ ~Fresh(worker[p].tx)
  /\ worker' = [worker EXCEPT ![p] = Idle]
  /\ UNCHANGED <<nullifiers, commitments, roots, applied>>

IdleWorkers == {p \in Workers : worker[p] = Idle}

Next ==
  \/ /\ IdleWorkers # {} /\ Len(applied) < MaxApplied
     /\ \E bytes \in Submissions(applied) : \E p \in IdleWorkers : Answer(p, bytes)
  \/ \E p \in Workers : ReadLists(p) \/ Apply(p) \/ Conflict(p)

Spec == Init /\ [][Next]_vars

-----------------------------------------------------------------------------
(* What is assumed of the encodings that arrive: lists are lists, a        *)
(* resource is not the five bytes of the empty leaf, a proof is valid only *)
(* if the guest accepted its witness, and quantities do not add up to the  *)
(* order of the group.                                                     *)
IsList(s) == s \in Seq({s[k] : k \in DOMAIN s})

IsResource(r) == r # EmptyLeaf /\ r.isEphemeral \in BOOLEAN

Sound(tx) ==
  /\ IsList(tx.units)
  /\ \A k \in DOMAIN tx.units :
       LET w == WitnessOf(tx.units[k])
       IN  /\ IsList(w.consumed) /\ IsList(w.created)
           /\ \A j \in DOMAIN w.consumed :
                IsList(w.consumed[j].path) /\ IsResource(w.consumed[j].resource)
           /\ \A j \in DOMAIN w.created : IsResource(w.created[j].resource)
           /\ tx.units[k].proof.valid => Acceptable(w) /\ HasNumbers(w)
  /\ (\A k \in DOMAIN tx.units : tx.units[k].proof.valid) => BelowOrder(tx)

GuestSoundness == \A bytes \in Submissions(applied) : Sound(bytes.tx)

-----------------------------------------------------------------------------
ConsumedBy(tx)   == FlattenSeq([k \in DOMAIN tx.units |-> WitnessOf(tx.units[k]).consumed])
CreatedBy(tx)    == FlattenSeq([k \in DOMAIN tx.units |-> WitnessOf(tx.units[k]).created])

\* The resources of all entries of all applied transactions, with repetition.
Resources(entriesOf(_)) ==
  FlattenSeq([n \in DOMAIN applied |->
                [k \in DOMAIN entriesOf(applied[n]) |-> entriesOf(applied[n])[k].resource]])

Consumed == Resources(ConsumedBy)
Created  == Resources(CreatedBy)

(* No resource is consumed twice, whoever verified at the same time: a     *)
(* resource has one nullifier, whatever key its spender claims (nullify),  *)
(* and of two verified transactions with one nullifier one is applied.     *)
ConsumedOnce ==
  \A m, n \in DOMAIN applied :
     \A j \in DOMAIN applied[m].units, k \in DOMAIN applied[n].units :
        LET s == WitnessOf(applied[m].units[j]).consumed
            t == WitnessOf(applied[n].units[k]).consumed
        IN  \A a \in DOMAIN s, b \in DOMAIN t :
               s[a].resource = t[b].resource => m = n /\ j = k /\ a = b

(* No commitment is stored twice, though the node never compares any: a    *)
(* nonce takes in the nullifiers of its action, which are all new, and     *)
(* there is at least one (ComplianceWitness::constrain).                   *)
CommitmentsUnique ==
  \A m, n \in DOMAIN applied :
     \A j \in DOMAIN applied[m].units, k \in DOMAIN applied[n].units :
        LET s == applied[m].units[j].created
            t == applied[n].units[k].created
        IN  \A a \in DOMAIN s, b \in DOMAIN t :
               s[a].commitment = t[b].commitment => m = n /\ j = k /\ a = b

(* A transaction that arrives again, by a retry or from a stranger, has no *)
(* effect a second time.                                                   *)
AppliedOnce ==
  \A m, n \in DOMAIN applied : applied[m] = applied[n] => m = n

(* Every persistent resource that was consumed had been created by a       *)
(* transaction applied before: a path that leads to a historic root leads  *)
(* from a stored commitment, and no path leads to the root that stands for *)
(* ephemeral resources.                                                    *)
ConsumedWereCreated ==
  \A n \in DOMAIN applied : \A k \in DOMAIN ConsumedBy(applied[n]) :
     LET resource == ConsumedBy(applied[n])[k].resource
     IN  ~resource.isEphemeral =>
           \E m \in 1..(n - 1) : \E j \in DOMAIN CreatedBy(applied[m]) :
              CreatedBy(applied[m])[j].resource = resource

Holdings(resources, kind, ephemeral) ==
  LET held == {r \in resources : KindOf(r) = kind /\ r.isEphemeral = ephemeral}
  IN  SumFunction([r \in held |-> r.quantity])

(* Nothing is made out of nothing: what is unspent of a kind is what came  *)
(* in by ephemeral resources less what went out by them.                   *)
Conserved ==
  \A kind \in Kinds :
     Holdings(ToSet(Created) \ ToSet(Consumed), kind, FALSE)
       = Holdings(ToSet(Consumed), kind, TRUE) - Holdings(ToSet(Created), kind, TRUE)

(* A verified transaction is turned down only because a resource it        *)
(* consumes is consumed already or was never created: nobody keeps others  *)
(* from spending what is theirs, and a path to an old root stays good.     *)
TurnedDownForCause ==
  [][\A p \in Workers :
       Conflict(p) =>
         \E k \in DOMAIN ConsumedBy(worker[p].tx) :
            LET resource == ConsumedBy(worker[p].tx)[k].resource
            IN  \/ resource \in ToSet(Consumed)
                \/ ~resource.isEphemeral /\ resource \notin ToSet(Created)]_vars

Ideal == INSTANCE IdealLedger WITH created <- ToSet(Created), consumed <- ToSet(Consumed)

(* Seen from those who hold resources, the bindings and the node are one   *)
(* ledger: each step of theirs is a transfer of it, all of a transaction   *)
(* at once, or nothing.                                                    *)
ImplementsIdeal == Ideal!Spec
=============================================================================
