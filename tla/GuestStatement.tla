--------------------------- MODULE GuestStatement ---------------------------
(***************************************************************************)
(* The statement a compliance proof proves: when a witness is acceptable,  *)
(* and the one journal it then determines.  Nothing here depends on the    *)
(* order in which the guest works.                                         *)
(***************************************************************************)
EXTENDS Witness, Functions

NullifiersOf(w)     == [k \in DOMAIN w.consumed |-> Nullifier(w.consumed[k])]
CommitmentsOf(w)    == [k \in DOMAIN w.created |-> Commit(w.created[k].resource)]
ConsumedOf(w)       == [k \in DOMAIN w.consumed |-> ConsumedInstance(w.consumed[k])]
CreatedOf(w)        == [k \in DOMAIN w.created |-> CreatedInstance(w.created[k])]

\* Sum over a list of entries of their share in one basis point.
Total(kindTable, entries, b) ==
  SumFunction([k \in DOMAIN entries |-> ToDelta(kindTable, entries[k])[b]])

\* What is created minus what is consumed.
NetDelta(w) ==
  [b \in Basis |-> (Total(w.kindTable, w.created, b)
                      - Total(w.kindTable, w.consumed, b)) % Order]

\* What a list of entries has of a kind.
Quantity(entries, kind) ==
  SumFunction([k \in DOMAIN entries |-> IF KindOf(entries[k].resource) = kind
                                        THEN entries[k].resource.quantity ELSE 0])

\* Quantities are u128 and blinding scalars 32 bytes, of which the guest reads
\* numbers.
AreNumbers(entries) ==
  \A k \in DOMAIN entries : /\ entries[k].resource.quantity \in Nat
                            /\ entries[k].deltaExtraInput \in Nat

HasNumbers(w) == AreNumbers(w.consumed) /\ AreNumbers(w.created)

JournalOf(w) == Journal(ConsumedOf(w), CreatedOf(w), NetDelta(w),
                        HashKindTable(w.kindTable), w.actionRoot)

\* What a run of the guest on an acceptable witness reveals.
DigestOf(w) == JournalDigest(JournalOf(w))

EntriesHold(w) ==
  /\ \A k \in DOMAIN w.consumed : /\ KindFound(w.kindTable, w.consumed[k])
                                  /\ ConsumedHolds(w.consumed[k], w.actionRoot)
  /\ \A k \in DOMAIN w.created : /\ KindFound(w.kindTable, w.created[k])
                                 /\ CreatedHolds(w.created[k], w.actionRoot)

NoncesHold(w) ==
  \A k \in DOMAIN w.created :
     w.created[k].resource.nonce = CreatedNonce(NullifiersOf(w), k - 1)

\* Fault: an action may consume nothing.
AcceptableConsumingNothing(w) == EntriesHold(w) /\ NoncesHold(w)

Acceptable(w) == NullifiersOf(w) # <<>> /\ EntriesHold(w) /\ NoncesHold(w)
=============================================================================
