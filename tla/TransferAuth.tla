---------------------------- MODULE TransferAuth ----------------------------
(***************************************************************************)
(* The resource logic of the ERC20 wrapper, TransferAuthWitness::constrain *)
(* of arm_core/src/transfer_auth.rs, with the calldata of evm.rs.          *)
(*                                                                         *)
(* A witness approves its resource or the guest aborts: its main unwraps   *)
(* the result, so an Err is a panic.  An absent field is None.  A string   *)
(* of bytes is a sequence of chunks: an address or a key is one chunk, and *)
(* a string that is not in Addresses or AuthorityKeys fails to decode.     *)
(***************************************************************************)
EXTENDS Witness

CONSTANTS None,           \* an absent optional field
          Addresses,      \* the strings of 20 bytes
          AuthorityKeys   \* the strings that decode to a public key

IsString(x) == x \in Seq({x[k] : k \in DOMAIN x})

\* All addresses have 20 bytes: none starts another.
ASSUME AddressesAssumption ==
  /\ \A a \in Addresses : IsString(a)
  /\ \A a, b \in Addresses : (\A k \in DOMAIN a \cap DOMAIN b : a[k] = b[k]) => a = b

\* The first byte of a key tells how many follow: no key starts another.
ASSUME KeysAssumption ==
  /\ None \notin AuthorityKeys
  /\ \A key \in AuthorityKeys : IsString(key)
  /\ \A k, l \in AuthorityKeys : (\A b \in DOMAIN k \cap DOMAIN l : k[b] = l[b]) => k = l

-----------------------------------------------------------------------------
\* What a resource is bound to.  Nothing marks where the first string ends.
LabelRef(label)                 == Keccak(label.forwarder \o label.token)
PersistentValueRef(pk, payload) == Keccak(pk \o payload)
ValueRefFromAddress(address)    == [address |-> address]

Signature(key, message) == [key |-> key, message |-> message]

TagOf(w) == IF w.isConsumed THEN ComputeNullifier(w.resource, w.nullifierKey)
                            ELSE Commit(w.resource)

\* A created resource needs no key.
HasTag(w) == w.isConsumed => /\ w.nullifierKey # None
                             /\ KeyMatches(w.resource, w.nullifierKey)

\* Fault: the label is there, and that is all.
LabelIsThere(w) == w.label # None

LabelMatches(w) == w.label # None /\ w.resource.labelRef = LabelRef(w.label)

-----------------------------------------------------------------------------
(* Ephemeral resources: tokens go in when one is consumed, and out when    *)
(* one is created.                                                         *)

\* Fault: the receiver is not compared with the resource.
UnwrapApprovesAnyReceiver(w) ==
  /\ w.forwarderInfo.callType = "Unwrap"
  /\ w.label.token \in Addresses /\ w.forwarderInfo.account \in Addresses

WrapApproves(w) ==
  /\ w.forwarderInfo.callType = "Wrap"
  /\ w.forwarderInfo.permit # None /\ w.forwarderInfo.permit.wellFormed
  /\ w.label.token \in Addresses /\ w.forwarderInfo.account \in Addresses

UnwrapApproves(w) ==
  /\ w.forwarderInfo.callType = "Unwrap"
  /\ w.resource.valueRef = ValueRefFromAddress(w.forwarderInfo.account)
  /\ w.label.token \in Addresses /\ w.forwarderInfo.account \in Addresses

EphemeralApproves(w) ==
  /\ w.forwarderInfo # None
  /\ LabelMatches(w)
  /\ IF w.isConsumed THEN WrapApproves(w) ELSE UnwrapApproves(w)
  /\ w.label.forwarder \in Addresses

\* The call goes out as the guest encodes it, whatever the forwarder thinks.
Input(w) ==
  IF w.isConsumed
  THEN [call |-> "Wrap", token |-> w.label.token, quantity |-> w.resource.quantity,
        owner |-> w.forwarderInfo.account, root |-> w.actionRoot,
        permit |-> w.forwarderInfo.permit.signature]
  ELSE [call |-> "Unwrap", token |-> w.label.token, quantity |-> w.resource.quantity,
        receiver |-> w.forwarderInfo.account]

Calldata(w) == [forwarder |-> w.label.forwarder, hiding |-> w.forwarderInfo.hiding,
                input |-> Input(w)]

-----------------------------------------------------------------------------
(* Persistent resources.                                                   *)

ValueBound(w) == w.resource.valueRef = PersistentValueRef(w.authPk, w.payload)

\* Faults: the resource is not compared with the key and the payload.
ConsumeApprovesAnyKey(w) ==
  /\ w.authPk # None /\ w.authSig # None /\ w.payload # None
  /\ w.authPk \in AuthorityKeys
  /\ w.authSig = Signature(w.authPk, w.actionRoot)

CreateApprovesAnyValue(w) ==
  /\ w.authPk # None /\ w.payload # None
  /\ LabelMatches(w)

PersistentConsumeApproves(w) ==
  /\ w.authPk # None /\ w.authSig # None /\ w.payload # None
  /\ ValueBound(w)
  /\ w.authPk \in AuthorityKeys
  /\ w.authSig = Signature(w.authPk, w.actionRoot)

PersistentCreateApproves(w) ==
  /\ w.authPk # None /\ w.payload # None
  /\ LabelMatches(w)
  /\ ValueBound(w)

-----------------------------------------------------------------------------
Approves(w) ==
  /\ HasTag(w)
  /\ IF w.resource.isEphemeral THEN EphemeralApproves(w)
     ELSE IF w.isConsumed THEN PersistentConsumeApproves(w)
     ELSE PersistentCreateApproves(w)

NoAppData == [resourcePayload |-> <<>>, externalPayload |-> <<>>, discoveryPayload |-> <<>>]

AppDataOf(w) ==
  IF w.resource.isEphemeral
  THEN [NoAppData EXCEPT !.externalPayload = <<Calldata(w)>>]
  ELSE IF w.isConsumed THEN NoAppData
  ELSE [NoAppData EXCEPT !.resourcePayload  = <<w.payload>>,
                         !.discoveryPayload = <<IF w.discovery = None THEN <<>>
                                                                      ELSE w.discovery>>]
=============================================================================
