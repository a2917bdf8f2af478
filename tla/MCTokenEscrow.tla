---------------------------- MODULE MCTokenEscrow ----------------------------
(***************************************************************************)
(* Two tokens, two accounts, two keys.  Anybody may put together an action *)
(* that wraps one resource or spends one or two, honest, with one witness  *)
(* that lies about one thing, or with a signature from somewhere else.     *)
(***************************************************************************)
EXTENDS TokenEscrow, SequencesExt

CONSTANTS logic, f, otherF, t1, t2, alice, bob, keyA, keyB, nk,
          hiding, otherHiding, seed, p1, p2, d

\* Strings of one chunk.
MCAddresses == {<<f>>, <<otherF>>, <<t1>>, <<t2>>, <<alice>>, <<bob>>}
MCKeys      == {<<keyA>>, <<keyB>>}
MCForwarder == <<f>>
MCTokens    == {<<t1>>, <<t2>>}
MCAccounts  == {<<alice>>, <<bob>>}
MCDeposits  == [a \in MCAccounts |-> [t \in MCTokens |-> IF a = <<alice>> THEN 2 ELSE 1]]

Label(fw, t) == [forwarder |-> fw, token |-> t]
Labels       == {Label(<<f>>, t) : t \in MCTokens}
LabelOf(resource) == CHOOSE l \in Labels : LabelRef(l) = resource.labelRef

MakeResource(label, value, quantity, nonce, ephemeral) ==
  [logicRef |-> logic, labelRef |-> LabelRef(label), valueRef |-> value,
   quantity |-> quantity, nonce |-> nonce, nkCommitment |-> NkCommit(nk),
   isEphemeral |-> ephemeral]

\* What a wrap consumes.
Mints == {MakeResource(Label(<<f>>, <<t1>>), None, 2, seed, TRUE),
          MakeResource(Label(<<f>>, <<t2>>), None, 1, seed, TRUE)}

\* To a key or to an address; each goes with a quantity.
ToKey(key, quantity)    == [value |-> PersistentValueRef(key, <<p1>>), to |-> key,
                            ephemeral |-> FALSE, quantity |-> quantity]
ToAccount(a, quantity)  == [value |-> ValueRefFromAddress(a), to |-> a,
                            ephemeral |-> TRUE, quantity |-> quantity]

\* Paid out, moved to a key, split between two keys or a key and an account.
Plans(total) ==
  {<<ToAccount(<<bob>>, total)>>}
  \cup (IF total = 1 THEN {<<ToKey(<<keyA>>, 1)>>} ELSE {})
  \cup (IF total = 2 THEN {<<ToKey(<<keyA>>, 1), ToKey(<<keyB>>, 1)>>,
                           <<ToKey(<<keyB>>, 1), ToAccount(<<alice>>, 1)>>} ELSE {})

\* Honest witnesses but for the action root and the signatures over it.
Consume(r) ==
  [resource |-> r, isConsumed |-> TRUE, nullifierKey |-> nk,
   authPk |-> None, payload |-> <<p1>>, discovery |-> None, label |-> LabelOf(r),
   forwarderInfo |-> [callType |-> "Wrap", hiding |-> hiding, account |-> <<alice>>]]

ConsumeAs(r, key) == [Consume(r) EXCEPT !.authPk = key]

Create(r, to) ==
  [resource |-> r, isConsumed |-> FALSE, nullifierKey |-> None,
   authPk |-> to, payload |-> <<p1>>, discovery |-> <<d>>, label |-> LabelOf(r),
   forwarderInfo |-> [callType |-> "Unwrap", hiding |-> hiding, account |-> to]]

\* One lie each.
LiesOfConsumed(w) ==
  IF w.resource.isEphemeral
  THEN {[w EXCEPT !.forwarderInfo.account = <<bob>>],
        [w EXCEPT !.forwarderInfo.callType = "Unwrap"],
        [w EXCEPT !.label = Label(<<f>>, <<t2>>)],
        [w EXCEPT !.label = Label(<<>>, w.label.forwarder \o w.label.token)],
        [w EXCEPT !.forwarderInfo.hiding = otherHiding]}
  ELSE {[w EXCEPT !.authPk = <<keyA>>], [w EXCEPT !.authPk = <<keyB>>], [w EXCEPT !.payload = <<p2>>]}

LiesOfCreated(w) ==
  IF w.resource.isEphemeral
  THEN {[w EXCEPT !.forwarderInfo.account = IF @ = <<bob>> THEN <<alice>> ELSE <<bob>>],
        [w EXCEPT !.forwarderInfo.callType = "Wrap"],
        [w EXCEPT !.label = Label(<<otherF>>, <<t1>>)]}
  ELSE {[w EXCEPT !.payload = <<p2>>], [w EXCEPT !.label = None],
        [w EXCEPT !.authPk = <<>>, !.payload = w.authPk \o w.payload]}

-----------------------------------------------------------------------------
\* The created witnesses of a plan, which take after the first resource.
CreatedFor(inputs, plan) ==
  LET first      == inputs[1].resource
      nullifiers == [k \in DOMAIN inputs |-> ComputeNullifier(inputs[k].resource, nk)]
  IN  [k \in DOMAIN plan |->
         Create([first EXCEPT !.valueRef = plan[k].value, !.quantity = plan[k].quantity,
                              !.nonce = CreatedNonce(nullifiers, k - 1),
                              !.isEphemeral = plan[k].ephemeral],
                plan[k].to)]

\* The signatures that a consumed witness carries: a permit, or the
\* authority's, for this action or for some other.
Signed(w, root, signature) ==
  IF w.resource.isEphemeral
  THEN [resource |-> w.resource, isConsumed |-> TRUE, actionRoot |-> root,
        nullifierKey |-> nk, authPk |-> None, authSig |-> None, payload |-> None,
        discovery |-> None, label |-> w.label,
        forwarderInfo |-> [callType |-> w.forwarderInfo.callType,
                           hiding |-> w.forwarderInfo.hiding,
                           account |-> w.forwarderInfo.account,
                           permit |-> [wellFormed |-> TRUE, signature |-> signature]]]
  ELSE [resource |-> w.resource, isConsumed |-> TRUE, actionRoot |-> root,
        nullifierKey |-> nk, authPk |-> w.authPk, authSig |-> signature,
        payload |-> w.payload, discovery |-> None, label |-> None, forwarderInfo |-> None]

AtRoot(w, root) ==
  [resource |-> w.resource, isConsumed |-> FALSE, actionRoot |-> root,
   nullifierKey |-> None, authPk |-> w.authPk, authSig |-> None, payload |-> w.payload,
   discovery |-> w.discovery, label |-> w.label, forwarderInfo |-> w.forwarderInfo]

TagsOf(witnesses) == [k \in DOMAIN witnesses |-> TagOf(witnesses[k])]

\* The signatures are those that the witnesses ask for, or all the same.
Assemble(inputs, created, signature) ==
  LET root == TreeRoot(TagsOf(inputs) \o TagsOf(created))
  IN  [consumed |-> [k \in DOMAIN inputs |->
                       Signed(inputs[k], root,
                              IF signature = None THEN Signature(SignerOf(inputs[k]), root)
                                                  ELSE signature)],
       created  |-> [k \in DOMAIN created |-> AtRoot(created[k], root)],
       hiding   |-> hiding]

Owner(r) == CHOOSE key \in MCKeys : r.valueRef = PersistentValueRef(key, <<p1>>)

QuantityIn(ins) == SumFunction([k \in DOMAIN ins |-> ins[k].resource.quantity])

\* One resource is wrapped, or one or two of a kind are spent.
InputLists(unspent) ==
  LET spendable == {u \in unspent : ~u.resource.isEphemeral}
      Spend(r)  == ConsumeAs(r.resource, Owner(r.resource))
      pairs     == {p \in spendable \X spendable :
                      p[1].resource.labelRef = p[2].resource.labelRef}
  IN  {<<Consume(r)>> : r \in Mints} \cup {<<Spend(r)>> : r \in spendable}
      \cup {<<Spend(p[1]), Spend(p[2])>> : p \in pairs}

\* The first witness lies, or one of the created if there is one input.
MCProposals(unspent, signatures) ==
  UNION {UNION {LET c == CreatedFor(ins, plan)
                IN  {Assemble(ins, c, s) : s \in signatures \cup {None}}
                    \cup {Assemble([ins EXCEPT ![1] = v], c, None) :
                            v \in LiesOfConsumed(ins[1])}
                    \cup UNION {{Assemble(ins, [c EXCEPT ![k] = v], None) :
                                   v \in LiesOfCreated(c[k])} :
                                k \in IF Len(ins) = 1 THEN DOMAIN c ELSE {}} :
                plan \in Plans(QuantityIn(ins))} :
         ins \in InputLists(unspent)}
==============================================================================
