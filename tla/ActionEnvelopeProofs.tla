----------------------- MODULE ActionEnvelopeProofs ------------------------
(***************************************************************************)
(* Proofs about ActionEnvelope: whatever the accounts, the arguments and   *)
(* the bounds are, the exchange recomputes what was signed.                *)
(*                                                                         *)
(* The inductive invariant says how the posted envelope and the signed     *)
(* content were made from one call; every property of an envelope then     *)
(* follows from that alone.                                                *)
(***************************************************************************)
EXTENDS ActionEnvelope, TLAPS

MadeL1(k, x, given, nonce, expires) ==
    /\ call = [kind |-> k, arg |-> x, given |-> given]
    /\ posted = Envelope(L1Action(k, x, given, nonce), nonce, L1Scope(k), expires)
    /\ signed = L1Content(L1Action(k, x, given, nonce), L1Scope(k), nonce, SignatureSource,
                          expires)

UserWire(k, x, given, nonce) == WireAction(UserAction(k, x, given, nonce))

MadeUser(k, x, given, nonce) ==
    /\ k # "approveAgent"
    /\ call = [kind |-> k, arg |-> x, given |-> given]
    /\ posted = Envelope(UserWire(k, x, given, nonce), nonce, UserScope(k), None)
    /\ signed = UserContent(k, UserWire(k, x, given, nonce))

MadeApproval(x, given, nonce) ==
    LET wire == UserWire("approveAgent", x, given, nonce)
    IN  /\ call = [kind |-> "approveAgent", arg |-> x, given |-> given]
        /\ posted = Envelope(Approved(wire, given), nonce, client.vault, None)
        /\ signed = UserContent("approveAgent", wire)

Made ==
    outcome # "none" =>
        \/ \E k \in L1Kinds, x \in Args, given \in BOOLEAN, nonce \in 0 .. MaxNonce,
              expires \in Expiries \cup {None} : MadeL1(k, x, given, nonce, expires)
        \/ \E k \in UserKinds, x \in Args, given \in BOOLEAN, nonce \in 0 .. MaxNonce :
              MadeUser(k, x, given, nonce)
        \/ \E x \in Args, given \in BOOLEAN, nonce \in 0 .. MaxNonce :
              MadeApproval(x, given, nonce)

Config == client \in [vault : {None, Vault}, network : {"mainnet", "testnet"}]

-----------------------------------------------------------------------------
LEMMA KindsDisjoint == \A k \in UserKinds : k \notin L1Kinds
BY DEF UserKinds, L1Kinds, UserBuilds, L1Builds

LEMMA NoopIsL1 == "noop" \in L1Kinds
BY DEF L1Kinds, L1Builds

LEMMA ApproveIsUser == "approveAgent" \in UserKinds
BY DEF UserKinds, UserBuilds

\* Every field of the message types is built, by every method.
LEMMA SpecIsBuilt ==
    \A k \in UserKinds : SigningSpec(k) = {"hyperliquidChain"} \cup UserBuilds[k]
BY DEF UserKinds, UserBuilds, SigningSpec

\* What a method builds depends on no variable but the client.
LEMMA SameClient ==
    ASSUME client' = client,
           NEW k, NEW x, NEW given, NEW nonce
    PROVE  /\ L1Action(k, x, given, nonce)' = L1Action(k, x, given, nonce)
           /\ L1Scope(k)' = L1Scope(k)
           /\ SignatureSource' = SignatureSource
           /\ UserWire(k, x, given, nonce)' = UserWire(k, x, given, nonce)
           /\ UserScope(k)' = UserScope(k)
<1>1. SubAccount' = SubAccount /\ ExecutionAddress' = ExecutionAddress
    BY DEF SubAccount, ExecutionAddress
<1>2. Amount(k, x)' = Amount(k, x)
    BY DEF Amount
<1>3. UserAction(k, x, given, nonce)' = UserAction(k, x, given, nonce)
    BY <1>1, <1>2 DEF UserAction
<1>4. Chain(client.network)' = Chain(client.network)
    BY DEF Chain
<1>5. UserWire(k, x, given, nonce)' = UserWire(k, x, given, nonce)
    BY <1>3, <1>4 DEF UserWire, WireAction
<1>6. L1Action(k, x, given, nonce)' = L1Action(k, x, given, nonce)
    BY <1>1 DEF L1Action
<1> QED BY <1>5, <1>6 DEF L1Scope, SignatureSource, UserScope

\* The content depends on its wire action alone.
LEMMA SameContent ==
    ASSUME NEW k, NEW wire PROVE UserContent(k, wire)' = UserContent(k, wire)
BY DEF UserContent

\* A step that leaves the call alone leaves how it was made.
LEMMA MadeKept ==
    ASSUME Made, Config, UNCHANGED <<client, call, posted, signed>>,
           outcome # "none" \/ outcome' = outcome
    PROVE  Made' /\ Config'
<1>1. ASSUME NEW k, NEW x, NEW given, NEW nonce, NEW expires, MadeL1(k, x, given, nonce, expires)
      PROVE  MadeL1(k, x, given, nonce, expires)'
    BY <1>1, SameClient DEF MadeL1
<1>2. ASSUME NEW k, NEW x, NEW given, NEW nonce, MadeUser(k, x, given, nonce)
      PROVE  MadeUser(k, x, given, nonce)'
    BY <1>2, SameClient DEF MadeUser
<1>3. ASSUME NEW x, NEW given, NEW nonce, MadeApproval(x, given, nonce)
      PROVE  MadeApproval(x, given, nonce)'
    BY <1>3, SameClient DEF MadeApproval
<1> QED BY <1>1, <1>2, <1>3 DEF Made, Config

\* One step keeps how the envelope and the signature were made.
LEMMA MadeStep == Made /\ Config /\ [Next]_vars => Made' /\ Config'
<1> SUFFICES ASSUME Made, Config, [Next]_vars PROVE Made' /\ Config'
    OBVIOUS
<1>1. ASSUME NEW k \in L1Kinds, NEW x \in Args, NEW given \in BOOLEAN,
             NEW nonce \in 0 .. MaxNonce, NEW expires \in Expiries \cup {None},
             SubmitWith(k, x, given, nonce, expires)
      PROVE  Made' /\ Config'
    <2>1. client' = client
        BY <1>1 DEF SubmitWith, Post
    <2>2. MadeL1(k, x, given, nonce, expires)'
        BY <1>1, <2>1, SameClient DEF SubmitWith, Post, MadeL1
    <2> QED BY <2>1, <2>2 DEF Made, Config
<1>2. ASSUME NEW k \in UserKinds, NEW x \in Args, NEW given \in BOOLEAN,
             NEW nonce \in 0 .. MaxNonce, SubmitUserAction(k, x, given, nonce)
      PROVE  Made' /\ Config'
    <2>1. client' = client
        BY <1>2 DEF SubmitUserAction, Post
    <2>2. MadeUser(k, x, given, nonce)'
        BY <1>2, <2>1, SameClient DEF SubmitUserAction, Post, MadeUser, UserWire
    <2> QED BY <2>1, <2>2 DEF Made, Config
<1>3. ASSUME NEW x \in Args, NEW given \in BOOLEAN, NEW nonce \in 0 .. MaxNonce,
             ApproveAgent(x, given, nonce)
      PROVE  Made' /\ Config'
    <2>1. client' = client
        BY <1>3 DEF ApproveAgent, Post
    <2>2. MadeApproval(x, given, nonce)'
        BY <1>3, <2>1, SameClient DEF ApproveAgent, Post, MadeApproval, UserWire
    <2> QED BY <2>1, <2>2 DEF Made, Config
<1>4. ASSUME NEW answer, NEW body, Told(answer, body)
      PROVE  Made' /\ Config'
    <2>1. outcome # "none" /\ UNCHANGED <<client, call, posted, signed>>
        BY <1>4 DEF Told
    <2> QED BY <2>1, MadeKept
<1>5. CASE UNCHANGED vars
    BY <1>5, MadeKept DEF vars
<1>6. ASSUME NEW nonce \in 0 .. MaxNonce, NEW expires \in Expiries \cup {None},
             Noop(nonce, expires)
      PROVE  Made' /\ Config'
    <2>1. (CHOOSE x \in Args : TRUE) \in Args
        BY EnvelopeAssumption
    <2> QED BY <2>1, <1>1, <1>6, NoopIsL1 DEF Noop
<1> QED
    BY <1>1, <1>2, <1>3, <1>4, <1>5, <1>6 DEF Next, SubmitAction, Answer, NoReply

\* Every envelope was made, and signed, from one call of the client.
THEOREM MadeCorrect == Spec => [](Made /\ Config)
<1>1. Init => Made /\ Config
    BY DEF Init, Made, Config
<1> QED BY <1>1, MadeStep, PTL DEF Spec

-----------------------------------------------------------------------------
LEMMA VerifiesL1 ==
    ASSUME Config, NEW k \in L1Kinds, NEW x, NEW given, NEW nonce, NEW expires,
           MadeL1(k, x, given, nonce, expires)
    PROVE  Verifies
<1> DEFINE action == L1Action(k, x, given, nonce)
           source(network) == IF network = "mainnet" THEN "a" ELSE "b"
<1>1. IsL1
    BY DEF MadeL1, IsL1
<1> HIDE DEF action
<1>2. \A network : Recomputed(posted, network) =
          L1Content(action, L1Scope(k), nonce, source(network), expires)
    BY <1>1 DEF MadeL1, Recomputed, Envelope, L1Content, action
<1>3. signed = L1Content(action, L1Scope(k), nonce, source(client.network), expires)
    BY DEF MadeL1, SignatureSource, action
<1>4. client.network \in {"mainnet", "testnet"}
    BY DEF Config
<1>5. \A network \in {"mainnet", "testnet"} :
          source(network) = source(client.network) <=> network = client.network
    BY <1>4
<1> HIDE DEF source
<1>6. \A network \in {"mainnet", "testnet"} : 
          L1Content(action, L1Scope(k), nonce, source(network), expires).source = source(network)
    BY DEF L1Content
<1>7. L1Content(action, L1Scope(k), nonce, source(client.network), expires).source
          = source(client.network)
    BY DEF L1Content
<1>8. ASSUME NEW network \in {"mainnet", "testnet"}
      PROVE  Recomputed(posted, network) = signed <=> network = client.network
    BY <1>2, <1>3, <1>5, <1>6, <1>7
<1> QED BY <1>8 DEF Verifies

\* A wire action has the fields of its kind and the two of typed data.
LEMMA ActionFields ==
    ASSUME NEW k, NEW x, NEW given, NEW nonce
    PROVE  DOMAIN UserAction(k, x, given, nonce) = {"type"} \cup UserBuilds[k]
BY DEF UserAction

LEMMA ActionIsTyped ==
    ASSUME NEW k, NEW x, NEW given, NEW nonce
    PROVE  UserAction(k, x, given, nonce)["type"] = k
BY DEF UserAction

LEMMA WireFields ==
    ASSUME NEW k, NEW x, NEW given, NEW nonce
    PROVE  DOMAIN UserWire(k, x, given, nonce) = UserBuilds[k] \cup UserSignedFields
BY ActionFields DEF UserWire, WireAction, UserSignedFields

LEMMA WireKeepsType ==
    ASSUME NEW action, "type" \in DOMAIN action
    PROVE  WireAction(action)["type"] = action["type"]
BY DEF WireAction

LEMMA WireAddsChain ==
    ASSUME NEW action
    PROVE  WireAction(action)["hyperliquidChain"] = Chain(client.network)
BY DEF WireAction

LEMMA WireType ==
    ASSUME NEW k, NEW x, NEW given, NEW nonce
    PROVE  UserWire(k, x, given, nonce)["type"] = k
<1>1. "type" \in DOMAIN UserAction(k, x, given, nonce)
    BY ActionFields
<1> QED BY <1>1, ActionIsTyped, WireKeepsType DEF UserWire

LEMMA WireChain ==
    ASSUME NEW k, NEW x, NEW given, NEW nonce
    PROVE  UserWire(k, x, given, nonce)["hyperliquidChain"] = Chain(client.network)
BY WireAddsChain DEF UserWire

LEMMA ChainsDiffer ==
    Config => \A network \in {"mainnet", "testnet"} :
                  Chain(network) = Chain(client.network) <=> network = client.network
BY DEF Config, Chain

\* The message the exchange makes of an action, for its own chain.
Message(fields, action, chain) ==
    [f \in {"hyperliquidChain"} \cup fields |->
        IF f = "hyperliquidChain" THEN chain
        ELSE IF f \in DOMAIN action THEN action[f] ELSE ""]

\* The message the client made of a wire action.
Wired(fields, wire) == [f \in {"hyperliquidChain"} \cup fields |-> wire[f]]

TypedContent(k, message) == [scheme |-> "typed", primary |-> k, message |-> message]

LEMMA MessageChain ==
    ASSUME NEW fields, NEW action, NEW chain
    PROVE  Message(fields, action, chain)["hyperliquidChain"] = chain
BY DEF Message

LEMMA MessageField ==
    ASSUME NEW fields, NEW action, NEW chain, NEW f \in fields, f # "hyperliquidChain"
    PROVE  Message(fields, action, chain)[f] = IF f \in DOMAIN action THEN action[f] ELSE ""
BY DEF Message

\* It is the signed one if the action has, or lacks as empty, every signed value,
\* and the chain is the signed one.
LEMMA SameMessage ==
    ASSUME NEW fields, NEW action, NEW wire, NEW chain,
           "hyperliquidChain" \notin fields,
           \A f \in fields : (IF f \in DOMAIN action THEN action[f] ELSE "") = wire[f]
    PROVE  Message(fields, action, chain) = Wired(fields, wire)
              <=> chain = wire["hyperliquidChain"]
<1> DEFINE content == [f \in {"hyperliquidChain"} \cup fields |-> wire[f]]
           message == Message(fields, action, chain)
<1>1. message = [f \in {"hyperliquidChain"} \cup fields |-> message[f]]
    BY Zenon DEF Message
<1>2. content["hyperliquidChain"] = wire["hyperliquidChain"]
    OBVIOUS
<1>3. message["hyperliquidChain"] = chain
    BY MessageChain
<1>4. ASSUME NEW f \in fields PROVE message[f] = wire[f]
    <2>1. f # "hyperliquidChain"
        OBVIOUS
    <2>2. message[f] = IF f \in DOMAIN action THEN action[f] ELSE ""
        BY <2>1, MessageField
    <2> HIDE DEF message
    <2> QED BY <2>2
<1> HIDE DEF message
<1>5. ASSUME chain = wire["hyperliquidChain"] PROVE message = content
    <2>1. \A f \in {"hyperliquidChain"} \cup fields : message[f] = wire[f]
        BY <1>3, <1>4, <1>5
    <2> QED BY <1>1, <2>1
<1>6. ASSUME message = content PROVE chain = wire["hyperliquidChain"]
    BY <1>2, <1>3, <1>6
<1> QED BY <1>5, <1>6 DEF message, Wired

LEMMA ChainNotBuilt == \A k \in UserKinds : "hyperliquidChain" \notin UserBuilds[k]
BY DEF UserKinds, UserBuilds

LEMMA TypedMessage ==
    ASSUME NEW k, NEW a, NEW b
    PROVE  TypedContent(k, a) = TypedContent(k, b) <=> a = b
BY DEF TypedContent

LEMMA RecomputedTyped ==
    ASSUME NEW k \in UserKinds, call.kind = k, posted.action.type = k, NEW network
    PROVE  Recomputed(posted, network) =
               TypedContent(k, Message(UserBuilds[k], posted.action, Chain(network)))
<1>1. ~IsL1
    BY KindsDisjoint DEF IsL1
<1>2. SigningSpec(k) = {"hyperliquidChain"} \cup UserBuilds[k]
    BY SpecIsBuilt
<1> QED BY <1>1, <1>2, Zenon DEF Recomputed, Message, TypedContent

\* The envelope's action has the signed value of every signed field, or lacks one
\* signed as empty.
Carries(k, wire) ==
    \A f \in UserBuilds[k] :
        (IF f \in DOMAIN posted.action THEN posted.action[f] ELSE "") = wire[f]

OfKind(k) == call.kind = k /\ posted.action.type = k

ForChain(wire) == wire["hyperliquidChain"] = Chain(client.network)

\* Such an envelope verifies.
LEMMA VerifiesTyped ==
    ASSUME Config, NEW k \in UserKinds, NEW wire, OfKind(k), signed = UserContent(k, wire),
           ForChain(wire), Carries(k, wire)
    PROVE  Verifies
<1>1. signed = TypedContent(k, Wired(UserBuilds[k], wire))
    BY SpecIsBuilt, Zenon DEF UserContent, TypedContent, Wired
<1>2. "hyperliquidChain" \notin UserBuilds[k]
    BY ChainNotBuilt, Zenon
<1>3. ASSUME NEW network \in {"mainnet", "testnet"}
      PROVE  Recomputed(posted, network) = signed <=> network = client.network
    <2> DEFINE message == Message(UserBuilds[k], posted.action, Chain(network))
    <2>1. Recomputed(posted, network) = TypedContent(k, message)
        BY RecomputedTyped, Zenon DEF OfKind
    <2>2. message = Wired(UserBuilds[k], wire) <=> Chain(network) = wire["hyperliquidChain"]
        BY <1>2, SameMessage DEF Carries
    <2>3. Chain(network) = wire["hyperliquidChain"] <=> network = client.network
        BY ChainsDiffer DEF ForChain
    <2> HIDE DEF message
    <2>4. TypedContent(k, message) = signed <=> message = Wired(UserBuilds[k], wire)
        BY <1>1, TypedMessage
    <2> QED BY <2>1, <2>2, <2>3, <2>4
<1> QED BY <1>3, Zenon DEF Verifies

LEMMA VerifiesUser ==
    ASSUME Config, NEW k \in UserKinds, NEW x, NEW given, NEW nonce,
           MadeUser(k, x, given, nonce)
    PROVE  Verifies
<1> DEFINE wire == UserWire(k, x, given, nonce)
<1>1. posted.action = wire /\ call.kind = k /\ signed = UserContent(k, wire)
    BY DEF MadeUser, Envelope
<1>2. wire["type"] = k
    BY WireType, Zenon
<1>3. wire["hyperliquidChain"] = Chain(client.network)
    BY WireChain, Zenon
<1>4. UserBuilds[k] \subseteq DOMAIN wire
    BY WireFields, Zenon
<1> HIDE DEF wire
<1>5. posted.action.type = k
    BY <1>1, <1>2
<1>6. Carries(k, wire)
    BY <1>1, <1>4 DEF Carries
<1> QED BY <1>1, <1>3, <1>5, <1>6, VerifiesTyped DEF OfKind, ForChain

\* The name that approve_agent drops is one it signed as empty.
LEMMA DroppedName ==
    ASSUME NEW x, NEW nonce
    PROVE  UserWire("approveAgent", x, FALSE, nonce)["agentName"] = ""
<1>1. "agentName" \in UserBuilds["approveAgent"]
    BY DEF UserBuilds
<1>2. UserAction("approveAgent", x, FALSE, nonce)["agentName"] = ""
    BY <1>1 DEF UserAction
<1>3. "agentName" \in DOMAIN UserAction("approveAgent", x, FALSE, nonce)
    BY <1>1 DEF UserAction
<1> QED BY <1>2, <1>3 DEF UserWire, WireAction

LEMMA ApprovedFields ==
    ASSUME NEW wire, NEW given \in BOOLEAN, given \/ wire["agentName"] = "",
           NEW f \in DOMAIN wire
    PROVE  (IF f \in DOMAIN Approved(wire, given) THEN Approved(wire, given)[f] ELSE "") = wire[f]
BY DEF Approved, Without

LEMMA ApprovedType ==
    ASSUME NEW wire, NEW given, "type" \in DOMAIN wire
    PROVE  Approved(wire, given)["type"] = wire["type"]
BY DEF Approved, Without

LEMMA VerifiesApproval ==
    ASSUME Config, NEW x, NEW given \in BOOLEAN, NEW nonce, MadeApproval(x, given, nonce)
    PROVE  Verifies
<1> DEFINE k == "approveAgent"
           wire == UserWire(k, x, given, nonce)
<1>1. wire["type"] = k
    BY WireType, Zenon
<1>2. wire["hyperliquidChain"] = Chain(client.network)
    BY WireChain, Zenon
<1>3. DOMAIN wire = UserBuilds[k] \cup UserSignedFields
    BY WireFields, Zenon
<1>4. given \/ wire["agentName"] = ""
    BY DroppedName
<1>5. posted.action = Approved(wire, given) /\ call.kind = k /\ signed = UserContent(k, wire)
    BY DEF MadeApproval, Envelope
<1> HIDE DEF wire
<1>6. "type" \in DOMAIN wire
    BY <1>3 DEF UserSignedFields
<1>7. posted.action.type = k
    BY <1>1, <1>5, <1>6, ApprovedType
<1>8. Carries(k, wire)
    BY <1>3, <1>4, <1>5, ApprovedFields DEF Carries
<1> QED BY <1>2, <1>5, <1>7, <1>8, ApproveIsUser, VerifiesTyped DEF OfKind, ForChain

\* What the exchange recomputes from any envelope is what was signed, on the
\* client's network and on no other.
THEOREM VerifiesCorrect == Spec => []Verifies
<1>1. Made /\ Config => Verifies
    BY VerifiesL1, VerifiesUser, VerifiesApproval DEF Made, Verifies
<1> QED BY <1>1, MadeCorrect, PTL

-----------------------------------------------------------------------------
(* What is posted, field by field.                                         *)

LEMMA DeclaredAsBuilt == \A k \in UserKinds : DeclaredUser[k] = UserBuilds[k]
BY DEF UserKinds, UserBuilds, DeclaredUser

LEMMA NameIsBuilt == "agentName" \in UserBuilds["approveAgent"]
BY DEF UserBuilds

\* Only agentName, if anything, of what was signed is not posted.
LEMMA PostedFields ==
    ASSUME Made, outcome # "none", ~IsL1
    PROVE  /\ call.kind \in UserKinds
           /\ DOMAIN signed.message = {"hyperliquidChain"} \cup UserBuilds[call.kind]
           /\ DOMAIN posted.action \subseteq UserBuilds[call.kind] \cup UserSignedFields
           /\ UserBuilds[call.kind] \cup UserSignedFields
                  \subseteq DOMAIN posted.action \cup {"agentName"}
<1>1. ASSUME NEW k \in L1Kinds, NEW x, NEW given, NEW nonce, NEW expires,
             MadeL1(k, x, given, nonce, expires)
      PROVE  FALSE
    <2>1. call.kind = k
        BY <1>1 DEF MadeL1
    <2> QED BY <2>1 DEF IsL1
<1>2. ASSUME NEW k \in UserKinds, NEW wire, signed = UserContent(k, wire)
      PROVE  DOMAIN signed.message = {"hyperliquidChain"} \cup UserBuilds[k]
    BY <1>2, SpecIsBuilt DEF UserContent
<1>3. ASSUME NEW k \in UserKinds, NEW x, NEW given, NEW nonce, MadeUser(k, x, given, nonce)
      PROVE  /\ call.kind = k
             /\ DOMAIN signed.message = {"hyperliquidChain"} \cup UserBuilds[k]
             /\ DOMAIN posted.action = UserBuilds[k] \cup UserSignedFields
    <2>1. posted.action = UserWire(k, x, given, nonce) /\ call.kind = k
        BY <1>3 DEF MadeUser, Envelope
    <2>2. DOMAIN UserWire(k, x, given, nonce) = UserBuilds[k] \cup UserSignedFields
        BY WireFields
    <2>3. signed = UserContent(k, UserWire(k, x, given, nonce))
        BY <1>3 DEF MadeUser
    <2>4. DOMAIN signed.message = {"hyperliquidChain"} \cup UserBuilds[k]
        BY <2>3, <1>2
    <2>5. DOMAIN posted.action = UserBuilds[k] \cup UserSignedFields
        BY <2>1, <2>2
    <2> QED BY <2>1, <2>4, <2>5
<1>4. ASSUME NEW x, NEW given \in BOOLEAN, NEW nonce, MadeApproval(x, given, nonce)
      PROVE  LET k == "approveAgent"
             IN  /\ call.kind = k
                 /\ DOMAIN signed.message = {"hyperliquidChain"} \cup UserBuilds[k]
                 /\ DOMAIN posted.action \subseteq UserBuilds[k] \cup UserSignedFields
                 /\ UserBuilds[k] \cup UserSignedFields
                        \subseteq DOMAIN posted.action \cup {"agentName"}
    <2> DEFINE k == "approveAgent"
               wire == UserWire(k, x, given, nonce)
    <2>1. posted.action = Approved(wire, given) /\ call.kind = k /\ signed = UserContent(k, wire)
        BY <1>4 DEF MadeApproval, Envelope
    <2>2. DOMAIN wire = UserBuilds[k] \cup UserSignedFields
        BY WireFields
    <2>3. DOMAIN signed.message = {"hyperliquidChain"} \cup UserBuilds[k]
        BY <2>1, <1>2, ApproveIsUser
    <2> HIDE DEF wire
    <2>4. DOMAIN Approved(wire, given) \subseteq DOMAIN wire
          /\ DOMAIN wire \subseteq DOMAIN Approved(wire, given) \cup {"agentName"}
        BY DEF Approved, Without
    <2> HIDE DEF k
    <2>5. /\ DOMAIN posted.action \subseteq UserBuilds[k] \cup UserSignedFields
          /\ UserBuilds[k] \cup UserSignedFields \subseteq DOMAIN posted.action \cup {"agentName"}
        BY <2>1, <2>2, <2>4
    <2> QED BY <2>1, <2>3, <2>5 DEF k
<1> QED BY <1>1, <1>3, <1>4, ApproveIsUser DEF Made

\* No field of an action of typed data is outside the signature.
THEOREM AllSignedCorrect == Spec => []AllSigned
<1>1. Made /\ Config => AllSigned
    BY PostedFields DEF AllSigned, UserSignedFields
<1> QED BY <1>1, MadeCorrect, PTL

\* Every wire action of typed data has the fields its type declares.
THEOREM AsDeclaredCorrect == Spec => []AsDeclared
<1>1. Made /\ Config => AsDeclared
    BY PostedFields, DeclaredAsBuilt DEF AsDeclared, NotRequired
<1> QED BY <1>1, MadeCorrect, PTL

\* What a method builds, what is signed and what the type declares are the same
\* fields, for every typed-data action.
THEOREM DeclaredAndSignedCorrect == Spec => []DeclaredAndSigned
<1>1. AllSigned /\ AsDeclared => DeclaredAndSigned
    BY DEF DeclaredAndSigned
<1> QED BY <1>1, AllSignedCorrect, AsDeclaredCorrect, PTL

-----------------------------------------------------------------------------
(* What the caller is told.                                                *)

Judged ==
    /\ outcome = "returned" => Expected(reply, ExpectedType(call.kind))
    /\ outcome = "indeterminate" /\ reply # None => ~Expected(reply, ExpectedType(call.kind))

LEMMA JudgedStep == Judged /\ [Next]_vars => Judged'
<1> SUFFICES ASSUME Judged, [Next]_vars PROVE Judged'
    OBVIOUS
<1>1. ASSUME NEW k, NEW x, NEW given, NEW envelope, NEW content,
             Post(k, x, given, envelope, content)
      PROVE  Judged'
    BY <1>1 DEF Post, Judged
<1>2. ASSUME NEW r \in Replies, Answer(r)
      PROVE  Judged'
    <2>1. call' = call /\ reply' = r
        BY <1>2 DEF Answer, Told
    <2>2. outcome' = IF Expected(r, ExpectedType(call.kind)) THEN "returned" ELSE "indeterminate"
        BY <1>2 DEF Answer, Told
    <2>3. Expected(reply, ExpectedType(call.kind))' <=> Expected(r, ExpectedType(call.kind))
        BY <2>1
    <2> QED BY <2>1, <2>2, <2>3 DEF Judged
<1>3. CASE NoReply
    BY <1>3 DEF NoReply, Told, Judged
<1>4. CASE UNCHANGED vars
    BY <1>4 DEF vars, Judged
<1> QED
    BY <1>1, <1>2, <1>3, <1>4
    DEF Next, SubmitAction, Noop, SubmitWith, SubmitUserAction, ApproveAgent

LEMMA JudgedCorrect == Spec => []Judged
<1>1. Init => Judged
    BY DEF Init, Judged
<1> QED BY <1>1, JudgedStep, PTL DEF Spec

LEMMA ExpectedIsAnnotated == \A k : ExpectedType(k) = Annotated(k)
BY DEF ExpectedType, Annotated

ReplyTypes == {"order", "cancel", "twapOrder", "twapCancel", "default"}

LEMMA AnnotatedTypes == \A k : Annotated(k) \in ReplyTypes
BY DEF Annotated, ReplyTypes

\* What is admitted has the declared type.
LEMMA ExpectedIsDeclared ==
    ASSUME NEW r, NEW type \in ReplyTypes, Expected(r, type)
    PROVE  DeclaredReply(r, type)
BY DEF ReplyTypes, Expected, Acknowledged, DeclaredReply, DeclaredStatus, IsOrderStatus,
   IsTwapOrderStatus, IsCancelStatus, IsErrorStatus, One, OrderKeys, TwapKeys

\* A key that an unambiguous item has among some keys is the only one.
LEMMA OnlyKey ==
    ASSUME NEW keys, keys = {} \/ One(keys), NEW some, keys \cap some # {}
    PROVE  One(keys \cap some)
<1>1. PICK e \in keys : keys = {e}
    BY DEF One
<1>2. keys \cap some = {e}
    BY <1>1
<1> QED BY <1>2 DEF One

LEMMA UnambiguousStatus ==
    ASSUME NEW i, i.keys = {} \/ One(i.keys), NEW type, DeclaredStatus(i, type)
    PROVE  /\ type = "order" => IsOrderStatus(i)
           /\ type = "twapOrder" => IsTwapOrderStatus(i)
           /\ type \in {"cancel", "twapCancel"} => IsCancelStatus(i)
<1>1. CASE type = "order"
    BY <1>1, OnlyKey DEF DeclaredStatus, IsOrderStatus, OrderKeys
<1>2. CASE type = "twapOrder"
    BY <1>2, OnlyKey DEF DeclaredStatus, IsTwapOrderStatus, TwapKeys
<1>3. CASE type \in {"cancel", "twapCancel"}
    BY <1>3 DEF DeclaredStatus, IsCancelStatus, IsErrorStatus
<1> QED BY <1>1, <1>2, <1>3

\* What has the declared type and is unambiguous is admitted.
LEMMA DeclaredIsExpected ==
    ASSUME NEW r, NEW type \in ReplyTypes, DeclaredReply(r, type), Unambiguous(r)
    PROVE  Expected(r, type)
<1>1. \A i \in r.items : DeclaredStatus(i, type) =>
          /\ type = "order" => IsOrderStatus(i)
          /\ type = "twapOrder" => IsTwapOrderStatus(i)
          /\ type \in {"cancel", "twapCancel"} => IsCancelStatus(i)
    BY UnambiguousStatus DEF Unambiguous
<1> QED BY <1>1 DEF ReplyTypes, Expected, Acknowledged, DeclaredReply, Unambiguous

\* A method returns what its annotation declares, whatever the exchange answers.
THEOREM ReturnsAsDeclaredCorrect == Spec => []ReturnsAsDeclared
<1>1. Judged => ReturnsAsDeclared
    BY ExpectedIsDeclared, ExpectedIsAnnotated, AnnotatedTypes DEF Judged, ReturnsAsDeclared
<1> QED BY <1>1, JudgedCorrect, PTL

\* An unambiguous answer of the declared type is never reported as unknown.
THEOREM AnswerIsTrustedCorrect == Spec => []AnswerIsTrusted
<1>1. Judged => AnswerIsTrusted
    BY DeclaredIsExpected, ExpectedIsAnnotated, AnnotatedTypes DEF Judged, AnswerIsTrusted
<1> QED BY <1>1, JudgedCorrect, PTL

-----------------------------------------------------------------------------
(* The nonce and the account of an envelope.                               *)

LEMMA L1Nonce ==
    ASSUME NEW k \in L1Kinds, NEW x, NEW given, NEW nonce,
           "nonce" \in DOMAIN L1Action(k, x, given, nonce)
    PROVE  L1Action(k, x, given, nonce)["nonce"] = nonce
BY DEF L1Action

LEMMA UserNonce ==
    ASSUME NEW k, NEW x, NEW given, NEW nonce, NEW f \in {"nonce", "time"},
           f \in DOMAIN UserAction(k, x, given, nonce)
    PROVE  UserAction(k, x, given, nonce)[f] = nonce
BY DEF UserAction

LEMMA WireKeeps ==
    ASSUME NEW action, NEW f \in DOMAIN action \ {"signatureChainId", "hyperliquidChain"}
    PROVE  WireAction(action)[f] = action[f]
BY DEF WireAction

LEMMA WireAdds ==
    ASSUME NEW action
    PROVE  DOMAIN WireAction(action) = DOMAIN action \cup {"signatureChainId", "hyperliquidChain"}
BY DEF WireAction

LEMMA WireNonce ==
    ASSUME NEW k, NEW x, NEW given, NEW nonce, NEW f \in {"nonce", "time"},
           f \in DOMAIN UserWire(k, x, given, nonce)
    PROVE  UserWire(k, x, given, nonce)[f] = nonce
<1> DEFINE action == UserAction(k, x, given, nonce)
<1>1. ASSUME f \in DOMAIN action PROVE action[f] = nonce
    BY <1>1, UserNonce
<1> HIDE DEF action
<1>2. f \in DOMAIN WireAction(action)
    BY DEF UserWire, action
<1>3. f \in DOMAIN action
    BY <1>2, WireAdds
<1>4. WireAction(action)[f] = nonce
    BY <1>1, <1>3, WireKeeps
<1> QED BY <1>4 DEF UserWire, action

LEMMA ApprovedKeeps ==
    ASSUME NEW wire, NEW given, NEW f \in DOMAIN Approved(wire, given)
    PROVE  f \in DOMAIN wire /\ Approved(wire, given)[f] = wire[f]
BY DEF Approved, Without

\* An action that names a nonce names the one of its envelope.
THEOREM OneNonceCorrect == Spec => []OneNonce
<1>1. ASSUME NEW k \in L1Kinds, NEW x, NEW given, NEW nonce, NEW expires,
             MadeL1(k, x, given, nonce, expires)
      PROVE  OneNonce
    <2>1. /\ posted.action = L1Action(k, x, given, nonce) /\ posted.nonce = nonce
          /\ call.kind = k
        BY <1>1 DEF MadeL1, Envelope
    <2>2. "nonce" \in DOMAIN posted.action => posted.action["nonce"] = posted.nonce
        BY <2>1, L1Nonce
    <2> QED BY <2>1, <2>2 DEF OneNonce, IsL1
<1>2. ASSUME NEW k \in UserKinds, NEW x, NEW given, NEW nonce, MadeUser(k, x, given, nonce)
      PROVE  OneNonce
    <2>1. posted.action = UserWire(k, x, given, nonce) /\ posted.nonce = nonce
        BY <1>2 DEF MadeUser, Envelope
    <2>2. \A f \in {"nonce", "time"} :
              f \in DOMAIN posted.action => posted.action[f] = posted.nonce
        BY <2>1, WireNonce
    <2> QED BY <2>2 DEF OneNonce
<1>3. ASSUME NEW x, NEW given, NEW nonce, MadeApproval(x, given, nonce)
      PROVE  OneNonce
    <2> DEFINE wire == UserWire("approveAgent", x, given, nonce)
    <2>1. posted.action = Approved(wire, given) /\ posted.nonce = nonce
        BY <1>3 DEF MadeApproval, Envelope
    <2>2. \A f \in {"nonce", "time"} : f \in DOMAIN wire => wire[f] = nonce
        BY WireNonce
    <2> HIDE DEF wire
    <2>3. \A f \in {"nonce", "time"} :
              f \in DOMAIN posted.action => posted.action[f] = posted.nonce
        BY <2>1, <2>2, ApprovedKeeps
    <2> QED BY <2>3 DEF OneNonce
<1>4. Made /\ Config => OneNonce
    BY <1>1, <1>2, <1>3 DEF Made, OneNonce
<1> QED BY <1>4, MadeCorrect, PTL

Counters ==
    /\ lastNonce \in 0 .. MaxNonce
    /\ calls \in 0 .. MaxCalls
    /\ outcome \in {"none", "flying", "returned", "indeterminate"}
    /\ reply \in Replies \cup {None}

LEMMA Bounds == MaxNonce \in Nat /\ MaxCalls \in Nat
BY EnvelopeAssumption

LEMMA CountersStep == Counters /\ [Next]_vars => Counters'
<1> SUFFICES ASSUME Counters, [Next]_vars PROVE Counters'
    OBVIOUS
<1>1. ASSUME NEW k, NEW x, NEW given, NEW envelope, NEW content,
             Post(k, x, given, envelope, content), lastNonce' \in 0 .. MaxNonce
      PROVE  Counters'
    <2>1. calls' \in 0 .. MaxCalls
        BY <1>1, Bounds DEF Post, Counters
    <2>2. outcome' = "flying" /\ reply' = None
        BY <1>1 DEF Post
    <2> QED BY <1>1, <2>1, <2>2 DEF Counters
<1>2. ASSUME NEW nonce \in 0 .. MaxNonce, NEW expires, Noop(nonce, expires)
      PROVE  Counters'
    <2>1. lastNonce' \in 0 .. MaxNonce
        BY <1>2 DEF Noop, Counters
    <2> QED BY <1>1, <1>2, <2>1 DEF Noop, SubmitWith
<1>3. ASSUME NEW answer \in {"returned", "indeterminate"}, NEW body \in Replies \cup {None},
             Told(answer, body)
      PROVE  Counters'
    BY <1>3 DEF Told, Counters
<1>4. CASE UNCHANGED vars
    BY <1>4 DEF vars, Counters
<1> QED
    BY <1>1, <1>2, <1>3, <1>4
    DEF Next, SubmitAction, SubmitWith, SubmitUserAction, ApproveAgent, Answer, NoReply

\* Type correctness.
THEOREM EnvelopeTypeCorrect == Spec => []TypeOK
<1>1. Init => Counters
    BY Bounds DEF Init, Counters
<1>2. Spec => []Counters
    BY <1>1, CountersStep, PTL DEF Spec
<1>3. Made /\ Config /\ outcome # "none" =>
          /\ call.kind \in L1Kinds \cup UserKinds /\ call.given \in BOOLEAN
          /\ posted.nonce \in 0 .. MaxNonce
          /\ posted.vaultAddress \in {None, client.vault}
    BY ApproveIsUser DEF Made, MadeL1, MadeUser, MadeApproval, Envelope, L1Scope, UserScope
<1>4. Counters /\ Made /\ Config => TypeOK
    BY <1>3 DEF Counters, Config, TypeOK
<1> QED BY <1>2, <1>4, MadeCorrect, PTL

-----------------------------------------------------------------------------
(* The account of an envelope.                                             *)

LEMMA L1Names ==
    \A k \in L1Kinds : /\ "user" \notin {"type"} \cup L1Builds[k] \cup Optional[k]
                       /\ "fromSubAccount" \in {"type"} \cup L1Builds[k] \cup Optional[k] =>
                              ActionType(k) \notin RootScoped
BY DEF L1Kinds, L1Builds, Optional, ActionType, OutcomeKinds, RootScoped

LEMMA L1Fields ==
    ASSUME NEW k \in L1Kinds, NEW x, NEW given, NEW nonce
    PROVE  DOMAIN L1Action(k, x, given, nonce) \subseteq {"type"} \cup L1Builds[k] \cup Optional[k]
BY DEF L1Action

LEMMA L1Type ==
    ASSUME NEW k \in L1Kinds, NEW x, NEW given, NEW nonce
    PROVE  L1Action(k, x, given, nonce)["type"] = ActionType(k)
BY DEF L1Action

LEMMA L1Account ==
    ASSUME NEW k \in L1Kinds, NEW x, NEW given, NEW nonce,
           "fromSubAccount" \in DOMAIN L1Action(k, x, given, nonce)
    PROVE  L1Action(k, x, given, nonce)["fromSubAccount"] = SubAccount
BY DEF L1Action

LEMMA UserNotRoot == \A k \in UserKinds : k \notin RootScoped
BY DEF UserKinds, UserBuilds, RootScoped

LEMMA TransferNames ==
    \A k \in ActionScopedTransfers :
        \/ k = "usdClassTransfer" /\ "amount" \in UserBuilds[k]
        \/ "fromSubAccount" \in UserBuilds[k]
BY DEF ActionScopedTransfers, UserBuilds

Accounts == Account # None /\ Vault # None /\ Vault # ""

LEMMA AccountsDiffer == Accounts
BY EnvelopeAssumption DEF Accounts

LEMMA WireAccounts ==
    ASSUME NEW k, NEW x, NEW given, NEW nonce
    PROVE  LET wire == UserWire(k, x, given, nonce)
           IN  /\ "fromSubAccount" \in DOMAIN wire => wire["fromSubAccount"] = SubAccount
               /\ "user" \in DOMAIN wire => wire["user"] = ExecutionAddress
               /\ "amount" \in DOMAIN wire => wire["amount"] = Amount(k, x)
<1> DEFINE action == UserAction(k, x, given, nonce)
<1>1. "fromSubAccount" \in DOMAIN action => action["fromSubAccount"] = SubAccount
    BY DEF UserAction
<1>2. "user" \in DOMAIN action => action["user"] = ExecutionAddress
    BY DEF UserAction
<1>3. "amount" \in DOMAIN action => action["amount"] = Amount(k, x)
    BY DEF UserAction
<1> HIDE DEF action
<1>4. ASSUME NEW f \in {"fromSubAccount", "user", "amount"}, f \in DOMAIN WireAction(action)
      PROVE  f \in DOMAIN action /\ WireAction(action)[f] = action[f]
    BY <1>4, WireAdds, WireKeeps
<1> QED BY <1>1, <1>2, <1>3, <1>4 DEF UserWire, action

NamedIn(vault, from, user, amount) == ({vault} \cup from \cup user \cup amount) \ {None, ""}
Value(action, f) == IF f \in DOMAIN action THEN {action[f]} ELSE {}

LEMMA NamedL1 ==
    ASSUME IsL1
    PROVE  Named(posted) = NamedIn(posted.vaultAddress, Value(posted.action, "fromSubAccount"),
                                   Value(posted.action, "user"), {})
BY Zenon DEF Named, NamedIn, Value

LEMMA NamedTyped ==
    ASSUME ~IsL1
    PROVE  Named(posted) = NamedIn(posted.vaultAddress, Value(posted.action, "fromSubAccount"),
                                   Value(posted.action, "user"),
                                   IF "amount" \in DOMAIN posted.action
                                   THEN {posted.action["amount"][2]} ELSE {})
BY Zenon DEF Named, NamedIn, Value

LEMMA TargetL1 ==
    ASSUME Config, NEW k \in L1Kinds, NEW x, NEW given, NEW nonce, NEW expires,
           MadeL1(k, x, given, nonce, expires)
    PROVE  OneTarget
<1> DEFINE action == L1Action(k, x, given, nonce)
<1>1. posted.action = action /\ posted.vaultAddress = L1Scope(k) /\ IsL1
    BY DEF MadeL1, Envelope, IsL1
<1>2. action["type"] = ActionType(k)
    BY L1Type
<1>3. "user" \notin DOMAIN action
    BY L1Names, L1Fields
<1>4. "fromSubAccount" \in DOMAIN action =>
          action["fromSubAccount"] = SubAccount /\ ActionType(k) \notin RootScoped
    BY L1Names, L1Fields, L1Account
<1> HIDE DEF action
<1>5. Named(posted) = NamedIn(L1Scope(k), Value(action, "fromSubAccount"), {}, {})
    BY <1>1, <1>3, NamedL1 DEF Value
<1>6. CASE client.vault = None
    <2>1. L1Scope(k) = None /\ SubAccount = ""
        BY <1>6 DEF L1Scope, SubAccount
    <2>2. Named(posted) = {}
        BY <1>4, <1>5, <2>1 DEF Value, NamedIn
    <2> QED BY <1>6, <2>2 DEF OneTarget
<1>7. CASE client.vault # None
    <2>1. client.vault = Vault
        BY <1>7 DEF Config
    <2>2. SubAccount = Vault /\ L1Scope(k) = IF ActionType(k) \in RootScoped THEN None ELSE Vault
        BY <1>7, <2>1 DEF SubAccount, L1Scope
    <2>3. Named(posted) = IF ActionType(k) \in RootScoped THEN {} ELSE {Vault}
        BY <1>4, <1>5, <2>2, AccountsDiffer DEF Value, NamedIn, Accounts
    <2>4. posted.action.type = ActionType(k)
        BY <1>1, <1>2
    <2> QED BY <1>7, <2>3, <2>4 DEF OneTarget
<1> QED BY <1>6, <1>7

\* The envelope and the three fields of an action that can name an account.
Names(k, x, vault, from, user, amount) ==
    /\ vault = IF k \in ActionScopedTransfers THEN None ELSE client.vault
    /\ from \in {{}, {SubAccount}}
    /\ user \in {{}, {ExecutionAddress}}
    /\ amount \in {{}, {Amount(k, x)[2]}}
    /\ k \in ActionScopedTransfers => \/ k = "usdClassTransfer" /\ amount = {Amount(k, x)[2]}
                                      \/ from = {SubAccount}

LEMMA TypedNames ==
    ASSUME Config, NEW k, NEW x, NEW vault, NEW from, NEW user, NEW amount,
           Names(k, x, vault, from, user, amount)
    PROVE  IF client.vault = None
           THEN NamedIn(vault, from, user, amount) \subseteq {Account}
           ELSE NamedIn(vault, from, user, amount) = {Vault}
<1>1. Amount(k, x)[2] = IF k = "usdClassTransfer" THEN client.vault ELSE None
    BY DEF Amount
<1>2. CASE client.vault = None
    <2>1. SubAccount = "" /\ ExecutionAddress = Account /\ Amount(k, x)[2] = None /\ vault = None
        BY <1>1, <1>2 DEF SubAccount, ExecutionAddress, Names
    <2> QED BY <1>2, <2>1 DEF NamedIn, Names
<1>3. CASE client.vault # None
    <2>1. client.vault = Vault
        BY <1>3 DEF Config
    <2>2. /\ SubAccount = Vault /\ ExecutionAddress = Vault
          /\ Amount(k, x)[2] = IF k = "usdClassTransfer" THEN Vault ELSE None
          /\ vault = IF k \in ActionScopedTransfers THEN None ELSE Vault
        BY <1>1, <1>3, <2>1 DEF SubAccount, ExecutionAddress, Names
    <2>3. NamedIn(vault, from, user, amount) \subseteq {Vault}
        BY <2>2 DEF NamedIn, Names
    <2>4. Vault \in NamedIn(vault, from, user, amount)
        BY <2>2, AccountsDiffer DEF NamedIn, Accounts, Names
    <2> QED BY <1>3, <2>3, <2>4
<1> QED BY <1>2, <1>3

LEMMA TargetUser ==
    ASSUME Config, NEW k \in UserKinds, NEW x, NEW given, NEW nonce,
           MadeUser(k, x, given, nonce)
    PROVE  OneTarget
<1> DEFINE wire == UserWire(k, x, given, nonce)
           from == Value(wire, "fromSubAccount")
           user == Value(wire, "user")
           amount == IF "amount" \in DOMAIN wire THEN {wire["amount"][2]} ELSE {}
<1>1. posted.action = wire /\ posted.vaultAddress = UserScope(k) /\ call.kind = k
    BY DEF MadeUser, Envelope
<1>2. ~IsL1
    BY <1>1, KindsDisjoint DEF IsL1
<1>3. wire["type"] = k
    BY WireType, Zenon
<1>4. UserBuilds[k] \subseteq DOMAIN wire
    BY WireFields
<1>5. /\ "fromSubAccount" \in DOMAIN wire => wire["fromSubAccount"] = SubAccount
      /\ "user" \in DOMAIN wire => wire["user"] = ExecutionAddress
      /\ "amount" \in DOMAIN wire => wire["amount"] = Amount(k, x)
    BY WireAccounts, Zenon
<1> HIDE DEF wire
<1>6. from \in {{}, {SubAccount}} /\ user \in {{}, {ExecutionAddress}}
    BY <1>5 DEF Value
<1>7. amount \in {{}, {Amount(k, x)[2]}}
    BY <1>5
<1>8. k \in ActionScopedTransfers =>
          \/ k = "usdClassTransfer" /\ amount = {Amount(k, x)[2]}
          \/ from = {SubAccount}
    BY <1>4, <1>5, TransferNames DEF Value
<1>9. Named(posted) = NamedIn(UserScope(k), from, user, amount)
    BY <1>1, <1>2, NamedTyped, Zenon
<1> HIDE DEF from, user, amount
<1>10. IF client.vault = None
       THEN NamedIn(UserScope(k), from, user, amount) \subseteq {Account}
       ELSE NamedIn(UserScope(k), from, user, amount) = {Vault}
    <2>1. UserScope(k) = IF k \in ActionScopedTransfers THEN None ELSE client.vault
        BY DEF UserScope
    <2>2. Names(k, x, UserScope(k), from, user, amount)
        BY <2>1, <1>6, <1>7, <1>8 DEF Names
    <2> QED BY <2>2, TypedNames, Zenon
<1>11. posted.action.type \notin RootScoped
    BY <1>1, <1>3, UserNotRoot
<1> QED BY <1>9, <1>10, <1>11 DEF OneTarget

LEMMA ApprovalNamesNone ==
    /\ "fromSubAccount" \notin UserBuilds["approveAgent"] \cup UserSignedFields
    /\ "user" \notin UserBuilds["approveAgent"] \cup UserSignedFields
    /\ "amount" \notin UserBuilds["approveAgent"] \cup UserSignedFields
    /\ "approveAgent" \notin ActionScopedTransfers
BY DEF UserBuilds, UserSignedFields, ActionScopedTransfers

LEMMA TargetApproval ==
    ASSUME Config, NEW x, NEW given \in BOOLEAN, NEW nonce, MadeApproval(x, given, nonce)
    PROVE  OneTarget
<1> DEFINE k == "approveAgent"
           wire == UserWire(k, x, given, nonce)
<1>1. /\ posted.action = Approved(wire, given) /\ posted.vaultAddress = client.vault
      /\ call.kind = k
    BY DEF MadeApproval, Envelope
<1>2. ~IsL1
    BY <1>1, KindsDisjoint, ApproveIsUser DEF IsL1
<1>3. DOMAIN wire = UserBuilds[k] \cup UserSignedFields
    BY WireFields, Zenon
<1>4. wire["type"] = k
    BY WireType, Zenon
<1> HIDE DEF wire
<1>5. DOMAIN posted.action \subseteq UserBuilds[k] \cup UserSignedFields
    BY <1>1, <1>3, ApprovedKeeps
<1>6. /\ "fromSubAccount" \notin DOMAIN posted.action /\ "user" \notin DOMAIN posted.action
      /\ "amount" \notin DOMAIN posted.action
    BY <1>5, ApprovalNamesNone
<1>7. Named(posted) = NamedIn(client.vault, {}, {}, {})
    BY <1>1, <1>2, <1>6, NamedTyped DEF Value
<1>8. posted.action.type = k
    BY <1>1, <1>3, <1>4, ApprovedType DEF UserSignedFields
<1>9. k \notin RootScoped
    BY UserNotRoot, ApproveIsUser
<1>10. Named(posted) = {client.vault} \ {None, ""}
    BY <1>7 DEF NamedIn
<1>11. CASE client.vault = None
    BY <1>10, <1>11 DEF OneTarget
<1>12. CASE client.vault # None
    <2>1. client.vault = Vault
        BY <1>12 DEF Config
    <2>2. Named(posted) = {Vault}
        BY <1>10, <2>1, AccountsDiffer DEF Accounts
    <2> QED BY <1>8, <1>9, <1>12, <2>2 DEF OneTarget
<1> QED BY <1>11, <1>12

\* An envelope names the account of the client and no other; an action that
\* administers the main account names none.
THEOREM OneTargetCorrect == Spec => []OneTarget
<1>1. Made /\ Config => OneTarget
    BY TargetL1, TargetUser, TargetApproval DEF Made, OneTarget
<1> QED BY <1>1, MadeCorrect, PTL

\* Whichever method made it, an envelope acts for one account under one nonce.
THEOREM SaysOneThingCorrect == Spec => []SaysOneThing
<1>1. OneTarget /\ OneNonce => SaysOneThing
    BY DEF SaysOneThing
<1> QED BY <1>1, OneTargetCorrect, OneNonceCorrect, PTL
=============================================================================
