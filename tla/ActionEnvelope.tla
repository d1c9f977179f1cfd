--------------------------- MODULE ActionEnvelope ---------------------------
(***************************************************************************)
(* ActionEnvelope: one signed action from the method's arguments to its    *)
(* answer.  A method builds an action, draws or takes a nonce, decides for *)
(* which account the action is, signs, wraps all of it in an envelope and  *)
(* posts it; the exchange never sees what was signed, it recomputes that   *)
(* from the envelope.  The reply is admitted by the type the method        *)
(* expects and handed to the caller as the type the method declares.       *)
(*                                                                         *)
(* An action is a function from its field names to their values.  keccak   *)
(* and the signature scheme are taken to be injective: a signature is the  *)
(* content it was made over.  Which calls of several tasks interleave, and *)
(* what a closed transport or a rejected argument does, is in              *)
(* ExchangeClient; how numbers become text is in Encoding.                 *)
(***************************************************************************)
EXTENDS Integers

CONSTANTS Account,   \* ExchangeClient._account_address
          Vault,     \* the vault or subaccount of a client that has one
          Args,      \* the values of arguments
          Expiries,  \* the values of expires_after
          Replies,   \* the JSON bodies the exchange may answer with
          MaxNonce,  \* bound: the largest nonce
          MaxCalls,  \* bound: calls made
          None

ASSUME EnvelopeAssumption ==
    /\ Account # None /\ Vault # None /\ Account # Vault /\ Vault # ""
    /\ Args # {} /\ None \notin Args \cup Expiries
    /\ MaxNonce \in Nat
    /\ MaxCalls \in Nat

VARIABLES client,     \* the immutable vault and network of the client
          lastNonce,  \* ExchangeClient._last_nonce
          call,       \* the method last called: its kind, argument, optional given
          posted,     \* the envelope it posted
          signed,     \* the content its signature was made over
          reply,      \* the body that came back, or None
          outcome,    \* what became of the call
          calls

vars == <<client, lastNonce, call, posted, signed, reply, outcome, calls>>

-----------------------------------------------------------------------------
(* The actions the methods build.  A kind is the action type, except for   *)
(* userOutcome, which four methods build with different fields.            *)

\* The fields of the actions that are signed as a whole, without their type.
L1Builds ==
    [order |-> {"orders", "grouping"}, cancel |-> {"cancels"}, cancelByCloid |-> {"cancels"},
     modify |-> {"oid", "order"}, batchModify |-> {"modifies"}, scheduleCancel |-> {},
     updateLeverage |-> {"asset", "isCross", "leverage"},
     updateIsolatedMargin |-> {"asset", "isBuy", "ntli"},
     twapOrder |-> {"twap"}, twapCancel |-> {"a", "t"},
     setReferrer |-> {"code"}, createSubAccount |-> {"name"},
     vaultTransfer |-> {"vaultAddress", "isDeposit", "usd"},
     hip3LiquidatorTransfer |-> {"dex", "ntl", "isDeposit"},
     reserveRequestWeight |-> {"weight"}, noop |-> {}, evmUserModify |-> {"usingBigBlocks"},
     agentSendAsset |-> {"destination", "sourceDex", "destinationDex", "token", "amount",
                         "fromSubAccount", "nonce"},
     agentEnableDexAbstraction |-> {}, agentSetAbstraction |-> {"abstraction"},
     splitOutcome |-> {"splitOutcome"}, mergeOutcome |-> {"mergeOutcome"},
     mergeQuestion |-> {"mergeQuestion"}, negateOutcome |-> {"negateOutcome"},
     validatorL1Stream |-> {"riskFreeRate"}, authorizeAqav2Role |-> {"token", "role"},
     claimRewards |-> {}]

\* The fields of the actions that are signed as typed data, without their type.
UserBuilds ==
    [usdSend |-> {"amount", "destination", "time"},
     spotSend |-> {"destination", "token", "amount", "time"},
     withdraw3 |-> {"amount", "time", "destination"},
     usdClassTransfer |-> {"amount", "toPerp", "nonce"},
     sendAsset |-> {"token", "amount", "destination", "sourceDex", "destinationDex",
                    "fromSubAccount", "nonce"},
     sendToEvmWithData |-> {"token", "amount", "sourceDex", "destinationRecipient",
                            "addressEncoding", "destinationChainId", "gasLimit", "data", "nonce"},
     cDeposit |-> {"wei", "nonce"}, cWithdraw |-> {"wei", "nonce"},
     tokenDelegate |-> {"validator", "wei", "isUndelegate", "nonce"},
     approveAgent |-> {"agentAddress", "agentName", "nonce"},
     approveBuilderFee |-> {"maxFeeRate", "builder", "nonce"},
     convertToMultiSigUser |-> {"signers", "nonce"},
     userDexAbstraction |-> {"user", "enabled", "nonce"},
     userSetAbstraction |-> {"user", "abstraction", "nonce"}]

L1Kinds == DOMAIN L1Builds
UserKinds == DOMAIN UserBuilds

\* The field a method adds only if the caller gave the argument.
Optional ==
    [k \in L1Kinds |-> CASE k = "order" -> {"builder"}
                         [] k \in {"cancel", "cancelByCloid"} -> {"f"}
                         [] k = "scheduleCancel" -> {"time"}
                         [] k = "twapOrder" -> {"details"}
                         [] OTHER -> {}]

OutcomeKinds == {"splitOutcome", "mergeOutcome", "mergeQuestion", "negateOutcome"}
ActionType(k) == IF k \in OutcomeKinds THEN "userOutcome" ELSE k

\* self._vault_address or ""
SubAccount == IF client.vault = None THEN "" ELSE client.vault

\* ExchangeClient.execution_address
ExecutionAddress == IF client.vault = None THEN Account ELSE client.vault

L1Action(k, x, given, nonce) ==
    [f \in {"type"} \cup L1Builds[k] \cup (IF given THEN Optional[k] ELSE {}) |->
        CASE f = "type" -> ActionType(k)
          [] f = "nonce" -> nonce
          [] f = "fromSubAccount" -> SubAccount
          [] OTHER -> x]

\* usd_class_transfer: the amount carries the subaccount in its text.
Amount(k, x) == <<x, IF k = "usdClassTransfer" THEN client.vault ELSE None>>

\* An optional argument that is not given: withdraw goes to the main account,
\* approve_agent signs an empty name.
UserAction(k, x, given, nonce) ==
    [f \in {"type"} \cup UserBuilds[k] |->
        CASE f = "type" -> k
          [] f \in {"nonce", "time"} -> nonce
          [] f = "amount" -> Amount(k, x)
          [] f = "fromSubAccount" -> SubAccount
          [] f = "user" -> ExecutionAddress
          [] k = "withdraw3" /\ f = "destination" /\ ~given -> Account
          [] k = "approveAgent" /\ f = "agentName" /\ ~given -> ""
          [] OTHER -> x]

-----------------------------------------------------------------------------
(* Signing.                                                                *)

RootScoped == {"createSubAccount", "evmUserModify", "reserveRequestWeight", "setReferrer",
               "vaultTransfer"}
ActionScopedTransfers == {"sendAsset", "usdClassTransfer"}

SignatureSource == IF client.network = "mainnet" THEN "a" ELSE "b"
Chain(network) == IF network = "mainnet" THEN "Mainnet" ELSE "Testnet"

\* hash_action and sign_exchange_action: all of the action, the nonce, the
\* vault, and the expiry if there is one.
L1Content(action, vault, nonce, source, expires) ==
    [scheme |-> "agent", source |-> source, action |-> action, nonce |-> nonce,
     vault |-> vault, expires |-> expires]

\* Mutant of SigningSpec: the subaccount of sendAsset is not signed.
SigningSpecShort(k) ==
    ({"hyperliquidChain"} \cup UserBuilds[k]) \ {"fromSubAccount"}

\* The message types of typed data, field by field.
SigningSpec(k) ==
    {"hyperliquidChain"} \cup
    (CASE k \in {"usdSend", "withdraw3"} -> {"destination", "amount", "time"}
      [] k = "spotSend" -> {"destination", "token", "amount", "time"}
      [] k = "usdClassTransfer" -> {"amount", "toPerp", "nonce"}
      [] k = "sendAsset" -> {"destination", "sourceDex", "destinationDex", "token", "amount",
                             "fromSubAccount", "nonce"}
      [] k = "sendToEvmWithData" -> {"token", "amount", "sourceDex", "destinationRecipient",
             "addressEncoding", "destinationChainId", "gasLimit", "data", "nonce"}
      [] k \in {"cDeposit", "cWithdraw"} -> {"wei", "nonce"}
      [] k = "tokenDelegate" -> {"validator", "wei", "isUndelegate", "nonce"}
      [] k = "approveAgent" -> {"agentAddress", "agentName", "nonce"}
      [] k = "approveBuilderFee" -> {"maxFeeRate", "builder", "nonce"}
      [] k = "convertToMultiSigUser" -> {"signers", "nonce"}
      [] k = "userDexAbstraction" -> {"user", "enabled", "nonce"}
      [] k = "userSetAbstraction" -> {"user", "abstraction", "nonce"})

\* _sign_user_action: the wire action, and the typed data made from it.
WireAction(action) ==
    [f \in DOMAIN action \cup {"signatureChainId", "hyperliquidChain"} |->
        CASE f = "signatureChainId" -> "0x66eee"
          [] f = "hyperliquidChain" -> Chain(client.network)
          [] OTHER -> action[f]]

UserContent(k, wire) ==
    [scheme |-> "typed", primary |-> k, message |-> [f \in SigningSpec(k) |-> wire[f]]]

Without(action, field) == [f \in DOMAIN action \ {field} |-> action[f]]

-----------------------------------------------------------------------------
(* The operations.                                                         *)

Init ==
    /\ client \in [vault : {None, Vault}, network : {"mainnet", "testnet"}]
    /\ lastNonce = 0
    /\ call = None /\ posted = None /\ signed = None /\ reply = None
    /\ outcome = "none"
    /\ calls = 0

Post(k, x, given, envelope, content) ==
    /\ outcome # "flying"
    /\ calls < MaxCalls
    /\ calls' = calls + 1
    /\ call' = [kind |-> k, arg |-> x, given |-> given]
    /\ posted' = envelope
    /\ signed' = content
    /\ reply' = None
    /\ outcome' = "flying"
    /\ UNCHANGED client

Envelope(action, nonce, vault, expires) ==
    [action |-> action, nonce |-> nonce, vaultAddress |-> vault, expiresAfter |-> expires]

\* Mutant of L1Scope: a root action goes out for the vault.
L1ScopeAll(k) == client.vault

L1Scope(k) == IF ActionType(k) \in RootScoped THEN None ELSE client.vault

\* _submit_action with the nonce given to it.
SubmitWith(k, x, given, nonce, expires) ==
    LET action == L1Action(k, x, given, nonce)
    IN  Post(k, x, given, Envelope(action, nonce, L1Scope(k), expires),
             L1Content(action, L1Scope(k), nonce, SignatureSource, expires))

\* Every method that draws the next nonce and signs the whole action; the wall
\* clock decides how far the nonce moves.
SubmitAction(k, x, given, nonce, expires) ==
    /\ nonce > lastNonce
    /\ lastNonce' = nonce
    /\ SubmitWith(k, x, given, nonce, expires)

\* noop with a nonce of the caller's.
Noop(nonce, expires) ==
    /\ lastNonce' = IF nonce > lastNonce THEN nonce ELSE lastNonce
    /\ SubmitWith("noop", CHOOSE x \in Args : TRUE, FALSE, nonce, expires)

\* _submit_user_action: the transfers name their subaccount in the action.
UserScope(k) == IF k \in ActionScopedTransfers THEN None ELSE client.vault

\* _submit_user_action: every method signed as typed data but approve_agent.
SubmitUserAction(k, x, given, nonce) ==
    LET wire == WireAction(UserAction(k, x, given, nonce))
    IN  /\ k # "approveAgent"
        /\ nonce > lastNonce
        /\ lastNonce' = nonce
        /\ Post(k, x, given, Envelope(wire, nonce, UserScope(k), None), UserContent(k, wire))

\* Mutant of Approved: the name is dropped whether it was given or not.
ApprovedNameless(wire, given) == Without(wire, "agentName")

\* wire_action.pop("agentName"): a name that is not given was signed as empty
\* and is not posted.
Approved(wire, given) == IF given THEN wire ELSE Without(wire, "agentName")

ApproveAgent(x, given, nonce) ==
    LET wire == WireAction(UserAction("approveAgent", x, given, nonce))
    IN  /\ nonce > lastNonce
        /\ lastNonce' = nonce
        /\ Post("approveAgent", x, given,
                Envelope(Approved(wire, given), nonce, client.vault, None),
                UserContent("approveAgent", wire))

-----------------------------------------------------------------------------
(* The reply.  An item of a reply is an object with some of the keys error,*)
(* resting, filled and running (sound: the values under them have their    *)
(* declared types), or a tag.  A list is the set of its items.             *)

\* Mutant of ExpectedType: a batch of modifications is answered like one.
ExpectedTypeDefault(k) ==
    CASE k = "order" -> "order"
      [] k \in {"cancel", "cancelByCloid"} -> "cancel"
      [] k \in {"twapOrder", "twapCancel"} -> k
      [] OTHER -> "default"

\* The response type each method passes on.
ExpectedType(k) ==
    CASE k \in {"order", "batchModify"} -> "order"
      [] k \in {"cancel", "cancelByCloid"} -> "cancel"
      [] k \in {"twapOrder", "twapCancel"} -> k
      [] OTHER -> "default"

OrderKeys == {"error", "resting", "filled"}
TwapKeys == {"error", "running"}
One(s) == \E e \in s : s = {e}

IsErrorStatus(i) == "error" \in i.keys /\ i.sound
IsCancelStatus(i) == i.tag = "success" \/ IsErrorStatus(i)
IsOrderStatus(i) ==
    \/ i.tag \in {"waitingForFill", "waitingForTrigger"}
    \/ One(i.keys \cap OrderKeys) /\ i.sound
IsTwapOrderStatus(i) == One(i.keys \cap TwapKeys) /\ i.sound

\* Mutant of Acknowledged: a list may be empty and only one item is looked at.
AcknowledgedSome(r, expected) ==
    CASE expected = "default" -> TRUE
      [] expected = "order" -> r.key = "statuses" /\ \E i \in r.items : IsOrderStatus(i)
      [] expected = "cancel" -> r.key = "statuses" /\ \E i \in r.items : IsCancelStatus(i)
      [] expected = "twapOrder" -> r.key = "status" /\ \A i \in r.items : IsTwapOrderStatus(i)
      [] expected = "twapCancel" -> r.key = "status" /\ \A i \in r.items : IsCancelStatus(i)

\* expect_action_response on the data of a reply of the expected type.
Acknowledged(r, expected) ==
    CASE expected = "default" -> TRUE
      [] expected = "order" ->
             r.key = "statuses" /\ r.items # {} /\ \A i \in r.items : IsOrderStatus(i)
      [] expected = "cancel" ->
             r.key = "statuses" /\ r.items # {} /\ \A i \in r.items : IsCancelStatus(i)
      [] expected = "twapOrder" -> r.key = "status" /\ \A i \in r.items : IsTwapOrderStatus(i)
      [] expected = "twapCancel" -> r.key = "status" /\ \A i \in r.items : IsCancelStatus(i)

\* expect_action_response: a rejection with its text, or an acknowledgement.
Expected(r, expected) ==
    \/ r.status = "err" /\ r.response = "text"
    \/ /\ r.status = "ok" /\ r.response = "object"
       /\ r.type = expected
       /\ Acknowledged(r, expected)

Told(answer, body) ==
    /\ outcome = "flying"
    /\ outcome' = answer
    /\ reply' = body
    /\ UNCHANGED <<client, lastNonce, call, posted, signed, calls>>

\* The body of a reply: returned, or IndeterminateActionError.
Answer(r) ==
    Told(IF Expected(r, ExpectedType(call.kind)) THEN "returned" ELSE "indeterminate", r)

\* A timeout, an HTTP error, or a body that is not JSON.
NoReply == Told("indeterminate", None)

Next ==
    \/ \E k \in L1Kinds, x \in Args, given \in BOOLEAN, nonce \in 0 .. MaxNonce,
          expires \in Expiries \cup {None} : SubmitAction(k, x, given, nonce, expires)
    \/ \E nonce \in 0 .. MaxNonce, expires \in Expiries \cup {None} : Noop(nonce, expires)
    \/ \E k \in UserKinds, x \in Args, given \in BOOLEAN, nonce \in 0 .. MaxNonce :
          SubmitUserAction(k, x, given, nonce)
    \/ \E x \in Args, given \in BOOLEAN, nonce \in 0 .. MaxNonce : ApproveAgent(x, given, nonce)
    \/ \E r \in Replies : Answer(r)
    \/ NoReply

Spec == Init /\ [][Next]_vars

-----------------------------------------------------------------------------
(* What the exchange makes of an envelope (outside the program): the       *)
(* content it requires a signature over, on its own network.               *)

IsL1 == call.kind \in L1Kinds

Recomputed(envelope, network) ==
    IF IsL1
    THEN [scheme |-> "agent", source |-> IF network = "mainnet" THEN "a" ELSE "b",
          action |-> envelope.action, nonce |-> envelope.nonce,
          vault |-> envelope.vaultAddress, expires |-> envelope.expiresAfter]
    ELSE [scheme |-> "typed", primary |-> envelope.action.type,
          message |-> [f \in SigningSpec(envelope.action.type) |->
                          IF f = "hyperliquidChain" THEN Chain(network)
                          ELSE IF f \in DOMAIN envelope.action THEN envelope.action[f] ELSE ""]]

\* The accounts an envelope names as the one to act for.
Named(envelope) ==
    LET action == envelope.action
        Field(f) == IF f \in DOMAIN action THEN {action[f]} ELSE {}
    IN  ({envelope.vaultAddress} \cup Field("fromSubAccount") \cup Field("user")
         \cup (IF ~IsL1 /\ "amount" \in DOMAIN action THEN {action.amount[2]} ELSE {}))
        \ {None, ""}

(* What the types declare, past the casts of the code.                     *)

\* The fields of the wire actions of typed data.
DeclaredUser ==
    [usdSend |-> {"amount", "destination", "time"},
     spotSend |-> {"destination", "token", "amount", "time"},
     withdraw3 |-> {"amount", "time", "destination"},
     usdClassTransfer |-> {"amount", "toPerp", "nonce"},
     sendAsset |-> {"token", "amount", "destination", "sourceDex", "destinationDex",
                    "fromSubAccount", "nonce"},
     sendToEvmWithData |-> {"token", "amount", "sourceDex", "destinationRecipient",
                            "addressEncoding", "destinationChainId", "gasLimit", "data", "nonce"},
     cDeposit |-> {"wei", "nonce"}, cWithdraw |-> {"wei", "nonce"},
     tokenDelegate |-> {"validator", "wei", "isUndelegate", "nonce"},
     approveAgent |-> {"agentAddress", "agentName", "nonce"},
     approveBuilderFee |-> {"maxFeeRate", "builder", "nonce"},
     convertToMultiSigUser |-> {"signers", "nonce"},
     userDexAbstraction |-> {"user", "enabled", "nonce"},
     userSetAbstraction |-> {"user", "abstraction", "nonce"}]

NotRequired == {"agentName"}
UserSignedFields == {"type", "signatureChainId", "hyperliquidChain"}

\* The statuses each kind of acknowledgement declares.
DeclaredStatus(i, expected) ==
    CASE expected = "order" ->
             \/ i.tag \in {"waitingForFill", "waitingForTrigger"}
             \/ i.keys \cap {"resting", "filled", "error"} # {} /\ i.sound
      [] expected = "twapOrder" -> i.keys \cap {"running", "error"} # {} /\ i.sound
      [] OTHER -> i.tag = "success" \/ ("error" \in i.keys /\ i.sound)

\* ExchangeError, or the success a method's annotation names.
DeclaredReply(r, expected) ==
    \/ r.status = "err" /\ r.response = "text"
    \/ /\ r.status = "ok" /\ r.response = "object" /\ r.type = expected
       /\ \/ expected = "default"
          \/ /\ r.key = IF expected \in {"order", "cancel"} THEN "statuses" ELSE "status"
             /\ \A i \in r.items : DeclaredStatus(i, expected)

\* The reply type in each method's annotation, by action.
Annotated(k) ==
    CASE k \in {"order", "batchModify"} -> "order"
      [] k \in {"cancel", "cancelByCloid"} -> "cancel"
      [] k = "twapOrder" -> "twapOrder"
      [] k = "twapCancel" -> "twapCancel"
      [] OTHER -> "default"

\* An answer the exchange gives: a rejection, or one unambiguous, well formed
\* status for each item of the action.
Unambiguous(r) ==
    /\ r.items # {}
    /\ \A i \in r.items : i.sound /\ (i.keys = {} \/ One(i.keys))

-----------------------------------------------------------------------------
TypeOK ==
    /\ client \in [vault : {None, Vault}, network : {"mainnet", "testnet"}]
    /\ lastNonce \in 0 .. MaxNonce
    /\ calls \in 0 .. MaxCalls
    /\ outcome \in {"none", "flying", "returned", "indeterminate"}
    /\ reply \in Replies \cup {None}
    /\ outcome # "none" =>
          /\ call.kind \in L1Kinds \cup UserKinds /\ call.given \in BOOLEAN
          /\ posted.nonce \in 0 .. MaxNonce
          /\ posted.vaultAddress \in {None, client.vault}

\* What the exchange recomputes from the envelope is what was signed, whatever
\* the method dropped, added or left null after it signed, and only on the
\* network the client was made for.
Verifies ==
    outcome # "none" =>
        \A network \in {"mainnet", "testnet"} :
            Recomputed(posted, network) = signed <=> network = client.network

\* An envelope names no account other than the execution address; one that
\* administers the main account names none, any other of a client with a vault
\* names it, so nothing meant for the vault is done for the main account.
OneTarget ==
    outcome # "none" =>
        IF client.vault = None
        THEN Named(posted) \subseteq {Account}
        ELSE Named(posted) = IF posted.action.type \in RootScoped THEN {} ELSE {Vault}

\* The action names the nonce its envelope carries: a request is replayed under
\* neither.
OneNonce ==
    outcome # "none" =>
        \A f \in DOMAIN posted.action :
            (f = "nonce" \/ (~IsL1 /\ f = "time")) => posted.action[f] = posted.nonce

\* The places that say for whom and under which number an action is done agree:
\* no envelope acts for two accounts or under two nonces.
SaysOneThing == OneTarget /\ OneNonce

\* All of an action of typed data but its type and chain id is under the
\* signature: no field the method builds is left out of the message types.
AllSigned ==
    outcome # "none" /\ ~IsL1 =>
        DOMAIN posted.action \ DOMAIN signed.message \subseteq {"type", "signatureChainId"}

\* The wire action is the one its type declares, which the code only casts to.
AsDeclared ==
    outcome # "none" /\ ~IsL1 =>
        LET fields == DeclaredUser[call.kind] \cup UserSignedFields
        IN  /\ DOMAIN posted.action \subseteq fields
            /\ fields \ DOMAIN posted.action \subseteq NotRequired

\* The fields of a typed-data action are listed three times, where it is built, in
\* its message types and in its declared type: the lists agree.
DeclaredAndSigned == AllSigned /\ AsDeclared

\* A method returns only what its annotation declares: the caller may read the
\* statuses without a check of its own.
ReturnsAsDeclared ==
    outcome = "returned" => DeclaredReply(reply, Annotated(call.kind))

\* An unambiguous answer of the declared type is returned, never reported as an
\* action whose fate is unknown, which the caller would have to reconcile.
AnswerIsTrusted ==
    outcome = "indeterminate" /\ reply # None =>
        ~(Unambiguous(reply) /\ DeclaredReply(reply, Annotated(call.kind)))
=============================================================================
