--------------------------- MODULE ExchangeClient ---------------------------
(***************************************************************************)
(* ExchangeClient: from a method call to what its caller is told.  Calls   *)
(* of several tasks share one nonce stream and one transport; a call runs  *)
(* without suspension up to the POST, and what the exchange does with the  *)
(* signed request and what the caller hears of it are separate events.     *)
(*                                                                         *)
(* The exchange, the network and the wall clock are outside the program:   *)
(* they are modelled by what the client can observe of them.               *)
(***************************************************************************)
EXTENDS Integers

CONSTANTS Tasks,           \* the tasks that share the client
          ExplicitNonces,  \* nonces a caller passes to noop
          NonceLimit,      \* the first nonce that does not fit: 2^64 in the code
          MaxClock,        \* bound: the latest time in milliseconds
          MaxCalls,        \* bound: calls made
          MaxRestarts,     \* bound: process restarts
          None

Calls == 1 .. MaxCalls

ASSUME ExchangeAssumption ==
    /\ ExplicitNonces \subseteq Int
    /\ NonceLimit \in Nat
    /\ MaxClock \in Nat \ {0}
    /\ MaxCalls \in Nat
    /\ MaxRestarts \in Nat
    /\ None \notin Int

VARIABLES clock,      \* time_ns() // 1_000_000
          lastNonce,  \* ExchangeClient._last_nonce
          client,     \* which client object of the key is live (restarts)
          transport,  \* whether the transport is open
          current,    \* the call each task is suspended in, or None
          requests,   \* the nonce of each call, where from, and of which client
          delivery,   \* what became of each call's request
          outcome,    \* what the caller of each call was told
          calls       \* calls made so far

vars == <<clock, lastNonce, client, transport, current, requests, delivery, outcome, calls>>

-----------------------------------------------------------------------------
Larger(a, b) == IF a >= b THEN a ELSE b

\* Mutant of NextNonce: two calls in one millisecond get one nonce.
NextNonceStandsStill == Larger(clock, lastNonce)

\* max(time_ns() // 1_000_000, self._last_nonce + 1)
NextNonce == Larger(clock, lastNonce + 1)

Drawn(nonce) == [nonce |-> nonce, by |-> "client", client |-> client]
Chosen(nonce) == [nonce |-> nonce, by |-> "caller", client |-> client]
NoRequest == [nonce |-> None, by |-> "nobody", client |-> 0]

Init ==
    /\ clock = 1
    /\ lastNonce = 0
    /\ client = 0
    /\ transport = "open"
    /\ current = [t \in Tasks |-> None]
    /\ requests = [c \in Calls |-> NoRequest]
    /\ delivery = [c \in Calls |-> "unsent"]
    /\ outcome = [c \in Calls |-> "none"]
    /\ calls = 0

-----------------------------------------------------------------------------
(* A method call up to its first suspension.                               *)

NewCall(t, c) ==
    /\ current[t] = None
    /\ c = calls + 1
    /\ calls' = c
    /\ UNCHANGED <<clock, client, transport>>

\* The call ends before anything is sent: ValueError, OverflowError or, from a
\* transport that is not open, RuntimeError.
EndLocally(c) ==
    /\ outcome' = [outcome EXCEPT ![c] = "local"]
    /\ UNCHANGED <<current, delivery>>

\* nonce.to_bytes(8, "big") and the uint64 of typed data raise on anything else.
Fits(nonce) == nonce \in 0 .. NonceLimit - 1

\* Sign the action and post the envelope: signing raises if the nonce does not
\* fit, posting if the transport is not open.
SignAndPost(t, c, nonce) ==
    IF Fits(nonce) /\ transport = "open"
    THEN /\ delivery' = [delivery EXCEPT ![c] = "flying"]
         /\ current' = [current EXCEPT ![t] = c]
         /\ UNCHANGED outcome
    ELSE EndLocally(c)

\* Arguments that are checked before a nonce is drawn are wrong.
RejectEarly(t, c) ==
    /\ NewCall(t, c)
    /\ EndLocally(c)
    /\ UNCHANGED <<lastNonce, requests>>

Draw(c) ==
    /\ lastNonce' = NextNonce
    /\ requests' = [requests EXCEPT ![c] = Drawn(NextNonce)]

\* The transfers, staking actions and approvals format or encode an argument
\* after they drew the nonce; if that raises the nonce is used up.
RejectLate(t, c) ==
    /\ NewCall(t, c)
    /\ Draw(c)
    /\ EndLocally(c)

\* A method that draws the next nonce of the stream, signs and posts.
Submit(t, c) ==
    /\ NewCall(t, c)
    /\ Draw(c)
    /\ SignAndPost(t, c, NextNonce)

\* Mutant of Noop: the stream does not learn of the nonce.
NoopForgets(t, c, nonce) ==
    /\ nonce >= 0
    /\ NewCall(t, c)
    /\ requests' = [requests EXCEPT ![c] = Chosen(nonce)]
    /\ SignAndPost(t, c, nonce)
    /\ UNCHANGED lastNonce

\* Mutant of Noop: the stream goes back to a smaller nonce.
NoopSetsBack(t, c, nonce) ==
    /\ nonce >= 0
    /\ NewCall(t, c)
    /\ lastNonce' = nonce
    /\ requests' = [requests EXCEPT ![c] = Chosen(nonce)]
    /\ SignAndPost(t, c, nonce)

\* noop with a nonce of the caller's: the stream goes on after it.
Noop(t, c, nonce) ==
    /\ nonce >= 0
    /\ NewCall(t, c)
    /\ lastNonce' = Larger(lastNonce, nonce)
    /\ requests' = [requests EXCEPT ![c] = Chosen(nonce)]
    /\ SignAndPost(t, c, nonce)

-----------------------------------------------------------------------------
(* The suspended call: a reply, no trusted reply, or a cancellation.       *)

Resolve(t, told) ==
    /\ current[t] # None
    /\ outcome' = [outcome EXCEPT ![current[t]] = told]
    /\ current' = [current EXCEPT ![t] = None]
    /\ UNCHANGED <<clock, client, transport, lastNonce, requests, delivery, calls>>

\* The reply arrives and expect_action_response accepts it.
Executed(t) == current[t] # None /\ delivery[current[t]] = "executed" /\ Resolve(t, "ok")
Refused(t) == current[t] # None /\ delivery[current[t]] \in {"reused", "refused"} /\ Resolve(t, "err")

\* Mutant of NoTrustedReply: a timeout is reported as a rejection.
TimeoutIsRejection(t) == Resolve(t, "err")

\* Timeout, HTTP failure, or a reply that is not a trusted one, at any moment
\* after the POST: IndeterminateActionError.
NoTrustedReply(t) == Resolve(t, "indeterminate")

\* CancelledError passes through _post_envelope.
Cancel(t) == Resolve(t, "cancelled")

\* AsyncHyperliquid.close(); the requests in flight will fail.
CloseTransport ==
    /\ transport = "open"
    /\ transport' = "closed"
    /\ UNCHANGED <<clock, client, lastNonce, current, requests, delivery, outcome, calls>>

-----------------------------------------------------------------------------
(* Outside the program.                                                    *)

\* The wall clock moves on, or is set back.
Tick ==
    /\ \E now \in 1 .. MaxClock : now # clock /\ now <= clock + 1 /\ clock' = now
    /\ UNCHANGED <<client, transport, lastNonce, current, requests, delivery, outcome, calls>>

Abandoned(c) == \E t \in Tasks : current[t] = c

\* The process dies, and a new one makes a client for the same key.
Restart ==
    /\ client < MaxRestarts
    /\ client' = client + 1
    /\ lastNonce' = 0
    /\ transport' = "open"
    /\ current' = [t \in Tasks |-> None]
    /\ outcome' = [c \in Calls |-> IF Abandoned(c) THEN "crashed" ELSE outcome[c]]
    /\ UNCHANGED <<clock, requests, delivery, calls>>

NonceUsed(nonce) ==
    \E c \in Calls : delivery[c] \in {"executed", "refused"} /\ requests[c].nonce = nonce

\* A request reaches the exchange, perhaps long after its caller gave up, perhaps
\* after a later one; a lost request never does.  A nonce is good for one
\* request, and a request may be refused on its merits.
Deliver(c) ==
    /\ delivery[c] = "flying"
    /\ \E verdict \in {"executed", "refused", "reused"} :
          /\ verdict = "reused" <=> NonceUsed(requests[c].nonce)
          /\ delivery' = [delivery EXCEPT ![c] = verdict]
    /\ UNCHANGED <<clock, client, transport, lastNonce, current, requests, outcome, calls>>

-----------------------------------------------------------------------------
Call(t, c) ==
    \/ RejectEarly(t, c)
    \/ RejectLate(t, c)
    \/ Submit(t, c)
    \/ \E nonce \in ExplicitNonces : Noop(t, c, nonce)

Next ==
    \/ \E t \in Tasks :
          \/ \E c \in Calls : Call(t, c)
          \/ Executed(t)
          \/ Refused(t)
          \/ NoTrustedReply(t)
          \/ Cancel(t)
    \/ \E c \in Calls : Deliver(c)
    \/ CloseTransport
    \/ Tick
    \/ Restart

Spec == Init /\ [][Next]_vars

-----------------------------------------------------------------------------
(* Properties.                                                             *)

Nonces == Nat \union {None}
Requests == [nonce : Nonces, by : {"client", "caller", "nobody"}, client : 0 .. MaxRestarts]

\* The type of the state.
TypeOK ==
    /\ clock \in 1 .. MaxClock
    /\ lastNonce \in Nat
    /\ client \in 0 .. MaxRestarts
    /\ transport \in {"open", "closed"}
    /\ current \in [Tasks -> Calls \union {None}]
    /\ requests \in [Calls -> Requests]
    /\ delivery \in [Calls -> {"unsent", "flying", "executed", "refused", "reused"}]
    /\ outcome \in [Calls ->
          {"none", "local", "ok", "err", "indeterminate", "cancelled", "crashed"}]
    /\ calls \in 0 .. MaxCalls

\* A nonce the client draws is larger than every nonce the same client used
\* before, also when the clock stands still or is set back, when calls overlap,
\* and when a caller spent a nonce of its own choice in a noop.
NoncesAdvance ==
    \A b, c \in Calls :
       ( /\ b < c
         /\ requests[b].by # "nobody"
         /\ requests[c].by = "client"
         /\ requests[b].client = requests[c].client )
       => requests[b].nonce < requests[c].nonce

\* What a caller is told is true: "ok" and "err" of what the exchange did, a local
\* error only of a request that was never sent and never will be; and nobody who
\* posted a request is left without being told.
HonestOutcome ==
    \A c \in Calls :
       /\ outcome[c] = "ok" => delivery[c] = "executed"
       /\ outcome[c] = "err" => delivery[c] \in {"reused", "refused"}
       /\ outcome[c] = "local" => delivery[c] = "unsent"
       /\ delivery[c] # "unsent" /\ outcome[c] = "none" => \E t \in Tasks : current[t] = c

\* The exchange finds a drawn nonce used only if the caller spent it in a noop or
\* another client of the same key drew it: never among the calls of one client,
\* in whatever order their requests arrive.
OnlyReuseIsRefused ==
    \A c \in Calls :
       delivery[c] = "reused" /\ requests[c].by = "client" =>
          \E b \in Calls \ {c} :
             /\ requests[b].nonce = requests[c].nonce
             /\ requests[b].by = "caller" \/ requests[b].client # requests[c].client

\* A nonce that does not fit its eight bytes is never sent, even after a noop took
\* the stream to the limit.
PostedNoncesFit ==
    \A c \in Calls : delivery[c] # "unsent" => requests[c].nonce \in 0 .. NonceLimit - 1

-----------------------------------------------------------------------------
(* The inductive invariant the proofs use, by parts.                       *)

\* A nonce belongs to a call that was made, and no nonce of the live client is
\* above the last one.
NonceInv ==
    \A c \in Calls :
       IF requests[c].by = "nobody"
       THEN requests[c].nonce = None /\ delivery[c] = "unsent"
       ELSE /\ c <= calls
            /\ requests[c].nonce \in Nat
            /\ requests[c].client <= client
            /\ requests[c].client = client => requests[c].nonce <= lastNonce

\* Each task is suspended in a posted call of its own that nobody was told about.
CallInv ==
    /\ \A c \in Calls : c > calls => outcome[c] = "none"
    /\ \A t \in Tasks :
          current[t] # None =>
             /\ current[t] <= calls
             /\ delivery[current[t]] # "unsent"
             /\ outcome[current[t]] = "none"
             /\ \A u \in Tasks : current[u] = current[t] => u = t

ExchangeInv ==
    /\ TypeOK
    /\ NonceInv
    /\ CallInv
    /\ NoncesAdvance
    /\ HonestOutcome
    /\ OnlyReuseIsRefused
    /\ PostedNoncesFit

=============================================================================
