------------------------ MODULE ExchangeClientProofs ------------------------
(***************************************************************************)
(* Proofs about ExchangeClient, for any number of tasks, calls, restarts   *)
(* and clock values.  ExchangeInv is inductive; the properties are parts   *)
(* of it.                                                                  *)
(***************************************************************************)
EXTENDS ExchangeClient, TLAPS

\* A call number after the last call has not been used: no request, nobody told,
\* nobody suspended in it.
LEMMA FreshCall ==
    ASSUME ExchangeInv, NEW c \in Calls, c > calls
    PROVE  /\ requests[c].by = "nobody"
           /\ requests[c].nonce = None
           /\ delivery[c] = "unsent"
           /\ outcome[c] = "none"
           /\ \A t \in Tasks : current[t] # c
BY ExchangeAssumption DEF ExchangeInv, NonceInv, CallInv, Calls, TypeOK

\* The number a call draws is above every earlier one.
LEMMA NextNonceAdvances ==
    ASSUME TypeOK PROVE NextNonce \in Nat /\ NextNonce > lastNonce
BY ExchangeAssumption DEF TypeOK, NextNonce, Larger

\* What the first step of a call does to the nonces.
LEMMA CallNonces ==
    ASSUME ExchangeInv, NEW t \in Tasks, NEW c \in Calls, Call(t, c)
    PROVE  /\ c = calls + 1
           /\ calls' = c
           /\ UNCHANGED <<clock, client, transport>>
           /\ lastNonce' \in Nat
           /\ lastNonce' >= lastNonce
           /\ \/ requests' = requests
              \/ \E n \in Nat :
                    /\ n <= lastNonce'
                    /\ \/ n > lastNonce /\ requests' = [requests EXCEPT ![c] = Drawn(n)]
                       \/ requests' = [requests EXCEPT ![c] = Chosen(n)]
<1>1. TypeOK  BY DEF ExchangeInv
<1>2. lastNonce \in Nat /\ NextNonce \in Nat /\ NextNonce > lastNonce
  BY <1>1, NextNonceAdvances DEF TypeOK
<1>3. ASSUME Draw(c)
      PROVE  /\ lastNonce' \in Nat
             /\ lastNonce' >= lastNonce
             /\ \E n \in Nat : /\ n <= lastNonce'
                              /\ n > lastNonce
                              /\ requests' = [requests EXCEPT ![c] = Drawn(n)]
  <2>. DEFINE n == NextNonce
  <2>1. n \in Nat /\ n > lastNonce /\ lastNonce' = n  BY <1>2, <1>3 DEF Draw
  <2>2. requests' = [requests EXCEPT ![c] = Drawn(n)]  BY <1>3 DEF Draw
  <2>3. n <= lastNonce' /\ lastNonce' \in Nat /\ lastNonce' >= lastNonce  BY <1>2, <2>1
  <2>. HIDE DEF n
  <2>. QED  BY <2>1, <2>2, <2>3, Zenon
<1>4. CASE RejectEarly(t, c)  BY <1>2, <1>4 DEF RejectEarly, NewCall
<1>5. CASE RejectLate(t, c) \/ Submit(t, c)
  BY <1>2, <1>3, <1>5 DEF RejectLate, Submit, NewCall
<1>6. CASE \E nonce \in ExplicitNonces : Noop(t, c, nonce)
  <2>1. PICK nonce \in ExplicitNonces : Noop(t, c, nonce)  BY <1>6
  <2>2. nonce \in Nat  BY <2>1, ExchangeAssumption DEF Noop
  <2>3. lastNonce' \in Nat /\ lastNonce' >= lastNonce /\ nonce <= lastNonce'
    BY <1>2, <2>1, <2>2 DEF Noop, Larger
  <2>4. c = calls + 1 /\ calls' = c /\ UNCHANGED <<clock, client, transport>>
    BY <2>1 DEF Noop, NewCall
  <2>5. requests' = [requests EXCEPT ![c] = Chosen(nonce)]  BY <2>1 DEF Noop
  <2>. QED  BY <2>2, <2>3, <2>4, <2>5, Zenon
<1>. QED  BY <1>3, <1>4, <1>5, <1>6 DEF Call

\* The first step of a call either ends it, with nothing sent, or posts a request
\* whose nonce fits and leaves the task suspended.
LEMMA CallPosts ==
    ASSUME ExchangeInv, NEW t \in Tasks, NEW c \in Calls, Call(t, c)
    PROVE  \/ /\ UNCHANGED <<current, delivery>>
              /\ outcome' = [outcome EXCEPT ![c] = "local"]
           \/ /\ UNCHANGED outcome
              /\ delivery' = [delivery EXCEPT ![c] = "flying"]
              /\ current[t] = None
              /\ current' = [current EXCEPT ![t] = c]
              /\ Fits(requests'[c].nonce)
              /\ requests'[c].by # "nobody"
<1>1. requests \in [Calls -> Requests]  BY DEF ExchangeInv, TypeOK
<1>2. CASE RejectEarly(t, c)  BY <1>2 DEF RejectEarly, EndLocally
<1>3. CASE RejectLate(t, c)   BY <1>3 DEF RejectLate, EndLocally
<1>4. CASE Submit(t, c)
  BY <1>1, <1>4 DEF Submit, NewCall, Draw, SignAndPost, EndLocally, Drawn
<1>5. CASE \E nonce \in ExplicitNonces : Noop(t, c, nonce)
  BY <1>1, <1>5 DEF Noop, NewCall, SignAndPost, EndLocally, Chosen
<1>. QED  BY <1>2, <1>3, <1>4, <1>5 DEF Call

\* Every way a posted call ends is a Resolve that tells the truth.
LEMMA Resolution ==
    ASSUME NEW t \in Tasks,
           Executed(t) \/ Refused(t) \/ NoTrustedReply(t) \/ Cancel(t)
    PROVE  \E told \in {"ok", "err", "indeterminate", "cancelled"} :
              /\ Resolve(t, told)
              /\ told = "ok" => delivery[current[t]] = "executed"
              /\ told = "err" => delivery[current[t]] \in {"reused", "refused"}
BY DEF Executed, Refused, NoTrustedReply, Cancel

-----------------------------------------------------------------------------
\* The initial state.
LEMMA ExchangeInit == Init => ExchangeInv
<1>. SUFFICES ASSUME Init PROVE ExchangeInv  OBVIOUS
<1>. USE ExchangeAssumption DEF Init, NoRequest
<1>1. TypeOK           BY DEF TypeOK, Requests, Nonces
<1>2. NonceInv         BY DEF NonceInv
<1>3. CallInv          BY DEF CallInv
<1>4. NoncesAdvance    BY DEF NoncesAdvance
<1>5. HonestOutcome /\ OnlyReuseIsRefused /\ PostedNoncesFit
  BY DEF HonestOutcome, OnlyReuseIsRefused, PostedNoncesFit
<1>. QED  BY <1>1, <1>2, <1>3, <1>4, <1>5 DEF ExchangeInv

\* The first step of a call preserves the invariant.
LEMMA CallStep ==
    ASSUME ExchangeInv, NEW t \in Tasks, NEW c \in Calls, Call(t, c)
    PROVE  ExchangeInv'
<1>. USE ExchangeAssumption
<1>0. TypeOK /\ NonceInv /\ CallInv /\ NoncesAdvance /\ HonestOutcome
      /\ OnlyReuseIsRefused /\ PostedNoncesFit
  BY DEF ExchangeInv
<1>1. /\ c = calls + 1
      /\ calls' = c
      /\ UNCHANGED <<clock, client, transport>>
      /\ lastNonce' \in Nat
      /\ lastNonce' >= lastNonce
  BY CallNonces
<1>2. \/ requests' = requests
      \/ \E n \in Nat :
            /\ n <= lastNonce'
            /\ \/ n > lastNonce /\ requests' = [requests EXCEPT ![c] = Drawn(n)]
               \/ requests' = [requests EXCEPT ![c] = Chosen(n)]
  BY CallNonces
<1>3. \/ /\ UNCHANGED <<current, delivery>>
         /\ outcome' = [outcome EXCEPT ![c] = "local"]
      \/ /\ UNCHANGED outcome
         /\ delivery' = [delivery EXCEPT ![c] = "flying"]
         /\ current[t] = None
         /\ current' = [current EXCEPT ![t] = c]
         /\ Fits(requests'[c].nonce)
         /\ requests'[c].by # "nobody"
  BY CallPosts
<1>4. /\ requests[c].by = "nobody"
      /\ requests[c].nonce = None
      /\ delivery[c] = "unsent"
      /\ outcome[c] = "none"
      /\ \A u \in Tasks : current[u] # c
  BY <1>0, <1>1, FreshCall DEF TypeOK, Calls
<1>5. /\ \A b \in Calls \ {c} : requests'[b] = requests[b]
      /\ \/ requests'[c] = requests[c]
         \/ \E n \in Nat : /\ n <= lastNonce'
                           /\ \/ n > lastNonce /\ requests'[c] = Drawn(n)
                              \/ requests'[c] = Chosen(n)
  BY <1>0, <1>2 DEF TypeOK
<1>6. TypeOK'
  <2>1. (requests \in [Calls -> Requests])'
    BY <1>0, <1>2 DEF TypeOK, Requests, Nonces, Drawn, Chosen
  <2>2. (current \in [Tasks -> Calls \union {None}])' /\ (calls \in 0 .. MaxCalls)'
    BY <1>0, <1>1, <1>3 DEF TypeOK, Calls
  <2>3. (delivery \in [Calls -> {"unsent", "flying", "executed", "refused", "reused"}])'
    BY <1>0, <1>3 DEF TypeOK
  <2>4. (outcome \in [Calls ->
          {"none", "local", "ok", "err", "indeterminate", "cancelled", "crashed"}])'
    BY <1>0, <1>3 DEF TypeOK
  <2>. QED  BY <1>0, <1>1, <2>1, <2>2, <2>3, <2>4 DEF TypeOK
<1>7. NonceInv'
  <2>. SUFFICES ASSUME NEW b \in Calls
                PROVE  IF requests'[b].by = "nobody"
                       THEN requests'[b].nonce = None /\ delivery'[b] = "unsent"
                       ELSE /\ b <= calls'
                            /\ requests'[b].nonce \in Nat
                            /\ requests'[b].client <= client'
                            /\ requests'[b].client = client' => requests'[b].nonce <= lastNonce'
    BY DEF NonceInv
  <2>1. CASE b = c
    <3>1. delivery'[b] = "unsent" \/ requests'[b].by # "nobody"
      BY <1>0, <1>3, <1>4, <2>1 DEF TypeOK
    <3>2. CASE requests'[c] = requests[c]
      BY <1>4, <2>1, <3>1, <3>2
    <3>3. CASE \E n \in Nat : /\ n <= lastNonce'
                              /\ requests'[c] = Drawn(n) \/ requests'[c] = Chosen(n)
      BY <1>0, <1>1, <2>1, <3>3 DEF TypeOK, Drawn, Chosen, Calls
    <3>. QED  BY <1>5, <3>2, <3>3
  <2>2. CASE b # c
    <3>1. requests'[b] = requests[b] /\ delivery'[b] = delivery[b]
      BY <1>0, <1>3, <1>5, <2>2 DEF TypeOK
    <3>. QED  BY <1>0, <1>1, <3>1 DEF TypeOK, NonceInv, Calls
  <2>. QED  BY <2>1, <2>2
<1>8. CallInv'
  <2>1. \A b \in Calls : b > calls' => outcome'[b] = "none"
    BY <1>0, <1>1, <1>3 DEF TypeOK, CallInv, Calls
  <2>2. ASSUME NEW u \in Tasks, current'[u] # None
        PROVE  /\ current'[u] <= calls'
               /\ delivery'[current'[u]] # "unsent"
               /\ outcome'[current'[u]] = "none"
               /\ \A w \in Tasks : current'[w] = current'[u] => w = u
    <3>1. CASE UNCHANGED <<current, delivery>> /\ outcome' = [outcome EXCEPT ![c] = "local"]
      BY <1>0, <1>1, <1>4, <2>2, <3>1 DEF TypeOK, CallInv, Calls
    <3>2. CASE /\ UNCHANGED outcome
               /\ delivery' = [delivery EXCEPT ![c] = "flying"]
               /\ current' = [current EXCEPT ![t] = c]
      <4>1. CASE u = t
        BY <1>0, <1>1, <1>4, <3>2, <4>1 DEF TypeOK, Calls
      <4>2. CASE u # t
        BY <1>0, <1>1, <1>4, <2>2, <3>2, <4>2 DEF TypeOK, CallInv, Calls
      <4>. QED  BY <4>1, <4>2
    <3>. QED  BY <1>3, <3>1, <3>2
  <2>. QED  BY <2>1, <2>2 DEF CallInv
<1>9. NoncesAdvance'
  <2>. SUFFICES ASSUME NEW b \in Calls, NEW d \in Calls, b < d,
                       requests'[b].by # "nobody", requests'[d].by = "client",
                       requests'[b].client = requests'[d].client
                PROVE  requests'[b].nonce < requests'[d].nonce
    BY DEF NoncesAdvance
  <2>1. b <= calls' /\ d <= calls'  BY <1>7 DEF NonceInv
  <2>2. b # c  BY <1>1, <2>1 DEF Calls
  <2>3. CASE d = c
    <3>1. PICK n \in Nat : n > lastNonce /\ requests'[c] = Drawn(n)
      <4>1. requests'[c] # requests[c]  BY <1>4, <2>3
      <4>2. \A n \in Nat : requests'[c] # Chosen(n)  BY <2>3 DEF Chosen
      <4>. QED  BY <1>5, <4>1, <4>2
    <3>2. requests[b].client = client  BY <1>5, <2>2, <2>3, <3>1 DEF Drawn
    <3>3. requests[b].nonce \in Nat /\ requests[b].nonce <= lastNonce
      BY <1>0, <1>5, <2>2, <3>2 DEF NonceInv
    <3>. QED  BY <1>0, <1>5, <2>2, <2>3, <3>1, <3>3 DEF Drawn, TypeOK
  <2>4. CASE d # c  BY <1>0, <1>5, <2>2, <2>4 DEF NoncesAdvance
  <2>. QED  BY <2>3, <2>4
<1>10. HonestOutcome'
  <2>. SUFFICES ASSUME NEW b \in Calls
                PROVE  /\ outcome'[b] = "ok" => delivery'[b] = "executed"
                       /\ outcome'[b] = "err" => delivery'[b] \in {"reused", "refused"}
                       /\ outcome'[b] = "local" => delivery'[b] = "unsent"
                       /\ delivery'[b] # "unsent" /\ outcome'[b] = "none" =>
                             \E u \in Tasks : current'[u] = b
    BY DEF HonestOutcome
  <2>1. CASE UNCHANGED <<current, delivery>> /\ outcome' = [outcome EXCEPT ![c] = "local"]
    BY <1>0, <1>4, <2>1 DEF TypeOK, HonestOutcome
  <2>2. CASE /\ UNCHANGED outcome
             /\ delivery' = [delivery EXCEPT ![c] = "flying"]
             /\ current[t] = None
             /\ current' = [current EXCEPT ![t] = c]
    <3>1. CASE b = c  BY <1>0, <1>4, <2>2, <3>1 DEF TypeOK
    <3>2. CASE b # c
      <4>1. delivery'[b] = delivery[b] /\ outcome'[b] = outcome[b]
        BY <1>0, <2>2, <3>2 DEF TypeOK
      <4>2. ASSUME NEW u \in Tasks, current[u] = b PROVE current'[u] = b
        BY <1>0, <2>2, <4>2 DEF TypeOK, Calls
      <4>. QED  BY <1>0, <4>1, <4>2 DEF HonestOutcome
    <3>. QED  BY <3>1, <3>2
  <2>. QED  BY <1>3, <2>1, <2>2
<1>11. OnlyReuseIsRefused'
  <2>. SUFFICES ASSUME NEW d \in Calls, delivery'[d] = "reused", requests'[d].by = "client"
                PROVE  \E b \in Calls \ {d} :
                          /\ requests'[b].nonce = requests'[d].nonce
                          /\ requests'[b].by = "caller" \/ requests'[b].client # requests'[d].client
    BY DEF OnlyReuseIsRefused
  <2>1. d # c /\ delivery[d] = "reused"  BY <1>0, <1>3, <1>4 DEF TypeOK
  <2>2. requests'[d] = requests[d]  BY <1>5, <2>1
  <2>3. PICK b \in Calls \ {d} :
           /\ requests[b].nonce = requests[d].nonce
           /\ requests[b].by = "caller" \/ requests[b].client # requests[d].client
    BY <1>0, <2>1, <2>2 DEF OnlyReuseIsRefused
  <2>4. requests[d].nonce \in Nat  BY <1>0, <2>2 DEF NonceInv
  <2>5. b # c  BY <1>4, <2>3, <2>4
  <2>. QED  BY <1>5, <2>2, <2>3, <2>5
<1>12. PostedNoncesFit'
  BY <1>0, <1>3, <1>4, <1>5 DEF TypeOK, PostedNoncesFit, Fits
<1>. QED  BY <1>6, <1>7, <1>8, <1>9, <1>10, <1>11, <1>12 DEF ExchangeInv
\* The end of a posted call preserves the invariant.
LEMMA ResolveStep ==
    ASSUME ExchangeInv, NEW t \in Tasks,
           Executed(t) \/ Refused(t) \/ NoTrustedReply(t) \/ Cancel(t)
    PROVE  ExchangeInv'
<1>. USE ExchangeAssumption
<1>0. TypeOK /\ NonceInv /\ CallInv /\ NoncesAdvance /\ HonestOutcome
      /\ OnlyReuseIsRefused /\ PostedNoncesFit
  BY DEF ExchangeInv
<1>1. PICK told \in {"ok", "err", "indeterminate", "cancelled"} :
         /\ Resolve(t, told)
         /\ told = "ok" => delivery[current[t]] = "executed"
         /\ told = "err" => delivery[current[t]] \in {"reused", "refused"}
  BY Resolution
<1>2. /\ current[t] # None
      /\ outcome' = [outcome EXCEPT ![current[t]] = told]
      /\ current' = [current EXCEPT ![t] = None]
      /\ UNCHANGED <<clock, client, transport, lastNonce, requests, delivery, calls>>
  BY <1>1 DEF Resolve
<1>3. TypeOK'
  BY <1>0, <1>2 DEF TypeOK
<1>4. NonceInv' /\ NoncesAdvance' /\ OnlyReuseIsRefused' /\ PostedNoncesFit'
  BY <1>0, <1>2 DEF NonceInv, NoncesAdvance, OnlyReuseIsRefused, PostedNoncesFit
<1>5. current[t] \in Calls /\ current[t] <= calls  BY <1>0, <1>2 DEF TypeOK, CallInv
<1>6. CallInv'
  <2>1. \A c \in Calls : c > calls' => outcome'[c] = "none"
    BY <1>0, <1>2, <1>5 DEF CallInv, TypeOK, Calls
  <2>2. ASSUME NEW u \in Tasks, current'[u] # None
        PROVE  /\ current'[u] <= calls'
               /\ delivery'[current'[u]] # "unsent"
               /\ outcome'[current'[u]] = "none"
               /\ \A w \in Tasks : current'[w] = current'[u] => w = u
    <3>1. u # t /\ current'[u] = current[u]  BY <1>0, <1>2, <2>2 DEF TypeOK
    <3>2. current[u] # current[t]  BY <1>0, <1>2, <2>2, <3>1 DEF CallInv
    <3>3. outcome'[current[u]] = outcome[current[u]]
      BY <1>0, <1>2, <2>2, <3>1, <3>2 DEF TypeOK
    <3>. QED  BY <1>0, <1>2, <2>2, <3>1, <3>3 DEF CallInv, TypeOK
  <2>. QED  BY <2>1, <2>2 DEF CallInv
<1>7. HonestOutcome'
  <2>. SUFFICES ASSUME NEW c \in Calls
                PROVE  /\ outcome'[c] = "ok" => delivery'[c] = "executed"
                       /\ outcome'[c] = "err" => delivery'[c] \in {"reused", "refused"}
                       /\ outcome'[c] = "local" => delivery'[c] = "unsent"
                       /\ delivery'[c] # "unsent" /\ outcome'[c] = "none" =>
                             \E u \in Tasks : current'[u] = c
    BY DEF HonestOutcome
  <2>1. CASE c = current[t]  BY <1>0, <1>1, <1>2, <2>1 DEF TypeOK
  <2>2. CASE c # current[t]
    <3>1. delivery'[c] = delivery[c] /\ outcome'[c] = outcome[c]
      BY <1>0, <1>2, <2>2 DEF TypeOK
    <3>2. ASSUME NEW u \in Tasks, current[u] = c PROVE current'[u] = c
      BY <1>0, <1>2, <2>2, <3>2 DEF TypeOK
    <3>. QED  BY <1>0, <3>1, <3>2 DEF HonestOutcome
  <2>. QED  BY <2>1, <2>2
<1>. QED  BY <1>0, <1>3, <1>4, <1>6, <1>7 DEF ExchangeInv

\* An arrival at the exchange preserves the invariant.  The interesting case is a
\* nonce that was used: two drawn nonces of one client differ, by NoncesAdvance.
LEMMA DeliverStep ==
    ASSUME ExchangeInv, NEW c \in Calls, Deliver(c) PROVE ExchangeInv'
<1>. USE ExchangeAssumption
<1>0. TypeOK /\ NonceInv /\ CallInv /\ NoncesAdvance /\ HonestOutcome
      /\ OnlyReuseIsRefused /\ PostedNoncesFit
  BY DEF ExchangeInv
<1>1. PICK verdict \in {"executed", "refused", "reused"} :
         /\ verdict = "reused" <=> NonceUsed(requests[c].nonce)
         /\ delivery' = [delivery EXCEPT ![c] = verdict]
  BY DEF Deliver
<1>2. /\ delivery[c] = "flying"
      /\ UNCHANGED <<clock, client, transport, lastNonce, current, requests, outcome, calls>>
  BY DEF Deliver
<1>3. /\ \A b \in Calls \ {c} : delivery'[b] = delivery[b]
      /\ delivery'[c] = verdict
  BY <1>0, <1>1 DEF TypeOK
<1>4. TypeOK'  BY <1>0, <1>1, <1>2 DEF TypeOK
<1>5. NonceInv' /\ CallInv' /\ PostedNoncesFit'
  <2>1. \A b \in Calls : delivery'[b] = "unsent" <=> delivery[b] = "unsent"
    BY <1>2, <1>3
  <2>2. NonceInv'  BY <1>0, <1>2, <2>1 DEF NonceInv
  <2>3. CallInv'  BY <1>0, <1>2, <2>1 DEF CallInv, TypeOK
  <2>4. PostedNoncesFit'  BY <1>0, <1>2, <2>1 DEF PostedNoncesFit
  <2>. QED  BY <2>2, <2>3, <2>4
<1>6. NoncesAdvance'  BY <1>0, <1>2 DEF NoncesAdvance
<1>7. HonestOutcome'  BY <1>0, <1>2, <1>3 DEF HonestOutcome
<1>8. OnlyReuseIsRefused'
  <2>. SUFFICES ASSUME NEW d \in Calls, delivery'[d] = "reused", requests[d].by = "client"
                PROVE  \E b \in Calls \ {d} :
                          /\ requests[b].nonce = requests[d].nonce
                          /\ requests[b].by = "caller" \/ requests[b].client # requests[d].client
    BY <1>2 DEF OnlyReuseIsRefused
  <2>1. CASE d # c  BY <1>0, <1>3, <2>1 DEF OnlyReuseIsRefused
  <2>2. CASE d = c
    <3>1. PICK b \in Calls : /\ delivery[b] \in {"executed", "refused"}
                             /\ requests[b].nonce = requests[c].nonce
      BY <1>1, <1>3, <2>2 DEF NonceUsed
    <3>2. b # c /\ b \in Int /\ c \in Int  BY <1>2, <3>1 DEF Calls
    <3>3. requests[b].by \in {"client", "caller"} /\ requests[c].nonce \in Nat
      BY <1>0, <2>2, <3>1 DEF NonceInv, TypeOK, Requests
    <3>4. CASE requests[b].by = "client" /\ requests[b].client = requests[c].client
      <4>1. CASE b < c
        BY <1>0, <2>2, <3>1, <3>3, <3>4, <4>1 DEF NoncesAdvance
      <4>2. CASE c < b
        BY <1>0, <2>2, <3>1, <3>3, <3>4, <4>2 DEF NoncesAdvance
      <4>. QED  BY <3>2, <4>1, <4>2
    <3>. QED  BY <2>2, <3>1, <3>2, <3>3, <3>4
  <2>. QED  BY <2>1, <2>2
<1>. QED  BY <1>4, <1>5, <1>6, <1>7, <1>8 DEF ExchangeInv

\* A crash preserves the invariant: the new client's nonces start anew, but no
\* call of it exists yet.
LEMMA RestartStep == ASSUME ExchangeInv, Restart PROVE ExchangeInv'
<1>. USE ExchangeAssumption
<1>0. TypeOK /\ NonceInv /\ CallInv /\ NoncesAdvance /\ HonestOutcome
      /\ OnlyReuseIsRefused /\ PostedNoncesFit
  BY DEF ExchangeInv
<1>1. /\ client < MaxRestarts
      /\ client' = client + 1
      /\ lastNonce' = 0
      /\ transport' = "open"
      /\ current' = [t \in Tasks |-> None]
      /\ outcome' = [c \in Calls |-> IF Abandoned(c) THEN "crashed" ELSE outcome[c]]
      /\ UNCHANGED <<clock, requests, delivery, calls>>
  BY DEF Restart
<1>2. TypeOK'  BY <1>0, <1>1 DEF TypeOK
<1>3. NonceInv'  BY <1>0, <1>1 DEF NonceInv, TypeOK, Requests
<1>4. CallInv'
  <2>1. \A c \in Calls : c > calls => ~Abandoned(c)  BY <1>0 DEF Abandoned, CallInv, Calls, TypeOK
  <2>. QED  BY <1>0, <1>1, <2>1 DEF CallInv
<1>5. NoncesAdvance' /\ OnlyReuseIsRefused' /\ PostedNoncesFit'
  BY <1>0, <1>1 DEF NoncesAdvance, OnlyReuseIsRefused, PostedNoncesFit
<1>6. HonestOutcome'  BY <1>0, <1>1 DEF HonestOutcome, Abandoned
<1>. QED  BY <1>2, <1>3, <1>4, <1>5, <1>6 DEF ExchangeInv

\* A closed transport and a moved clock change nothing the invariant reads.
LEMMA OutsideStep ==
    ASSUME ExchangeInv, CloseTransport \/ Tick \/ UNCHANGED vars PROVE ExchangeInv'
<1>1. TypeOK /\ NonceInv /\ CallInv /\ NoncesAdvance /\ HonestOutcome
      /\ OnlyReuseIsRefused /\ PostedNoncesFit
  BY DEF ExchangeInv
<1>2. /\ UNCHANGED <<lastNonce, client, current, requests, delivery, outcome, calls>>
      /\ clock' = clock \/ clock' \in 1 .. MaxClock
      /\ transport' \in {transport, "closed"}
  BY DEF CloseTransport, Tick, vars
<1>3. TypeOK'  BY <1>1, <1>2 DEF TypeOK
<1>4. NonceInv' /\ CallInv' /\ NoncesAdvance' /\ HonestOutcome' /\ OnlyReuseIsRefused'
      /\ PostedNoncesFit'
  BY <1>1, <1>2 DEF NonceInv, CallInv, NoncesAdvance, HonestOutcome, OnlyReuseIsRefused,
                    PostedNoncesFit
<1>. QED  BY <1>3, <1>4 DEF ExchangeInv

\* Every step preserves the invariant.
LEMMA ExchangeStep == ExchangeInv /\ [Next]_vars => ExchangeInv'
<1>. SUFFICES ASSUME ExchangeInv, [Next]_vars PROVE ExchangeInv'  OBVIOUS
<1>1. CASE \E t \in Tasks, c \in Calls : Call(t, c)  BY <1>1, CallStep
<1>2. CASE \E t \in Tasks : Executed(t) \/ Refused(t) \/ NoTrustedReply(t) \/ Cancel(t)
  BY <1>2, ResolveStep
<1>3. CASE \E c \in Calls : Deliver(c)  BY <1>3, DeliverStep
<1>4. CASE CloseTransport \/ Tick \/ UNCHANGED vars  BY <1>4, OutsideStep
<1>5. CASE Restart  BY <1>5, RestartStep
<1>. QED  BY <1>1, <1>2, <1>3, <1>4, <1>5 DEF Next

-----------------------------------------------------------------------------
\* The invariant holds in every reachable state.
THEOREM ExchangeInvariant == Spec => []ExchangeInv
BY ExchangeInit, ExchangeStep, PTL DEF Spec

\* The state of the client and of what it sent keeps its type.
THEOREM TypeCorrect == Spec => []TypeOK
<1>1. ExchangeInv => TypeOK  BY DEF ExchangeInv
<1>. QED  BY <1>1, ExchangeInvariant, PTL

\* The nonces one client draws increase, whatever the clock does, however calls
\* overlap, and whatever nonces the caller passes to noop.
THEOREM NonceStream == Spec => []NoncesAdvance
<1>1. ExchangeInv => NoncesAdvance  BY DEF ExchangeInv
<1>. QED  BY <1>1, ExchangeInvariant, PTL

\* No caller is told something untrue about its request, and none that posted one
\* is forgotten.
THEOREM TruthfulOutcomes == Spec => []HonestOutcome
<1>1. ExchangeInv => HonestOutcome  BY DEF ExchangeInv
<1>. QED  BY <1>1, ExchangeInvariant, PTL

\* No request is refused because of another one the same client numbered.
THEOREM NoSelfCollision == Spec => []OnlyReuseIsRefused
<1>1. ExchangeInv => OnlyReuseIsRefused  BY DEF ExchangeInv
<1>. QED  BY <1>1, ExchangeInvariant, PTL

\* Every nonce that is sent fits eight bytes.
THEOREM SentNoncesFit == Spec => []PostedNoncesFit
<1>1. ExchangeInv => PostedNoncesFit  BY DEF ExchangeInv
<1>. QED  BY <1>1, ExchangeInvariant, PTL


=============================================================================
