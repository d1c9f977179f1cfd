------------------------- MODULE HttpTransportProofs -------------------------
(***************************************************************************)
(* Proofs about HttpTransport, for any number of tasks and calls.          *)
(***************************************************************************)
EXTENDS HttpTransport, TLAPS

\* The initial states.
LEMMA TransportInit == Init => TransportInv
BY TransportAssumption DEF Init, TransportInv, TypeOK, SessionInv, CloseIsComplete

\* A step of a task, or of the owner of a borrowed session, keeps the types.
LEMMA TypeStep == TypeOK /\ [Next]_vars => TypeOK'
<1>. SUFFICES ASSUME TypeOK, [Next]_vars PROVE TypeOK'  OBVIOUS
<1>. USE TransportAssumption DEF TypeOK
<1>1. ASSUME NEW t \in Tasks, OpenRaises(t) \/ OpenAgain(t) \/ OpenNew(t) PROVE TypeOK'
  BY <1>1 DEF OpenRaises, OpenAgain, OpenNew, Begin, Return
<1>2. ASSUME NEW t \in Tasks, CloseAtOnce(t) \/ CloseSession(t) \/ FinishClose(t) PROVE TypeOK'
  BY <1>2 DEF CloseAtOnce, CloseSession, FinishClose, Begin, Return
<1>3. ASSUME NEW t \in Tasks, PostRaises(t) \/ Post(t) PROVE TypeOK'
  BY <1>3 DEF PostRaises, Post, Begin, Return
<1>4. ASSUME NEW t \in Tasks, Answered(t) \/ PostFails(t) \/ Cancel(t) PROVE TypeOK'
  BY <1>4 DEF Answered, PostFails, Cancel, Return
<1>5. CASE OwnerCloses  BY <1>5 DEF OwnerCloses
<1>6. CASE UNCHANGED vars  BY <1>6 DEF vars
<1>. QED  BY <1>1, <1>2, <1>3, <1>4, <1>5, <1>6 DEF Next

\* Every step keeps the session where SessionInv says it is, and a close() that
\* returned complete.
LEMMA SessionStep ==
    TransportInv /\ [Next]_vars => SessionInv' /\ CloseIsComplete'
<1>. SUFFICES ASSUME TransportInv, [Next]_vars PROVE SessionInv' /\ CloseIsComplete'  OBVIOUS
<1>. USE DEF TransportInv, TypeOK, SessionInv, CloseIsComplete
<1>1. ASSUME NEW t \in Tasks, OpenRaises(t) \/ OpenAgain(t) \/ OpenNew(t)
      PROVE  SessionInv' /\ CloseIsComplete'
  BY <1>1 DEF OpenRaises, OpenAgain, OpenNew, Begin, Return
<1>2. ASSUME NEW t \in Tasks, CloseAtOnce(t) PROVE SessionInv' /\ CloseIsComplete'
  BY <1>2 DEF CloseAtOnce, Begin, Return
<1>3. ASSUME NEW t \in Tasks, CloseSession(t) \/ FinishClose(t)
      PROVE  SessionInv' /\ CloseIsComplete'
  BY <1>3 DEF CloseSession, FinishClose, Begin, Return
<1>4. ASSUME NEW t \in Tasks, PostRaises(t) \/ Post(t)
      PROVE  SessionInv' /\ CloseIsComplete'
  BY <1>4 DEF PostRaises, Post, Begin, Return
<1>5. ASSUME NEW t \in Tasks, Answered(t) \/ PostFails(t) \/ Cancel(t)
      PROVE  SessionInv' /\ CloseIsComplete'
  BY <1>5 DEF Answered, PostFails, Cancel, Return
<1>6. CASE OwnerCloses  BY <1>6 DEF OwnerCloses
<1>7. CASE UNCHANGED vars  BY <1>7 DEF vars
<1>. QED  BY <1>1, <1>2, <1>3, <1>4, <1>5, <1>6, <1>7 DEF Next

\* TransportInv is an invariant.
THEOREM TransportInvariant == Spec => []TransportInv
<1>1. TransportInv /\ [Next]_vars => TransportInv'
  BY TypeStep, SessionStep DEF TransportInv
<1>. QED  BY <1>1, TransportInit, PTL DEF Spec

\* The state of the transport keeps its type.
THEOREM TypeCorrect == Spec => []TypeOK
<1>1. TransportInv => TypeOK  BY DEF TransportInv
<1>. QED  BY <1>1, TransportInvariant, PTL

\* A close() that returned closed the transport and its own session.
THEOREM CompleteClose == Spec => []CloseIsComplete
<1>1. TransportInv => CloseIsComplete  BY DEF TransportInv
<1>. QED  BY <1>1, TransportInvariant, PTL

\* Nobody opens a closed transport, and no request starts on it.
THEOREM StaysClosed == Spec => ClosedForGood
<1>1. TransportInv /\ [Next]_vars =>
         [state = "closed" =>
          /\ state' = "closed"
          /\ \A t \in Tasks : /\ pc'[t] = "posting" => pc[t] = "posting"
                              /\ result'[t] = "opened" => result[t] = "opened"]_vars
  <2>. SUFFICES ASSUME TransportInv, Next, state = "closed"
                PROVE  /\ state' = "closed"
                       /\ \A t \in Tasks : /\ pc'[t] = "posting" => pc[t] = "posting"
                                           /\ result'[t] = "opened" => result[t] = "opened"
    OBVIOUS
  <2>. USE DEF TransportInv, TypeOK
  <2>1. CASE \E t \in Tasks : OpenRaises(t) \/ CloseAtOnce(t) \/ PostRaises(t)
    BY <2>1 DEF OpenRaises, CloseAtOnce, PostRaises, Begin, Return
  <2>2. CASE \E t \in Tasks : FinishClose(t) \/ Answered(t) \/ PostFails(t) \/ Cancel(t)
    BY <2>2 DEF FinishClose, Answered, PostFails, Cancel, Return
  <2>3. CASE OwnerCloses  BY <2>3 DEF OwnerCloses
  <2>. QED  BY <2>1, <2>2, <2>3 DEF Next, OpenAgain, OpenNew, CloseSession, Post
<1>. QED  BY <1>1, TransportInvariant, PTL DEF Spec, ClosedForGood

\* The transport never closes or replaces a session it was given.
THEOREM BorrowedSession == Spec => BorrowedIsLeftAlone
<1>1. TransportInv /\ [Next]_vars => [~owns /\ session' # session => OwnerCloses]_vars
  <2>. SUFFICES ASSUME TransportInv, Next, ~owns, session' # session PROVE OwnerCloses
    OBVIOUS
  <2>. USE DEF TransportInv, TypeOK, SessionInv
  <2>1. ASSUME NEW t \in Tasks, OpenNew(t) \/ CloseSession(t) \/ FinishClose(t) PROVE FALSE
    BY <2>1 DEF OpenNew, CloseSession, FinishClose
  <2>2. ASSUME NEW t \in Tasks, \/ OpenRaises(t) \/ OpenAgain(t) \/ CloseAtOnce(t)
                                \/ PostRaises(t) \/ Post(t) \/ Answered(t) \/ PostFails(t)
                                \/ Cancel(t)
        PROVE  FALSE
    BY <2>2 DEF OpenRaises, OpenAgain, CloseAtOnce, PostRaises, Post, Answered, PostFails, Cancel
  <2>. QED  BY <2>1, <2>2 DEF Next
<1>. QED  BY <1>1, TransportInvariant, PTL DEF Spec, BorrowedIsLeftAlone

=============================================================================
