---------------------------- MODULE HttpTransport ----------------------------
(***************************************************************************)
(* _HttpTransport: who opens and closes the HTTP session, and what becomes *)
(* of the requests of the tasks that share it.  open() and post_json() up  *)
(* to the request run without suspension; close() suspends while it closes *)
(* a session of its own, and may be cancelled there or overlap another     *)
(* close(), an open() or a request.                                        *)
(***************************************************************************)
EXTENDS Integers

CONSTANTS Tasks,    \* the tasks that share the transport
          MaxCalls  \* bound: calls made

ASSUME TransportAssumption == MaxCalls \in Nat

VARIABLES owns,     \* _owns_session: no session was passed in
          session,  \* _session: none yet, or an aiohttp session, open or closed
          state,    \* _state
          pc,       \* where each task is suspended
          result,   \* how the last call of each task ended
          calls     \* calls made so far

vars == <<owns, session, state, pc, result, calls>>

-----------------------------------------------------------------------------
\* Without a session of the caller's there is none before open().
Init ==
    /\ owns \in BOOLEAN
    /\ session \in IF owns THEN {"none"} ELSE {"open", "closed"}
    /\ state = "new"
    /\ pc = [t \in Tasks |-> "idle"]
    /\ result = [t \in Tasks |-> "none"]
    /\ calls = 0

Begin(t) ==
    /\ pc[t] = "idle"
    /\ calls < MaxCalls
    /\ calls' = calls + 1
    /\ UNCHANGED owns

Return(t, how) ==
    /\ pc' = [pc EXCEPT ![t] = "idle"]
    /\ result' = [result EXCEPT ![t] = how]

-----------------------------------------------------------------------------
(* open().                                                                 *)

\* A closed transport stays closed, and a closed session is no good.
OpenRaises(t) ==
    /\ state = "closed" \/ (state = "new" /\ session = "closed")
    /\ Begin(t)
    /\ Return(t, "raised")
    /\ UNCHANGED <<session, state>>

OpenAgain(t) ==
    /\ state = "open"
    /\ Begin(t)
    /\ Return(t, "opened")
    /\ UNCHANGED <<session, state>>

\* Mutant of OpenNew: a transport that was closed before it was opened opens.
OpenNewAgain(t) ==
    /\ state # "open"
    /\ session # "closed"
    /\ Begin(t)
    /\ session' = "open"
    /\ state' = "open"
    /\ Return(t, "opened")

OpenNew(t) ==
    /\ state = "new"
    /\ session # "closed"
    /\ Begin(t)
    /\ session' = "open"
    /\ state' = "open"
    /\ Return(t, "opened")

-----------------------------------------------------------------------------
(* close().                                                                *)

\* Nothing to close: closed before, never opened, or somebody else's session.
CloseAtOnce(t) ==
    /\ state = "closed" \/ ~owns \/ session = "none"
    /\ Begin(t)
    /\ state' = "closed"
    /\ Return(t, "closed")
    /\ UNCHANGED session

\* Mutant of CloseSession: the transport counts as closed before its session is.
CloseSessionEagerly(t) ==
    /\ state # "closed"
    /\ owns
    /\ session # "none"
    /\ Begin(t)
    /\ session' \in {session, "closed"}
    /\ state' = "closed"
    /\ pc' = [pc EXCEPT ![t] = "closing"]
    /\ UNCHANGED result

\* The session may count as closed from here on, or only at the end.
CloseSession(t) ==
    /\ state # "closed"
    /\ owns
    /\ session # "none"
    /\ Begin(t)
    /\ session' \in {session, "closed"}
    /\ pc' = [pc EXCEPT ![t] = "closing"]
    /\ UNCHANGED <<state, result>>

\* session.close() returns, and what is left of close() runs.
FinishClose(t) ==
    /\ pc[t] = "closing"
    /\ session' = "closed"
    /\ state' = "closed"
    /\ Return(t, "closed")
    /\ UNCHANGED <<owns, calls>>

-----------------------------------------------------------------------------
(* post_json().                                                            *)

PostRaises(t) ==
    /\ state # "open" \/ session = "closed"
    /\ Begin(t)
    /\ Return(t, "raised")
    /\ UNCHANGED <<session, state>>

Post(t) ==
    /\ state = "open"
    /\ session = "open"
    /\ Begin(t)
    /\ pc' = [pc EXCEPT ![t] = "posting"]
    /\ UNCHANGED <<session, state, result>>

\* A 2xx response with a JSON body; one that is in may still be read after close().
Answered(t) ==
    /\ pc[t] = "posting"
    /\ Return(t, "answered")
    /\ UNCHANGED <<owns, session, state, calls>>

\* HttpError, ProtocolError or TimeoutError.
PostFails(t) ==
    /\ pc[t] = "posting"
    /\ Return(t, "raised")
    /\ UNCHANGED <<owns, session, state, calls>>

-----------------------------------------------------------------------------
\* Somebody cancels the task: CancelledError passes through post_json and close.
Cancel(t) ==
    /\ pc[t] # "idle"
    /\ Return(t, "cancelled")
    /\ UNCHANGED <<owns, session, state, calls>>

\* The owner of a borrowed session closes it.
OwnerCloses ==
    /\ ~owns
    /\ session = "open"
    /\ session' = "closed"
    /\ UNCHANGED <<owns, state, pc, result, calls>>

Next ==
    \/ \E t \in Tasks :
          \/ OpenRaises(t)
          \/ OpenAgain(t)
          \/ OpenNew(t)
          \/ CloseAtOnce(t)
          \/ CloseSession(t)
          \/ FinishClose(t)
          \/ PostRaises(t)
          \/ Post(t)
          \/ Answered(t)
          \/ PostFails(t)
          \/ Cancel(t)
    \/ OwnerCloses

Spec == Init /\ [][Next]_vars

-----------------------------------------------------------------------------
(* Properties.                                                             *)

\* The type of the state.
TypeOK ==
    /\ owns \in BOOLEAN
    /\ session \in {"none", "open", "closed"}
    /\ state \in {"new", "open", "closed"}
    /\ pc \in [Tasks -> {"idle", "posting", "closing"}]
    /\ result \in [Tasks -> {"none", "opened", "closed", "answered", "raised", "cancelled"}]
    /\ calls \in 0 .. MaxCalls

\* A close() that returned closed everything: the transport and a session of its
\* own, also when another close() overlapped it or was cancelled before.
CloseIsComplete ==
    /\ (\E t \in Tasks : result[t] = "closed") => state = "closed"
    /\ state = "closed" /\ owns => session # "open"

\* A closed transport is closed for good: nobody opens it again and no request
\* starts, whatever open() or close() was under way.
ClosedForGood ==
    [][state = "closed" =>
          /\ state' = "closed"
          /\ \A t \in Tasks : /\ pc'[t] = "posting" => pc[t] = "posting"
                              /\ result'[t] = "opened" => result[t] = "opened"]_vars

\* Only its owner closes a borrowed session.
BorrowedIsLeftAlone == [][~owns /\ session' # session => OwnerCloses]_vars

-----------------------------------------------------------------------------
(* The inductive invariant the proofs use.                                 *)

\* Without a caller's session there is one exactly after open(); only a session of
\* the transport's own is ever being closed by it.
SessionInv ==
    /\ owns => (state = "new" => session = "none") /\ (state = "open" => session # "none")
    /\ ~owns => session # "none"
    /\ \A t \in Tasks : pc[t] = "closing" => owns

TransportInv == TypeOK /\ SessionInv /\ CloseIsComplete

=============================================================================
