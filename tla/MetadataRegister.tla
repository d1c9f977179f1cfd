-------------------------- MODULE MetadataRegister --------------------------
(***************************************************************************)
(* What the metadata cache promises its callers, without locks, waiters,   *)
(* requests or failures: one register that holds a snapshot.  A call       *)
(* answers from the register as it is when the call returns, and only a    *)
(* call that read every part of the provider's metadata itself, while it   *)
(* was running, replaces the register, by a snapshot no part of which is   *)
(* older.                                                                  *)
(***************************************************************************)
EXTENDS Integers

CONSTANTS Tasks, DexVersions, MaxVersion, MaxCalls, None

Endpoints == {"perpDexs", "allPerpMetas", "spotMeta"}
Versions == 0 .. MaxVersion
Readings == [Endpoints -> Versions]

VARIABLES version,    \* listings the provider has made
          published,  \* the register: a snapshot, or None before the first
          busy,       \* the tasks in a call that has suspended
          since,      \* the version at which each task's last call began
          outcome     \* how the last call of each task ended

vars == <<version, published, busy, since, outcome>>

Buildable(readings) ==
    \A v \in DexVersions : v <= readings["perpDexs"] <=> v <= readings["allPerpMetas"]

Init ==
    /\ version = 0
    /\ published = None
    /\ busy = {}
    /\ since = [t \in Tasks |-> 0]
    /\ outcome = [t \in Tasks |-> [status |-> "none", answer |-> None]]

List ==
    /\ version < MaxVersion
    /\ version' = version + 1
    /\ UNCHANGED <<published, busy, since, outcome>>

Enter(t) ==
    /\ t \notin busy
    /\ busy' = busy \union {t}
    /\ since' = [since EXCEPT ![t] = version]
    /\ UNCHANGED <<version, published, outcome>>

\* A call that never suspends.
Serve(t) ==
    /\ t \notin busy
    /\ published # None
    /\ since' = [since EXCEPT ![t] = version]
    /\ outcome' = [outcome EXCEPT ![t] = [status |-> "answered", answer |-> published]]
    /\ UNCHANGED <<version, published, busy>>

Leave(t, status, answer) ==
    /\ t \in busy
    /\ busy' = busy \ {t}
    /\ outcome' = [outcome EXCEPT ![t] = [status |-> status, answer |-> answer]]
    /\ UNCHANGED <<version, since>>

Return(t) ==
    /\ published # None
    /\ Leave(t, "answered", published)
    /\ UNCHANGED published

Fresh(t, readings) ==
    /\ Buildable(readings)
    /\ \A e \in Endpoints :
          /\ readings[e] \in since[t] .. version
          /\ published # None => readings[e] >= published.read[e]

Publish(t) ==
    /\ Leave(t, "answered", published')
    /\ \E readings \in Readings :
          /\ Fresh(t, readings)
          /\ published' = [epoch |-> IF published = None THEN 1 ELSE published.epoch + 1,
                           read |-> readings]

Fail(t) ==
    /\ \E status \in {"raised", "cancelled"} : Leave(t, status, None)
    /\ UNCHANGED published

Next ==
    \/ List
    \/ \E t \in Tasks : Enter(t) \/ Serve(t) \/ Return(t) \/ Publish(t) \/ Fail(t)

Spec == Init /\ [][Next]_vars

=============================================================================
