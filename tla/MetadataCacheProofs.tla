------------------------ MODULE MetadataCacheProofs ------------------------
(* Proofs about MetadataCache, for every set of tasks, every provider and  *)
(* every bound.                                                            *)
EXTENDS MetadataCache, SequenceTheorems, FiniteSetTheorems, TLAPS

-----------------------------------------------------------------------------
(* The lock's queue.                                                       *)

\* Taking one waiter out of the queue leaves the others, in their order.
LEMMA RemoveAtElements ==
    ASSUME NEW S, NEW q \in Seq(S), NEW i \in DOMAIN q
    PROVE  /\ RemoveAt(q, i) \in Seq(S)
           /\ Len(RemoveAt(q, i)) = Len(q) - 1
           /\ \A j \in 1 .. Len(q) - 1 :
                 RemoveAt(q, i)[j] = IF j < i THEN q[j] ELSE q[j + 1]
<1> DEFINE front == SubSeq(q, 1, i - 1)
           back  == SubSeq(q, i + 1, Len(q))
<1>0. i \in 1 .. Len(q) /\ Len(q) \in Nat
  BY LenProperties
<1>1. /\ front \in Seq(S)
      /\ Len(front) = i - 1
      /\ \A j \in 1 .. i - 1 : front[j] = q[j]
  <2>1. \A j \in 1 .. i - 1 : q[j] \in S
    BY <1>0, ElementOfSeq
  <2>2. 1 \in Int /\ i - 1 \in Int
    BY <1>0
  <2> QED BY <2>1, <2>2, <1>0, SubSeqProperties
<1>2. /\ back \in Seq(S)
      /\ Len(back) = Len(q) - i
      /\ \A j \in 1 .. Len(q) - i : back[j] = q[i + j]
  <2>1. \A j \in i + 1 .. Len(q) : q[j] \in S
    BY <1>0, ElementOfSeq
  <2>2. i + 1 \in Int /\ Len(q) \in Int
    BY <1>0
  <2>3. /\ back \in Seq(S)
        /\ Len(back) = IF i + 1 <= Len(q) THEN Len(q) - (i + 1) + 1 ELSE 0
        /\ \A j \in 1 .. Len(q) - (i + 1) + 1 : back[j] = q[i + 1 + j - 1]
    BY <2>1, <2>2, SubSeqProperties
  <2>4. \A j \in 1 .. Len(q) - i : i + 1 + j - 1 = i + j
    BY <1>0
  <2> QED BY <2>3, <2>4, <1>0
<1>3. /\ front \o back \in Seq(S)
      /\ Len(front \o back) = Len(front) + Len(back)
      /\ \A j \in 1 .. Len(front) + Len(back) :
            (front \o back)[j] = IF j <= Len(front) THEN front[j] ELSE back[j - Len(front)]
  BY <1>1, <1>2, ConcatProperties
<1>4. RemoveAt(q, i) = front \o back
  BY DEF RemoveAt
<1> HIDE DEF front, back
<1>5. ASSUME NEW j \in 1 .. Len(q) - 1
      PROVE  (front \o back)[j] = IF j < i THEN q[j] ELSE q[j + 1]
  <2>1. CASE j < i
    BY <2>1, <1>0, <1>1, <1>2, <1>3
  <2>2. CASE ~(j < i)
    <3>0. /\ j \in 1 .. Len(front) + Len(back)
          /\ ~(j <= Len(front))
          /\ Len(front) = i - 1
      BY <2>2, <1>0, <1>1, <1>2
    <3>1. (front \o back)[j] = back[j - (i - 1)]
      BY <3>0, <1>3
    <3>2. j - (i - 1) \in 1 .. Len(q) - i /\ i + (j - (i - 1)) = j + 1
      BY <2>2, <1>0
    <3> QED BY <2>2, <3>1, <3>2, <1>2
  <2> QED BY <2>1, <2>2
<1>6. Len(front) + Len(back) = Len(q) - 1
  BY <1>0, <1>1, <1>2
<1> QED BY <1>3, <1>4, <1>5, <1>6

\* Who leaves a queue without repetitions leaves it whole, still without
\* repetitions, and with its head unless it was the head.
LEMMA RemoveAtQueue ==
    ASSUME NEW S, NEW q \in Seq(S), NEW i \in DOMAIN q, IsInjective(q)
    PROVE  /\ RemoveAt(q, i) \in Seq(S)
           /\ Range(RemoveAt(q, i)) = Range(q) \ {q[i]}
           /\ IsInjective(RemoveAt(q, i))
           /\ q[i] # Head(q) => RemoveAt(q, i) # <<>> /\ Head(RemoveAt(q, i)) = Head(q)
<1> DEFINE r == RemoveAt(q, i)
           n == Len(q)
<1>0. i \in 1 .. n /\ n \in Nat /\ DOMAIN q = 1 .. n
  BY LenProperties
<1>1. /\ r \in Seq(S)
      /\ Len(r) = n - 1
      /\ \A j \in 1 .. n - 1 : r[j] = IF j < i THEN q[j] ELSE q[j + 1]
  BY RemoveAtElements
<1>2. DOMAIN r = 1 .. n - 1
  BY <1>1, LenProperties
<1> HIDE DEF r, n
<1>3. IsInjective(r)
  <2> SUFFICES ASSUME NEW a \in 1 .. n - 1, NEW b \in 1 .. n - 1, r[a] = r[b]
               PROVE  a = b
    BY <1>2 DEF IsInjective
  <2>1. \A c, d \in 1 .. n : q[c] = q[d] => c = d
    BY <1>0 DEF IsInjective
  <2>2. \A c \in 1 .. n - 1 : /\ c \in 1 .. n /\ c + 1 \in 1 .. n
                             /\ r[c] = IF c < i THEN q[c] ELSE q[c + 1]
    BY <1>0, <1>1
  <2>3. CASE a < i /\ b < i
    BY <2>1, <2>2, <2>3
  <2>4. CASE a < i /\ ~(b < i)
    BY <1>0, <2>1, <2>2, <2>4
  <2>5. CASE ~(a < i) /\ b < i
    BY <1>0, <2>1, <2>2, <2>5
  <2>6. CASE ~(a < i) /\ ~(b < i)
    BY <2>1, <2>2, <2>6
  <2> QED BY <2>3, <2>4, <2>5, <2>6
<1>4. ASSUME NEW j \in 1 .. n - 1 PROVE r[j] \in Range(q) \ {q[i]}
  <2>1. CASE j < i
    BY <2>1, <1>0, <1>1 DEF Range, IsInjective
  <2>2. CASE ~(j < i)
    BY <2>2, <1>0, <1>1 DEF Range, IsInjective
  <2> QED BY <2>1, <2>2
<1>5. ASSUME NEW k \in 1 .. n, q[k] # q[i] PROVE q[k] \in Range(r)
  <2>1. CASE k < i
    <3>1. k \in 1 .. n - 1 /\ r[k] = q[k]
      BY <2>1, <1>0, <1>1
    <3> QED BY <3>1, <1>2 DEF Range
  <2>2. CASE ~(k < i)
    <3>1. k # i
      BY <1>5
    <3>2. k - 1 \in 1 .. n - 1 /\ r[k - 1] = q[k]
      BY <2>2, <3>1, <1>0, <1>1
    <3> QED BY <3>2, <1>2 DEF Range
  <2> QED BY <2>1, <2>2
<1>6. Range(r) = Range(q) \ {q[i]}
  BY <1>0, <1>2, <1>4, <1>5 DEF Range
<1>7. ASSUME q[i] # Head(q) PROVE r # <<>> /\ Head(r) = Head(q)
  <2>1. q # <<>> /\ Head(q) = q[1]
    BY <1>0 DEF n
  <2>2. i # 1
    BY <1>7, <2>1
  <2>3. 1 \in 1 .. n - 1 /\ r[1] = q[1]
    BY <2>2, <1>0, <1>1
  <2> QED BY <2>1, <2>3, <1>1
<1> QED BY <1>1, <1>3, <1>6, <1>7 DEF r

\* Who joins a queue stands in it once, behind the same head.
LEMMA AppendQueue ==
    ASSUME NEW S, NEW q \in Seq(S), NEW t \in S
    PROVE  /\ Append(q, t) \in Seq(S)
           /\ Append(q, t) # <<>>
           /\ Range(Append(q, t)) = Range(q) \union {t}
           /\ IsInjective(q) /\ t \notin Range(q) => IsInjective(Append(q, t))
           /\ q # <<>> => Head(Append(q, t)) = Head(q)
<1>1. /\ Append(q, t) \in Seq(S)
      /\ Append(q, t) # <<>>
      /\ Len(Append(q, t)) = Len(q) + 1
      /\ \A i \in 1 .. Len(q) : Append(q, t)[i] = q[i]
      /\ Append(q, t)[Len(q) + 1] = t
  BY AppendProperties
<1>2. /\ Len(q) \in Nat
      /\ DOMAIN q = 1 .. Len(q)
      /\ DOMAIN Append(q, t) = 1 .. Len(q) + 1
  BY <1>1, LenProperties
<1>3. Range(Append(q, t)) = Range(q) \union {t}
  BY <1>1, <1>2 DEF Range
<1>4. IsInjective(q) /\ t \notin Range(q) => IsInjective(Append(q, t))
  BY <1>1, <1>2 DEF IsInjective, Range
<1>5. q # <<>> => Head(Append(q, t)) = Head(q)
  BY <1>1, <1>2, HeadTailAppend
<1> QED BY <1>1, <1>3, <1>4, <1>5

-----------------------------------------------------------------------------
(* Type correctness.                                                       *)

\* None is neither a snapshot nor a task.
LEMMA NoneIsNoRecord == None \notin Snapshots /\ None \notin Tasks
<1>1. Readings \subseteq [Endpoints -> Nat]
  BY CacheAssumption DEF Readings, Versions
<1>2. Snapshots \subseteq [epoch : Nat, read : [Endpoints -> Nat]]
  BY <1>1 DEF Snapshots
<1> QED BY <1>2, CacheAssumption

\* The end of a call keeps the types of what it assigns.
LEMMA EndType ==
    ASSUME TypeOK, NEW t \in Tasks,
           NEW status \in {"answered", "raised", "cancelled"},
           NEW answer \in Snapshots \union {None},
           End(t, status, answer)
    PROVE  /\ pc' \in [Tasks -> {"idle", "waiting", "loading", "unwinding"}]
           /\ fate' \in [Tasks -> {"none", "error", "runtime", "cancelled"}]
           /\ inflight' \in [Tasks -> SUBSET Endpoints]
           /\ read' \in [Tasks -> [Endpoints -> Versions \union {Unread}]]
           /\ outcome' \in [Tasks -> Outcomes]
<1>1. NothingRead \in [Endpoints -> Versions \union {Unread}]
  BY DEF NothingRead
<1>2. [status |-> status, answer |-> answer] \in Outcomes
  BY DEF Outcomes
<1> QED BY <1>1, <1>2 DEF TypeOK, End

\* So does the beginning of a load.
LEMMA StartLoadType ==
    ASSUME TypeOK, NEW t \in Tasks, StartLoad(t)
    PROVE  /\ holder' \in Tasks \union {None}
           /\ pc' \in [Tasks -> {"idle", "waiting", "loading", "unwinding"}]
           /\ inflight' \in [Tasks -> SUBSET Endpoints]
BY DEF TypeOK, StartLoad

\* Waking the first waiter of a queue of tasks yields tasks.
LEMMA WakeFirstType ==
    ASSUME NEW q \in Seq(Tasks), NEW set \in SUBSET Tasks
    PROVE  WakeFirst(q, set) \in SUBSET Tasks
BY HeadTailProperties DEF WakeFirst

\* A call that asks for the lock takes it or queues.
LEMMA AcquireType ==
    ASSUME TypeOK, NEW t \in Tasks, AcquireOrQueue(t)
    PROVE  /\ holder' \in Tasks \union {None}
           /\ waiters' \in Seq(Tasks)
           /\ granted' \in SUBSET Tasks
           /\ pc' \in [Tasks -> {"idle", "waiting", "loading", "unwinding"}]
           /\ inflight' \in [Tasks -> SUBSET Endpoints]
<1>1. CASE LockFree /\ StartLoad(t) /\ UNCHANGED <<waiters, granted>>
  BY <1>1, StartLoadType DEF TypeOK
<1>2. CASE /\ waiters' = Append(waiters, t)
           /\ pc' = [pc EXCEPT ![t] = "waiting"]
           /\ UNCHANGED <<holder, granted, inflight>>
  <2>1. waiters' \in Seq(Tasks)
    BY <1>2, AppendProperties DEF TypeOK
  <2> QED BY <1>2, <2>1 DEF TypeOK
<1> QED BY <1>1, <1>2 DEF AcquireOrQueue

\* A call notes well-typed facts about itself when it begins.
LEMMA BeginType ==
    ASSUME TypeOK, NEW t \in Tasks, NEW kind \in {"hit", "miss", "cold", "refresh"},
           NEW coins \in SUBSET Coins, Begin(t, kind, coins)
    PROVE  /\ version' \in Versions
           /\ metadata' \in Snapshots \union {None}
           /\ call' \in [Tasks -> Calls]
           /\ calls' \in 0 .. MaxCalls
<1>1. [kind |-> kind, coins |-> coins, snapshot |-> metadata, began |-> version] \in Calls
  BY DEF TypeOK, Calls
<1> QED BY <1>1, CacheAssumption DEF TypeOK, Begin

\* A release leaves the lock's state well typed.
LEMMA ReleaseType ==
    ASSUME TypeOK, Release
    PROVE  /\ holder' \in Tasks \union {None}
           /\ waiters' \in Seq(Tasks)
           /\ granted' \in SUBSET Tasks
BY WakeFirstType DEF TypeOK, Release

\* A failed call ends in one of three ways, with a snapshot that was published once.
LEMMA EndFailedType ==
    ASSUME TypeOK, CallInv, NEW t \in Tasks, pc[t] # "idle",
           NEW why \in {"error", "runtime", "cancelled"}, EndFailed(t, why)
    PROVE  \E status \in {"answered", "raised", "cancelled"},
              answer \in Snapshots \union {None} : End(t, status, answer)
<1>1. call[t] \in Calls
  BY DEF TypeOK, CallInv
<1>2. call[t].snapshot \in Snapshots \union {None}
  BY <1>1 DEF Calls
<1> QED BY <1>2 DEF EndFailed

\* The next-state relation, one disjunct per action of the cache.
LEMMA NextCases ==
    ASSUME Next
    PROVE  \/ List
           \/ \E t \in Tasks :
                 \/ \E coins \in SUBSET Coins :
                       LookupHit(t, coins) \/ LookupMiss(t, coins) \/ LookupCold(t, coins)
                 \/ Refresh(t)
                 \/ ResumeAndLoad(t) \/ ResumeAndReturn(t) \/ AbandonWait(t)
                 \/ \E e \in Endpoints :
                       \/ Answer(t, e) \/ Settle(t, e)
                       \/ \E kind \in {"error", "runtime"} : RequestFails(t, e, kind)
                 \/ Publish(t) \/ BuildFails(t) \/ Unwound(t) \/ Cancel(t)
BY DEF Next, Lookup, Run

\* What a load publishes is a snapshot, and not None.
LEMMA PublishedSnapshot ==
    ASSUME TypeOK, NEW t \in Tasks, Publish(t)
    PROVE  /\ metadata' \in Snapshots /\ metadata' # None
           /\ metadata'.read = read[t]
           /\ metadata # None => metadata'.epoch = metadata.epoch + 1
<1>1. read[t] \in Readings
  BY DEF Publish, Answered, TypeOK, Readings
<1>2. metadata # None => metadata.epoch + 1 \in Nat
  BY DEF TypeOK, Snapshots
<1> QED BY <1>1, <1>2, NoneIsNoRecord DEF Publish, Snapshots

\* No step takes a variable out of its type.
LEMMA TypeStep == CacheInv /\ [Next]_vars => TypeOK'
<1> SUFFICES ASSUME CacheInv, Next PROVE TypeOK'
  BY DEF CacheInv, TypeOK, vars, Snapshots, Readings, Calls, Outcomes
<1> USE DEF CacheInv
<1>1. CASE List
  BY <1>1, CacheAssumption DEF List, TypeOK, Versions, Snapshots, Readings, Calls, Outcomes, lockVars, loadVars
<1>2. ASSUME NEW t \in Tasks, NEW coins \in SUBSET Coins, LookupHit(t, coins)
      PROVE  TypeOK'
  <2>1. Begin(t, "hit", coins) /\ End(t, "answered", metadata) /\ UNCHANGED lockVars
    BY <1>2 DEF LookupHit
  <2> QED BY <2>1, BeginType, EndType DEF TypeOK, lockVars
<1>3. ASSUME NEW t \in Tasks, NEW coins \in SUBSET Coins,
             NEW kind \in {"miss", "cold", "refresh"},
             Begin(t, kind, coins), AcquireOrQueue(t), UNCHANGED <<read, fate, outcome>>
      PROVE  TypeOK'
  BY <1>3, BeginType, AcquireType DEF TypeOK
<1>4. ASSUME NEW t \in Tasks, ResumeAndLoad(t) PROVE TypeOK'
  <2>1. waiters' \in Seq(Tasks)
    BY <1>4, RemoveAtElements DEF ResumeAndLoad, TypeOK
  <2> QED BY <1>4, <2>1, StartLoadType DEF ResumeAndLoad, TypeOK
<1>5. ASSUME NEW t \in Tasks, ResumeAndReturn(t) PROVE TypeOK'
  <2>1. PICK i \in DOMAIN waiters :
           waiters' = RemoveAt(waiters, i) /\ granted' = WakeFirst(RemoveAt(waiters, i), granted \ {t})
    BY <1>5 DEF ResumeAndReturn
  <2>2. RemoveAt(waiters, i) \in Seq(Tasks)
    BY RemoveAtElements DEF TypeOK
  <2>3. granted' \in SUBSET Tasks
    BY <2>1, <2>2, WakeFirstType DEF TypeOK
  <2> QED BY <1>5, <2>1, <2>2, <2>3, EndType DEF ResumeAndReturn, TypeOK
<1>6. ASSUME NEW t \in Tasks, AbandonWait(t) PROVE TypeOK'
  <2>1. PICK i \in DOMAIN waiters :
           /\ waiters' = RemoveAt(waiters, i)
           /\ granted' = IF holder = None THEN WakeFirst(RemoveAt(waiters, i), granted \ {t})
                                          ELSE granted \ {t}
    BY <1>6 DEF AbandonWait
  <2>2. RemoveAt(waiters, i) \in Seq(Tasks)
    BY RemoveAtElements DEF TypeOK
  <2>3. granted' \in SUBSET Tasks
    BY <2>1, <2>2, WakeFirstType DEF TypeOK
  <2> QED BY <1>6, <2>1, <2>2, <2>3, EndType DEF AbandonWait, TypeOK
<1>7. ASSUME NEW t \in Tasks, NEW e \in Endpoints, Answer(t, e) PROVE TypeOK'
  BY <1>7 DEF Answer, TypeOK, lockVars
<1>8. ASSUME NEW t \in Tasks, NEW e \in Endpoints, Settle(t, e) PROVE TypeOK'
  BY <1>8 DEF Settle, TypeOK, lockVars
<1>9. ASSUME NEW t \in Tasks, NEW e \in Endpoints, NEW kind \in {"error", "runtime"},
             RequestFails(t, e, kind)
      PROVE  TypeOK'
  BY <1>9 DEF RequestFails, TypeOK, lockVars
<1>10. ASSUME NEW t \in Tasks, Publish(t) PROVE TypeOK'
  <2>1. metadata' \in Snapshots
    BY <1>10, PublishedSnapshot
  <2> QED BY <1>10, <2>1, ReleaseType, EndType DEF Publish, TypeOK
<1>11. ASSUME NEW t \in Tasks, BuildFails(t) PROVE TypeOK'
  <2>1. PICK status \in {"answered", "raised", "cancelled"},
             answer \in Snapshots \union {None} : End(t, status, answer)
    BY <1>11, EndFailedType DEF BuildFails
  <2> QED BY <1>11, <2>1, ReleaseType, EndType DEF BuildFails, TypeOK
<1>12. ASSUME NEW t \in Tasks, Unwound(t) PROVE TypeOK'
  <2>1. fate[t] \in {"error", "runtime", "cancelled"}
    BY <1>12 DEF Unwound, CallInv, TypeOK
  <2>2. PICK status \in {"answered", "raised", "cancelled"},
             answer \in Snapshots \union {None} : End(t, status, answer)
    BY <1>12, <2>1, EndFailedType DEF Unwound
  <2> QED BY <1>12, <2>2, ReleaseType, EndType DEF Unwound, TypeOK
<1>13. ASSUME NEW t \in Tasks, Cancel(t) PROVE TypeOK'
  BY <1>13 DEF Cancel, TypeOK, lockVars
<1>14. ASSUME NEW t \in Tasks, NEW coins \in SUBSET Coins,
              LookupMiss(t, coins) \/ LookupCold(t, coins)
       PROVE  TypeOK'
  BY <1>3, <1>14 DEF LookupMiss, LookupCold
<1>15. ASSUME NEW t \in Tasks, Refresh(t) PROVE TypeOK'
  BY <1>3, <1>15 DEF Refresh
<1> QED
  BY NextCases, <1>1, <1>2, <1>4, <1>5, <1>6, <1>7, <1>8, <1>9, <1>10, <1>11, <1>12,
     <1>13, <1>14, <1>15

-----------------------------------------------------------------------------
(* The lock.                                                               *)

\* Ending a call that gives the lock up, or never had it.
LEMMA EndLock ==
    ASSUME TypeOK, LockInv, NEW t \in Tasks, NEW status, NEW answer,
           End(t, status, answer),
           \/ Loads(t) /\ holder' = None
           \/ ~Loads(t) /\ holder' = holder
    PROVE  LockInv'
<1>1. ASSUME NEW u \in Tasks
      PROVE  /\ Loads(u)' <=> u # t /\ Loads(u)
             /\ u = t => inflight'[u] = {} /\ read'[u] = NothingRead
             /\ u # t => inflight'[u] = inflight[u] /\ read'[u] = read[u]
  BY DEF TypeOK, End, Loads
<1>2. None \notin Tasks
  BY CacheAssumption
<1>3. ASSUME NEW u \in Tasks PROVE u # t /\ Loads(u) <=> holder' = u
  <2>1. CASE Loads(t) /\ holder' = None
    BY <2>1, <1>2 DEF LockInv
  <2>2. CASE ~Loads(t) /\ holder' = holder
    BY <2>2 DEF LockInv
  <2> QED BY <2>1, <2>2
<1> QED BY <1>1, <1>3 DEF LockInv

\* A load begins under the lock that nobody held.
LEMMA StartLoadLock ==
    ASSUME TypeOK, LockInv, NEW t \in Tasks, holder = None, StartLoad(t), read' = read
    PROVE  LockInv'
<1>1. \A u \in Tasks : ~Loads(u)
  BY CacheAssumption DEF LockInv
<1>2. \A u \in Tasks : /\ Loads(u)' <=> u = t
                       /\ u # t => inflight'[u] = inflight[u]
  BY <1>1 DEF TypeOK, StartLoad, Loads
<1> QED BY <1>1, <1>2 DEF LockInv, StartLoad

\* Neither taking a free lock nor queueing for a held one disturbs the loads.
LEMMA AcquireLock ==
    ASSUME TypeOK, LockInv, NEW t \in Tasks, pc[t] = "idle", AcquireOrQueue(t), read' = read
    PROVE  LockInv'
<1>1. CASE LockFree /\ StartLoad(t)
  BY <1>1, StartLoadLock DEF LockFree
<1>2. CASE pc' = [pc EXCEPT ![t] = "waiting"] /\ UNCHANGED <<holder, granted, inflight>>
  <2>1. \A u \in Tasks : Loads(u)' <=> Loads(u)
    BY <1>2 DEF TypeOK, Loads
  <2> QED BY <1>2, <2>1 DEF LockInv
<1> QED BY <1>1, <1>2 DEF AcquireOrQueue

\* Every case of EndFailed is an End.
LEMMA EndFailedEnds ==
    ASSUME NEW t, NEW why, EndFailed(t, why)
    PROVE  \E status \in {"answered", "raised", "cancelled"} :
              \E answer : End(t, status, answer)
BY DEF EndFailed

\* Whoever loads holds the lock, and nobody else has requests in flight.
LEMMA LockStep == CacheInv /\ [Next]_vars => LockInv'
<1> SUFFICES ASSUME CacheInv, Next PROVE LockInv'
  BY DEF CacheInv, LockInv, Loads, vars
<1> USE DEF CacheInv
<1>0. None \notin Tasks
  BY CacheAssumption
<1>1. CASE List
  BY <1>1 DEF List, LockInv, Loads, lockVars, loadVars
<1>2. ASSUME NEW t \in Tasks, NEW coins \in SUBSET Coins, LookupHit(t, coins)
      PROVE  LockInv'
  BY <1>2, EndLock DEF LookupHit, Begin, Loads, lockVars
<1>3. ASSUME NEW t \in Tasks, pc[t] = "idle", AcquireOrQueue(t), read' = read
      PROVE  LockInv'
  BY <1>3, AcquireLock
<1>4. ASSUME NEW t \in Tasks, ResumeAndLoad(t) PROVE LockInv'
  BY <1>4, StartLoadLock DEF ResumeAndLoad, QueueInv
<1>5. ASSUME NEW t \in Tasks, ResumeAndReturn(t) PROVE LockInv'
  BY <1>5, EndLock DEF ResumeAndReturn, Loads
<1>6. ASSUME NEW t \in Tasks, AbandonWait(t) PROVE LockInv'
  BY <1>6, EndLock DEF AbandonWait, Loads
<1>7. ASSUME NEW t \in Tasks, NEW e \in Endpoints, Answer(t, e) PROVE LockInv'
  <2>1. \A u \in Tasks : /\ Loads(u)' <=> Loads(u)
                         /\ u # t => inflight'[u] = inflight[u] /\ read'[u] = read[u]
    BY <1>7 DEF Answer, TypeOK, Loads
  <2>2. Loads(t)
    BY <1>7 DEF Answer, Loads
  <2> QED BY <1>7, <2>1, <2>2 DEF Answer, LockInv, lockVars
<1>8. ASSUME NEW t \in Tasks, NEW e \in Endpoints, Settle(t, e) PROVE LockInv'
  <2>1. \A u \in Tasks : /\ Loads(u)' <=> Loads(u)
                         /\ u # t => inflight'[u] = inflight[u] /\ read'[u] = read[u]
    BY <1>8 DEF Settle, TypeOK, Loads
  <2>2. Loads(t)
    BY <1>8 DEF Settle, Loads
  <2> QED BY <1>8, <2>1, <2>2 DEF Settle, LockInv, lockVars
<1>9. ASSUME NEW t \in Tasks, NEW e \in Endpoints, NEW kind \in {"error", "runtime"},
             RequestFails(t, e, kind)
      PROVE  LockInv'
  <2>1. \A u \in Tasks : /\ Loads(u)' <=> Loads(u)
                         /\ u # t => inflight'[u] = inflight[u] /\ read'[u] = read[u]
    BY <1>9 DEF RequestFails, TypeOK, Loads
  <2>2. Loads(t)
    BY <1>9 DEF RequestFails, Loads
  <2> QED BY <1>9, <2>1, <2>2 DEF RequestFails, LockInv, lockVars
<1>10. ASSUME NEW t \in Tasks, Publish(t) PROVE LockInv'
  BY <1>10, EndLock DEF Publish, Release, Loads
<1>11. ASSUME NEW t \in Tasks, BuildFails(t) PROVE LockInv'
  BY <1>11, EndFailedEnds, EndLock DEF BuildFails, Release, Loads
<1>12. ASSUME NEW t \in Tasks, Unwound(t) PROVE LockInv'
  BY <1>12, EndFailedEnds, EndLock DEF Unwound, Release, Loads
<1>13. ASSUME NEW t \in Tasks, Cancel(t) PROVE LockInv'
  <2>1. pc[t] \in {"waiting", "loading", "unwinding"}
    BY <1>13 DEF Cancel, TypeOK
  <2>2. \A u \in Tasks : Loads(u)' <=> Loads(u)
    BY <1>13, <2>1 DEF Cancel, TypeOK, Loads
  <2> QED BY <1>13, <2>2 DEF Cancel, LockInv, lockVars
<1>14. ASSUME NEW t \in Tasks, NEW coins \in SUBSET Coins,
              LookupMiss(t, coins) \/ LookupCold(t, coins)
       PROVE  LockInv'
  BY <1>3, <1>14 DEF LookupMiss, LookupCold, Begin
<1>15. ASSUME NEW t \in Tasks, Refresh(t) PROVE LockInv'
  BY <1>3, <1>15 DEF Refresh, Begin
<1> QED
  BY NextCases, <1>1, <1>2, <1>4, <1>5, <1>6, <1>7, <1>8, <1>9, <1>10, <1>11, <1>12,
     <1>13, <1>14, <1>15

-----------------------------------------------------------------------------
(* The queue.                                                              *)

\* The first of a queue of tasks is one of them.
LEMMA HeadQueued ==
    ASSUME NEW q \in Seq(Tasks), q # <<>>
    PROVE  Head(q) \in Tasks /\ Head(q) \in Range(q)
<1>1. Head(q) = q[1] /\ 1 \in DOMAIN q
  BY EmptySeq, LenProperties
<1> QED BY <1>1, HeadTailProperties DEF Range

\* Who reaches the lock with nobody before it finds nobody woken.
LEMMA FreeMeansNoGrant == ASSUME TypeOK, QueueInv, LockFree PROVE granted = {}
BY HeadQueued DEF TypeOK, QueueInv, LockFree, FutureCancelled, Queued

\* A task that does not wait ends its call and releases the lock.
LEMMA ReleaseQueue ==
    ASSUME CacheInv, NEW t \in Tasks, Loads(t), Release,
           NEW status, NEW answer, End(t, status, answer)
    PROVE  QueueInv' /\ LockHandedOn'
<1> USE DEF CacheInv
<1>1. holder = t /\ t # None
  BY CacheAssumption DEF LockInv
<1>2. granted = {}
  BY <1>1 DEF QueueInv
<1>3. /\ holder' = None
      /\ waiters' = waiters
      /\ granted' = WakeFirst(waiters, {})
  BY <1>2 DEF Release
<1>4. t \notin Queued
  BY DEF QueueInv, Loads
<1>5. \A u \in Tasks : pc'[u] = "waiting" <=> pc[u] = "waiting"
  BY DEF TypeOK, End, Loads
<1>6. QueueInv'
  BY <1>3, <1>5 DEF QueueInv, Queued, WakeFirst
<1>7. ASSUME waiters # <<>>
      PROVE  Head(waiters) \in granted' \/ fate'[Head(waiters)] = "cancelled"
  <2>1. Head(waiters) \in Tasks /\ Head(waiters) \in Queued
    BY <1>7, HeadQueued DEF TypeOK, Queued
  <2>2. fate'[Head(waiters)] = fate[Head(waiters)]
    BY <2>1, <1>4 DEF TypeOK, End
  <2> QED BY <1>7, <1>3, <2>2 DEF WakeFirst, FutureCancelled
<1> QED BY <1>3, <1>6, <1>7 DEF LockHandedOn

\* A waiter leaves the queue while nobody holds the lock and wakes the next.
LEMMA PassOn ==
    ASSUME CacheInv, NEW t \in Tasks, pc[t] = "waiting", holder = None, holder' = None,
           NEW i \in DOMAIN waiters, waiters[i] = t,
           waiters' = RemoveAt(waiters, i),
           granted' = WakeFirst(waiters', granted \ {t}),
           NEW status, NEW answer, End(t, status, answer)
    PROVE  QueueInv' /\ LockHandedOn'
<1> USE DEF CacheInv
<1>1. /\ waiters' \in Seq(Tasks)
      /\ Range(waiters') = Queued \ {t}
      /\ IsInjective(waiters')
      /\ t # Head(waiters) => waiters' # <<>> /\ Head(waiters') = Head(waiters)
  BY RemoveAtQueue DEF TypeOK, QueueInv, Queued
<1>2. \A u \in Tasks : pc'[u] = "waiting" <=> pc[u] = "waiting" /\ u # t
  BY DEF TypeOK, End
<1>3. \A u \in granted \ {t} : waiters' # <<>> /\ u = Head(waiters')
  BY <1>1 DEF QueueInv
<1>4. QueueInv'
  BY <1>1, <1>2, <1>3 DEF QueueInv, Queued, WakeFirst
<1>5. ASSUME waiters' # <<>>
      PROVE  Head(waiters') \in granted' \/ fate'[Head(waiters')] = "cancelled"
  <2>1. Head(waiters') \in Tasks /\ Head(waiters') # t
    BY <1>1, <1>5, HeadQueued
  <2>2. fate'[Head(waiters')] = fate[Head(waiters')]
    BY <2>1 DEF TypeOK, End
  <2> QED BY <1>5, <2>2 DEF WakeFirst, FutureCancelled
<1> QED BY <1>4, <1>5 DEF LockHandedOn

\* A call takes the free lock, or becomes the last of the queue.
LEMMA AcquireQueue ==
    ASSUME CacheInv, NEW t \in Tasks, pc[t] = "idle", AcquireOrQueue(t), fate' = fate
    PROVE  QueueInv' /\ LockHandedOn'
<1> USE DEF CacheInv
<1>0. t # None
  BY CacheAssumption
<1>1. CASE LockFree /\ StartLoad(t) /\ UNCHANGED <<waiters, granted>>
  <2>1. granted' = {}
    BY <1>1, FreeMeansNoGrant
  <2>2. \A u \in Tasks : pc'[u] = "waiting" <=> pc[u] = "waiting"
    BY <1>1 DEF TypeOK, StartLoad
  <2>3. QueueInv'
    BY <1>1, <2>1, <2>2 DEF QueueInv, Queued
  <2> QED BY <1>0, <1>1, <2>3 DEF LockHandedOn, StartLoad
<1>2. CASE /\ ~LockFree
           /\ waiters' = Append(waiters, t)
           /\ pc' = [pc EXCEPT ![t] = "waiting"]
           /\ UNCHANGED <<holder, granted, inflight>>
  <2>1. t \notin Range(waiters)
    BY DEF QueueInv, Queued
  <2>2. /\ Range(waiters') = Range(waiters) \union {t}
        /\ IsInjective(waiters')
        /\ waiters' # <<>>
        /\ waiters # <<>> => Head(waiters') = Head(waiters)
    BY <1>2, <2>1, AppendQueue DEF TypeOK, QueueInv
  <2>3. \A u \in Tasks : pc'[u] = "waiting" <=> pc[u] = "waiting" \/ u = t
    BY <1>2 DEF TypeOK
  <2>4. QueueInv'
    BY <1>2, <2>2, <2>3 DEF QueueInv, Queued
  <2>5. holder = None => waiters # <<>>
    BY <1>2 DEF LockFree, Queued, Range
  <2> QED BY <1>2, <2>2, <2>4, <2>5 DEF LockHandedOn
<1> QED BY <1>1, <1>2 DEF AcquireOrQueue

\* A load that goes on, or begins to unwind, leaves the queue alone.
LEMMA LoadQueue ==
    ASSUME CacheInv, NEW t \in Tasks, Loads(t), UNCHANGED lockVars,
           \A u \in Tasks : pc'[u] = "waiting" <=> pc[u] = "waiting",
           \A u \in Tasks : u # t => fate'[u] = fate[u]
    PROVE  QueueInv' /\ LockHandedOn'
<1> USE DEF CacheInv
<1>1. QueueInv'
  BY DEF QueueInv, Queued, lockVars
<1>2. holder' # None
  BY CacheAssumption DEF LockInv, lockVars
<1> QED BY <1>1, <1>2 DEF LockHandedOn

\* The queue stays as QueueInv says, and the wake-up is never lost.
LEMMA QueueStep == CacheInv /\ [Next]_vars => QueueInv' /\ LockHandedOn'
<1> SUFFICES ASSUME CacheInv, Next PROVE QueueInv' /\ LockHandedOn'
  BY DEF CacheInv, QueueInv, Queued, LockHandedOn, vars
<1> USE DEF CacheInv
<1>1. CASE List
  BY <1>1 DEF List, QueueInv, Queued, LockHandedOn, lockVars, loadVars
<1>2. ASSUME NEW t \in Tasks, NEW coins \in SUBSET Coins, LookupHit(t, coins)
      PROVE  QueueInv' /\ LockHandedOn'
  <2>1. pc[t] = "idle" /\ End(t, "answered", metadata) /\ UNCHANGED lockVars
    BY <1>2 DEF LookupHit, Begin
  <2>2. pc' = pc /\ fate' = fate
    BY <2>1 DEF End, CallInv, TypeOK
  <2> QED BY <2>1, <2>2 DEF QueueInv, Queued, LockHandedOn, lockVars
<1>4. ASSUME NEW t \in Tasks, ResumeAndLoad(t) PROVE QueueInv' /\ LockHandedOn'
  <2>1. PICK i \in DOMAIN waiters : waiters[i] = t /\ waiters' = RemoveAt(waiters, i)
    BY <1>4 DEF ResumeAndLoad
  <2>2. Range(waiters') = Queued \ {t} /\ IsInjective(waiters')
    BY <2>1, RemoveAtQueue DEF TypeOK, QueueInv, Queued
  <2>3. granted' = {}
    BY <1>4 DEF ResumeAndLoad, QueueInv
  <2>4. holder' = t /\ t # None
    BY <1>4, CacheAssumption DEF ResumeAndLoad, StartLoad
  <2>5. \A u \in Tasks : pc'[u] = "waiting" <=> pc[u] = "waiting" /\ u # t
    BY <1>4 DEF ResumeAndLoad, StartLoad, TypeOK
  <2> QED BY <2>2, <2>3, <2>4, <2>5 DEF QueueInv, Queued, LockHandedOn
<1>5. ASSUME NEW t \in Tasks, ResumeAndReturn(t) PROVE QueueInv' /\ LockHandedOn'
  <2>1. PICK i \in DOMAIN waiters : /\ waiters[i] = t
                                   /\ waiters' = RemoveAt(waiters, i)
                                   /\ granted' = WakeFirst(waiters', granted \ {t})
    BY <1>5 DEF ResumeAndReturn
  <2>2. holder = None /\ holder' = None
    BY <1>5 DEF ResumeAndReturn, QueueInv
  <2> QED BY <1>5, <2>1, <2>2, PassOn DEF ResumeAndReturn
<1>6. ASSUME NEW t \in Tasks, AbandonWait(t) PROVE QueueInv' /\ LockHandedOn'
  <2>1. PICK i \in DOMAIN waiters :
           /\ waiters[i] = t
           /\ waiters' = RemoveAt(waiters, i)
           /\ granted' = IF holder = None THEN WakeFirst(waiters', granted \ {t})
                                          ELSE granted \ {t}
    BY <1>6 DEF AbandonWait
  <2>2. CASE holder = None
    BY <1>6, <2>1, <2>2, PassOn DEF AbandonWait
  <2>3. CASE holder # None
    <3>1. Range(waiters') = Queued \ {t} /\ IsInjective(waiters')
      BY <2>1, RemoveAtQueue DEF TypeOK, QueueInv, Queued
    <3>2. granted' = {} /\ holder' = holder
      BY <1>6, <2>1, <2>3 DEF AbandonWait, QueueInv
    <3>3. \A u \in Tasks : pc'[u] = "waiting" <=> pc[u] = "waiting" /\ u # t
      BY <1>6 DEF AbandonWait, End, TypeOK
    <3> QED BY <2>3, <3>1, <3>2, <3>3 DEF QueueInv, Queued, LockHandedOn
  <2> QED BY <2>2, <2>3
<1>7. ASSUME NEW t \in Tasks, NEW e \in Endpoints,
             \/ Answer(t, e)
             \/ Settle(t, e)
             \/ \E kind \in {"error", "runtime"} : RequestFails(t, e, kind)
      PROVE  QueueInv' /\ LockHandedOn'
  <2>1. Loads(t) /\ UNCHANGED lockVars
    BY <1>7 DEF Answer, Settle, RequestFails, Loads
  <2>2. /\ \A u \in Tasks : pc'[u] = "waiting" <=> pc[u] = "waiting"
        /\ \A u \in Tasks : u # t => fate'[u] = fate[u]
    BY <1>7 DEF Answer, Settle, RequestFails, TypeOK
  <2> QED BY <2>1, <2>2, LoadQueue
<1>8. ASSUME NEW t \in Tasks, Publish(t) PROVE QueueInv' /\ LockHandedOn'
  BY <1>8, ReleaseQueue DEF Publish, Loads
<1>9. ASSUME NEW t \in Tasks, BuildFails(t) \/ Unwound(t) PROVE QueueInv' /\ LockHandedOn'
  BY <1>9, EndFailedEnds, ReleaseQueue DEF BuildFails, Unwound, Loads
<1>10. ASSUME NEW t \in Tasks, Cancel(t) PROVE QueueInv' /\ LockHandedOn'
  <2>1. /\ \A u \in Tasks : pc'[u] = "waiting" <=> pc[u] = "waiting"
        /\ \A u \in Tasks : fate[u] = "cancelled" => fate'[u] = "cancelled"
        /\ UNCHANGED lockVars
    BY <1>10 DEF Cancel, TypeOK
  <2>2. QueueInv'
    BY <2>1 DEF QueueInv, Queued, lockVars
  <2>3. waiters # <<>> => Head(waiters) \in Tasks
    BY HeadQueued DEF TypeOK
  <2> QED BY <2>1, <2>2, <2>3 DEF LockHandedOn, lockVars
<1>11. ASSUME NEW t \in Tasks, NEW coins \in SUBSET Coins,
              LookupMiss(t, coins) \/ LookupCold(t, coins) \/ Refresh(t)
       PROVE  QueueInv' /\ LockHandedOn'
  BY <1>11, AcquireQueue DEF LookupMiss, LookupCold, Refresh, Begin
<1> QED
  BY NextCases, <1>1, <1>2, <1>4, <1>5, <1>6, <1>7, <1>8, <1>9, <1>10, <1>11

-----------------------------------------------------------------------------
(* What the calls know.                                                    *)

\* A call that ends leaves the others' notes alone and clears its own.
LEMMA EndCall ==
    ASSUME TypeOK, CallInv, NEW t \in Tasks, NEW status, NEW answer,
           End(t, status, answer), UNCHANGED <<version, call>>,
           metadata # None => metadata' # None
    PROVE  CallInv'
<1>1. \A u \in Tasks : u # t => pc'[u] = pc[u] /\ fate'[u] = fate[u]
  BY DEF TypeOK, End
<1>2. pc'[t] = "idle" /\ fate'[t] = "none"
  BY DEF TypeOK, End
<1> QED BY <1>1, <1>2 DEF CallInv

\* What a call notes when it begins.
LEMMA BeginCall ==
    ASSUME TypeOK, NEW t \in Tasks, NEW kind, NEW coins, Begin(t, kind, coins)
    PROVE  /\ call'[t] = [kind |-> kind, coins |-> coins,
                          snapshot |-> metadata, began |-> version]
           /\ call'[t].kind = kind /\ call'[t].snapshot = metadata
           /\ call'[t].began = version
           /\ \A u \in Tasks : u # t => call'[u] = call[u]
BY DEF TypeOK, Begin

\* A call that asks for the lock has noted what its way on depends on.
LEMMA AcquireCall ==
    ASSUME TypeOK, CallInv, NEW t \in Tasks, NEW coins,
           NEW kind \in {"miss", "cold", "refresh"}, kind = "miss" => metadata # None,
           Begin(t, kind, coins), AcquireOrQueue(t), fate' = fate
    PROVE  CallInv'
<1>1. /\ \A u \in Tasks : u # t => pc'[u] = pc[u] /\ call'[u] = call[u]
      /\ pc'[t] \in {"waiting", "loading"}
      /\ metadata' = metadata /\ version' = version
  BY BeginCall DEF Begin, AcquireOrQueue, StartLoad, TypeOK
<1>2. fate[t] = "none"
  BY DEF CallInv, Begin
<1>3. call'[t].began <= version
  <2>1. call'[t].began = version
    BY BeginCall
  <2> QED BY <2>1 DEF TypeOK, Versions
<1>4. ASSUME NEW u \in Tasks, u # t
      PROVE  /\ pc'[u] = pc[u] /\ fate'[u] = fate[u] /\ call'[u] = call[u]
             /\ metadata' = metadata /\ version' = version
  BY <1>1, <1>4
<1>5. call'[t].kind = kind /\ call'[t].snapshot = metadata
  BY BeginCall
<1> QED BY <1>1, <1>2, <1>3, <1>4, <1>5 DEF CallInv

\* What a suspended call notes about itself stays right.
LEMMA CallStep == CacheInv /\ [Next]_vars /\ TypeOK' => CallInv'
<1> SUFFICES ASSUME CacheInv, Next, TypeOK' PROVE CallInv'
  BY DEF CacheInv, CallInv, vars
<1> USE DEF CacheInv
<1>1. CASE List
  <2>1. \A t \in Tasks : call[t].began \in Int
    BY DEF TypeOK, Versions, Calls
  <2>2. \A t \in Tasks : call[t].began <= version'
    BY <1>1, <2>1 DEF List, CallInv, TypeOK, Versions
  <2> QED BY <1>1, <2>2 DEF List, CallInv, loadVars
<1>2. ASSUME NEW t \in Tasks, NEW coins \in SUBSET Coins, LookupHit(t, coins)
      PROVE  CallInv'
  <2>1. /\ pc' = pc /\ fate' = fate
        /\ pc[t] = "idle" /\ metadata' = metadata /\ version' = version
    BY <1>2 DEF LookupHit, Begin, End, CallInv, TypeOK
  <2>2. call'[t].began <= version /\ \A u \in Tasks : u # t => call'[u] = call[u]
    BY <1>2, BeginCall DEF LookupHit, TypeOK, Versions
  <2> QED BY <2>1, <2>2 DEF CallInv
<1>3. ASSUME NEW t \in Tasks, NEW coins \in SUBSET Coins,
             LookupMiss(t, coins) \/ LookupCold(t, coins) \/ Refresh(t)
      PROVE  CallInv'
  <2>1. CASE LookupMiss(t, coins)
    BY <2>1, AcquireCall DEF LookupMiss
  <2>2. CASE LookupCold(t, coins)
    BY <2>2, AcquireCall DEF LookupCold
  <2>3. CASE Refresh(t)
    BY <2>3, AcquireCall DEF Refresh
  <2> QED BY <1>3, <2>1, <2>2, <2>3
<1>4. ASSUME NEW t \in Tasks, ResumeAndLoad(t) PROVE CallInv'
  <2>1. /\ \A u \in Tasks : u # t => pc'[u] = pc[u]
        /\ pc[t] = "waiting" /\ pc'[t] = "loading" /\ fate[t] = "none"
        /\ UNCHANGED <<version, metadata, call, fate>>
    BY <1>4 DEF ResumeAndLoad, StartLoad, TypeOK
  <2> QED BY <2>1 DEF CallInv
<1>5. ASSUME NEW t \in Tasks, ResumeAndReturn(t) PROVE CallInv'
  BY <1>5, EndCall DEF ResumeAndReturn
<1>6. ASSUME NEW t \in Tasks, AbandonWait(t) PROVE CallInv'
  BY <1>6, EndCall DEF AbandonWait
<1>7. ASSUME NEW t \in Tasks, NEW e \in Endpoints, Answer(t, e) \/ Settle(t, e) PROVE CallInv'
  BY <1>7 DEF Answer, Settle, CallInv
<1>8. ASSUME NEW t \in Tasks, NEW e \in Endpoints, NEW kind \in {"error", "runtime"},
             RequestFails(t, e, kind)
      PROVE  CallInv'
  <2>1. /\ \A u \in Tasks : u # t => pc'[u] = pc[u] /\ fate'[u] = fate[u]
        /\ pc[t] = "loading" /\ pc'[t] = "unwinding" /\ fate'[t] # "none"
        /\ UNCHANGED <<version, metadata, call>>
    BY <1>8 DEF RequestFails, TypeOK
  <2> QED BY <2>1 DEF CallInv
<1>9. ASSUME NEW t \in Tasks, Publish(t) PROVE CallInv'
  <2>1. metadata' # None
    BY <1>9, PublishedSnapshot
  <2> QED BY <1>9, <2>1, EndCall DEF Publish
<1>10. ASSUME NEW t \in Tasks, BuildFails(t) \/ Unwound(t) PROVE CallInv'
  BY <1>10, EndFailedEnds, EndCall DEF BuildFails, Unwound
<1>11. ASSUME NEW t \in Tasks, Cancel(t) PROVE CallInv'
  <2>1. /\ \A u \in Tasks : u # t => pc'[u] = pc[u] /\ fate'[u] = fate[u]
        /\ pc[t] # "idle" /\ fate'[t] = "cancelled"
        /\ pc'[t] = "waiting" \/ pc'[t] = "unwinding"
        /\ UNCHANGED <<version, metadata, call>>
    BY <1>11 DEF Cancel, TypeOK
  <2> QED BY <2>1 DEF CallInv
<1> QED
  BY NextCases, <1>1, <1>2, <1>3, <1>4, <1>5, <1>6, <1>7, <1>8, <1>9, <1>10, <1>11

\* A miss that reloads still replaces the snapshot it missed on.
LEMMA MissStep == CacheInv /\ [Next]_vars => MissInv'
<1> SUFFICES ASSUME CacheInv, Next PROVE MissInv'
  BY DEF CacheInv, MissInv, Loads, vars
<1> USE DEF CacheInv
<1>1. CASE List
  BY <1>1 DEF List, MissInv, Loads
<1>2. ASSUME NEW t \in Tasks, NEW coins, NEW kind,
             Begin(t, kind, coins), \A u \in Tasks : u # t => pc'[u] = pc[u]
      PROVE  MissInv'
  BY <1>2, BeginCall DEF Begin, MissInv, Loads
<1>3. ASSUME NEW t \in Tasks, NEW coins \in SUBSET Coins,
             \/ LookupHit(t, coins) \/ LookupMiss(t, coins)
             \/ LookupCold(t, coins) \/ Refresh(t)
      PROVE  MissInv'
  <2>1. \A u \in Tasks : u # t => pc'[u] = pc[u]
    BY <1>3 DEF LookupHit, LookupMiss, LookupCold, Refresh, End, AcquireOrQueue, StartLoad, TypeOK
  <2> QED BY <1>2, <1>3, <2>1 DEF LookupHit, LookupMiss, LookupCold, Refresh
<1>4. ASSUME NEW t \in Tasks, ResumeAndLoad(t) PROVE MissInv'
  <2>1. \A u \in Tasks : u # t => pc'[u] = pc[u]
    BY <1>4 DEF ResumeAndLoad, StartLoad, TypeOK
  <2>2. UNCHANGED <<metadata, call>>
    BY <1>4 DEF ResumeAndLoad
  <2>3. call[t].kind = "miss" => metadata = call[t].snapshot
    BY <1>4 DEF ResumeAndLoad, NeedsLoad
  <2> QED BY <2>1, <2>2, <2>3 DEF MissInv, Loads
<1>5. ASSUME NEW t \in Tasks, UNCHANGED <<metadata, call>>,
             \A u \in Tasks : Loads(u)' => Loads(u)
      PROVE  MissInv'
  BY <1>5 DEF MissInv
<1>6. ASSUME NEW t \in Tasks, ResumeAndReturn(t) \/ AbandonWait(t) PROVE MissInv'
  <2>1. \A u \in Tasks : Loads(u)' => Loads(u)
    BY <1>6 DEF ResumeAndReturn, AbandonWait, End, TypeOK, Loads
  <2> QED BY <1>5, <1>6, <2>1 DEF ResumeAndReturn, AbandonWait
<1>7. ASSUME NEW t \in Tasks, NEW e \in Endpoints,
             \/ Answer(t, e) \/ Settle(t, e)
             \/ \E kind \in {"error", "runtime"} : RequestFails(t, e, kind)
      PROVE  MissInv'
  <2>1. \A u \in Tasks : Loads(u)' => Loads(u)
    BY <1>7 DEF Answer, Settle, RequestFails, TypeOK, Loads
  <2> QED BY <1>5, <1>7, <2>1 DEF Answer, Settle, RequestFails
<1>8. ASSUME NEW t \in Tasks, Publish(t) PROVE MissInv'
  <2>1. \A u \in Tasks : ~Loads(u)'
    BY <1>8 DEF Publish, End, TypeOK, Loads, LockInv
  <2> QED BY <2>1 DEF MissInv
<1>9. ASSUME NEW t \in Tasks, BuildFails(t) \/ Unwound(t) PROVE MissInv'
  <2>1. \A u \in Tasks : Loads(u)' => Loads(u)
    BY <1>9, EndFailedEnds DEF BuildFails, Unwound, End, TypeOK, Loads
  <2> QED BY <1>5, <1>9, <2>1 DEF BuildFails, Unwound
<1>10. ASSUME NEW t \in Tasks, Cancel(t) PROVE MissInv'
  <2>1. \A u \in Tasks : Loads(u)' => Loads(u)
    BY <1>10 DEF Cancel, TypeOK, Loads
  <2> QED BY <1>5, <1>10, <2>1 DEF Cancel
<1> QED
  BY NextCases, <1>1, <1>3, <1>4, <1>6, <1>7, <1>8, <1>9, <1>10

\* A read that is kept, or given up, is as fresh as it was.
LEMMA KeepFresh ==
    ASSUME TypeOK, FreshInv, version' = version, metadata' = metadata,
           \A u \in Tasks, e \in Endpoints :
              \/ read'[u][e] = Unread
              \/ read'[u][e] = read[u][e] /\ call'[u].began = call[u].began
    PROVE  FreshInv'
BY DEF FreshInv

\* The end of a call forgets what its own load has read, and nobody else's.
LEMMA EndRead ==
    ASSUME TypeOK, NEW t \in Tasks, NEW status, NEW answer, End(t, status, answer)
    PROVE  \A u \in Tasks, e \in Endpoints :
              IF u = t THEN read'[u][e] = Unread ELSE read'[u][e] = read[u][e]
BY DEF TypeOK, End, NothingRead

\* What a load has read stays no older than its call and the published snapshot.
LEMMA FreshStep == CacheInv /\ [Next]_vars => FreshInv'
<1> SUFFICES ASSUME CacheInv, Next PROVE FreshInv'
  BY DEF CacheInv, FreshInv, vars
<1> USE DEF CacheInv
<1>1. CASE List
  <2>1. /\ version' = version + 1 /\ version \in Int
        /\ UNCHANGED <<metadata, read, call>>
        /\ \A t \in Tasks, e \in Endpoints : read[t][e] \in Int
        /\ \A t \in Tasks : call[t].began \in Int
        /\ metadata # None => \A e \in Endpoints : metadata.read[e] \in Int
    BY <1>1 DEF List, loadVars, TypeOK, Versions, Unread, Calls, Snapshots, Readings
  <2> QED BY <2>1 DEF FreshInv
<1>2. ASSUME NEW t \in Tasks, NEW coins \in SUBSET Coins,
             \/ LookupHit(t, coins) \/ LookupMiss(t, coins)
             \/ LookupCold(t, coins) \/ Refresh(t)
      PROVE  FreshInv'
  <2>1. PICK kind \in {"hit", "miss", "cold", "refresh"}, batch \in SUBSET Coins : Begin(t, kind, batch)
    BY <1>2 DEF LookupHit, LookupMiss, LookupCold, Refresh
  <2>2. /\ version' = version /\ metadata' = metadata
        /\ \A u \in Tasks : u # t => call'[u].began = call[u].began
    BY <2>1, BeginCall DEF Begin
  <2>3. \A e \in Endpoints : read[t][e] = Unread
    BY <2>1 DEF Begin, LockInv, Loads, NothingRead
  <2>4. \A u \in Tasks, e \in Endpoints : read'[u][e] = read[u][e]
    BY <1>2, <2>3, EndRead DEF LookupHit, LookupMiss, LookupCold, Refresh
  <2> QED BY <2>2, <2>3, <2>4, KeepFresh
<1>3. ASSUME NEW t \in Tasks, ResumeAndLoad(t) PROVE FreshInv'
  BY <1>3, KeepFresh DEF ResumeAndLoad
<1>4. ASSUME NEW t \in Tasks, ResumeAndReturn(t) \/ AbandonWait(t) PROVE FreshInv'
  <2>1. UNCHANGED <<version, metadata, call>>
    BY <1>4 DEF ResumeAndReturn, AbandonWait
  <2>2. \A u \in Tasks, e \in Endpoints : read'[u][e] = Unread \/ read'[u][e] = read[u][e]
    BY <1>4, EndRead DEF ResumeAndReturn, AbandonWait
  <2> QED BY <2>1, <2>2, KeepFresh
<1>5. ASSUME NEW t \in Tasks, NEW e \in Endpoints, Answer(t, e) PROVE FreshInv'
  <2>1. /\ UNCHANGED <<version, metadata, call>>
        /\ \A u \in Tasks, f \in Endpoints :
              IF u = t /\ f = e THEN read'[u][f] = version ELSE read'[u][f] = read[u][f]
    BY <1>5 DEF Answer, TypeOK
  <2>2. call[t].began \in Int /\ version \in Int /\ call[t].began <= version
    BY DEF TypeOK, Versions, Calls, CallInv
  <2>3. version \in call[t].began .. version
    BY <2>2
  <2> QED BY <2>1, <2>3 DEF FreshInv
<1>6. ASSUME NEW t \in Tasks, NEW e \in Endpoints,
             \/ Settle(t, e)
             \/ \E kind \in {"error", "runtime"} : RequestFails(t, e, kind)
      PROVE  FreshInv'
  BY <1>6, KeepFresh DEF Settle, RequestFails
<1>7. ASSUME NEW t \in Tasks, Publish(t) PROVE FreshInv'
  <2>1. /\ version' = version
        /\ metadata'.read = read[t]
        /\ \A e \in Endpoints : read[t][e] # Unread
    BY <1>7, PublishedSnapshot DEF Publish, Answered
  <2>2. \A e \in Endpoints : read[t][e] \in call[t].began .. version
    BY <2>1 DEF FreshInv
  <2>3. \A e \in Endpoints : metadata'.read[e] <= version'
    BY <2>1, <2>2
  <2>4. \A u \in Tasks, e \in Endpoints : read'[u][e] = Unread
    <3>1. \A u \in Tasks : u # t => read[u] = NothingRead
      BY <1>7 DEF Publish, LockInv, Loads
    <3> QED BY <1>7, <3>1, EndRead DEF Publish, NothingRead
  <2> QED BY <2>3, <2>4 DEF FreshInv
<1>8. ASSUME NEW t \in Tasks, BuildFails(t) \/ Unwound(t) PROVE FreshInv'
  <2>1. UNCHANGED <<version, metadata, call>>
    BY <1>8 DEF BuildFails, Unwound
  <2>2. \A u \in Tasks, e \in Endpoints : read'[u][e] = Unread \/ read'[u][e] = read[u][e]
    BY <1>8, EndFailedEnds, EndRead DEF BuildFails, Unwound
  <2> QED BY <2>1, <2>2, KeepFresh
<1>9. ASSUME NEW t \in Tasks, Cancel(t) PROVE FreshInv'
  BY <1>9, KeepFresh DEF Cancel
<1> QED
  BY NextCases, <1>1, <1>2, <1>3, <1>4, <1>5, <1>6, <1>7, <1>8, <1>9

-----------------------------------------------------------------------------
(* The invariant holds.                                                    *)

\* The invariant holds of a client that has made no call.
LEMMA CacheInit == Init => CacheInv
<1> SUFFICES ASSUME Init PROVE CacheInv
  OBVIOUS
<1>1. TypeOK
  BY CacheAssumption
  DEF Init, TypeOK, Versions, Unread, NothingRead, NoCall, Calls, Outcomes, Endpoints
<1>2. Queued = {} /\ IsInjective(waiters)
  BY DEF Init, Queued, Range, IsInjective
<1>3. LockInv /\ QueueInv /\ LockHandedOn
  BY <1>2, NoneIsNoRecord DEF Init, LockInv, QueueInv, LockHandedOn, Loads
<1>4. CallInv /\ MissInv /\ FreshInv
  BY DEF Init, CallInv, MissInv, FreshInv, Loads, NoCall, NothingRead
<1> QED BY <1>1, <1>3, <1>4 DEF CacheInv

\* Every step preserves the inductive invariant.
LEMMA CacheStep == CacheInv /\ [Next]_vars => CacheInv'
BY TypeStep, LockStep, QueueStep, CallStep, MissStep, FreshStep DEF CacheInv

\* The inductive invariant holds in every state of every behaviour.
THEOREM CacheInvariant == Spec => []CacheInv
BY CacheInit, CacheStep, PTL DEF Spec

\* Every variable keeps its type, whatever tasks share the client.
THEOREM TypeCorrect == Spec => []TypeOK
BY CacheInvariant, PTL DEF CacheInv

\* Loads never overlap, and no request outlives its call's hold on the lock.
THEOREM ExclusiveLoads == Spec => []LoadsUnderLock
<1>1. CacheInv => LoadsUnderLock
  BY DEF CacheInv, LockInv, LoadsUnderLock
<1> QED BY <1>1, CacheInvariant, PTL

\* While the lock is free the first waiter has been woken: no wake-up is lost.
THEOREM WakeupNeverLost == Spec => []LockHandedOn
BY CacheInvariant, PTL DEF CacheInv

-----------------------------------------------------------------------------
(* What steps do to the published snapshot and to callers.                 *)

\* Only a load that succeeded replaces the snapshot.
LEMMA OnlyPublish ==
    ASSUME [Next]_vars, metadata' # metadata
    PROVE  \E t \in Tasks : Publish(t)
<1>1. Next
  BY DEF vars
<1> QED
  BY <1>1, NextCases
  DEF List, LookupHit, LookupMiss, LookupCold, Refresh, Begin, ResumeAndLoad, ResumeAndReturn,
      AbandonWait, Answer, Settle, RequestFails, BuildFails, Unwound, Cancel

\* A published snapshot is never cleared and no part of it ever gets older.
THEOREM SnapshotAdvances == Spec => PublishedAdvances
<1> DEFINE Advance ==
      metadata # None =>
         /\ metadata' # None
         /\ metadata'.epoch = metadata.epoch + 1
         /\ \A e \in Endpoints : metadata'.read[e] >= metadata.read[e]
<1>1. CacheInv /\ [Next]_vars => [Advance]_metadata
  <2> SUFFICES ASSUME CacheInv, [Next]_vars, metadata' # metadata, metadata # None
               PROVE  Advance
    OBVIOUS
  <2> USE DEF CacheInv
  <2>1. PICK t \in Tasks : Publish(t)
    BY OnlyPublish
  <2>2. /\ metadata' # None
        /\ metadata'.read = read[t]
        /\ metadata'.epoch = metadata.epoch + 1
    BY <2>1, PublishedSnapshot
  <2>3. ASSUME NEW e \in Endpoints PROVE read[t][e] >= metadata.read[e]
    <3>1. metadata.read[e] <= read[t][e]
      BY <2>1 DEF Publish, Answered, FreshInv
    <3>2. metadata.read[e] \in Int /\ read[t][e] \in Int
      BY DEF TypeOK, Snapshots, Readings, Versions, Unread
    <3> QED BY <3>1, <3>2
  <2> QED BY <2>2, <2>3
<1> QED BY <1>1, CacheInvariant, PTL DEF Spec, PublishedAdvances

\* How a step ends the call of one task, and of no other.
LEMMA EndReturns ==
    ASSUME TypeOK, NEW t \in Tasks, NEW status, NEW answer, End(t, status, answer),
           \A u \in Tasks : u # t => call'[u] = call[u]
    PROVE  /\ outcome'[t] = [status |-> status, answer |-> answer]
           /\ outcome'[t].status = status
           /\ \A u \in Tasks : Returns(u) => u = t
BY DEF TypeOK, End, Returns

\* A step that suspends a call, or keeps it suspended, ends none.
LEMMA NoReturn ==
    ASSUME NEW u \in Tasks,
           \/ pc'[u] # "idle"
           \/ pc'[u] = pc[u] /\ call'[u] = call[u]
    PROVE  ~Returns(u)
BY DEF Returns

\* The steps that end calls, and what they answer.
LEMMA ReturnCases ==
    ASSUME CacheInv, [Next]_vars, NEW t \in Tasks, Returns(t)
    PROVE  \/ /\ \E coins \in SUBSET Coins : LookupHit(t, coins)
              /\ outcome'[t] = [status |-> "answered", answer |-> metadata]
           \/ /\ ResumeAndReturn(t)
              /\ outcome'[t] = [status |-> "answered", answer |-> metadata]
           \/ /\ AbandonWait(t)
              /\ outcome'[t].status = "cancelled"
           \/ /\ Publish(t)
              /\ outcome'[t] = [status |-> "answered", answer |-> metadata']
           \/ /\ BuildFails(t) \/ Unwound(t)
              /\ \/ /\ call[t].kind = "miss"
                    /\ outcome'[t] = [status |-> "answered", answer |-> call[t].snapshot]
                 \/ outcome'[t].status \in {"raised", "cancelled"}
<1> USE DEF CacheInv
<1>1. Next
  BY DEF vars, Returns
<1>2. CASE List
  BY <1>2, NoReturn DEF List
<1>3. ASSUME NEW u \in Tasks, NEW coins \in SUBSET Coins, LookupHit(u, coins)
      PROVE  u = t /\ outcome'[t] = [status |-> "answered", answer |-> metadata]
  <2>1. /\ Begin(u, "hit", coins)
        /\ End(u, "answered", metadata)
    BY <1>3 DEF LookupHit
  <2>2. \A v \in Tasks : v # u => call'[v] = call[v]
    BY <2>1, BeginCall
  <2> QED BY <2>1, <2>2, EndReturns
<1>4. ASSUME NEW u \in Tasks, NEW coins \in SUBSET Coins,
             LookupMiss(u, coins) \/ LookupCold(u, coins) \/ Refresh(u)
      PROVE  FALSE
  <2>1. \A v \in Tasks : IF v = u THEN pc'[v] # "idle" ELSE pc'[v] = pc[v] /\ call'[v] = call[v]
    BY <1>4, BeginCall
    DEF LookupMiss, LookupCold, Refresh, AcquireOrQueue, StartLoad, TypeOK
  <2> QED BY <2>1, NoReturn
<1>5. ASSUME NEW u \in Tasks, ResumeAndLoad(u) PROVE FALSE
  <2>1. \A v \in Tasks : IF v = u THEN pc'[v] # "idle" ELSE pc'[v] = pc[v] /\ call'[v] = call[v]
    BY <1>5 DEF ResumeAndLoad, StartLoad, TypeOK
  <2> QED BY <2>1, NoReturn
<1>6. ASSUME NEW u \in Tasks, ResumeAndReturn(u)
      PROVE  u = t /\ outcome'[t] = [status |-> "answered", answer |-> metadata]
  BY <1>6, EndReturns DEF ResumeAndReturn
<1>7. ASSUME NEW u \in Tasks, AbandonWait(u) PROVE u = t /\ outcome'[t].status = "cancelled"
  <2>1. End(u, "cancelled", None) /\ call' = call
    BY <1>7 DEF AbandonWait
  <2>2. outcome'[u].status = "cancelled" /\ u = t
    BY <2>1, EndReturns
  <2> QED BY <2>2
<1>8. ASSUME NEW u \in Tasks, NEW e \in Endpoints,
             \/ Answer(u, e) \/ Settle(u, e)
             \/ \E kind \in {"error", "runtime"} : RequestFails(u, e, kind)
      PROVE  FALSE
  <2>1. \A v \in Tasks : pc'[v] # "idle" \/ (pc'[v] = pc[v] /\ call'[v] = call[v])
    BY <1>8 DEF Answer, Settle, RequestFails, TypeOK
  <2> QED BY <2>1, NoReturn
<1>9. ASSUME NEW u \in Tasks, Publish(u)
      PROVE  u = t /\ outcome'[t] = [status |-> "answered", answer |-> metadata']
  BY <1>9, EndReturns DEF Publish
<1>10. ASSUME NEW u \in Tasks, BuildFails(u) \/ Unwound(u)
       PROVE  /\ u = t
              /\ \/ /\ call[t].kind = "miss"
                    /\ outcome'[t] = [status |-> "answered", answer |-> call[t].snapshot]
                 \/ outcome'[t].status \in {"raised", "cancelled"}
  <2>1. PICK why \in {"error", "runtime", "cancelled", fate[u]} : EndFailed(u, why)
    BY <1>10 DEF BuildFails, Unwound
  <2>2. call' = call
    BY <1>10 DEF BuildFails, Unwound
  <2>3. CASE End(u, "cancelled", None)
    <3>1. outcome'[u].status = "cancelled" /\ u = t
      BY <2>2, <2>3, EndReturns
    <3> QED BY <3>1
  <2>4. CASE call[u].kind = "miss" /\ End(u, "answered", call[u].snapshot)
    <3>1. /\ outcome'[u] = [status |-> "answered", answer |-> call[u].snapshot]
          /\ u = t
      BY <2>2, <2>4, EndReturns
    <3> QED BY <2>4, <3>1
  <2>5. CASE End(u, "raised", None)
    <3>1. outcome'[u].status = "raised" /\ u = t
      BY <2>2, <2>5, EndReturns
    <3> QED BY <3>1
  <2> QED BY <2>1, <2>3, <2>4, <2>5 DEF EndFailed
<1>11. ASSUME NEW u \in Tasks, Cancel(u) PROVE FALSE
  <2>1. \A v \in Tasks : pc'[v] # "idle" \/ (pc'[v] = pc[v] /\ call'[v] = call[v])
    BY <1>11 DEF Cancel, TypeOK
  <2> QED BY <2>1, NoReturn
<1> QED
  BY <1>1, NextCases, <1>2, <1>3, <1>4, <1>5, <1>6, <1>7, <1>8, <1>9, <1>10, <1>11, NoReturn

\* Every lookup answers from the snapshot that is published when it returns.
THEOREM CurrentAnswers == Spec => AnswersAreCurrent
<1> DEFINE Current ==
      \A t \in Tasks : Returns(t) /\ outcome'[t].status = "answered"
                          => outcome'[t].answer = metadata'
<1>1. CacheInv /\ [Next]_vars => [Current]_vars
  <2> SUFFICES ASSUME CacheInv, [Next]_vars, NEW t \in Tasks, Returns(t),
                      outcome'[t].status = "answered"
               PROVE  outcome'[t].answer = metadata'
    OBVIOUS
  <2>1. CASE Publish(t) /\ outcome'[t] = [status |-> "answered", answer |-> metadata']
    BY <2>1
  <2>2. CASE /\ outcome'[t] = [status |-> "answered", answer |-> metadata]
             /\ \/ \E coins \in SUBSET Coins : LookupHit(t, coins)
                \/ ResumeAndReturn(t)
    BY <2>2 DEF LookupHit, Begin, ResumeAndReturn
  <2>3. CASE /\ BuildFails(t) \/ Unwound(t)
             /\ call[t].kind = "miss"
             /\ outcome'[t] = [status |-> "answered", answer |-> call[t].snapshot]
    <3>1. metadata' = metadata /\ Loads(t)
      BY <2>3 DEF BuildFails, Unwound, Loads
    <3> QED BY <2>3, <3>1 DEF CacheInv, MissInv
  <2> QED BY <2>1, <2>2, <2>3, ReturnCases
<1> QED BY <1>1, CacheInvariant, PTL DEF Spec, AnswersAreCurrent

\* Nobody is ahead of a call that was woken.
LEMMA WokenIsFirst ==
    ASSUME CacheInv, NEW t \in granted
    PROVE  Ahead(t) = {}
<1>1. waiters # <<>> /\ t = Head(waiters) /\ waiters \in Seq(Tasks)
  BY DEF CacheInv, QueueInv, TypeOK
<1>2. t = waiters[1]
  BY <1>1
<1>3. ASSUME NEW j \in DOMAIN waiters, \A k \in 1 .. j : waiters[k] # t
      PROVE  FALSE
  BY <1>1, <1>2, <1>3
<1> QED BY <1>3 DEF Ahead

\* A call that finds the lock free finds only waiters that gave up ahead of it.
LEMMA AcquiresInTurn ==
    ASSUME CacheInv, NEW u \in Tasks, pc[u] = "idle", AcquireOrQueue(u),
           NEW t \in Tasks, holder # t, holder' = t
    PROVE  pc[t] \in {"idle", "waiting"} /\ \A v \in Ahead(t) : FutureCancelled(v)
<1>1. LockFree /\ t = u
  BY DEF AcquireOrQueue, StartLoad
<1>2. \A v \in Ahead(t) : v \in Queued
  BY DEF Ahead, Queued, Range
<1> QED BY <1>1, <1>2 DEF LockFree

\* Nobody loads before its turn, and nobody twice in one call.
THEOREM InTurn == Spec => ReloadsInTurn
<1> DEFINE Turn ==
      \A t \in Tasks :
         /\ holder # t /\ holder' = t =>
               pc[t] \in {"idle", "waiting"} /\ \A u \in Ahead(t) : FutureCancelled(u)
         /\ pc[t] \in {"loading", "unwinding"} => pc'[t] # "waiting"
<1>1. CacheInv /\ [Next]_vars => [Turn]_vars
  <2> SUFFICES ASSUME CacheInv, Next, NEW t \in Tasks
               PROVE  /\ holder # t /\ holder' = t =>
                            /\ pc[t] \in {"idle", "waiting"}
                            /\ \A u \in Ahead(t) : FutureCancelled(u)
                      /\ pc[t] \in {"loading", "unwinding"} => pc'[t] # "waiting"
    OBVIOUS
  <2>1. ASSUME holder # t, holder' = t
        PROVE  pc[t] \in {"idle", "waiting"} /\ \A u \in Ahead(t) : FutureCancelled(u)
    <3>0. holder' # None
      BY <2>1, NoneIsNoRecord
    <3>1. CASE ResumeAndLoad(t)
      BY <3>1, WokenIsFirst DEF ResumeAndLoad
    <3>2. CASE \E u \in Tasks : pc[u] = "idle" /\ AcquireOrQueue(u)
      BY <2>1, <3>2, AcquiresInTurn
    <3>3. CASE \E u \in Tasks : ResumeAndLoad(u)
      BY <2>1, <3>1, <3>3 DEF ResumeAndLoad, StartLoad
    <3>4. CASE \E u \in Tasks :
                  \/ Refresh(u)
                  \/ \E coins \in SUBSET Coins : LookupMiss(u, coins) \/ LookupCold(u, coins)
      BY <3>2, <3>4 DEF Refresh, LookupMiss, LookupCold, Begin
    <3>5. CASE holder' \in {holder, None}
      BY <2>1, <3>0, <3>5
    <3>6. ASSUME NEW u \in Tasks, Publish(u) \/ BuildFails(u) \/ Unwound(u) PROVE holder' = None
      BY <3>6 DEF Publish, BuildFails, Unwound, Release
    <3>7. ASSUME NEW u \in Tasks, \/ ResumeAndReturn(u) \/ AbandonWait(u) \/ Cancel(u)
                                  \/ \E coins \in SUBSET Coins : LookupHit(u, coins)
          PROVE  holder' = holder
      BY <3>7 DEF ResumeAndReturn, AbandonWait, Cancel, LookupHit, lockVars
    <3>8. ASSUME NEW u \in Tasks, NEW e \in Endpoints,
                 \/ Answer(u, e) \/ Settle(u, e)
                 \/ \E kind \in {"error", "runtime"} : RequestFails(u, e, kind)
          PROVE  holder' = holder
      BY <3>8 DEF Answer, Settle, RequestFails, lockVars
    <3>9. CASE List
      BY <3>5, <3>9 DEF List, lockVars
    <3> QED
      BY <3>3, <3>4, <3>5, <3>6, <3>7, <3>8, <3>9, NextCases
  <2>2. ASSUME pc[t] \in {"loading", "unwinding"} PROVE pc'[t] # "waiting"
    <3> USE DEF CacheInv, TypeOK
    <3>0. pc \in [Tasks -> {"idle", "waiting", "loading", "unwinding"}]
      OBVIOUS
    <3>1. ASSUME NEW u \in Tasks, pc[u] = "idle", AcquireOrQueue(u) PROVE pc'[t] # "waiting"
      BY <2>2, <3>0, <3>1 DEF AcquireOrQueue, StartLoad
    <3>2. ASSUME NEW u \in Tasks, NEW how, NEW answer, End(u, how, answer)
          PROVE  pc'[t] # "waiting"
      BY <2>2, <3>0, <3>2 DEF End
    <3>3. ASSUME NEW u \in Tasks, Publish(u) \/ BuildFails(u) \/ Unwound(u)
          PROVE  pc'[t] # "waiting"
      BY <3>2, <3>3 DEF Publish, BuildFails, Unwound, EndFailed
    <3>4. ASSUME NEW u \in Tasks, \/ ResumeAndReturn(u) \/ AbandonWait(u)
                                  \/ \E coins \in SUBSET Coins : LookupHit(u, coins)
          PROVE  pc'[t] # "waiting"
      BY <3>2, <3>4 DEF ResumeAndReturn, AbandonWait, LookupHit
    <3>5. ASSUME NEW u \in Tasks,
                 \/ Refresh(u)
                 \/ \E coins \in SUBSET Coins : LookupMiss(u, coins) \/ LookupCold(u, coins)
          PROVE  pc'[t] # "waiting"
      BY <3>1, <3>5 DEF Refresh, LookupMiss, LookupCold, Begin
    <3>6. ASSUME NEW u \in Tasks, ResumeAndLoad(u) \/ Cancel(u) PROVE pc'[t] # "waiting"
      BY <2>2, <3>0, <3>6 DEF ResumeAndLoad, StartLoad, Cancel
    <3>7. ASSUME NEW u \in Tasks, NEW e \in Endpoints,
                 \/ Answer(u, e) \/ Settle(u, e)
                 \/ \E kind \in {"error", "runtime"} : RequestFails(u, e, kind)
          PROVE  pc'[t] # "waiting"
      BY <2>2, <3>0, <3>7 DEF Answer, Settle, RequestFails
    <3>8. CASE List
      BY <2>2, <3>8 DEF List
    <3> QED
      BY <3>3, <3>4, <3>5, <3>6, <3>7, <3>8, NextCases
  <2> QED BY <2>1, <2>2
<1> QED BY <1>1, CacheInvariant, PTL DEF Spec, ReloadsInTurn

\* Whoever publishes, publishes what it read itself during its own call.
LEMMA PublishFresh ==
    ASSUME CacheInv, NEW t \in Tasks, Publish(t)
    PROVE  /\ Returns(t)
           /\ outcome'[t] = [status |-> "answered", answer |-> metadata']
           /\ \A e \in Endpoints : metadata'.read[e] >= call'[t].began
<1> USE DEF CacheInv
<1>1. outcome'[t] = [status |-> "answered", answer |-> metadata']
  BY EndReturns DEF Publish
<1>2. pc[t] = "loading" /\ pc'[t] = "idle" /\ call' = call
  BY DEF Publish, End, TypeOK
<1>3. ASSUME NEW e \in Endpoints PROVE read[t][e] >= call[t].began
  <2>1. read[t][e] \in call[t].began .. version
    BY DEF Publish, Answered, FreshInv
  <2>2. call[t].began \in Int /\ version \in Int
    BY DEF TypeOK, Calls, Versions
  <2> QED BY <2>1, <2>2
<1> QED BY <1>1, <1>2, <1>3, PublishedSnapshot DEF Returns

\* Every part of what a call publishes was read while that call was running.
THEOREM FreshPublications == Spec => PublishedIsFresh
<1> DEFINE Fresh ==
      \E t \in Tasks :
         /\ Returns(t)
         /\ outcome'[t] = [status |-> "answered", answer |-> metadata']
         /\ \A e \in Endpoints : metadata'.read[e] >= call'[t].began
<1>1. CacheInv /\ [Next]_vars => [Fresh]_metadata
  BY OnlyPublish, PublishFresh
<1> QED BY <1>1, CacheInvariant, PTL DEF Spec, PublishedIsFresh

\* A refresh that returns has published, and read every part after its call.
THEOREM FreshRefreshes == Spec => RefreshIsFresh
<1> DEFINE Fresh ==
      \A t \in Tasks :
         Returns(t) /\ call'[t].kind = "refresh" /\ outcome'[t].status = "answered"
            => \A e \in Endpoints : metadata'.read[e] >= call'[t].began
<1>1. CacheInv /\ [Next]_vars => [Fresh]_vars
  <2> SUFFICES ASSUME CacheInv, [Next]_vars, NEW t \in Tasks, Returns(t),
                      call'[t].kind = "refresh", outcome'[t].status = "answered"
               PROVE  \A e \in Endpoints : metadata'.read[e] >= call'[t].began
    OBVIOUS
  <2>1. ASSUME NEW coins \in SUBSET Coins, LookupHit(t, coins) PROVE FALSE
    <3>1. call'[t].kind = "hit"
      BY <2>1, BeginCall DEF LookupHit, CacheInv
    <3> QED BY <3>1
  <2>2. ASSUME ResumeAndReturn(t) PROVE FALSE
    BY <2>2 DEF ResumeAndReturn, NeedsLoad
  <2>3. ASSUME BuildFails(t) \/ Unwound(t), call[t].kind = "miss" PROVE FALSE
    BY <2>3 DEF BuildFails, Unwound
  <2>4. Publish(t)
    BY <2>1, <2>2, <2>3, ReturnCases
  <2> QED BY <2>4, PublishFresh
<1> QED BY <1>1, CacheInvariant, PTL DEF Spec, RefreshIsFresh

-----------------------------------------------------------------------------
(* The cache implements the register.                                      *)

Busy == {t \in Tasks : pc[t] # "idle"}
Since == [t \in Tasks |-> call[t].began]

\* Ending a suspended call is leaving the register.
LEMMA EndLeaves ==
    ASSUME TypeOK, NEW t \in Tasks, pc[t] # "idle", NEW status, NEW answer,
           End(t, status, answer), UNCHANGED <<version, call>>
    PROVE  /\ t \in Busy /\ Busy' = Busy \ {t}
           /\ outcome' = [outcome EXCEPT ![t] = [status |-> status, answer |-> answer]]
           /\ Since' = Since
<1>1. t \in Busy /\ Busy' = Busy \ {t}
  BY DEF Busy, End, TypeOK
<1>2. outcome' = [outcome EXCEPT ![t] = [status |-> status, answer |-> answer]]
  BY DEF End
<1>3. Since' = Since
  BY DEF Since
<1> QED BY <1>1, <1>2, <1>3

\* Neither a suspended call that goes on nor one that resumes is visible.
LEMMA Invisible ==
    ASSUME UNCHANGED <<version, metadata, call, outcome>>,
           \A u \in Tasks : pc'[u] = "idle" <=> pc[u] = "idle"
    PROVE  UNCHANGED Register!vars
BY DEF Register!vars

\* A call that suspends enters the register.
LEMMA AcquireEnters ==
    ASSUME TypeOK, NEW t \in Tasks, NEW kind, NEW coins, Begin(t, kind, coins),
           AcquireOrQueue(t), UNCHANGED outcome
    PROVE  Register!Enter(t)
<1>1. t \notin Busy /\ Busy' = Busy \union {t}
  BY DEF Busy, Begin, AcquireOrQueue, StartLoad, TypeOK
<1>2. Since' = [Since EXCEPT ![t] = version]
  <2>1. \A u \in Tasks : call'[u].began = IF u = t THEN version ELSE call[u].began
    BY BeginCall
  <2> QED BY <2>1 DEF Since
<1>3. UNCHANGED <<version, metadata, outcome>>
  BY DEF Begin
<1> QED BY <1>1, <1>2, <1>3 DEF Register!Enter, Busy, Since

\* Locks, waiting, requests, failures and cancellation are invisible to callers:
\* every behaviour of the cache is one of the register.
THEOREM CacheImplementsRegister == Spec => ImplementsRegister
<1>1. Init => Register!Init
  BY DEF Init, Register!Init, NoCall
<1>2. CacheInv /\ [Next]_vars => [Register!Next]_(Register!vars)
  <2> SUFFICES ASSUME CacheInv, [Next]_vars PROVE Register!Next \/ UNCHANGED Register!vars
    OBVIOUS
  <2> USE DEF CacheInv
  <2>1. CASE List
    BY <2>1 DEF List, Register!List, Register!Next
  <2>2. ASSUME NEW t \in Tasks, NEW coins \in SUBSET Coins, LookupHit(t, coins)
        PROVE  Register!Serve(t)
    <3>1. Begin(t, "hit", coins) /\ End(t, "answered", metadata) /\ metadata # None
      BY <2>2 DEF LookupHit
    <3>2. t \notin Busy /\ Busy' = Busy
      BY <3>1 DEF Busy, Begin, End, TypeOK
    <3>3. Since' = [Since EXCEPT ![t] = version]
      BY <3>1, BeginCall DEF Since
    <3>4. /\ UNCHANGED <<version, metadata>>
          /\ outcome' = [outcome EXCEPT ![t] = [status |-> "answered", answer |-> metadata]]
      BY <3>1 DEF Begin, End
    <3> QED BY <3>1, <3>2, <3>3, <3>4 DEF Register!Serve, Busy, Since
  <2>3. ASSUME NEW t \in Tasks, NEW coins \in SUBSET Coins,
               LookupMiss(t, coins) \/ LookupCold(t, coins) \/ Refresh(t)
        PROVE  Register!Enter(t)
    BY <2>3, AcquireEnters DEF LookupMiss, LookupCold, Refresh
  <2>4. ASSUME NEW t \in Tasks, ResumeAndLoad(t) PROVE UNCHANGED Register!vars
    <3>1. \A u \in Tasks : pc'[u] = "idle" <=> pc[u] = "idle"
      BY <2>4 DEF ResumeAndLoad, StartLoad, TypeOK
    <3> QED BY <2>4, <3>1, Invisible DEF ResumeAndLoad
  <2>5. ASSUME NEW t \in Tasks, ResumeAndReturn(t) PROVE Register!Return(t)
    <3>1. metadata # None
      BY <2>5 DEF ResumeAndReturn, NeedsLoad, CallInv
    <3>2. /\ pc[t] # "idle" /\ End(t, "answered", metadata)
          /\ UNCHANGED <<version, metadata, call>>
      BY <2>5 DEF ResumeAndReturn
    <3>3. /\ t \in Busy /\ Busy' = Busy \ {t}
          /\ outcome' = [outcome EXCEPT ![t] = [status |-> "answered", answer |-> metadata]]
          /\ Since' = Since
      BY <3>2, EndLeaves
    <3> QED BY <3>1, <3>2, <3>3 DEF Register!Return, Register!Leave, Busy, Since
  <2>6. ASSUME NEW t \in Tasks, AbandonWait(t) PROVE Register!Fail(t)
    <3>1. /\ pc[t] # "idle" /\ End(t, "cancelled", None)
          /\ UNCHANGED <<version, metadata, call>>
      BY <2>6 DEF AbandonWait
    <3> QED BY <3>1, EndLeaves DEF Register!Fail, Register!Leave, Busy, Since
  <2>7. ASSUME NEW t \in Tasks, NEW e \in Endpoints,
               \/ Answer(t, e) \/ Settle(t, e)
               \/ \E kind \in {"error", "runtime"} : RequestFails(t, e, kind)
        PROVE  UNCHANGED Register!vars
    <3>1. \A u \in Tasks : pc'[u] = "idle" <=> pc[u] = "idle"
      BY <2>7 DEF Answer, Settle, RequestFails, TypeOK
    <3> QED BY <2>7, <3>1, Invisible DEF Answer, Settle, RequestFails
  <2>8. ASSUME NEW t \in Tasks, Publish(t) PROVE Register!Publish(t)
    <3>1. /\ read[t] \in Readings
          /\ \A e \in Endpoints : read[t][e] # Unread
      BY <2>8 DEF Publish, Answered, TypeOK, Readings
    <3>2. Register!Fresh(t, read[t])
      <4>1. Buildable(read[t])
        BY <2>8 DEF Publish
      <4>2. ASSUME NEW e \in Endpoints
            PROVE  /\ read[t][e] \in Since[t] .. version
                   /\ metadata # None => read[t][e] >= metadata.read[e]
        <5>1. /\ read[t][e] \in call[t].began .. version
              /\ metadata # None => metadata.read[e] <= read[t][e]
          BY <3>1 DEF FreshInv
        <5>2. metadata # None => metadata.read[e] \in Int
          BY DEF TypeOK, Snapshots, Readings, Versions
        <5>3. read[t][e] \in Int
          BY DEF TypeOK, Versions, Unread
        <5> QED BY <5>1, <5>2, <5>3 DEF Since
      <4> QED BY <4>1, <4>2 DEF Register!Fresh, Register!Buildable, Buildable, Since,
                                Register!Endpoints, Endpoints
    <3>3. /\ pc[t] # "idle" /\ End(t, "answered", metadata')
          /\ UNCHANGED <<version, call>>
      BY <2>8 DEF Publish
    <3>6. /\ t \in Busy /\ Busy' = Busy \ {t}
          /\ outcome' = [outcome EXCEPT ![t] = [status |-> "answered", answer |-> metadata']]
          /\ Since' = Since
      BY <3>3, EndLeaves
    <3>4. metadata' = [epoch |-> IF metadata = None THEN 1 ELSE metadata.epoch + 1,
                       read |-> read[t]]
      BY <2>8 DEF Publish
    <3>5. read[t] \in Register!Readings
      BY <3>1 DEF Readings, Register!Readings, Endpoints, Register!Endpoints,
                  Versions, Register!Versions
    <3> QED BY <3>2, <3>3, <3>4, <3>5, <3>6 DEF Register!Publish, Register!Leave, Busy, Since
  <2>9. ASSUME NEW t \in Tasks, BuildFails(t) \/ Unwound(t)
        PROVE  Register!Return(t) \/ Register!Fail(t)
    <3>1. PICK why : EndFailed(t, why)
      BY <2>9 DEF BuildFails, Unwound
    <3>2. Loads(t) /\ pc[t] # "idle" /\ UNCHANGED <<version, metadata, call>>
      BY <2>9 DEF BuildFails, Unwound, Loads
    <3>3. CASE End(t, "cancelled", None)
      BY <3>2, <3>3, EndLeaves DEF Register!Fail, Register!Leave, Busy, Since
    <3>4. CASE End(t, "raised", None)
      BY <3>2, <3>4, EndLeaves DEF Register!Fail, Register!Leave, Busy, Since
    <3>5. CASE call[t].kind = "miss" /\ End(t, "answered", call[t].snapshot)
      <4>1. call[t].snapshot = metadata /\ metadata # None
        BY <3>2, <3>5 DEF MissInv, CallInv
      <4>2. /\ t \in Busy /\ Busy' = Busy \ {t}
            /\ outcome' = [outcome EXCEPT ![t] = [status |-> "answered", answer |-> metadata]]
            /\ Since' = Since
        BY <3>2, <3>5, <4>1, EndLeaves
      <4> QED BY <3>2, <4>1, <4>2 DEF Register!Return, Register!Leave, Busy, Since
    <3> QED BY <3>1, <3>3, <3>4, <3>5 DEF EndFailed
  <2>10. ASSUME NEW t \in Tasks, Cancel(t) PROVE UNCHANGED Register!vars
    <3>1. \A u \in Tasks : pc'[u] = "idle" <=> pc[u] = "idle"
      BY <2>10 DEF Cancel, TypeOK
    <3> QED BY <2>10, <3>1, Invisible DEF Cancel
  <2>11. CASE UNCHANGED vars
    BY <2>11 DEF vars, Register!vars
  <2>12. CASE Next
    BY <2>12, NextCases, <2>1, <2>2, <2>3, <2>4, <2>5, <2>6, <2>7, <2>8, <2>9, <2>10
    DEF Register!Next
  <2> QED BY <2>11, <2>12
<1> QED BY <1>1, <1>2, CacheInvariant, PTL DEF Spec, ImplementsRegister, Register!Spec

-----------------------------------------------------------------------------
(* What EveryCallEnds rests on besides fairness: while a call is under way *)
(* some task has a step to take, every such step brings its call nearer to *)
(* its end, and no step of another task takes it back.                     *)

\* A load still waits for exactly the answers it does not have.
AnsweredInv ==
    \A t \in Tasks :
       pc[t] = "loading" => \A e \in Endpoints : e \in inflight[t] <=> read[t][e] = Unread

\* The task t has a step to take: it was woken or cancelled while it waited, a request
\* of its load is to end, or its load is complete or has failed.
Ready(t) ==
    \/ pc[t] = "waiting" /\ (t \in granted \/ fate[t] = "cancelled")
    \/ pc[t] = "loading" /\ (inflight[t] # {} \/ Answered(t))
    \/ pc[t] = "unwinding"

\* While a call is under way, the task that holds the lock has a step to take, or the
\* first one that waits for it: the tasks never all wait for one another.
SomebodyIsReady == (\E t \in Tasks : pc[t] # "idle") => \E t \in Tasks : Ready(t)

\* The most steps a call has before it.
Distance(t) ==
    CASE pc[t] = "idle" -> 0
      [] pc[t] = "unwinding" -> 1 + Cardinality(inflight[t])
      [] pc[t] = "loading" -> 2 + Cardinality(inflight[t])
      [] pc[t] = "waiting" -> 6

\* A step of a task shortens its own call, and nothing lengthens a call under way:
\* neither another task, nor a failure, nor a cancellation.
EveryStepCounts ==
    [][\A t \in Tasks :
          /\ pc[t] # "idle" => Distance(t)' <= Distance(t)
          /\ Run(t) => Distance(t)' < Distance(t)]_vars

\* How many requests are in flight.
LEMMA InflightCount ==
    ASSUME NEW S, S \subseteq Endpoints
    PROVE  /\ IsFiniteSet(S) /\ Cardinality(S) \in 0 .. 3
           /\ \A e \in S : Cardinality(S \ {e}) = Cardinality(S) - 1
<1>1. IsFiniteSet(Endpoints) /\ Cardinality(Endpoints) = 3
  <2>1. IsFiniteSet({}) /\ Cardinality({}) = 0
    BY FS_EmptySet
  <2>2. IsFiniteSet({"perpDexs"}) /\ Cardinality({"perpDexs"}) = 1
    BY FS_Singleton
  <2>3. IsFiniteSet({"perpDexs", "allPerpMetas"}) /\ Cardinality({"perpDexs", "allPerpMetas"}) = 2
    <3>1. {"perpDexs", "allPerpMetas"} = {"perpDexs"} \cup {"allPerpMetas"}
      OBVIOUS
    <3>2. "allPerpMetas" \notin {"perpDexs"}
      OBVIOUS
    <3> QED BY <2>2, <3>1, <3>2, FS_AddElement
  <2>4. Endpoints = {"perpDexs", "allPerpMetas"} \cup {"spotMeta"}
    BY DEF Endpoints
  <2>5. "spotMeta" \notin {"perpDexs", "allPerpMetas"}
    OBVIOUS
  <2> QED BY <2>3, <2>4, <2>5, FS_AddElement
<1>2. IsFiniteSet(S) /\ Cardinality(S) <= 3
  BY <1>1, FS_Subset
<1>3. Cardinality(S) \in Nat
  BY <1>2, FS_CardinalityType
<1>4. \A e \in S : Cardinality(S \ {e}) = Cardinality(S) - 1
  BY <1>2, FS_RemoveElement
<1> QED BY <1>2, <1>3, <1>4

LEMMA AnsweredStep == CacheInv /\ AnsweredInv /\ [Next]_vars => AnsweredInv'
<1> SUFFICES ASSUME CacheInv, AnsweredInv, Next PROVE AnsweredInv'
  BY DEF AnsweredInv, vars, loadVars
<1> USE DEF CacheInv
<1>1. CASE List
  BY <1>1 DEF List, AnsweredInv, loadVars
<1>2. ASSUME NEW t \in Tasks, NEW status, NEW answer, End(t, status, answer)
      PROVE  AnsweredInv'
  BY <1>2 DEF End, AnsweredInv, TypeOK
<1>3. ASSUME NEW t \in Tasks, ~Loads(t), StartLoad(t), read' = read
      PROVE  AnsweredInv'
  <2>1. read[t] = NothingRead
    BY <1>3 DEF LockInv
  <2>2. \A e \in Endpoints : read'[t][e] = Unread /\ e \in inflight'[t]
    BY <1>3, <2>1 DEF NothingRead, StartLoad, TypeOK
  <2> QED BY <1>3, <2>2 DEF StartLoad, AnsweredInv, TypeOK
<1>4. ASSUME NEW t \in Tasks, pc[t] = "idle", AcquireOrQueue(t), read' = read
      PROVE  AnsweredInv'
  <2>1. ~Loads(t)
    BY <1>4 DEF Loads
  <2>2. CASE StartLoad(t)
    BY <1>3, <1>4, <2>1, <2>2
  <2>3. CASE pc' = [pc EXCEPT ![t] = "waiting"] /\ UNCHANGED inflight
    BY <1>4, <2>3 DEF AnsweredInv, TypeOK
  <2> QED BY <1>4, <2>2, <2>3 DEF AcquireOrQueue
<1>5. ASSUME NEW t \in Tasks, NEW coins \in SUBSET Coins,
             LookupHit(t, coins) \/ LookupMiss(t, coins) \/ LookupCold(t, coins) \/ Refresh(t)
      PROVE  AnsweredInv'
  BY <1>2, <1>4, <1>5 DEF LookupHit, LookupMiss, LookupCold, Refresh, Begin
<1>6. ASSUME NEW t \in Tasks, ResumeAndLoad(t) PROVE AnsweredInv'
  BY <1>3, <1>6 DEF ResumeAndLoad, Loads
<1>7. ASSUME NEW t \in Tasks, ResumeAndReturn(t) \/ AbandonWait(t) \/ Publish(t) PROVE AnsweredInv'
  BY <1>2, <1>7 DEF ResumeAndReturn, AbandonWait, Publish
<1>8. ASSUME NEW t \in Tasks, BuildFails(t) \/ Unwound(t) PROVE AnsweredInv'
  BY <1>2, <1>8, EndFailedEnds DEF BuildFails, Unwound
<1>9. ASSUME NEW t \in Tasks, NEW e \in Endpoints, Answer(t, e) PROVE AnsweredInv'
  <2>1. version # Unread
    BY DEF TypeOK, Versions, Unread
  <2>2. \A u \in Tasks, f \in Endpoints :
           /\ f \in inflight'[u] <=> f \in inflight[u] /\ ~ (u = t /\ f = e)
           /\ read'[u][f] = IF u = t /\ f = e THEN version ELSE read[u][f]
    BY <1>9 DEF Answer, TypeOK
  <2> QED BY <1>9, <2>1, <2>2 DEF Answer, AnsweredInv
<1>10. ASSUME NEW t \in Tasks, NEW e \in Endpoints, Settle(t, e) PROVE AnsweredInv'
  BY <1>10 DEF Settle, AnsweredInv, TypeOK
<1>11. ASSUME NEW t \in Tasks, NEW e \in Endpoints, NEW kind \in {"error", "runtime"},
              RequestFails(t, e, kind)
       PROVE  AnsweredInv'
  BY <1>11 DEF RequestFails, AnsweredInv, TypeOK
<1>12. ASSUME NEW t \in Tasks, Cancel(t) PROVE AnsweredInv'
  BY <1>12 DEF Cancel, AnsweredInv, TypeOK
<1> QED
  BY NextCases, <1>1, <1>5, <1>6, <1>7, <1>8, <1>9, <1>10, <1>11, <1>12

LEMMA AnsweredInvariant == Spec => []AnsweredInv
<1>1. Init => AnsweredInv
  BY DEF Init, AnsweredInv
<1> QED BY <1>1, AnsweredStep, CacheInvariant, PTL DEF Spec

\* However calls come, wait, fail and are cancelled, they never all wait for one another:
\* somebody can go on until the last call is over.
THEOREM NeverStuck == Spec => []SomebodyIsReady
<1>1. CacheInv /\ AnsweredInv => SomebodyIsReady
  <2> SUFFICES ASSUME CacheInv, AnsweredInv, NEW t \in Tasks, pc[t] # "idle"
               PROVE  \E u \in Tasks : Ready(u)
    BY DEF SomebodyIsReady
  <2>1. ASSUME NEW u \in Tasks, Loads(u) PROVE Ready(u)
    BY <2>1 DEF Loads, Ready, AnsweredInv, Answered
  <2>2. CASE holder # None
    <3>1. holder \in Tasks /\ Loads(holder)
      BY <2>2 DEF CacheInv, TypeOK, LockInv
    <3> QED BY <2>1, <3>1
  <2>3. CASE holder = None
    <3>1. ~Loads(t)
      BY <2>3, CacheAssumption DEF CacheInv, LockInv
    <3>2. pc[t] = "waiting" /\ t \in Queued
      BY <3>1 DEF CacheInv, TypeOK, QueueInv, Loads
    <3>3. waiters # <<>> /\ waiters \in Seq(Tasks)
      BY <3>2 DEF CacheInv, TypeOK, Queued, Range
    <3>4. Head(waiters) \in Tasks /\ Head(waiters) \in Queued
      BY <3>3, HeadQueued DEF Queued
    <3>5. pc[Head(waiters)] = "waiting"
      BY <3>4 DEF CacheInv, QueueInv
    <3>6. Head(waiters) \in granted \/ fate[Head(waiters)] = "cancelled"
      BY <2>3, <3>3 DEF CacheInv, LockHandedOn
    <3> QED BY <3>4, <3>5, <3>6 DEF Ready
  <2> QED BY <2>2, <2>3
<1> QED BY <1>1, CacheInvariant, AnsweredInvariant, PTL

\* What Distance is in each place a call can be.
LEMMA DistanceIs ==
    ASSUME TypeOK, NEW t \in Tasks
    PROVE  /\ Distance(t) \in 0 .. 6 /\ Cardinality(inflight[t]) \in 0 .. 3
           /\ pc[t] = "idle" => Distance(t) = 0
           /\ pc[t] = "waiting" => Distance(t) = 6
           /\ pc[t] = "loading" => Distance(t) = 2 + Cardinality(inflight[t])
           /\ pc[t] = "unwinding" => Distance(t) = 1 + Cardinality(inflight[t])
<1>1. inflight[t] \subseteq Endpoints /\ pc[t] \in {"idle", "waiting", "loading", "unwinding"}
  BY DEF TypeOK
<1>2. Cardinality(inflight[t]) \in 0 .. 3
  BY <1>1, InflightCount
<1> QED BY <1>1, <1>2 DEF Distance

\* A step that leaves a task where it is, with what it waits for, leaves its distance.
LEMMA DistanceKept ==
    ASSUME NEW t \in Tasks, pc'[t] = pc[t], inflight'[t] = inflight[t]
    PROVE  Distance(t)' = Distance(t)
BY DEF Distance

\* The end of a call, and the beginning of its load.
LEMMA DistanceEnds ==
    ASSUME TypeOK, NEW t \in Tasks, NEW status, NEW answer, End(t, status, answer)
    PROVE  Distance(t)' = 0 /\ \A u \in Tasks \ {t} : Distance(u)' = Distance(u)
<1>1. pc'[t] = "idle" /\ \A u \in Tasks \ {t} : pc'[u] = pc[u] /\ inflight'[u] = inflight[u]
  BY DEF TypeOK, End
<1>2. Distance(t)' = 0
  BY <1>1 DEF Distance
<1> QED BY <1>1, <1>2, DistanceKept

LEMMA DistanceLoads ==
    ASSUME TypeOK, TypeOK', NEW t \in Tasks, StartLoad(t)
    PROVE  Distance(t)' \in 0 .. 5 /\ \A u \in Tasks \ {t} : Distance(u)' = Distance(u)
<1>1. pc'[t] = "loading" /\ \A u \in Tasks \ {t} : pc'[u] = pc[u] /\ inflight'[u] = inflight[u]
  BY DEF TypeOK, StartLoad
<1>2. (pc[t] = "loading" => Distance(t) = 2 + Cardinality(inflight[t]))'
      /\ (Cardinality(inflight[t]) \in 0 .. 3)'
  BY DistanceIs, PTL
<1>3. Distance(t)' \in 0 .. 5
  BY <1>1, <1>2
<1> QED BY <1>1, <1>3, DistanceKept

\* A step that ends one request more takes one from the distance.
LEMMA DistanceCounts ==
    ASSUME TypeOK, TypeOK', NEW t \in Tasks, NEW e \in inflight[t],
           inflight' = [inflight EXCEPT ![t] = @ \ {e}],
           pc' = pc \/ pc' = [pc EXCEPT ![t] = "unwinding"],
           Loads(t)
    PROVE  Distance(t)' < Distance(t) /\ \A u \in Tasks \ {t} : Distance(u)' = Distance(u)
<1>1. \A u \in Tasks \ {t} : pc'[u] = pc[u] /\ inflight'[u] = inflight[u]
  BY DEF TypeOK
<1>2. inflight[t] \subseteq Endpoints /\ inflight'[t] = inflight[t] \ {e}
  BY DEF TypeOK
<1>3. Cardinality(inflight'[t]) = Cardinality(inflight[t]) - 1
  BY <1>2, InflightCount
<1>4. Cardinality(inflight[t]) \in 0 .. 3
  BY DistanceIs
<1>5. pc'[t] = pc[t] \/ pc'[t] = "unwinding"
  BY DEF TypeOK
<1>6. \/ pc[t] = "loading" /\ Distance(t) = 2 + Cardinality(inflight[t])
      \/ pc[t] = "unwinding" /\ Distance(t) = 1 + Cardinality(inflight[t])
  BY DistanceIs DEF Loads
<1>7. /\ (pc[t] = "loading" => Distance(t) = 2 + Cardinality(inflight[t]))'
      /\ (pc[t] = "unwinding" => Distance(t) = 1 + Cardinality(inflight[t]))'
  BY DistanceIs, PTL
<1>8. Distance(t)' < Distance(t)
  BY <1>3, <1>4, <1>5, <1>6, <1>7
<1> QED BY <1>1, <1>8, DistanceKept

\* A step of a task brings its own call nearer to its end and leaves the others.
LEMMA OwnStepCounts ==
    ASSUME TypeOK, TypeOK', NEW t \in Tasks, Run(t)
    PROVE  Distance(t)' < Distance(t) /\ \A u \in Tasks \ {t} : Distance(u)' = Distance(u)
<1>1. ASSUME pc[t] # "idle", NEW status, NEW answer, End(t, status, answer)
      PROVE  Distance(t)' < Distance(t) /\ \A u \in Tasks \ {t} : Distance(u)' = Distance(u)
  <2>1. pc[t] \in {"waiting", "loading", "unwinding"}
    BY <1>1 DEF TypeOK
  <2>2. Distance(t) > 0
    BY <2>1, DistanceIs
  <2> QED BY <1>1, <2>2, DistanceEnds
<1>2. CASE ResumeAndLoad(t)
  <2>1. Distance(t) = 6
    BY <1>2, DistanceIs DEF ResumeAndLoad
  <2>2. StartLoad(t)
    BY <1>2 DEF ResumeAndLoad
  <2> QED BY <2>1, <2>2, DistanceLoads
<1>3. CASE ResumeAndReturn(t) \/ AbandonWait(t) \/ Publish(t)
  BY <1>1, <1>3 DEF ResumeAndReturn, AbandonWait, Publish
<1>4. CASE BuildFails(t) \/ Unwound(t)
  BY <1>1, <1>4, EndFailedEnds DEF BuildFails, Unwound
<1>5. ASSUME NEW e \in Endpoints,
             \/ Answer(t, e)
             \/ \E kind \in {"error", "runtime"} : RequestFails(t, e, kind)
             \/ Settle(t, e)
      PROVE  Distance(t)' < Distance(t) /\ \A u \in Tasks \ {t} : Distance(u)' = Distance(u)
  <2>1. /\ e \in inflight[t]
        /\ inflight' = [inflight EXCEPT ![t] = @ \ {e}]
        /\ pc' = pc \/ pc' = [pc EXCEPT ![t] = "unwinding"]
        /\ Loads(t)
    BY <1>5 DEF Answer, RequestFails, Settle, Loads
  <2> QED BY <2>1, DistanceCounts
<1> QED BY <1>2, <1>3, <1>4, <1>5 DEF Run

\* A cancellation makes a call shorter by a step, or finds it waiting.
LEMMA CancelCounts ==
    ASSUME TypeOK, TypeOK', NEW t \in Tasks, Cancel(t)
    PROVE  \A u \in Tasks : Distance(u)' <= Distance(u)
<1>1. inflight'[t] = inflight[t] /\ \A u \in Tasks \ {t} : pc'[u] = pc[u] /\ inflight'[u] = inflight[u]
  BY DEF Cancel, TypeOK
<1>2. pc[t] # "idle" /\ pc'[t] = IF pc[t] = "waiting" THEN "waiting" ELSE "unwinding"
  BY DEF Cancel, TypeOK
<1>3. \A u \in Tasks : Distance(u) \in 0 .. 6
  BY DistanceIs
<1>4. ASSUME pc[t] \in {"waiting", "unwinding"} PROVE Distance(t)' = Distance(t)
  BY <1>1, <1>2, <1>4, DistanceKept
<1>5. ASSUME pc[t] = "loading" PROVE Distance(t)' <= Distance(t)
  <2>1. Distance(t) = 2 + Cardinality(inflight[t]) /\ Cardinality(inflight[t]) \in 0 .. 3
    BY <1>5, DistanceIs
  <2>2. (pc[t] = "unwinding" => Distance(t) = 1 + Cardinality(inflight[t]))'
    BY DistanceIs, PTL
  <2> QED BY <1>1, <1>2, <1>5, <2>1, <2>2
<1>6. Distance(t)' <= Distance(t)
  <2>1. pc[t] \in {"waiting", "loading", "unwinding"}
    BY <1>2 DEF TypeOK
  <2> QED BY <1>3, <1>4, <1>5, <2>1
<1> QED BY <1>1, <1>3, <1>6, DistanceKept

\* Of a call under way at most six steps of its own are left, and each it takes leaves
\* fewer: no failure, cancellation or step of another task starts it over.
THEOREM EveryCallAdvances == Spec => EveryStepCounts
<1>1. ASSUME TypeOK, TypeOK', [Next]_vars
      PROVE  [\A t \in Tasks :
                 /\ pc[t] # "idle" => Distance(t)' <= Distance(t)
                 /\ Run(t) => Distance(t)' < Distance(t)]_vars
  <2> SUFFICES ASSUME Next, NEW t \in Tasks, pc[t] # "idle"
               PROVE  Distance(t)' <= Distance(t)
    BY <1>1, OwnStepCounts
  <2>1. Distance(t) \in 0 .. 6
    BY <1>1, DistanceIs
  <2>2. ASSUME pc'[t] = pc[t], inflight'[t] = inflight[t] PROVE Distance(t)' <= Distance(t)
    BY <2>1, <2>2, DistanceKept
  <2>3. CASE List
    BY <2>2, <2>3 DEF List, loadVars
  <2>4. ASSUME NEW u \in Tasks, Run(u) PROVE Distance(t)' <= Distance(t)
    <3>1. (Distance(t) \in 0 .. 6)'
      BY <1>1, DistanceIs, PTL
    <3>2. IF u = t THEN Distance(t)' < Distance(t) ELSE Distance(t)' = Distance(t)
      BY <1>1, <2>4, OwnStepCounts
    <3> QED BY <2>1, <3>1, <3>2
  <2>5. ASSUME NEW u \in Tasks, NEW coins \in SUBSET Coins,
               LookupHit(u, coins) \/ LookupMiss(u, coins) \/ LookupCold(u, coins) \/ Refresh(u)
        PROVE  Distance(t)' <= Distance(t)
    <3>1. pc[u] = "idle"
      BY <2>5 DEF LookupHit, LookupMiss, LookupCold, Refresh, Begin
    <3>2. \/ \E status, answer : End(u, status, answer)
          \/ AcquireOrQueue(u)
      BY <2>5 DEF LookupHit, LookupMiss, LookupCold, Refresh
    <3>3. pc'[t] = pc[t] /\ inflight'[t] = inflight[t]
      BY <1>1, <3>1, <3>2 DEF End, AcquireOrQueue, StartLoad, TypeOK
    <3> QED BY <2>2, <3>3
  <2>6. ASSUME NEW u \in Tasks, Cancel(u) PROVE Distance(t)' <= Distance(t)
    BY <1>1, <2>6, CancelCounts
  <2> QED BY <2>3, <2>4, <2>5, <2>6 DEF Next, Lookup
<1>2. CacheInv => TypeOK
  BY DEF CacheInv
<1> QED BY <1>1, <1>2, CacheInvariant, PTL DEF Spec, EveryStepCounts
=============================================================================
