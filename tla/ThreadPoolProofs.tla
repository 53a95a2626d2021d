--------------------------- MODULE ThreadPoolProofs ---------------------------
(***************************************************************************)
(* Proofs about ThreadPool, for any number of threads and packages.        *)
(***************************************************************************)
EXTENDS ThreadPool, FiniteSetTheorems, TLAPS

-----------------------------------------------------------------------------
(* The inductive invariant. *)

\* Who is between lock and unlock holds the mutex.
MutexHeld ==
    /\ pc[Dispatcher] \in {"push_back", "sem_post", "unlock"} => m_workMutex = Dispatcher
    /\ \A w \in Workers : pc[w] \in {"front", "pop_front", "unlock"} => m_workMutex = w

\* Threads that have passed the semaphore for a package that is still listed.
Woken == {w \in Workers : pc[w] \in {"lock", "front", "pop_front"}}

Unposted == IF pc[Dispatcher] = "sem_post" THEN 1 ELSE 0

\* Every listed package has a post that is pending, used by a woken thread, or
\* about to be made.
SemCountsWork == Len(m_work) = m_poolSem + Cardinality(Woken) + Unposted

\* The list holds the last packages issued, in order.
ListedInOrder ==
    /\ Len(m_work) <= issued
    /\ \A i \in 1 .. Len(m_work) : m_work[i] = (issued - Len(m_work)) + i

\* The thread that is about to pop holds a copy of the first package.
CopyOfFront == \A w \in Workers : pc[w] = "pop_front" => package[w] = m_work[1]

\* The packages before the listed ones have run or are with one thread.
TakenOnce ==
    /\ \A p \in 1 .. (issued - Len(m_work)) :
        p \in ran \/ \E w \in Workers : Owner(w) /\ package[w] = p
    /\ ran \subseteq 1 .. (issued - Len(m_work))
    /\ \A w \in Workers : Owner(w) =>
        /\ package[w] \in 1 .. (issued - Len(m_work))
        /\ package[w] \notin ran
        /\ \A v \in Workers : Owner(v) /\ package[v] = package[w] => v = w

Bounded == pc[Dispatcher] = "push_back" => issued < MaxPackages

IInv ==
    /\ TypeOK
    /\ Bounded
    /\ MutexHeld
    /\ SemCountsWork
    /\ ListedInOrder
    /\ CopyOfFront
    /\ TakenOnce

-----------------------------------------------------------------------------
\* What a worker's move does to the number of woken threads.
LEMMA WokenFinite ==
    /\ IsFiniteSet(Woken)
    /\ Cardinality(Woken) \in Nat
<1>1. Woken \subseteq Workers
  BY DEF Woken
<1>2. IsFiniteSet(Woken)
  BY <1>1, WorkersAssumption, FS_Subset
<1>3. QED
  BY <1>2, FS_CardinalityType

LEMMA WokenAdd ==
    ASSUME NEW w \in Workers, w \notin Woken, Woken' = Woken \cup {w}
    PROVE  Cardinality(Woken') = Cardinality(Woken) + 1
BY WokenFinite, FS_AddElement

LEMMA WokenRemove ==
    ASSUME NEW w \in Workers, w \in Woken, Woken' = Woken \ {w}
    PROVE  Cardinality(Woken') = Cardinality(Woken) - 1
BY WokenFinite, FS_RemoveElement

LEMMA InitIInv == Init => IInv
<1> SUFFICES ASSUME Init PROVE IInv
  OBVIOUS
<1> USE DEF Init
<1>1. TypeOK
  BY MaxPackagesAssumption, DispatcherAssumption DEF TypeOK, Threads
<1>2. Bounded /\ MutexHeld /\ CopyOfFront
  BY DispatcherAssumption DEF Bounded, MutexHeld, CopyOfFront, Threads
<1>3. SemCountsWork
  <2>1. Woken = {}
    BY DispatcherAssumption DEF Woken, Threads
  <2>2. Cardinality(Woken) = 0
    BY <2>1, FS_EmptySet
  <2>3. Unposted = 0
    BY DEF Unposted, Threads
  <2>4. QED
    BY <2>2, <2>3 DEF SemCountsWork
<1>4. ListedInOrder /\ TakenOnce
  BY DispatcherAssumption DEF ListedInOrder, TakenOnce, Owner, Threads
<1>5. QED
  BY <1>1, <1>2, <1>3, <1>4 DEF IInv


\* A woken thread has a package to find: its own post is counted.
LEMMA WokenFindsWork ==
    ASSUME TypeOK, SemCountsWork, NEW w \in Workers, w \in Woken
    PROVE  m_work # <<>> /\ Len(m_work) >= 1
<1>1. Cardinality(Woken) # 0
  BY WokenFinite, FS_EmptySet
<1>2. Unposted \in Nat
  BY DEF Unposted
<1>3. Len(m_work) >= 1
  BY <1>1, <1>2, WokenFinite DEF TypeOK, SemCountsWork
<1>4. QED
  BY <1>3 DEF TypeOK

\* The invariant is preserved by every step.
LEMMA NextIInv == IInv /\ [Next]_vars => IInv'
<1> SUFFICES ASSUME IInv, [Next]_vars PROVE IInv'
  OBVIOUS
<1> USE MaxPackagesAssumption, DispatcherAssumption, NoneAssumption
<1> TypeOK /\ Bounded /\ MutexHeld /\ SemCountsWork /\ ListedInOrder /\ CopyOfFront /\ TakenOnce
  BY DEF IInv
<1> USE DEF TypeOK, Threads
<1>1. ASSUME DispatchLock PROVE IInv'
  <2> USE <1>1 DEF DispatchLock, Goto
  <2>1. TypeOK'
    BY DEF Lock, Unlock, Package
  <2>2. Bounded'
    BY DEF Bounded
  <2>3. MutexHeld'
    BY DEF MutexHeld, Lock, Unlock
  <2>4. SemCountsWork'
    <3>1. Woken' = Woken
      BY DEF Woken
    <3>2. QED
      BY <3>1, WokenFinite DEF SemCountsWork, Unposted
  <2>5. ListedInOrder'
    BY DEF ListedInOrder
  <2>6. CopyOfFront'
    BY DEF CopyOfFront, MutexHeld
  <2>7. TakenOnce'
    BY DEF TakenOnce, Owner
  <2>8. QED
    BY <2>1, <2>2, <2>3, <2>4, <2>5, <2>6, <2>7 DEF IInv
<1>2. ASSUME DispatchPush PROVE IInv'
  <2> USE <1>2 DEF DispatchPush, Goto
  <2>1. TypeOK'
    BY DEF Bounded, Package
  <2>2. Bounded'
    BY DEF Bounded
  <2>3. MutexHeld'
    BY DEF MutexHeld, Lock, Unlock
  <2>4. SemCountsWork'
    <3>1. Woken' = Woken
      BY DEF Woken
    <3>2. QED
      BY <3>1, WokenFinite DEF SemCountsWork, Unposted
  <2>5. ListedInOrder'
    BY DEF ListedInOrder
  <2>6. CopyOfFront'
    BY DEF CopyOfFront, MutexHeld
  <2>7. TakenOnce'
    BY DEF TakenOnce, Owner
  <2>8. QED
    BY <2>1, <2>2, <2>3, <2>4, <2>5, <2>6, <2>7 DEF IInv
<1>3. ASSUME DispatchPost PROVE IInv'
  <2> USE <1>3 DEF DispatchPost, Goto
  <2>1. TypeOK'
    BY DEF Lock, Unlock, Package
  <2>2. Bounded'
    BY DEF Bounded
  <2>3. MutexHeld'
    BY DEF MutexHeld, Lock, Unlock
  <2>4. SemCountsWork'
    <3>1. Woken' = Woken
      BY DEF Woken
    <3>2. QED
      BY <3>1, WokenFinite DEF SemCountsWork, Unposted
  <2>5. ListedInOrder'
    BY DEF ListedInOrder
  <2>6. CopyOfFront'
    BY DEF CopyOfFront, MutexHeld
  <2>7. TakenOnce'
    BY DEF TakenOnce, Owner
  <2>8. QED
    BY <2>1, <2>2, <2>3, <2>4, <2>5, <2>6, <2>7 DEF IInv
<1>4. ASSUME DispatchUnlock PROVE IInv'
  <2> USE <1>4 DEF DispatchUnlock, Goto
  <2>1. TypeOK'
    BY DEF Lock, Unlock, Package
  <2>2. Bounded'
    BY DEF Bounded
  <2>3. MutexHeld'
    BY DEF MutexHeld, Lock, Unlock
  <2>4. SemCountsWork'
    <3>1. Woken' = Woken
      BY DEF Woken
    <3>2. QED
      BY <3>1, WokenFinite DEF SemCountsWork, Unposted
  <2>5. ListedInOrder'
    BY DEF ListedInOrder
  <2>6. CopyOfFront'
    BY DEF CopyOfFront, MutexHeld
  <2>7. TakenOnce'
    BY DEF TakenOnce, Owner
  <2>8. QED
    BY <2>1, <2>2, <2>3, <2>4, <2>5, <2>6, <2>7 DEF IInv
<1>5. ASSUME NEW w \in Workers, SemWait(w) PROVE IInv'
  <2> USE <1>5 DEF SemWait, Goto
  <2>1. TypeOK'
    BY DEF Lock, Unlock, Package
  <2>2. Bounded'
    BY DEF Bounded
  <2>3. MutexHeld'
    BY DEF MutexHeld, Lock, Unlock
  <2>4. SemCountsWork'
    <3>1. w \notin Woken /\ Woken' = Woken \cup {w}
      BY DEF Woken
    <3>2. Cardinality(Woken') = Cardinality(Woken) + 1
      BY <3>1, WokenAdd
    <3>3. QED
      BY <3>2, WokenFinite DEF SemCountsWork, Unposted
  <2>5. ListedInOrder'
    BY DEF ListedInOrder
  <2>6. CopyOfFront'
    BY DEF CopyOfFront, MutexHeld
  <2>7. TakenOnce'
    BY DEF TakenOnce, Owner
  <2>8. QED
    BY <2>1, <2>2, <2>3, <2>4, <2>5, <2>6, <2>7 DEF IInv
<1>6. ASSUME NEW w \in Workers, WorkerLock(w) PROVE IInv'
  <2> USE <1>6 DEF WorkerLock, Goto
  <2>1. TypeOK'
    BY DEF Lock, Unlock, Package
  <2>2. Bounded'
    BY DEF Bounded
  <2>3. MutexHeld'
    BY DEF MutexHeld, Lock, Unlock
  <2>4. SemCountsWork'
    <3>1. Woken' = Woken
      BY DEF Woken
    <3>2. QED
      BY <3>1, WokenFinite DEF SemCountsWork, Unposted
  <2>5. ListedInOrder'
    BY DEF ListedInOrder
  <2>6. CopyOfFront'
    BY DEF CopyOfFront, MutexHeld
  <2>7. TakenOnce'
    BY DEF TakenOnce, Owner
  <2>8. QED
    BY <2>1, <2>2, <2>3, <2>4, <2>5, <2>6, <2>7 DEF IInv
<1>7. ASSUME NEW w \in Workers, Front(w) PROVE IInv'
  <2> USE <1>7 DEF Front, Goto
  <2>1. TypeOK'
    BY DEF Lock, Unlock, Package
  <2>2. Bounded'
    BY DEF Bounded
  <2>3. MutexHeld'
    BY DEF MutexHeld, Lock, Unlock
  <2>4. SemCountsWork'
    <3>1. Woken' = Woken
      BY DEF Woken
    <3>2. QED
      BY <3>1, WokenFinite DEF SemCountsWork, Unposted
  <2>5. ListedInOrder'
    BY DEF ListedInOrder
  <2>6. CopyOfFront'
    <3>1. m_work # <<>>
      BY WokenFindsWork DEF Woken
    <3>2. QED
      BY <3>1 DEF CopyOfFront, MutexHeld
  <2>7. TakenOnce'
    BY DEF TakenOnce, Owner
  <2>8. QED
    BY <2>1, <2>2, <2>3, <2>4, <2>5, <2>6, <2>7 DEF IInv
<1>8. ASSUME NEW w \in Workers, PopFront(w) PROVE IInv'
  <2> USE <1>8 DEF PopFront, Goto
  <2>0. /\ m_work # <<>> /\ Len(m_work) >= 1
        /\ m_work' = Tail(m_work)
        /\ m_work' \in Seq(Package)
        /\ Len(m_work') = Len(m_work) - 1
        /\ \A i \in 1 .. Len(m_work') : m_work'[i] = m_work[i + 1]
    BY WokenFindsWork DEF Woken
  <2>1. TypeOK'
    BY <2>0
  <2>2. Bounded'
    BY DEF Bounded
  <2>3. MutexHeld'
    BY DEF MutexHeld, Lock, Unlock
  <2>4. SemCountsWork'
    <3>1. w \in Woken /\ Woken' = Woken \ {w}
      BY DEF Woken
    <3>2. Cardinality(Woken') = Cardinality(Woken) - 1
      BY <3>1, WokenRemove
    <3>3. QED
      BY <2>0, <3>2, WokenFinite DEF SemCountsWork, Unposted
  <2>5. ListedInOrder'
    BY <2>0 DEF ListedInOrder
  <2>6. CopyOfFront'
    BY <2>0 DEF CopyOfFront, MutexHeld
  <2>7. TakenOnce'
    <3>1. package[w] = (issued - Len(m_work)) + 1
      BY <2>0 DEF CopyOfFront, ListedInOrder
    <3>2. issued' - Len(m_work') = (issued - Len(m_work)) + 1
      BY <2>0
    <3>3. Owner(w)' /\ ~ Owner(w) /\ \A v \in Workers : v # w => Owner(v)' = Owner(v)
      BY DEF Owner
    <3>4. ran \subseteq 1 .. (issued - Len(m_work)) /\ package[w] \notin ran
      BY <3>1, <2>0 DEF TakenOnce
    <3>5. \A v \in Workers : Owner(v) => package[v] # package[w]
      BY <3>1, <2>0 DEF TakenOnce
    <3>6. \A q \in 1 .. (issued' - Len(m_work')) :
            q \in 1 .. (issued - Len(m_work)) \/ q = package[w]
      BY <3>1, <3>2, <2>0
    <3>7. 1 .. (issued - Len(m_work)) \subseteq 1 .. (issued' - Len(m_work'))
      BY <3>2, <2>0
    <3>8. package[w] \in 1 .. (issued' - Len(m_work'))
      BY <3>1, <3>2, <2>0 DEF ListedInOrder
    <3>9. package' = package /\ ran' = ran
      OBVIOUS
    <3>10. QED
      BY <3>3, <3>4, <3>5, <3>6, <3>7, <3>8, <3>9, Zenon DEF TakenOnce
  <2>8. QED
    BY <2>1, <2>2, <2>3, <2>4, <2>5, <2>6, <2>7 DEF IInv
<1>9. ASSUME NEW w \in Workers, WorkerUnlock(w) PROVE IInv'
  <2> USE <1>9 DEF WorkerUnlock, Goto
  <2>1. TypeOK'
    BY DEF Lock, Unlock, Package
  <2>2. Bounded'
    BY DEF Bounded
  <2>3. MutexHeld'
    BY DEF MutexHeld, Lock, Unlock
  <2>4. SemCountsWork'
    <3>1. Woken' = Woken
      BY DEF Woken
    <3>2. QED
      BY <3>1, WokenFinite DEF SemCountsWork, Unposted
  <2>5. ListedInOrder'
    BY DEF ListedInOrder
  <2>6. CopyOfFront'
    BY DEF CopyOfFront, MutexHeld
  <2>7. TakenOnce'
    BY DEF TakenOnce, Owner
  <2>8. QED
    BY <2>1, <2>2, <2>3, <2>4, <2>5, <2>6, <2>7 DEF IInv
<1>10. ASSUME NEW w \in Workers, Handler(w) PROVE IInv'
  <2> USE <1>10 DEF Handler, Goto
  <2>1. TypeOK'
    BY DEF Lock, Unlock, Package
  <2>2. Bounded'
    BY DEF Bounded
  <2>3. MutexHeld'
    BY DEF MutexHeld, Lock, Unlock
  <2>4. SemCountsWork'
    <3>1. Woken' = Woken
      BY DEF Woken
    <3>2. QED
      BY <3>1, WokenFinite DEF SemCountsWork, Unposted
  <2>5. ListedInOrder'
    BY DEF ListedInOrder
  <2>6. CopyOfFront'
    BY DEF CopyOfFront, MutexHeld
  <2>7. TakenOnce'
    <3>1. Owner(w) /\ package[w] # None /\ ran' = ran \cup {package[w]}
      BY DEF TakenOnce, Owner
    <3>2. ~ Owner(w)' /\ \A v \in Workers : v # w => Owner(v)' = Owner(v) /\ package'[v] = package[v]
      BY DEF Owner
    <3>3. issued' - Len(m_work') = issued - Len(m_work)
      OBVIOUS
    <3>4. \A q \in 1 .. (issued - Len(m_work)) :
            q \in ran' \/ \E v \in Workers : Owner(v)' /\ package'[v] = q
      <4>1. ASSUME NEW q \in 1 .. (issued - Len(m_work)), q \notin ran'
            PROVE  \E v \in Workers : Owner(v)' /\ package'[v] = q
        <5>1. PICK v \in Workers : Owner(v) /\ package[v] = q
          BY <3>1, <4>1 DEF TakenOnce
        <5>2. v # w
          BY <3>1, <4>1, <5>1
        <5>3. QED
          BY <3>2, <5>1, <5>2
      <4>2. QED
        BY <4>1
    <3>5. ran' \subseteq 1 .. (issued - Len(m_work))
      BY <3>1 DEF TakenOnce
    <3>6. ASSUME NEW v \in Workers, Owner(v)'
          PROVE  /\ package'[v] \in 1 .. (issued - Len(m_work))
                 /\ package'[v] \notin ran'
                 /\ \A u \in Workers : Owner(u)' /\ package'[u] = package'[v] => u = v
      BY <3>1, <3>2, <3>6 DEF TakenOnce
    <3>7. QED
      BY <3>3, <3>4, <3>5, <3>6 DEF TakenOnce
  <2>8. QED
    BY <2>1, <2>2, <2>3, <2>4, <2>5, <2>6, <2>7 DEF IInv
<1>11. ASSUME UNCHANGED vars PROVE IInv'
  <2> USE <1>11 DEF vars
  <2>1. TypeOK' /\ Bounded' /\ MutexHeld'
    BY DEF Bounded, MutexHeld
  <2>2. SemCountsWork'
    BY DEF SemCountsWork, Woken, Unposted
  <2>3. ListedInOrder' /\ CopyOfFront'
    BY DEF ListedInOrder, CopyOfFront
  <2>4. TakenOnce'
    BY DEF TakenOnce, Owner
  <2>5. QED
    BY <2>1, <2>2, <2>3, <2>4 DEF IInv
<1>12. QED
  BY <1>1, <1>2, <1>3, <1>4, <1>5, <1>6, <1>7, <1>8, <1>9, <1>10, <1>11
     DEF Next, DispatcherStep, WorkerStep, AllRun

-----------------------------------------------------------------------------
(* The theorems. *)

LEMMA Invariance == Spec => []IInv
<1>1. QED
  BY InitIInv, NextIInv, PTL DEF Spec

\* Every variable of the pool has its type in every reachable state.
THEOREM PoolTypeOK == Spec => []TypeOK
<1>1. IInv => TypeOK
  BY DEF IInv
<1>2. QED
  BY Invariance, <1>1, PTL

\* m_work.front() and m_work.pop_front() are never called on an empty list,
\* however many threads race between sem_wait and the mutex.
THEOREM PoolFrontNotEmpty == Spec => []FrontNotEmpty
<1>1. IInv => FrontNotEmpty
  <2> SUFFICES ASSUME IInv, NEW w \in Workers, pc[w] \in {"front", "pop_front"}
               PROVE  m_work # <<>>
    BY DEF FrontNotEmpty
  <2>1. QED
    BY WokenFindsWork DEF IInv, Woken
<1>2. QED
  BY Invariance, <1>1, PTL

\* No package that was dispatched is lost, and none is given to two threads or
\* run twice.
THEOREM PoolNothingLost == Spec => []NothingLost
<1>1. IInv => NothingLost
  <2> SUFFICES ASSUME IInv PROVE NothingLost
    OBVIOUS
  <2> USE DEF IInv
  <2> DEFINE taken == issued - Len(m_work)
  <2>1. /\ Len(m_work) \in Nat /\ issued \in Nat /\ taken \in Nat
        /\ DOMAIN m_work = 1 .. Len(m_work)
    BY MaxPackagesAssumption DEF TypeOK, ListedInOrder
  <2>2. \A i \in DOMAIN m_work : m_work[i] = taken + i
    BY <2>1 DEF ListedInOrder
  <2>3. ASSUME NEW p \in 1 .. issued
        PROVE  \/ p \in ran
               \/ \E i \in DOMAIN m_work : m_work[i] = p
               \/ \E w \in Workers : Owner(w) /\ package[w] = p
    <3>1. CASE p \in 1 .. taken
      BY <3>1 DEF TakenOnce
    <3>2. CASE p \notin 1 .. taken
      <4>1. p - taken \in DOMAIN m_work /\ taken + (p - taken) = p
        BY <2>1, <3>2
      <4>2. QED
        BY <2>2, <4>1
    <3>3. QED
      BY <3>1, <3>2
  <2>4. \A i \in DOMAIN m_work : m_work[i] \notin 1 .. taken
    BY <2>1, <2>2
  <2>5. \A i, j \in DOMAIN m_work : i < j => m_work[i] < m_work[j]
    BY <2>1, <2>2
  <2>6. \A i \in DOMAIN m_work : m_work[i] \notin ran
    BY <2>4 DEF TakenOnce
  <2>7. ASSUME NEW w \in Workers, Owner(w)
        PROVE  /\ package[w] # None
               /\ package[w] \notin ran
               /\ \A v \in Workers : Owner(v) /\ package[v] = package[w] => v = w
               /\ \A i \in DOMAIN m_work : m_work[i] # package[w]
    BY <2>1, <2>4, <2>7, NoneAssumption DEF TakenOnce
  <2>8. QED
    BY <2>3, <2>5, <2>6, <2>7 DEF NothingLost
<1>2. QED
  BY Invariance, <1>1, PTL

-----------------------------------------------------------------------------
(* ThreadPool implements WorkQueue. *)

\* What each thread runs, seen from WorkQueue.
Running == [w \in Workers |-> IF Owner(w) THEN package[w] ELSE None]

\* A step that moves no owner and touches no package of WorkQueue.
LEMMA RunningUnchanged ==
    ASSUME \A v \in Workers : Owner(v)' = Owner(v) /\ (Owner(v) => package'[v] = package[v])
    PROVE  Running' = Running
BY DEF Running

LEMMA StepImplements ==
    ASSUME IInv, Next
    PROVE  Queue!Next \/ UNCHANGED Queue!qvars
<1> USE DispatcherAssumption, NoneAssumption, MaxPackagesAssumption
<1> TypeOK /\ MutexHeld /\ SemCountsWork /\ CopyOfFront /\ TakenOnce
  BY DEF IInv
<1> USE DEF TypeOK, Threads
<1>1. CASE DispatchPush
  <2>1. Running' = Running
    BY <1>1, RunningUnchanged DEF DispatchPush, Goto, Owner
  <2>2. Queue!Put
    BY <1>1, <2>1 DEF Queue!Put, DispatchPush, Running
  <2>3. QED
    BY <2>2 DEF Queue!Next
<1>2. ASSUME NEW w \in Workers, PopFront(w) PROVE Queue!Next
  <2>1. m_work # <<>>
    BY <1>2, WokenFindsWork DEF Woken, PopFront, Goto
  <2>2. m_work' = Tail(m_work) /\ package[w] = Head(m_work)
    BY <1>2, <2>1 DEF PopFront, Goto, CopyOfFront
  <2>3. ~ Owner(w) /\ Owner(w)' /\ \A v \in Workers : v # w => Owner(v)' = Owner(v)
    BY <1>2 DEF PopFront, Goto, Owner
  <2>4. Running[w] = None /\ Running' = [Running EXCEPT ![w] = Head(m_work)]
    BY <1>2, <2>2, <2>3 DEF Running, PopFront
  <2>5. Queue!Take(w)
    BY <1>2, <2>1, <2>2, <2>4 DEF Queue!Take, PopFront, Running
  <2>6. QED
    BY <2>5 DEF Queue!Next
<1>3. ASSUME NEW w \in Workers, Handler(w) PROVE Queue!Next
  <2>1. Owner(w) /\ package[w] # None /\ package[w] \notin ran
    BY <1>3 DEF Handler, Goto, Owner, TakenOnce
  <2>2. ~ Owner(w)' /\ \A v \in Workers : v # w => Owner(v)' = Owner(v) /\ package'[v] = package[v]
    BY <1>3 DEF Handler, Goto, Owner
  <2>3. Running[w] = package[w] /\ Running' = [Running EXCEPT ![w] = None]
    BY <2>1, <2>2 DEF Running
  <2>4. ran' = ran \cup {package[w]}
    BY <1>3, <2>1 DEF Handler
  <2>5. Queue!Finish(w)
    BY <1>3, <2>1, <2>3, <2>4 DEF Queue!Finish, Handler, Running
  <2>6. QED
    BY <2>5 DEF Queue!Next
<1>4. CASE DispatchLock \/ DispatchPost \/ DispatchUnlock
  <2>1. Running' = Running
    BY <1>4, RunningUnchanged DEF DispatchLock, DispatchPost, DispatchUnlock, Goto, Owner
  <2>2. QED
    BY <1>4, <2>1 DEF Queue!qvars, Running, DispatchLock, DispatchPost, DispatchUnlock
<1>5. ASSUME NEW w \in Workers, SemWait(w) \/ WorkerLock(w) \/ Front(w) \/ WorkerUnlock(w)
      PROVE  UNCHANGED Queue!qvars
  <2>1. Running' = Running
    BY <1>5, RunningUnchanged DEF SemWait, WorkerLock, Front, WorkerUnlock, Goto, Owner
  <2>2. QED
    BY <1>5, <2>1 DEF Queue!qvars, Running, SemWait, WorkerLock, Front, WorkerUnlock
<1>6. CASE AllRun
  <2>1. Running' = Running
    BY <1>6, RunningUnchanged DEF AllRun, vars, Owner
  <2>2. QED
    BY <1>6, <2>1 DEF Queue!qvars, Running, AllRun, vars
<1>7. QED
  BY <1>1, <1>2, <1>3, <1>4, <1>5, <1>6 DEF Next, DispatcherStep, WorkerStep

\* Every behaviour of the pool is a behaviour of the abstract queue: packages
\* are handed out in the order of dispatch, each to one thread, once.
THEOREM PoolImplementsQueue == Spec => ImplementsQueue
<1>1. Init => Queue!Init
  BY DispatcherAssumption DEF Init, Queue!Init, Owner, Threads
<1>2. IInv /\ [Next]_vars => [Queue!Next]_(Queue!qvars)
  <2> SUFFICES ASSUME IInv, [Next]_vars PROVE Queue!Next \/ UNCHANGED Queue!qvars
    OBVIOUS
  <2>1. CASE Next
    BY <2>1, StepImplements
  <2>2. CASE UNCHANGED vars
    BY <2>2 DEF vars, Queue!qvars, Owner
  <2>3. QED
    BY <2>1, <2>2
<1>3. QED
  BY <1>1, <1>2, Invariance, PTL DEF Spec, ImplementsQueue, Queue!Spec

=============================================================================
