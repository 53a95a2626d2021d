------------------------------ MODULE ThreadPool ------------------------------
(***************************************************************************)
(* The thread pool of ProxyConnector.cpp at the grain of its system calls: *)
(* a list of work packages, the mutex that guards it and the semaphore     *)
(* that counts it.  The dispatch thread is the only one that adds work.    *)
(* A package is its number; the handlers are the worker actions of         *)
(* NermalProxy.                                                            *)
(***************************************************************************)
EXTENDS Integers, Sequences, FiniteSets

CONSTANTS
    Workers,      \* the threads of the pool (threadPoolSize of them)
    Dispatcher,   \* the thread that calls Dispatch
    MaxPackages,  \* bound: calls of Dispatch in one behaviour
    None          \* no thread, no package

ASSUME WorkersAssumption == IsFiniteSet(Workers)
ASSUME DispatcherAssumption == Dispatcher \notin Workers
ASSUME MaxPackagesAssumption == MaxPackages \in Nat
ASSUME NoneAssumption == None \notin Workers \cup {Dispatcher} \cup Nat

Threads == Workers \cup {Dispatcher}
Package == 1 .. MaxPackages

VARIABLES
    m_work,       \* the list of packages
    m_poolSem,    \* the value of the semaphore
    m_workMutex,  \* the thread that holds the mutex
    pc,           \* the next call of each thread
    package,      \* the local variable of each worker
    issued,       \* number of packages dispatched so far
    ran           \* the packages whose handler has returned

vars == <<m_work, m_poolSem, m_workMutex, pc, package, issued, ran>>

Init ==
    /\ m_work = <<>>
    /\ m_poolSem = 0
    /\ m_workMutex = None
    /\ pc = [t \in Threads |-> IF t = Dispatcher THEN "ready" ELSE "sem_wait"]
    /\ package = [w \in Workers |-> None]
    /\ issued = 0
    /\ ran = {}

Goto(t, from, to) ==
    /\ pc[t] = from
    /\ pc' = [pc EXCEPT ![t] = to]

\* Mutant: the mutex is not waited for.
LockUnguarded(t) == m_workMutex' = t

Lock(t) == m_workMutex = None /\ m_workMutex' = t
Unlock(t) == m_workMutex' = None

-----------------------------------------------------------------------------
(* Dispatch: the package is added and the semaphore posted under the mutex. *)

DispatchLock ==
    /\ issued < MaxPackages
    /\ Goto(Dispatcher, "ready", "push_back")
    /\ Lock(Dispatcher)
    /\ UNCHANGED <<m_work, m_poolSem, package, issued, ran>>

DispatchPush ==
    /\ Goto(Dispatcher, "push_back", "sem_post")
    /\ m_work' = Append(m_work, issued + 1)
    /\ issued' = issued + 1
    /\ UNCHANGED <<m_poolSem, m_workMutex, package, ran>>

\* Mutant: two posts for one package.
DispatchPostTwice ==
    /\ Goto(Dispatcher, "sem_post", "unlock")
    /\ m_poolSem' = m_poolSem + 2
    /\ UNCHANGED <<m_work, m_workMutex, package, issued, ran>>

\* Mutant: the post is forgotten.
DispatchPostNever ==
    /\ Goto(Dispatcher, "sem_post", "unlock")
    /\ UNCHANGED <<m_work, m_poolSem, m_workMutex, package, issued, ran>>

DispatchPost ==
    /\ Goto(Dispatcher, "sem_post", "unlock")
    /\ m_poolSem' = m_poolSem + 1
    /\ UNCHANGED <<m_work, m_workMutex, package, issued, ran>>

DispatchUnlock ==
    /\ Goto(Dispatcher, "unlock", "ready")
    /\ Unlock(Dispatcher)
    /\ UNCHANGED <<m_work, m_poolSem, package, issued, ran>>

-----------------------------------------------------------------------------
(* The loop of a worker thread. *)

\* Mutant: the semaphore is not waited for.
SemWaitUnguarded(w) ==
    /\ Goto(w, "sem_wait", "lock")
    /\ m_poolSem' = m_poolSem - 1
    /\ UNCHANGED <<m_work, m_workMutex, package, issued, ran>>

SemWait(w) ==
    /\ Goto(w, "sem_wait", "lock")
    /\ m_poolSem > 0
    /\ m_poolSem' = m_poolSem - 1
    /\ UNCHANGED <<m_work, m_workMutex, package, issued, ran>>

WorkerLock(w) ==
    /\ Goto(w, "lock", "front")
    /\ Lock(w)
    /\ UNCHANGED <<m_work, m_poolSem, package, issued, ran>>

\* front() of an empty list is undefined; here it yields a package without a
\* handler, and pop_front() of an empty list does nothing.
Front(w) ==
    /\ Goto(w, "front", "pop_front")
    /\ package' = [package EXCEPT ![w] = IF m_work = <<>> THEN None ELSE Head(m_work)]
    /\ UNCHANGED <<m_work, m_poolSem, m_workMutex, issued, ran>>

\* Mutant: the package stays in the list.
PopFrontNever(w) ==
    /\ Goto(w, "pop_front", "unlock")
    /\ UNCHANGED <<m_work, m_poolSem, m_workMutex, package, issued, ran>>

PopFront(w) ==
    /\ Goto(w, "pop_front", "unlock")
    /\ m_work' = IF m_work = <<>> THEN <<>> ELSE Tail(m_work)
    /\ UNCHANGED <<m_poolSem, m_workMutex, package, issued, ran>>

WorkerUnlock(w) ==
    /\ Goto(w, "unlock", "handler")
    /\ Unlock(w)
    /\ UNCHANGED <<m_work, m_poolSem, package, issued, ran>>

\* package.handler(package.context), if there is one; the variable goes out of scope.
Handler(w) ==
    /\ Goto(w, "handler", "sem_wait")
    /\ ran' = ran \cup ({package[w]} \ {None})
    /\ package' = [package EXCEPT ![w] = None]
    /\ UNCHANGED <<m_work, m_poolSem, m_workMutex, issued>>

-----------------------------------------------------------------------------
DispatcherStep == DispatchLock \/ DispatchPush \/ DispatchPost \/ DispatchUnlock

WorkerStep(w) ==
    \/ SemWait(w) \/ WorkerLock(w) \/ Front(w) \/ PopFront(w)
    \/ WorkerUnlock(w) \/ Handler(w)

\* Every package of the bounded behaviour has run.
AllRun ==
    /\ ran = Package
    /\ pc[Dispatcher] = "ready"
    /\ \A w \in Workers : pc[w] = "sem_wait"
    /\ UNCHANGED vars

Next == DispatcherStep \/ (\E w \in Workers : WorkerStep(w)) \/ AllRun

Spec == Init /\ [][Next]_vars

\* Every thread that can run does; a handler returns (its calls have timeouts).
\* The dispatch thread need not dispatch, but finishes a call it has begun.
FairSpec ==
    /\ Spec
    /\ WF_vars(DispatchPush \/ DispatchPost \/ DispatchUnlock)
    /\ \A w \in Workers : WF_vars(WorkerStep(w))

-----------------------------------------------------------------------------
(* Correctness. *)

\* Every variable has its type.
TypeOK ==
    /\ m_work \in Seq(Package)
    /\ m_poolSem \in Nat
    /\ m_workMutex \in Threads \cup {None}
    /\ pc \in [Threads -> {"ready", "push_back", "sem_post", "unlock", "sem_wait",
                           "lock", "front", "pop_front", "handler"}]
    /\ pc[Dispatcher] \in {"ready", "push_back", "sem_post", "unlock"}
    /\ \A w \in Workers :
        pc[w] \in {"sem_wait", "lock", "front", "pop_front", "unlock", "handler"}
    /\ package \in [Workers -> Package \cup {None}]
    /\ issued \in 0 .. MaxPackages
    /\ ran \subseteq Package

\* A thread that reaches front() finds a package, although the semaphore is
\* waited for outside the mutex that guards the list: m_work.front() is never
\* called on an empty list.
FrontNotEmpty ==
    \A w \in Workers : pc[w] \in {"front", "pop_front"} => m_work # <<>>

\* Threads that have a package of their own, no longer in the list.
Owner(w) == pc[w] \in {"unlock", "handler"}

\* Every package that was dispatched is in the list, in one thread or has run,
\* in one of these places only and once: none is lost and none runs twice.
NothingLost ==
    /\ \A p \in 1 .. issued :
        \/ p \in ran
        \/ \E i \in DOMAIN m_work : m_work[i] = p
        \/ \E w \in Workers : Owner(w) /\ package[w] = p
    /\ \A w \in Workers : Owner(w) =>
        /\ package[w] # None
        /\ package[w] \notin ran
        /\ \A v \in Workers : Owner(v) /\ package[v] = package[w] => v = w
        /\ \A i \in DOMAIN m_work : m_work[i] # package[w]
    /\ \A i, j \in DOMAIN m_work : i < j => m_work[i] < m_work[j]
    /\ \A i \in DOMAIN m_work : m_work[i] \notin ran

\* The detailed pool implements the abstract queue.
Queue == INSTANCE WorkQueue WITH
    queue <- m_work, finished <- ran,
    running <- [w \in Workers |-> IF Owner(w) THEN package[w] ELSE None]

\* Every call of the pool's threads is a step of WorkQueue or leaves it alone:
\* packages are handed out in the order of dispatch, each to one thread.
ImplementsQueue == Queue!Spec

\* A package that is dispatched is run, as long as the pool has a thread.
EventuallyRun == \A p \in Package : issued >= p ~> p \in ran

=============================================================================
