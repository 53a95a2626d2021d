----------------------------- MODULE NermalProxy -----------------------------
(***************************************************************************)
(* The life of a proxied session in nermalproxy: the dispatch thread       *)
(* (SocketManager::ProcessSockets), the worker threads that detect the     *)
(* request and connect to the target (asyncDetector, asyncConnector), the  *)
(* pipe that carries results back (AsyncMessenger), the session list       *)
(* (SessionManager) and the file descriptors the kernel hands out and      *)
(* reuses.                                                                 *)
(*                                                                         *)
(* Left to other modules or left out: which requests the access rules let  *)
(* through (here any answer is possible), the bytes relayed and their      *)
(* statistics, and the DNS cache.  The semaphore, the mutex and the list   *)
(* behind "work" are in ThreadPool.                                        *)
(***************************************************************************)
EXTENDS Integers, Sequences, FiniteSets

CONSTANTS
    Fds,          \* the descriptors the kernel can give to connections
    Workers,      \* the threads of the pool
    MaxSessions,  \* bound: connections accepted in one behaviour
    MaxEvents,    \* SocketManager::m_eventsToProcess
    PruneLimit,   \* the literal 200 of PruneExcessConnections
    PipeCapacity, \* messages the pipe holds before a write blocks
    Faults,       \* rare outcomes that are allowed to happen
    None          \* no descriptor, no session, no socket

ASSUME FdsAssumption == IsFiniteSet(Fds)
ASSUME BoundsAssumption ==
    /\ MaxSessions \in Nat
    /\ MaxEvents \in Nat \ {0}
    /\ PruneLimit \in Nat \ {0, 1}  \* the listening socket and the pipe are never pruned
    /\ PipeCapacity \in Nat \ {0}

\* "epoll_add": epoll_ctl(EPOLL_CTL_ADD) fails for a lack of kernel memory or
\* watches.  "freed_peer": the descriptor that PruneExcessConnections reads
\* from the ClientSocket it has just deleted is no longer the peer's.
ASSUME FaultsAssumption == Faults \subseteq {"epoll_add", "freed_peer"}

SessionId == 0 .. MaxSessions - 1

\* What the kernel has open behind a descriptor: the end of the connection it
\* is, and (history) the session it was opened for.
Connection == [role : {"client", "server"}, sid : SessionId]

\* A ClientSocket of m_sockets; "reg" is its place in the list, "eof" tells
\* that the remote end has closed and everything it sent has been read.
Socket == [peer : Fds, sid : SessionId, reg : Nat, active : BOOLEAN, eof : BOOLEAN]

Work == [task : {"asyncDetector", "asyncConnector"}, sid : SessionId]

Message ==
    [id : {"HOST_DETECT_RESULT"}, sid : SessionId, fd : {None}, success : BOOLEAN]
    \cup [id : {"HOST_CONNECT_RESULT"}, sid : SessionId, fd : Fds, success : {TRUE}]
    \cup [id : {"HOST_CONNECT_RESULT"}, sid : SessionId, fd : {None}, success : {FALSE}]

\* An entry of the array epoll_wait fills.  The code has the descriptor only;
\* "sid" records the session of the socket that was ready.
ServerEvent == [type |-> "Server", fd |-> None, sid |-> None]
CommandEvent == [type |-> "Command", fd |-> None, sid |-> None]
Event == {ServerEvent, CommandEvent} \cup [type : {"Client"}, fd : Fds, sid : SessionId]

ASSUME NoneAssumption == None \notin Fds \cup SessionId \cup Connection \cup Socket

VARIABLES
    sessions,  \* m_sessionList: the client descriptor of each live session
    nextId,    \* SessionManager::m_sessionId
    fds,       \* what is open behind each descriptor
    sockets,   \* the ClientSockets of m_sockets, by descriptor
    nextReg,   \* number of ClientSockets ever added to m_sockets
    work,      \* ThreadPool::m_work
    workers,   \* what each thread of the pool is doing
    pipe,      \* the messages in the pipe of AsyncMessenger
    events,    \* the epoll events of this pass that are still to be dispatched
    main       \* what the dispatch thread is doing

vars == <<sessions, nextId, fds, sockets, nextReg, work, workers, pipe, events, main>>

Idle == [pc |-> "idle", sid |-> None, fd |-> None]
Loop == [pc |-> "loop", sid |-> None, fd |-> None]
Down == [pc |-> "down", sid |-> None, fd |-> None]

Pruning == [pc |-> "prune", sid |-> None, fd |-> None]

Worker ==
    {Idle} \cup [pc : {"detect", "resolve", "clear"}, sid : SessionId, fd : {None}]
           \cup [pc : {"dial"}, sid : SessionId, fd : Fds]
Dispatcher ==
    {Loop, Pruning, Down} \cup [pc : {"reject"}, sid : SessionId, fd : {None}]
                          \cup [pc : {"stalled"}, sid : SessionId, fd : Fds]

Live(s) == sessions[s] # None
Registered == {f \in Fds : sockets[f] # None}
Excess(S) == Cardinality(S) + 2 > PruneLimit

ClientEvent(f) == [type |-> "Client", fd |-> f, sid |-> sockets[f].sid]

Init ==
    /\ sessions = [s \in SessionId |-> None]
    /\ nextId = 0
    /\ fds = [f \in Fds |-> None]
    /\ sockets = [f \in Fds |-> None]
    /\ nextReg = 0
    /\ work = <<>>
    /\ workers = [w \in Workers |-> Idle]
    /\ pipe = <<>>
    /\ events = {}
    /\ main = Loop

-----------------------------------------------------------------------------
(* The dispatch thread: waiting for events. *)

\* epoll is level triggered: a socket at end of file and a pipe that holds a
\* message are reported at every call.  Data on other sockets and new
\* connections may or may not be there.
MustReport ==
    {ClientEvent(f) : f \in {g \in Registered : sockets[g].eof}}
        \cup (IF pipe = <<>> THEN {} ELSE {CommandEvent})

MayReport ==
    MustReport \cup {ClientEvent(f) : f \in Registered}
        \cup (IF nextId < MaxSessions THEN {ServerEvent} ELSE {})

EpollWait ==
    /\ main = Loop /\ events = {}
    /\ \E E \in SUBSET MayReport :
        /\ E # {}
        /\ Cardinality(E) <= MaxEvents
        /\ MustReport \subseteq E \/ Cardinality(E) = MaxEvents
        /\ events' = E
    /\ UNCHANGED <<sessions, nextId, fds, sockets, nextReg, work, workers, pipe, main>>

\* Nothing for m_epollTimeout: the one moment at which connections are pruned.
EpollTimeout ==
    /\ main = Loop /\ events = {}
    /\ MustReport = {}
    /\ main' = IF Excess(Registered) THEN Pruning ELSE Loop
    /\ UNCHANGED <<sessions, nextId, fds, sockets, nextReg, work, workers, pipe, events>>

\* Mutant: the descriptors are closed, the list keeps the sockets.
DestroyKeepsSockets(S) ==
    /\ UNCHANGED sockets
    /\ fds' = [f \in Fds |-> IF f \in S THEN None ELSE fds[f]]

\* RemoveSocketFd, m_sockets.remove and ~ClientSocket for each descriptor of S.
Destroy(S) ==
    /\ sockets' = [f \in Fds |-> IF f \in S THEN None ELSE sockets[f]]
    /\ fds' = [f \in Fds |-> IF f \in S THEN None ELSE fds[f]]

EndSession(s) == sessions' = [sessions EXCEPT ![s] = None]

\* What PruneExcessConnections finds in the ClientSocket it has deleted.
FreedPeer(f) ==
    {sockets[f].peer} \cup (IF "freed_peer" \in Faults THEN {None} ELSE {})

PruneExcessConnections ==
    /\ main = Pruning
    /\ \E f \in Registered :
        /\ \A g \in Registered : sockets[f].reg <= sockets[g].reg
        /\ \E peer \in FreedPeer(f) :
            LET gone == {f} \cup ({peer} \cap Registered)
            IN  /\ Destroy(gone)
                /\ main' = IF Excess(Registered \ gone) THEN main ELSE Loop
        /\ EndSession(sockets[f].sid)
    /\ UNCHANGED <<nextId, nextReg, work, workers, pipe, events>>

-----------------------------------------------------------------------------
(* The dispatch thread: the listening socket. *)

GetSessionForClient(list, f) ==
    CHOOSE s \in SessionId : list[s] = f /\ \A t \in SessionId : list[t] = f => s <= t

HandleServerSocketRead ==
    /\ main = Loop /\ ServerEvent \in events
    /\ nextId < MaxSessions
    /\ \E f \in Fds :
        /\ fds[f] = None
        /\ fds' = [fds EXCEPT ![f] = [role |-> "client", sid |-> nextId]]
        /\ sessions' = [sessions EXCEPT ![nextId] = f]
        /\ work' = Append(work, [task |-> "asyncDetector", sid |-> GetSessionForClient(sessions', f)])
    /\ nextId' = nextId + 1
    /\ events' = events \ {ServerEvent}
    /\ UNCHANGED <<sockets, nextReg, workers, pipe, main>>

\* accept() fails, for a lack of descriptors or because the client is gone:
\* ProcessSockets returns false and main() returns.
AcceptFails ==
    /\ main = Loop /\ ServerEvent \in events
    /\ main' = Down
    /\ UNCHANGED <<sessions, nextId, fds, sockets, nextReg, work, workers, pipe, events>>

-----------------------------------------------------------------------------
(* The dispatch thread: HandleClientSocketRead, case by case. *)

\* The descriptor of the event is not in m_sockets any more.
SkipEvent ==
    /\ main = Loop
    /\ \E e \in events :
        /\ e.type = "Client" /\ sockets[e.fd] = None
        /\ events' = events \ {e}
    /\ UNCHANGED <<sessions, nextId, fds, sockets, nextReg, work, workers, pipe, main>>

\* Mutant: the peer's socket is left behind.
CloseSessionOneEnd ==
    /\ main = Loop
    /\ \E e \in events :
        /\ e.type = "Client" /\ sockets[e.fd] # None
        /\ ~ sockets[e.fd].active
        /\ Destroy({e.fd})
        /\ EndSession(sockets[e.fd].sid)
        /\ events' = events \ {e}
    /\ UNCHANGED <<nextId, nextReg, work, workers, pipe, main>>

\* Read() reports an error: the socket was found broken at an earlier event.
CloseSession ==
    /\ main = Loop
    /\ \E e \in events :
        /\ e.type = "Client" /\ sockets[e.fd] # None
        /\ ~ sockets[e.fd].active
        /\ Destroy({e.fd} \cup ({sockets[e.fd].peer} \cap Registered))
        /\ EndSession(sockets[e.fd].sid)
        /\ events' = events \ {e}
    /\ UNCHANGED <<nextId, nextReg, work, workers, pipe, main>>

\* The byte counts of the session are updated after every relay; GetSession()
\* returns a null pointer when the session is gone.
AfterRelay(s) == IF Live(s) THEN Loop ELSE Down

\* Mutant: the end of file is not remembered.
ReadNothingForgets ==
    /\ main = Loop
    /\ \E e \in events :
        /\ e.type = "Client" /\ sockets[e.fd] # None
        /\ sockets[e.fd].active /\ sockets[e.fd].eof
        /\ main' = AfterRelay(sockets[e.fd].sid)
        /\ events' = events \ {e}
    /\ UNCHANGED <<sessions, nextId, fds, sockets, nextReg, work, workers, pipe>>

\* read() returns 0: OnError() marks the socket, and the call still reports
\* success, so that the session is closed at the socket's next event.  A read()
\* that fails is taken for SIZE_MAX bytes (numRead is unsigned); the write() of
\* so many fails, and it is Write() that marks the socket.
ReadNothing ==
    /\ main = Loop
    /\ \E e \in events :
        /\ e.type = "Client" /\ sockets[e.fd] # None
        /\ sockets[e.fd].active /\ sockets[e.fd].eof
        /\ sockets' = [sockets EXCEPT ![e.fd].active = FALSE]
        /\ main' = AfterRelay(sockets[e.fd].sid)
        /\ events' = events \ {e}
    /\ UNCHANGED <<sessions, nextId, fds, nextReg, work, workers, pipe>>

\* write() on the peer's descriptor can fail for good: nothing is open there
\* or the remote end is gone.
Broken(f) == \/ fds[f] = None
             \/ sockets[f] # None /\ sockets[f].eof

\* Data was read and written to the peer; a failed write marks the socket that
\* was read, not the one that failed.
RelayData ==
    /\ main = Loop
    /\ \E e \in events :
        /\ e.type = "Client" /\ sockets[e.fd] # None
        /\ sockets[e.fd].active /\ ~ sockets[e.fd].eof
        /\ \/ /\ fds[sockets[e.fd].peer] # None
              /\ UNCHANGED sockets
           \/ /\ Broken(sockets[e.fd].peer)
              /\ sockets' = [sockets EXCEPT ![e.fd].active = FALSE]
        /\ main' = AfterRelay(sockets[e.fd].sid)
        /\ events' = events \ {e}
    /\ UNCHANGED <<sessions, nextId, fds, nextReg, work, workers, pipe>>

\* The peer does not take the data: Write() retries without end, the timeout
\* of the socket (EAGAIN) included.
RelayStalls ==
    /\ main = Loop
    /\ \E e \in events :
        /\ e.type = "Client" /\ sockets[e.fd] # None
        /\ sockets[e.fd].active /\ ~ sockets[e.fd].eof
        /\ fds[sockets[e.fd].peer] # None
        /\ main' = [pc |-> "stalled", sid |-> sockets[e.fd].sid, fd |-> e.fd]
        /\ events' = events \ {e}
    /\ UNCHANGED <<sessions, nextId, fds, sockets, nextReg, work, workers, pipe>>

\* The remote end of the peer takes the data, or closes.  A write that times
\* out (EAGAIN) is retried at once and leaves the thread where it is.
StalledWriteEnds ==
    /\ main.pc = "stalled"
    /\ \/ UNCHANGED sockets
       \/ /\ Broken(sockets[main.fd].peer)
          /\ sockets' = [sockets EXCEPT ![main.fd].active = FALSE]
    /\ main' = AfterRelay(main.sid)
    /\ UNCHANGED <<sessions, nextId, fds, nextReg, work, workers, pipe, events>>

-----------------------------------------------------------------------------
(* The dispatch thread: HandleCommandSocketRead, case by case. *)

\* Mutant: one event drains the pipe.
ReadMessageDrains ==
    /\ pipe' = Tail(pipe)
    /\ events' = IF pipe' = <<>> THEN events \ {CommandEvent} ELSE events

\* One message is read for each event on the pipe.
ReadMessage ==
    /\ pipe' = Tail(pipe)
    /\ events' = events \ {CommandEvent}

CommandReady == main = Loop /\ CommandEvent \in events /\ pipe # <<>>

\* Mutant: the client's descriptor is not closed.
RefuseLeaks ==
    /\ CommandReady /\ Live(Head(pipe).sid)
    /\ Head(pipe).id = "HOST_DETECT_RESULT" \/ ~ Head(pipe).success
    /\ EndSession(Head(pipe).sid)
    /\ ReadMessage
    /\ UNCHANGED <<nextId, fds, sockets, nextReg, work, workers, main>>

\* Mutant: the session is not ended.
RefuseKeepsSession ==
    /\ CommandReady /\ Live(Head(pipe).sid)
    /\ Head(pipe).id = "HOST_DETECT_RESULT" \/ ~ Head(pipe).success
    /\ fds' = [fds EXCEPT ![sessions[Head(pipe).sid]] = None]
    /\ ReadMessage
    /\ UNCHANGED <<sessions, nextId, sockets, nextReg, work, workers, main>>

\* 400, 403, 407 or 404: the client's descriptor is closed and the session
\* ends.  A detected request may be refused by the access rules.
Refuse ==
    /\ CommandReady /\ Live(Head(pipe).sid)
    /\ Head(pipe).id = "HOST_DETECT_RESULT" \/ ~ Head(pipe).success
    /\ fds' = [fds EXCEPT ![sessions[Head(pipe).sid]] = None]
    /\ EndSession(Head(pipe).sid)
    /\ ReadMessage
    /\ UNCHANGED <<nextId, sockets, nextReg, work, workers, main>>

\* The access rules let the request through and ConnectProxy hands it to the pool.
ConnectProxy ==
    /\ CommandReady /\ Live(Head(pipe).sid)
    /\ Head(pipe).id = "HOST_DETECT_RESULT" /\ Head(pipe).success
    /\ work' = Append(work, [task |-> "asyncConnector", sid |-> Head(pipe).sid])
    /\ ReadMessage
    /\ UNCHANGED <<sessions, nextId, fds, sockets, nextReg, workers, main>>

\* ConnectProxy finds the host on a list: the dispatch thread itself goes on to
\* write the error result into the pipe it alone reads.
ForbidHost ==
    /\ CommandReady /\ Live(Head(pipe).sid)
    /\ Head(pipe).id = "HOST_DETECT_RESULT" /\ Head(pipe).success
    /\ main' = [pc |-> "reject", sid |-> Head(pipe).sid, fd |-> None]
    /\ ReadMessage
    /\ UNCHANGED <<sessions, nextId, fds, sockets, nextReg, work, workers>>

\* WriteMessage: the write blocks while the pipe is full.
WriteMessage(m) ==
    /\ Len(pipe) < PipeCapacity
    /\ pipe' = Append(pipe, m)

\* Mutant: a failure is reported as a success.
ConnectResultSucceeds(s, f, ok) ==
    [id |-> "HOST_CONNECT_RESULT", sid |-> s, fd |-> f, success |-> TRUE]

ConnectResult(s, f, ok) ==
    [id |-> "HOST_CONNECT_RESULT", sid |-> s, fd |-> f, success |-> ok]

SendErrorResponse ==
    /\ main.pc = "reject"
    /\ WriteMessage(ConnectResult(main.sid, None, FALSE))
    /\ main' = Loop
    /\ UNCHANGED <<sessions, nextId, fds, sockets, nextReg, work, workers, events>>

\* The answers AddSocket can give for a ClientSocket on f: epoll refuses a
\* descriptor that is closed or already registered.
AddSocketResults(f) ==
    IF fds[f] # None /\ sockets[f] = None
    THEN {TRUE} \cup (IF "epoll_add" \in Faults THEN {FALSE} ELSE {})
    ELSE {FALSE}

NewSocket(peer, s, reg) ==
    [peer |-> peer, sid |-> s, reg |-> reg, active |-> TRUE, eof |-> FALSE]

\* The connection is there: a ClientSocket for each end.  Neither result of
\* AddSocket is looked at; where it fails the ClientSocket is destroyed and
\* closes its descriptor.
RegisterPair ==
    /\ CommandReady /\ Live(Head(pipe).sid)
    /\ Head(pipe).id = "HOST_CONNECT_RESULT" /\ Head(pipe).success
    /\ LET s == Head(pipe).sid
           c == sessions[s]
           p == Head(pipe).fd
       IN  \E okC \in AddSocketResults(c), okP \in AddSocketResults(p) :
            /\ sockets' = [f \in Fds |->
                            IF f = c /\ okC THEN NewSocket(p, s, nextReg)
                            ELSE IF f = p /\ okP THEN NewSocket(c, s, nextReg + 1)
                            ELSE sockets[f]]
            /\ fds' = [f \in Fds |-> IF (f = c /\ ~ okC) \/ (f = p /\ ~ okP)
                                     THEN None ELSE fds[f]]
    /\ nextReg' = nextReg + 2
    /\ ReadMessage
    /\ UNCHANGED <<sessions, nextId, work, workers, main>>

\* A result for a session that has ended: GetSession() returns a null pointer.
CommandFault ==
    /\ CommandReady /\ ~ Live(Head(pipe).sid)
    /\ main' = Down
    /\ UNCHANGED <<sessions, nextId, fds, sockets, nextReg, work, workers, pipe, events>>

-----------------------------------------------------------------------------
(* The worker threads. *)

Running == main.pc # "down"

\* A thread takes the oldest work package; its handler begins by looking the
\* session up, and uses it unchecked.
TakeWork(w) ==
    /\ Running /\ workers[w] = Idle /\ work # <<>>
    /\ work' = Tail(work)
    /\ IF Live(Head(work).sid)
       THEN /\ workers' = [workers EXCEPT ![w] =
                [pc |-> IF Head(work).task = "asyncDetector" THEN "detect" ELSE "resolve",
                 sid |-> Head(work).sid, fd |-> None]]
            /\ UNCHANGED main
       ELSE main' = Down /\ UNCHANGED workers
    /\ UNCHANGED <<sessions, nextId, fds, sockets, nextReg, pipe, events>>

\* Mutant: the thread runs its work package again.
AsyncDetectorRepeats(w) ==
    /\ Running /\ workers[w].pc = "detect"
    /\ \E ok \in BOOLEAN :
        WriteMessage([id |-> "HOST_DETECT_RESULT", sid |-> workers[w].sid,
                      fd |-> None, success |-> ok])
    /\ UNCHANGED <<sessions, nextId, fds, sockets, nextReg, work, workers, events, main>>

\* The request is read and parsed, with either result.
AsyncDetector(w) ==
    /\ Running /\ workers[w].pc = "detect"
    /\ \E ok \in BOOLEAN :
        WriteMessage([id |-> "HOST_DETECT_RESULT", sid |-> workers[w].sid,
                      fd |-> None, success |-> ok])
    /\ workers' = [workers EXCEPT ![w] = Idle]
    /\ UNCHANGED <<sessions, nextId, fds, sockets, nextReg, work, events, main>>

\* Mutant: the worker closes the client's descriptor itself.
ResolveFailsCloses(w) ==
    /\ Running /\ workers[w].pc = "resolve"
    /\ WriteMessage(ConnectResult(workers[w].sid, None, FALSE))
    /\ fds' = [fds EXCEPT ![sessions[workers[w].sid]] = None]
    /\ workers' = [workers EXCEPT ![w] = Idle]
    /\ UNCHANGED <<sessions, nextId, sockets, nextReg, work, events, main>>

\* Mutant: the failure is reported under the other message id.
ResolveFailsDetect(w) ==
    /\ Running /\ workers[w].pc = "resolve"
    /\ WriteMessage([id |-> "HOST_DETECT_RESULT", sid |-> workers[w].sid,
                     fd |-> None, success |-> FALSE])
    /\ workers' = [workers EXCEPT ![w] = Idle]
    /\ UNCHANGED <<sessions, nextId, fds, sockets, nextReg, work, events, main>>

\* No address for the host, or no descriptor for a socket.
ResolveFails(w) ==
    /\ Running /\ workers[w].pc = "resolve"
    /\ WriteMessage(ConnectResult(workers[w].sid, None, FALSE))
    /\ workers' = [workers EXCEPT ![w] = Idle]
    /\ UNCHANGED <<sessions, nextId, fds, sockets, nextReg, work, events, main>>

OpenSocket(w) ==
    /\ Running /\ workers[w].pc = "resolve"
    /\ \E f \in Fds :
        /\ fds[f] = None
        /\ fds' = [fds EXCEPT ![f] = [role |-> "server", sid |-> workers[w].sid]]
        /\ workers' = [workers EXCEPT ![w] = [pc |-> "dial", sid |-> workers[w].sid, fd |-> f]]
    /\ UNCHANGED <<sessions, nextId, sockets, nextReg, work, pipe, events, main>>

DialSucceeds(w) ==
    /\ Running /\ workers[w].pc = "dial"
    /\ WriteMessage(ConnectResult(workers[w].sid, workers[w].fd, TRUE))
    /\ workers' = [workers EXCEPT ![w] = Idle]
    /\ UNCHANGED <<sessions, nextId, fds, sockets, nextReg, work, events, main>>

\* Mutant: the failure is reported and the worker goes on dialling.
DialFailsGoesOn(w) ==
    /\ Running /\ workers[w].pc = "dial"
    /\ WriteMessage(ConnectResult(workers[w].sid, None, FALSE))
    /\ UNCHANGED <<sessions, nextId, fds, sockets, nextReg, work, workers, events, main>>

\* Mutant: the failure is not reported.
DialFailsSilently(w) ==
    /\ Running /\ workers[w].pc = "dial"
    /\ workers' = [workers EXCEPT ![w] = [pc |-> "clear", sid |-> workers[w].sid, fd |-> None]]
    /\ UNCHANGED <<sessions, nextId, fds, sockets, nextReg, work, pipe, events, main>>

\* No address answers: the failure is reported first and the descriptor of the
\* socket is forgotten, still open.
DialFails(w) ==
    /\ Running /\ workers[w].pc = "dial"
    /\ WriteMessage(ConnectResult(workers[w].sid, None, FALSE))
    /\ workers' = [workers EXCEPT ![w] = [pc |-> "clear", sid |-> workers[w].sid, fd |-> None]]
    /\ UNCHANGED <<sessions, nextId, fds, sockets, nextReg, work, events, main>>

\* After the report, the host of the session is looked up in the DNS cache.
ClearCacheForHost(w) ==
    /\ Running /\ workers[w].pc = "clear"
    /\ workers' = [workers EXCEPT ![w] = Idle]
    /\ UNCHANGED <<sessions, nextId, fds, sockets, nextReg, work, pipe, events, main>>

\* The worker's pointer leads to a session that has been erased from the list:
\* the access may end the process (or go unnoticed: the other actions).
UseAfterErase(w) ==
    /\ Running /\ workers[w].pc # "idle" /\ ~ Live(workers[w].sid)
    /\ main' = Down
    /\ UNCHANGED <<sessions, nextId, fds, sockets, nextReg, work, workers, pipe, events>>

-----------------------------------------------------------------------------
(* The environment. *)

\* A client or a server closes or resets its connection.  A close that happens
\* before the socket is registered has no effect until then.
RemoteCloses ==
    /\ Running
    /\ \E f \in Registered :
        /\ fds[f] # None
        /\ ~ sockets[f].eof
        /\ sockets' = [sockets EXCEPT ![f].eof = TRUE]
    /\ UNCHANGED <<sessions, nextId, fds, nextReg, work, workers, pipe, events, main>>

\* The process has ended.
Terminated == main = Down /\ UNCHANGED vars

-----------------------------------------------------------------------------
MainStep ==
    \/ EpollWait \/ EpollTimeout \/ PruneExcessConnections
    \/ HandleServerSocketRead \/ AcceptFails
    \/ SkipEvent \/ CloseSession \/ ReadNothing \/ RelayData \/ RelayStalls
    \/ Refuse \/ ConnectProxy \/ ForbidHost \/ SendErrorResponse \/ RegisterPair \/ CommandFault

WorkerStep(w) ==
    \/ TakeWork(w) \/ AsyncDetector(w)
    \/ ResolveFails(w) \/ OpenSocket(w) \/ DialSucceeds(w) \/ DialFails(w)
    \/ ClearCacheForHost(w) \/ UseAfterErase(w)

Next ==
    \/ MainStep
    \/ StalledWriteEnds
    \/ \E w \in Workers : WorkerStep(w)
    \/ RemoteCloses
    \/ Terminated

Spec == Init /\ [][Next]_vars

\* The operating system runs every thread that can run.  A worker's read, its
\* resolver and its connect() end by themselves (SO_RCVTIMEO and the timeouts
\* of the resolver and of TCP).
Fairness == WF_vars(MainStep) /\ \A w \in Workers : WF_vars(WorkerStep(w))

FairSpec == Spec /\ Fairness

\* Assumed of the remote ends: one that is being written to reads or closes.
DrainingSpec == FairSpec /\ WF_vars(StalledWriteEnds)

-----------------------------------------------------------------------------
(* Correctness. *)

\* Every variable has its type; in particular a thread of the pool and the
\* dispatch thread carry the session and the descriptor that their next calls use.
TypeOK ==
    /\ sessions \in [SessionId -> Fds \cup {None}]
    /\ nextId \in 0 .. MaxSessions
    /\ fds \in [Fds -> Connection \cup {None}]
    /\ sockets \in [Fds -> Socket \cup {None}]
    /\ nextReg \in Nat
    /\ work \in Seq(Work)
    /\ workers \in [Workers -> Worker]
    /\ pipe \in Seq(Message)
    /\ events \subseteq Event
    /\ main \in Dispatcher
    /\ main.pc = "stalled" => sockets[main.fd] # None /\ sockets[main.fd].sid = main.sid

SidsIn(q) == {q[i].sid : i \in DOMAIN q}
NoSidTwice(q) == \A i, j \in DOMAIN q : q[i].sid = q[j].sid => i = j

\* Where a session is between its creation and its end.
InHand(w) == workers[w].pc \in {"detect", "resolve", "dial"}
Queued == SidsIn(work)
Handled == {workers[w].sid : w \in {v \in Workers : InHand(v)}}
Reported == SidsIn(pipe)
Rejected == IF main.pc = "reject" THEN {main.sid} ELSE {}
Relaying == {sockets[f].sid : f \in Registered}

\* A session is in one place at a time: one work package, one thread, one
\* message, the dispatch thread, or its pair of sockets.  The code locks the
\* session list but not the sessions; this is what keeps two threads from
\* using, answering or ending the same session at once.
HeldOnce ==
    /\ NoSidTwice(work) /\ NoSidTwice(pipe)
    /\ \A v, w \in Workers : InHand(v) /\ InHand(w) /\ workers[v].sid = workers[w].sid => v = w
    /\ Queued \cap (Handled \cup Reported \cup Rejected \cup Relaying) = {}
    /\ Handled \cap (Reported \cup Rejected \cup Relaying) = {}
    /\ Reported \cap (Rejected \cup Relaying) = {}
    /\ Rejected \cap Relaying = {}

\* A session is in the list of the session manager exactly as long as some
\* work package, thread, message or socket still refers to it: none is
\* forgotten (a leak) and no lookup of one meets a null pointer (a crash).
LiveIffHeld ==
    Running => {s \in SessionId : Live(s)}
                = Queued \cup Handled \cup Reported \cup Rejected \cup Relaying

\* The client descriptor a live session names is open, and is the connection
\* that was accepted for this session: its number has not been closed and
\* reused for another while a thread could still read or write it.
ClientFdIsOurs ==
    \A s \in SessionId : Live(s) => fds[sessions[s]] = [role |-> "client", sid |-> s]

\* An open connection from a client is the one of a live session, until the
\* session ends: none is forgotten, whichever of the handlers answers or drops
\* it, on whichever path.  (Of the connections to servers this is not true: one
\* that cannot be dialled stays open, see DialFails.)
NoForgottenClients ==
    \A f \in Fds : fds[f] # None /\ fds[f].role = "client" => sessions[fds[f].sid] = f

\* The client->proxy and the proxy->internet connection are mapped together:
\* each registered socket has a registered peer that names it back, both are
\* open, one faces the client and one the server, and both belong to the session.
PairedSockets ==
    \A f \in Registered :
        LET q == sockets[f].peer IN
        /\ sockets[q] # None
        /\ sockets[q].peer = f
        /\ sockets[q].sid = sockets[f].sid
        /\ fds[f] # None /\ fds[q] # None
        /\ fds[f].sid = sockets[f].sid /\ fds[q].sid = sockets[f].sid
        /\ fds[f].role # fds[q].role

\* Events are dispatched by descriptor, after other events of the same pass
\* have closed sockets and registered new ones: an event never reaches a socket
\* other than the one that was ready (a read from it would block the thread).
EventsNotStale ==
    \A e \in events : e.type = "Client" /\ sockets[e.fd] # None => sockets[e.fd].sid = e.sid

\* A socket of m_sockets is open: whatever fails, no descriptor is closed behind
\* the back of the ClientSocket that owns it (epoll would forget it while the
\* list kept it, and a later socket with its number would be served by it).
RegisteredOpen == \A f \in Registered : fds[f] # None

\* The dispatch thread, the only reader of the pipe, never has to wait for
\* room when it writes into the pipe itself.
PipeHasRoom == main.pc = "reject" => Len(pipe) < PipeCapacity

-----------------------------------------------------------------------------
(* What comments and documents of the repository say, and the code does not do. *)

\* ProxyConnector.cpp:189, "If we couldn't connect to any of the cached URLs,
\* clear the cache": the session that names the host to clear is still there
\* when the worker, having reported the failure, asks it for the host.
ClearHasItsSession ==
    \A w \in Workers : workers[w].pc = "clear" => Live(workers[w].sid)

\* ProxyConnector.cpp:217, a timeout on reading and writing is set "to prevent
\* getting stuck": the dispatch thread does not stay in one write for ever.
WriteEnds == main.pc = "stalled" ~> main.pc # "stalled"

-----------------------------------------------------------------------------
(* NermalProxy implements SessionProtocol. *)

DetectTask(s) ==
    \/ \E i \in DOMAIN work : work[i] = [task |-> "asyncDetector", sid |-> s]
    \/ \E w \in Workers : workers[w].pc = "detect" /\ workers[w].sid = s
    \/ \E i \in DOMAIN pipe : pipe[i].id = "HOST_DETECT_RESULT" /\ pipe[i].sid = s

ConnectTask(s) ==
    \/ \E i \in DOMAIN work : work[i] = [task |-> "asyncConnector", sid |-> s]
    \/ \E w \in Workers : workers[w].pc \in {"resolve", "dial"} /\ workers[w].sid = s
    \/ \E i \in DOMAIN pipe : pipe[i].id = "HOST_CONNECT_RESULT" /\ pipe[i].sid = s
    \/ main.pc = "reject" /\ main.sid = s

\* The stage of a session, read off the place that holds it.  A live session
\* that nothing holds is "lost", a stage the protocol does not have.
Stage(s) ==
    CASE s >= nextId -> "new"
      [] s < nextId /\ (~ Running \/ ~ Live(s)) -> "ended"
      [] OTHER -> IF s \in Relaying THEN "relaying"
                  ELSE IF ConnectTask(s) THEN "connecting"
                  ELSE IF DetectTask(s) THEN "detecting"
                  ELSE "lost"

Protocol == INSTANCE SessionProtocol WITH
    Sessions <- SessionId, stage <- [s \in SessionId |-> Stage(s)], up <- Running

\* Every step of the threads, of the remote ends and of the kernel is a step of
\* one session of SessionProtocol, the end of the process, or no step at all.
ImplementsProtocol == Protocol!Spec

\* Every accepted session is answered: it comes to be relayed or it ends.
SessionProgress ==
    \A s \in SessionId :
        Stage(s) \in {"detecting", "connecting"} ~> Stage(s) \in {"relaying", "ended"}

\* When one end of a relayed session closes, the session ends: the end of file,
\* which the code sees at one event and acts on at a later one, is not lost.
EofEndsSession ==
    \A s \in SessionId :
        (\E f \in Registered : sockets[f].sid = s /\ sockets[f].eof) ~> Stage(s) = "ended"

=============================================================================
