---------------------------- MODULE SessionProofs ----------------------------
(***************************************************************************)
(* Proofs about NermalProxy, for any number of descriptors, threads and    *)
(* sessions: the types whatever fails; who holds a session and what its    *)
(* descriptors are when epoll_ctl does not fail and memory that has just   *)
(* been freed still reads as it did.                                       *)
(***************************************************************************)
EXTENDS NermalProxy, WellFoundedInduction, FiniteSetTheorems, TLAPS

-----------------------------------------------------------------------------
(* Types. *)

\* The session list always has a first entry with a descriptor it contains.
LEMMA FirstSession ==
    ASSUME NEW list, NEW f, NEW s \in SessionId, list[s] = f
    PROVE  /\ GetSessionForClient(list, f) \in SessionId
           /\ list[GetSessionForClient(list, f)] = f
<1> DEFINE T == {t \in SessionId : list[t] = f}
<1>1. T # {} /\ T \subseteq Nat
  BY BoundsAssumption DEF SessionId
<1>2. PICK x \in T : \A y \in T : ~ (<<y, x>> \in OpToRel(<, Nat))
  BY <1>1, NatLessThanWellFounded, WFMin
<1>3. ASSUME NEW y \in T PROVE x <= y
  <2>1. x \in Nat /\ y \in Nat
    BY <1>1
  <2>2. y < x => <<y, x>> \in OpToRel(<, Nat)
    BY <2>1 DEF OpToRel
  <2>3. ~ (y < x)
    BY <1>2, <2>2, Zenon
  <2>4. QED
    BY <2>1, <2>3
<1>4. QED
  BY <1>3 DEF GetSessionForClient

LEMMA InitTypeOK == Init => TypeOK
BY BoundsAssumption DEF Init, TypeOK, Loop, Idle, Worker, Dispatcher


\* The types of what the handlers pick out of queues, events and the socket list.
LEMMA HeadOfPipe ==
    ASSUME TypeOK, pipe # <<>>
    PROVE  /\ Head(pipe) \in Message /\ Tail(pipe) \in Seq(Message)
           /\ Head(pipe).sid \in SessionId
           /\ Head(pipe).id = "HOST_CONNECT_RESULT" /\ Head(pipe).success => Head(pipe).fd \in Fds
<1>1. Head(pipe) \in Message /\ Tail(pipe) \in Seq(Message)
  BY DEF TypeOK
<1>2. QED
  BY <1>1 DEF Message

LEMMA HeadOfWork ==
    ASSUME TypeOK, work # <<>>
    PROVE  Head(work) \in Work /\ Tail(work) \in Seq(Work) /\ Head(work).sid \in SessionId
<1>1. Head(work) \in Work /\ Tail(work) \in Seq(Work)
  BY DEF TypeOK
<1>2. QED
  BY <1>1 DEF Work

LEMMA ClientEventType ==
    ASSUME TypeOK, NEW e \in events, e.type = "Client"
    PROVE  e.fd \in Fds /\ e.sid \in SessionId
BY DEF TypeOK, Event, ServerEvent, CommandEvent

LEMMA SocketType ==
    ASSUME TypeOK, NEW f \in Fds, sockets[f] # None
    PROVE  /\ sockets[f] \in Socket
           /\ sockets[f].peer \in Fds /\ sockets[f].sid \in SessionId /\ sockets[f].reg \in Nat
           /\ sockets[f].active \in BOOLEAN /\ sockets[f].eof \in BOOLEAN
<1>1. sockets[f] \in Socket
  BY DEF TypeOK
<1>2. QED
  BY <1>1 DEF Socket

\* Marking a socket as broken, or as closed by the remote end, changes nothing else.
LEMMA MarkedSocket ==
    ASSUME TypeOK, NEW f \in Fds, sockets[f] # None,
           \/ sockets' = [sockets EXCEPT ![f].active = FALSE]
           \/ sockets' = [sockets EXCEPT ![f].eof = TRUE]
    PROVE  /\ sockets' \in [Fds -> Socket \cup {None}]
           /\ Registered' = Registered
           /\ \A g \in Registered : /\ sockets'[g].sid = sockets[g].sid
                                    /\ sockets'[g].peer = sockets[g].peer
<1>1. sockets[f] \in Socket /\ sockets \in [Fds -> Socket \cup {None}] /\ f \in Registered
  BY SocketType DEF TypeOK, Registered
<1>2. /\ sockets'[f] \in Socket
      /\ sockets'[f].sid = sockets[f].sid /\ sockets'[f].peer = sockets[f].peer
  BY <1>1 DEF Socket
<1>3. \A g \in Fds : g # f => sockets'[g] = sockets[g]
  BY <1>1
<1>4. sockets' \in [Fds -> Socket \cup {None}]
  BY <1>1, <1>2, <1>3
<1>5. sockets'[f] # None
  BY <1>2, NoneAssumption
<1>6. QED
  BY <1>1, <1>2, <1>3, <1>4, <1>5 DEF Registered

\* AfterRelay leaves the dispatch thread in its loop or ends the process.
LEMMA AfterRelayType ==
    ASSUME NEW x, main' = AfterRelay(x)
    PROVE  main' \in Dispatcher /\ main'.pc # "stalled"
BY DEF AfterRelay, Dispatcher, Loop, Down

\* Every step keeps the types.
LEMMA NextTypeOK == TypeOK /\ [Next]_vars => TypeOK'
<1> SUFFICES ASSUME TypeOK, [Next]_vars PROVE TypeOK'
  OBVIOUS
<1> USE BoundsAssumption, NoneAssumption DEF TypeOK
<1>1. CASE EpollWait
  BY <1>1 DEF EpollWait, MayReport, MustReport, ClientEvent, Event, ServerEvent, CommandEvent, Registered, Socket
<1>2. CASE EpollTimeout
  BY <1>2 DEF EpollTimeout, Dispatcher, Loop, Pruning
<1>3. CASE PruneExcessConnections
  BY <1>3 DEF PruneExcessConnections, Destroy, EndSession, Dispatcher, Loop, Pruning, Registered, Socket
<1>4. CASE HandleServerSocketRead
  <2>1. PICK f \in Fds :
          /\ fds' = [fds EXCEPT ![f] = [role |-> "client", sid |-> nextId]]
          /\ sessions' = [sessions EXCEPT ![nextId] = f]
          /\ work' = Append(work, [task |-> "asyncDetector", sid |-> GetSessionForClient(sessions', f)])
    BY <1>4 DEF HandleServerSocketRead
  <2>2. nextId \in SessionId /\ sessions'[nextId] = f
    BY <1>4, <2>1 DEF HandleServerSocketRead, SessionId
  <2>3. GetSessionForClient(sessions', f) \in SessionId
    BY <2>2, FirstSession
  <2>4. work' \in Seq(Work)
    BY <2>1, <2>3 DEF Work
  <2>5. QED
    BY <1>4, <2>1, <2>2, <2>4 DEF HandleServerSocketRead, Connection, Loop
<1>5. CASE AcceptFails
  BY <1>5 DEF AcceptFails, Dispatcher, Down
<1>6. CASE SkipEvent
  BY <1>6 DEF SkipEvent, Loop
<1>7. CASE CloseSession
  <2>1. PICK e \in events :
          /\ e.type = "Client" /\ sockets[e.fd] # None
          /\ Destroy({e.fd} \cup ({sockets[e.fd].peer} \cap Registered))
          /\ EndSession(sockets[e.fd].sid)
          /\ events' = events \ {e}
    BY <1>7 DEF CloseSession
  <2>2. e.fd \in Fds
    BY <2>1, ClientEventType
  <2>3. sockets[e.fd].sid \in SessionId
    BY <2>1, <2>2, SocketType
  <2>4. sockets' \in [Fds -> Socket \cup {None}] /\ fds' \in [Fds -> Connection \cup {None}]
    BY <2>1 DEF Destroy
  <2>5. QED
    BY <1>7, <2>1, <2>3, <2>4 DEF CloseSession, EndSession, Loop
<1>8. CASE ReadNothing
  <2>1. PICK e \in events :
          /\ e.type = "Client" /\ sockets[e.fd] # None
          /\ sockets' = [sockets EXCEPT ![e.fd].active = FALSE]
          /\ main' = AfterRelay(sockets[e.fd].sid)
          /\ events' = events \ {e}
    BY <1>8 DEF ReadNothing
  <2>2. e.fd \in Fds
    BY <2>1, ClientEventType
  <2>3. sockets' \in [Fds -> Socket \cup {None}]
    BY <2>1, <2>2, MarkedSocket
  <2>4. QED
    BY <1>8, <2>1, <2>3, AfterRelayType DEF ReadNothing
<1>9. CASE RelayData
  <2>1. PICK e \in events :
          /\ e.type = "Client" /\ sockets[e.fd] # None
          /\ \/ UNCHANGED sockets
             \/ sockets' = [sockets EXCEPT ![e.fd].active = FALSE]
          /\ main' = AfterRelay(sockets[e.fd].sid)
          /\ events' = events \ {e}
    BY <1>9 DEF RelayData
  <2>2. e.fd \in Fds
    BY <2>1, ClientEventType
  <2>3. sockets' \in [Fds -> Socket \cup {None}]
    BY <2>1, <2>2, MarkedSocket
  <2>4. QED
    BY <1>9, <2>1, <2>3, AfterRelayType DEF RelayData
<1>10. CASE RelayStalls
  BY <1>10 DEF RelayStalls, Event, ServerEvent, CommandEvent, Dispatcher, Loop, Socket
<1>11. CASE StalledWriteEnds
  <2>1. main.fd \in Fds /\ sockets[main.fd] # None
    BY <1>11 DEF StalledWriteEnds, Dispatcher, Loop, Pruning, Down
  <2>2. sockets' \in [Fds -> Socket \cup {None}]
    BY <1>11, <2>1, MarkedSocket DEF StalledWriteEnds
  <2>3. QED
    BY <1>11, <2>2, AfterRelayType DEF StalledWriteEnds
<1>12. CASE Refuse
  <2>1. Head(pipe).sid \in SessionId /\ Tail(pipe) \in Seq(Message)
    BY <1>12, HeadOfPipe DEF Refuse, CommandReady
  <2>2. QED
    BY <1>12, <2>1 DEF Refuse, ReadMessage, CommandReady, EndSession, Loop
<1>13. CASE ConnectProxy
  <2>1. Head(pipe).sid \in SessionId /\ Tail(pipe) \in Seq(Message)
    BY <1>13, HeadOfPipe DEF ConnectProxy, CommandReady
  <2>2. [task |-> "asyncConnector", sid |-> Head(pipe).sid] \in Work
    BY <2>1 DEF Work
  <2>3. QED
    BY <1>13, <2>1, <2>2 DEF ConnectProxy, ReadMessage, CommandReady, Loop
<1>14. CASE ForbidHost
  <2>1. Head(pipe).sid \in SessionId /\ Tail(pipe) \in Seq(Message)
    BY <1>14, HeadOfPipe DEF ForbidHost, CommandReady
  <2>2. main' \in Dispatcher /\ main'.pc # "stalled"
    BY <1>14, <2>1 DEF ForbidHost, Dispatcher
  <2>3. QED
    BY <1>14, <2>1, <2>2 DEF ForbidHost, ReadMessage
<1>15. CASE SendErrorResponse
  BY <1>15 DEF SendErrorResponse, WriteMessage, ConnectResult, Message, Dispatcher, Loop, Pruning, Down
<1>16. CASE RegisterPair
  <2>1. /\ pipe # <<>> /\ Head(pipe) \in Message
        /\ Head(pipe).sid \in SessionId /\ Head(pipe).fd \in Fds
        /\ sessions[Head(pipe).sid] \in Fds
    BY <1>16, HeadOfPipe DEF RegisterPair, CommandReady, Live
  <2>2. sockets' \in [Fds -> Socket \cup {None}]
    BY <1>16, <2>1 DEF RegisterPair, NewSocket, Socket
  <2>3. fds' \in [Fds -> Connection \cup {None}]
    BY <1>16, <2>1 DEF RegisterPair
  <2>4. pipe' \in Seq(Message) /\ events' \subseteq Event
    BY <1>16, <2>1 DEF RegisterPair, ReadMessage
  <2>5. QED
    BY <1>16, <2>2, <2>3, <2>4 DEF RegisterPair, CommandReady, Loop
<1>17. CASE CommandFault
  BY <1>17 DEF CommandFault, Dispatcher, Down
<1>18. CASE RemoteCloses
  <2>1. PICK f \in Registered : sockets' = [sockets EXCEPT ![f].eof = TRUE]
    BY <1>18 DEF RemoteCloses
  <2>2. f \in Fds /\ sockets[f] # None
    BY DEF Registered
  <2>3. /\ sockets' \in [Fds -> Socket \cup {None}]
        /\ Registered' = Registered
        /\ \A g \in Registered : sockets'[g].sid = sockets[g].sid
    BY <2>1, <2>2, MarkedSocket
  <2>4. main.pc = "stalled" => main.fd \in Registered
    BY DEF Dispatcher, Loop, Pruning, Down, Registered
  <2>5. QED
    BY <1>18, <2>3, <2>4 DEF RemoteCloses, Registered
<1>19. ASSUME NEW w \in Workers, TakeWork(w) PROVE TypeOK'
  <2>1. Head(work).sid \in SessionId /\ Tail(work) \in Seq(Work)
    BY <1>19, HeadOfWork DEF TakeWork
  <2>2. CASE Live(Head(work).sid)
    <3>1. workers' \in [Workers -> Worker]
      BY <1>19, <2>1, <2>2 DEF TakeWork, Worker
    <3>2. QED
      BY <1>19, <2>1, <2>2, <3>1 DEF TakeWork
  <2>3. CASE ~ Live(Head(work).sid)
    BY <1>19, <2>1, <2>3 DEF TakeWork, Dispatcher, Down
  <2>4. QED
    BY <2>2, <2>3
<1>20. ASSUME NEW w \in Workers, AsyncDetector(w) PROVE TypeOK'
  BY <1>20 DEF AsyncDetector, WriteMessage, Message, Worker, Idle
<1>21. ASSUME NEW w \in Workers, ResolveFails(w) PROVE TypeOK'
  BY <1>21 DEF ResolveFails, WriteMessage, ConnectResult, Message, Worker, Idle
<1>22. ASSUME NEW w \in Workers, OpenSocket(w) PROVE TypeOK'
  BY <1>22 DEF OpenSocket, Connection, Worker, Idle
<1>23. ASSUME NEW w \in Workers, DialSucceeds(w) PROVE TypeOK'
  BY <1>23 DEF DialSucceeds, WriteMessage, ConnectResult, Message, Worker, Idle
<1>24. ASSUME NEW w \in Workers, DialFails(w) PROVE TypeOK'
  <2>1. workers[w].sid \in SessionId
    BY <1>24 DEF DialFails, Worker, Idle
  <2>2. pipe' \in Seq(Message)
    BY <1>24, <2>1 DEF DialFails, WriteMessage, ConnectResult, Message
  <2>3. workers' \in [Workers -> Worker]
    BY <1>24, <2>1 DEF DialFails, Worker, Idle
  <2>4. QED
    BY <1>24, <2>2, <2>3 DEF DialFails
<1>25. ASSUME NEW w \in Workers, ClearCacheForHost(w) PROVE TypeOK'
  BY <1>25 DEF ClearCacheForHost, Worker, Idle
<1>26. ASSUME NEW w \in Workers, UseAfterErase(w) PROVE TypeOK'
  BY <1>26 DEF UseAfterErase, Dispatcher, Down
<1>27. CASE UNCHANGED vars
  BY <1>27 DEF vars
<1>28. QED
  BY <1>1, <1>2, <1>3, <1>4, <1>5, <1>6, <1>7, <1>8, <1>9, <1>10, <1>11, <1>12, <1>13,
     <1>14, <1>15, <1>16, <1>17, <1>18, <1>19, <1>20, <1>21, <1>22, <1>23, <1>24, <1>25,
     <1>26, <1>27
     DEF Next, MainStep, WorkerStep, Terminated

\* Every variable has its type in every reachable state, whichever of the rare
\* failures happen: the result of a lookup by descriptor, the descriptor of a
\* message and the socket of a stalled write are always there when they are used.
THEOREM ProxyTypeOK == Spec => []TypeOK
<1>1. QED
  BY InitTypeOK, NextTypeOK, PTL DEF Spec

-----------------------------------------------------------------------------
(* Who holds a session. *)

\* A session is created under a number that was never used.
FreshIds == \A s \in SessionId : Live(s) => s < nextId

\* The registered socket that faces the client is on the session's descriptor.
ClientIsListed ==
    \A f \in Registered : fds[f].role = "client" => sessions[sockets[f].sid] = f

\* The descriptor that a worker is dialling with, or that a message carries, is
\* the connection opened for that session.
ServerFds ==
    /\ \A w \in Workers : workers[w].pc = "dial" =>
        fds[workers[w].fd] = [role |-> "server", sid |-> workers[w].sid]
    /\ \A i \in DOMAIN pipe : pipe[i].fd # None =>
        fds[pipe[i].fd] = [role |-> "server", sid |-> pipe[i].sid]

\* No two threads have the same session in hand.
HandsApart ==
    \A v, w \in Workers : InHand(v) /\ InHand(w) /\ workers[v].sid = workers[w].sid => v = w

\* The sessions on their way from accept() to their pair of sockets.
Held == Queued \cup Handled \cup Reported \cup Rejected

\* Each of them is in one place.
HeldApart ==
    /\ NoSidTwice(work) /\ NoSidTwice(pipe)
    /\ HandsApart
    /\ Queued \cap (Handled \cup Reported \cup Rejected) = {}
    /\ Handled \cap (Reported \cup Rejected) = {}
    /\ Reported \cap Rejected = {}

\* The inductive invariant.
SInv ==
    /\ TypeOK
    /\ FreshIds
    /\ HeldOnce
    /\ LiveIffHeld
    /\ ClientFdIsOurs
    /\ PairedSockets
    /\ ClientIsListed
    /\ ServerFds

\* HeldOnce says two things: of the sessions on their way, and of the relayed ones.
LEMMA HeldOnceParts == HeldOnce <=> HeldApart /\ Held \cap Relaying = {}
BY DEF HeldOnce, HeldApart, HandsApart, Held

-----------------------------------------------------------------------------
(* Sequences of records that name a session. *)

LEMMA AppendSids ==
    ASSUME NEW S, NEW q \in Seq(S), NEW m \in S
    PROVE  /\ SidsIn(Append(q, m)) = SidsIn(q) \cup {m.sid}
           /\ NoSidTwice(q) /\ m.sid \notin SidsIn(q) => NoSidTwice(Append(q, m))
<1>1. /\ Len(q) \in Nat /\ DOMAIN q = 1 .. Len(q)
      /\ DOMAIN Append(q, m) = 1 .. (Len(q) + 1)
      /\ Append(q, m)[Len(q) + 1] = m
      /\ \A i \in DOMAIN q : Append(q, m)[i] = q[i]
  OBVIOUS
<1>2. DOMAIN Append(q, m) = DOMAIN q \cup {Len(q) + 1} /\ Len(q) + 1 \notin DOMAIN q
  BY <1>1
<1>3. SidsIn(Append(q, m)) = SidsIn(q) \cup {m.sid}
  BY <1>1, <1>2 DEF SidsIn
<1>4. ASSUME NoSidTwice(q), m.sid \notin SidsIn(q) PROVE NoSidTwice(Append(q, m))
  <2>1. \A i \in DOMAIN q : q[i].sid # m.sid
    BY <1>4 DEF SidsIn
  <2>2. QED
    BY <1>1, <1>2, <1>4, <2>1 DEF NoSidTwice
<1>5. QED
  BY <1>3, <1>4

LEMMA TailSids ==
    ASSUME NEW S, NEW q \in Seq(S), q # <<>>, NoSidTwice(q)
    PROVE  /\ SidsIn(Tail(q)) = SidsIn(q) \ {Head(q).sid}
           /\ Head(q).sid \in SidsIn(q)
           /\ NoSidTwice(Tail(q))
<1>1. /\ Len(q) \in Nat \ {0} /\ DOMAIN q = 1 .. Len(q)
      /\ DOMAIN Tail(q) = 1 .. (Len(q) - 1)
      /\ \A i \in DOMAIN Tail(q) : Tail(q)[i] = q[i + 1] /\ i + 1 \in DOMAIN q /\ i + 1 # 1
      /\ \A i \in DOMAIN q : i # 1 => i - 1 \in DOMAIN Tail(q) /\ Tail(q)[i - 1] = q[i]
      /\ Head(q) = q[1] /\ 1 \in DOMAIN q
  OBVIOUS
<1>2. Head(q).sid \in SidsIn(q)
  BY <1>1 DEF SidsIn
<1>3. ASSUME NEW s \in SidsIn(Tail(q)) PROVE s \in SidsIn(q) /\ s # Head(q).sid
  <2>1. PICK i \in DOMAIN Tail(q) : s = Tail(q)[i].sid
    BY <1>3 DEF SidsIn
  <2>2. s = q[i + 1].sid
    BY <1>1, <2>1
  <2>3. QED
    BY <1>1, <2>1, <2>2 DEF SidsIn, NoSidTwice
<1>4. ASSUME NEW s \in SidsIn(q), s # Head(q).sid PROVE s \in SidsIn(Tail(q))
  <2>1. PICK i \in DOMAIN q : s = q[i].sid
    BY <1>4 DEF SidsIn
  <2>2. i # 1
    BY <1>1, <1>4, <2>1
  <2>3. QED
    BY <1>1, <2>1, <2>2 DEF SidsIn
<1>5. ASSUME NEW i \in DOMAIN Tail(q), NEW j \in DOMAIN Tail(q), Tail(q)[i].sid = Tail(q)[j].sid
      PROVE  i = j
  <2>1. i + 1 = j + 1
    BY <1>1, <1>5 DEF NoSidTwice
  <2>2. QED
    BY <1>1, <2>1
<1>6. SidsIn(Tail(q)) = SidsIn(q) \ {Head(q).sid}
  BY <1>3, <1>4
<1>7. NoSidTwice(Tail(q))
  BY <1>5 DEF NoSidTwice
<1>8. QED
  BY <1>2, <1>6, <1>7

-----------------------------------------------------------------------------
(* What a worker's step does to the set of sessions the workers handle. *)

LEMMA WorkerBegins ==
    ASSUME TypeOK, NEW w \in Workers, NEW r, workers' = [workers EXCEPT ![w] = r],
           ~ InHand(w), r.pc \in {"detect", "resolve", "dial"}
    PROVE  Handled' = Handled \cup {r.sid}
<1>1. InHand(w)' /\ workers'[w] = r
  BY DEF InHand, TypeOK
<1>2. \A v \in Workers : v # w => InHand(v)' = InHand(v) /\ workers'[v] = workers[v]
  BY DEF InHand, TypeOK
<1>3. QED
  BY <1>1, <1>2 DEF Handled

LEMMA WorkerGoesOn ==
    ASSUME TypeOK, NEW w \in Workers, NEW r, workers' = [workers EXCEPT ![w] = r],
           InHand(w), r.pc \in {"detect", "resolve", "dial"}, r.sid = workers[w].sid
    PROVE  Handled' = Handled
<1>1. InHand(w)' /\ workers'[w] = r
  BY DEF InHand, TypeOK
<1>2. \A v \in Workers : v # w => InHand(v)' = InHand(v) /\ workers'[v] = workers[v]
  BY DEF InHand, TypeOK
<1>3. QED
  BY <1>1, <1>2 DEF Handled

LEMMA WorkerEnds ==
    ASSUME TypeOK, HandsApart, NEW w \in Workers, NEW r, workers' = [workers EXCEPT ![w] = r],
           InHand(w), r.pc \notin {"detect", "resolve", "dial"}
    PROVE  /\ Handled' = Handled \ {workers[w].sid}
           /\ workers[w].sid \in Handled
<1>1. ~ InHand(w)'
  BY DEF InHand, TypeOK
<1>2. \A v \in Workers : v # w => InHand(v)' = InHand(v) /\ workers'[v] = workers[v]
  BY DEF InHand, TypeOK
<1>3. \A v \in Workers : v # w /\ InHand(v) => workers[v].sid # workers[w].sid
  BY DEF HandsApart
<1>4. workers[w].sid \in Handled
  BY DEF Handled
<1>5. QED
  BY <1>1, <1>2, <1>3, <1>4 DEF Handled

LEMMA WorkerRests ==
    ASSUME TypeOK, NEW w \in Workers, NEW r, workers' = [workers EXCEPT ![w] = r],
           ~ InHand(w), r.pc \notin {"detect", "resolve", "dial"}
    PROVE  Handled' = Handled
<1>1. ~ InHand(w)'
  BY DEF InHand, TypeOK
<1>2. \A v \in Workers : v # w => InHand(v)' = InHand(v) /\ workers'[v] = workers[v]
  BY DEF InHand, TypeOK
<1>3. QED
  BY <1>1, <1>2 DEF Handled

\* The threads that hold a session after w has moved still hold different ones.
LEMMA WorkersApart ==
    ASSUME TypeOK, HandsApart, NEW w \in Workers, NEW r, workers' = [workers EXCEPT ![w] = r],
           \/ r.pc \notin {"detect", "resolve", "dial"}
           \/ InHand(w) /\ r.sid = workers[w].sid
           \/ r.sid \notin Handled
    PROVE  HandsApart'
<1>1. workers'[w] = r /\ (InHand(w)' => r.pc \in {"detect", "resolve", "dial"})
  BY DEF InHand, TypeOK
<1>2. \A v \in Workers : v # w => InHand(v)' = InHand(v) /\ workers'[v] = workers[v]
  BY DEF InHand, TypeOK
<1>3. ASSUME NEW v \in Workers, v # w, InHand(v)', InHand(w)' PROVE workers'[v].sid # r.sid
  <2>1. InHand(v) /\ workers'[v] = workers[v] /\ workers[v].sid \in Handled
    BY <1>2, <1>3 DEF Handled
  <2>2. QED
    BY <1>1, <1>3, <2>1 DEF HandsApart
<1>4. QED
  BY <1>1, <1>2, <1>3 DEF HandsApart

-----------------------------------------------------------------------------
(* What stays as it is when the sockets, or the queues, are left alone. *)

LEMMA SocketsFrame ==
    ASSUME TypeOK, PairedSockets, ClientIsListed, Registered' = Registered,
           \A f \in Registered : /\ sockets'[f].sid = sockets[f].sid
                                 /\ sockets'[f].peer = sockets[f].peer
                                 /\ fds'[f] = fds[f]
                                 /\ sessions'[sockets[f].sid] = sessions[sockets[f].sid]
    PROVE  PairedSockets' /\ ClientIsListed' /\ Relaying' = Relaying
<1>1. \A f \in Registered : sockets[f].peer \in Registered
  BY SocketType DEF PairedSockets, Registered
<1>2. PairedSockets'
  <2> SUFFICES ASSUME NEW f \in Registered
      PROVE  LET q == sockets'[f].peer IN
             /\ sockets'[q] # None
             /\ sockets'[q].peer = f
             /\ sockets'[q].sid = sockets'[f].sid
             /\ fds'[f] # None /\ fds'[q] # None
             /\ fds'[f].sid = sockets'[f].sid /\ fds'[q].sid = sockets'[f].sid
             /\ fds'[f].role # fds'[q].role
    BY DEF PairedSockets
  <2> DEFINE q == sockets[f].peer
  <2>1. q \in Registered /\ sockets'[f].peer = q
    BY <1>1
  <2>2. sockets'[q] # None
    BY <2>1 DEF Registered
  <2>3. sockets'[q].peer = f /\ sockets'[q].sid = sockets'[f].sid
    BY <2>1 DEF PairedSockets
  <2>4. fds'[f] = fds[f] /\ fds'[q] = fds[q] /\ sockets'[f].sid = sockets[f].sid
    BY <2>1
  <2>5. QED
    BY <2>1, <2>2, <2>3, <2>4 DEF PairedSockets
<1>3. ClientIsListed'
  BY DEF ClientIsListed
<1>4. Relaying' = Relaying
  BY DEF Relaying
<1>5. QED
  BY <1>2, <1>3, <1>4

\* A client descriptor of a session that is not relayed, or the descriptor of a
\* message or of a dialling worker, is not registered.
LEMMA NotRegistered ==
    ASSUME PairedSockets, NEW f \in Fds, NEW s \in SessionId \ Relaying, fds[f].sid = s
    PROVE  sockets[f] = None /\ f \notin Registered
BY DEF PairedSockets, Registered, Relaying

LEMMA QueuesFrame ==
    ASSUME UNCHANGED <<work, workers, pipe>>
    PROVE  /\ Queued' = Queued /\ Handled' = Handled /\ Reported' = Reported
           /\ NoSidTwice(work)' = NoSidTwice(work)
           /\ NoSidTwice(pipe)' = NoSidTwice(pipe)
           /\ \A w \in Workers : InHand(w)' = InHand(w)
BY DEF Queued, Handled, Reported, SidsIn, NoSidTwice, InHand

\* Steps that change neither a session nor a descriptor, nor what a socket is for.
LEMMA QuietStep ==
    ASSUME SInv, TypeOK', UNCHANGED <<sessions, nextId, fds, work, workers, pipe>>,
           Registered' = Registered,
           \A f \in Registered : /\ sockets'[f].sid = sockets[f].sid
                                 /\ sockets'[f].peer = sockets[f].peer,
           \/ main'.pc = "down"
           \/ main' = main
           \/ main.pc # "reject" /\ main.pc # "down" /\ main'.pc # "reject"
    PROVE  SInv'
<1> USE DEF SInv
<1>1. PairedSockets' /\ ClientIsListed' /\ Relaying' = Relaying
  BY SocketsFrame
<1>2. FreshIds' /\ ClientFdIsOurs' /\ ServerFds'
  BY DEF FreshIds, ClientFdIsOurs, ServerFds, Live
<1>3. /\ Rejected' \subseteq Rejected
      /\ Running' => Running /\ Rejected' = Rejected
  BY DEF Rejected, Running
<1>4. HeldOnce'
  BY <1>1, <1>3, QueuesFrame DEF HeldOnce
<1>5. LiveIffHeld'
  BY <1>1, <1>3, QueuesFrame DEF LiveIffHeld, Live
<1>6. QED
  BY <1>1, <1>2, <1>4, <1>5

LEMMA InitSInv == Init => SInv
<1> SUFFICES ASSUME Init PROVE SInv
  OBVIOUS
<1>1. TypeOK
  BY InitTypeOK
<1>2. /\ Queued = {} /\ Handled = {} /\ Reported = {} /\ Rejected = {} /\ Relaying = {}
      /\ Registered = {}
  BY DEF Init, Queued, Handled, Reported, Rejected, Relaying, Registered, SidsIn, InHand, Idle, Loop
<1>3. HeldOnce
  BY <1>2 DEF HeldOnce, NoSidTwice, Init, InHand, Idle
<1>4. LiveIffHeld /\ FreshIds /\ ClientFdIsOurs
  BY <1>2 DEF LiveIffHeld, FreshIds, ClientFdIsOurs, Live, Init
<1>5. PairedSockets /\ ClientIsListed /\ ServerFds
  BY <1>2 DEF PairedSockets, ClientIsListed, ServerFds, Init, Idle
<1>6. QED
  BY <1>1, <1>3, <1>4, <1>5 DEF SInv

LEMMA ConnectionIsNotNone ==
    ASSUME NEW s \in SessionId
    PROVE  [role |-> "client", sid |-> s] # None /\ [role |-> "server", sid |-> s] # None
BY NoneAssumption DEF Connection

\* The types of the descriptors in the hands of workers and messages.
LEMMA ServerFdsOpen ==
    ASSUME TypeOK, ServerFds
    PROVE  /\ \A w \in Workers : workers[w].pc = "dial" =>
                workers[w].fd \in Fds /\ workers[w].sid \in SessionId /\ fds[workers[w].fd] # None
           /\ \A i \in DOMAIN pipe : pipe[i].fd # None =>
                pipe[i].fd \in Fds /\ pipe[i].sid \in SessionId /\ fds[pipe[i].fd] # None
<1>1. ASSUME NEW w \in Workers, workers[w].pc = "dial"
      PROVE  workers[w].fd \in Fds /\ workers[w].sid \in SessionId /\ fds[workers[w].fd] # None
  <2>1. workers[w].fd \in Fds /\ workers[w].sid \in SessionId
    BY <1>1 DEF TypeOK, Worker, Idle
  <2>2. fds[workers[w].fd] = [role |-> "server", sid |-> workers[w].sid]
    BY <1>1 DEF ServerFds
  <2>3. QED
    BY <2>1, <2>2, ConnectionIsNotNone
<1>2. ASSUME NEW i \in DOMAIN pipe, pipe[i].fd # None
      PROVE  pipe[i].fd \in Fds /\ pipe[i].sid \in SessionId /\ fds[pipe[i].fd] # None
  <2>1. pipe[i] \in Message
    BY DEF TypeOK
  <2>2. pipe[i].fd \in Fds /\ pipe[i].sid \in SessionId
    BY <1>2, <2>1 DEF Message
  <2>3. fds[pipe[i].fd] = [role |-> "server", sid |-> pipe[i].sid]
    BY <1>2 DEF ServerFds
  <2>4. QED
    BY <2>2, <2>3, ConnectionIsNotNone
<1>3. QED
  BY <1>1, <1>2

-----------------------------------------------------------------------------
(* The steps of the dispatch thread and of the remote ends. *)

LEMMA QuietMainSteps ==
    ASSUME SInv, TypeOK',
           \/ EpollWait \/ EpollTimeout \/ AcceptFails \/ SkipEvent \/ RelayStalls
    PROVE  SInv'
<1>1. UNCHANGED <<sessions, nextId, fds, sockets, work, workers, pipe>>
  BY DEF EpollWait, EpollTimeout, AcceptFails, SkipEvent, RelayStalls
<1>2. \/ main'.pc = "down" \/ main' = main
      \/ main.pc # "reject" /\ main.pc # "down" /\ main'.pc # "reject"
  BY DEF EpollWait, EpollTimeout, AcceptFails, SkipEvent, RelayStalls, Loop, Down, Pruning
<1>3. Registered' = Registered
  BY <1>1 DEF Registered
<1>4. QED
  BY <1>1, <1>2, <1>3, QuietStep

LEMMA MarkingKeeps ==
    ASSUME TypeOK, ReadNothing \/ RelayData \/ StalledWriteEnds \/ RemoteCloses
    PROVE  /\ Registered' = Registered
           /\ \A g \in Registered : /\ sockets'[g].sid = sockets[g].sid
                                    /\ sockets'[g].peer = sockets[g].peer
<1>1. \/ UNCHANGED sockets
      \/ \E f \in Fds : /\ sockets[f] # None
                        /\ \/ sockets' = [sockets EXCEPT ![f].active = FALSE]
                           \/ sockets' = [sockets EXCEPT ![f].eof = TRUE]
  <2>1. CASE ReadNothing
    BY <2>1, ClientEventType DEF ReadNothing
  <2>2. CASE RelayData
    BY <2>2, ClientEventType DEF RelayData
  <2>3. CASE StalledWriteEnds
    <3>1. main.fd \in Fds /\ sockets[main.fd] # None
      BY <2>3 DEF StalledWriteEnds, TypeOK, Dispatcher, Loop, Pruning, Down
    <3>2. QED
      BY <2>3, <3>1 DEF StalledWriteEnds
  <2>4. CASE RemoteCloses
    BY <2>4 DEF RemoteCloses, Registered
  <2>5. QED
    BY <2>1, <2>2, <2>3, <2>4
<1>2. CASE UNCHANGED sockets
  BY <1>2 DEF Registered
<1>3. CASE ~ UNCHANGED sockets
  BY <1>1, <1>3, MarkedSocket
<1>4. QED
  BY <1>2, <1>3

LEMMA MarkingSteps ==
    ASSUME SInv, TypeOK', ReadNothing \/ RelayData \/ StalledWriteEnds \/ RemoteCloses
    PROVE  SInv'
<1>1. /\ Registered' = Registered
      /\ \A g \in Registered : /\ sockets'[g].sid = sockets[g].sid
                               /\ sockets'[g].peer = sockets[g].peer
  BY MarkingKeeps DEF SInv
<1>2. UNCHANGED <<sessions, nextId, fds, work, workers, pipe>>
  BY DEF ReadNothing, RelayData, StalledWriteEnds, RemoteCloses
<1>3. \/ main'.pc = "down" \/ main' = main
      \/ main.pc # "reject" /\ main.pc # "down" /\ main'.pc # "reject"
  <2>1. CASE ReadNothing \/ RelayData
    <3>1. main = Loop /\ \E x : main' = AfterRelay(x)
      BY <2>1 DEF ReadNothing, RelayData
    <3>2. QED
      BY <3>1 DEF AfterRelay, Loop, Down
  <2>2. CASE StalledWriteEnds
    BY <2>2 DEF StalledWriteEnds, AfterRelay, Loop, Down
  <2>3. CASE RemoteCloses
    BY <2>3 DEF RemoteCloses
  <2>4. QED
    BY <2>1, <2>2, <2>3
<1>4. QED
  BY <1>1, <1>2, <1>3, QuietStep

\* An accepted connection gets a session of its own: the free descriptor is
\* named by no live session, so that the lookup by descriptor finds the new one.
LEMMA AcceptStep ==
    ASSUME SInv, TypeOK', HandleServerSocketRead
    PROVE  SInv'
<1> USE DEF SInv
<1>1. PICK f \in Fds :
        /\ fds[f] = None
        /\ fds' = [fds EXCEPT ![f] = [role |-> "client", sid |-> nextId]]
        /\ sessions' = [sessions EXCEPT ![nextId] = f]
        /\ work' = Append(work, [task |-> "asyncDetector", sid |-> GetSessionForClient(sessions', f)])
  BY DEF HandleServerSocketRead
<1>2. nextId \in SessionId /\ f # None /\ nextId' = nextId + 1 /\ nextId \in Nat
  BY BoundsAssumption, NoneAssumption DEF HandleServerSocketRead, SessionId, TypeOK
<1>3. /\ sessions'[nextId] = f
      /\ \A s \in SessionId : s # nextId => sessions'[s] = sessions[s]
  BY <1>1, <1>2 DEF TypeOK
<1>4. \A s \in SessionId : sessions[s] # f
  BY <1>1, <1>2, ConnectionIsNotNone DEF ClientFdIsOurs, Live
<1>5. GetSessionForClient(sessions', f) = nextId
  <2>1. /\ GetSessionForClient(sessions', f) \in SessionId
        /\ sessions'[GetSessionForClient(sessions', f)] = f
    BY <1>2, <1>3, FirstSession
  <2>2. QED
    BY <1>3, <1>4, <2>1
<1>6. ~ Live(nextId)
  BY <1>2 DEF FreshIds
<1>7. Running /\ Running' /\ Rejected' = Rejected
  BY DEF HandleServerSocketRead, Running, Rejected, Loop
<1>8. nextId \notin Queued \cup Handled \cup Reported \cup Rejected \cup Relaying
  BY <1>2, <1>6, <1>7 DEF LiveIffHeld
<1>9. Queued' = Queued \cup {nextId} /\ NoSidTwice(work)'
  <2> DEFINE m == [task |-> "asyncDetector", sid |-> nextId]
  <2>1. m \in Work /\ m.sid = nextId /\ work \in Seq(Work) /\ work' = Append(work, m)
    BY <1>1, <1>2, <1>5 DEF Work, TypeOK
  <2> HIDE DEF m
  <2>2. QED
    BY <1>8, <2>1, AppendSids DEF Queued, HeldOnce
<1>10. /\ Handled' = Handled /\ Reported' = Reported
       /\ NoSidTwice(pipe)' = NoSidTwice(pipe) /\ \A w \in Workers : InHand(w)' = InHand(w)
  BY DEF HandleServerSocketRead, Handled, Reported, SidsIn, NoSidTwice, InHand
<1>11. /\ Registered' = Registered
       /\ \A g \in Registered : /\ sockets'[g].sid = sockets[g].sid
                                /\ sockets'[g].peer = sockets[g].peer
  BY DEF HandleServerSocketRead, Registered
<1>12. \A g \in Registered : fds'[g] = fds[g] /\ sessions'[sockets[g].sid] = sessions[sockets[g].sid]
  <2> SUFFICES ASSUME NEW g \in Registered
               PROVE  fds'[g] = fds[g] /\ sessions'[sockets[g].sid] = sessions[sockets[g].sid]
    OBVIOUS
  <2>1. g \in Fds /\ g # f /\ sockets[g].sid \in Relaying /\ sockets[g].sid \in SessionId
    BY <1>1, SocketType DEF PairedSockets, Registered, Relaying
  <2>2. QED
    BY <1>1, <1>3, <1>8, <2>1 DEF TypeOK
<1>13. PairedSockets' /\ ClientIsListed' /\ Relaying' = Relaying
  BY <1>11, <1>12, SocketsFrame
<1>14. HeldOnce'
  BY <1>7, <1>8, <1>9, <1>10, <1>13, HandleServerSocketRead DEF HeldOnce, HandleServerSocketRead
<1>15. LiveIffHeld'
  BY <1>2, <1>3, <1>7, <1>9, <1>10, <1>13 DEF LiveIffHeld, Live
<1>16. FreshIds'
  BY <1>2, <1>3, BoundsAssumption DEF FreshIds, Live, SessionId
<1>17. ClientFdIsOurs'
  BY <1>1, <1>2, <1>3, <1>4 DEF ClientFdIsOurs, Live, TypeOK
<1>18. ServerFds'
  <2>1. UNCHANGED <<workers, pipe>>
    BY DEF HandleServerSocketRead
  <2>2. \A g \in Fds : fds[g] # None => fds'[g] = fds[g]
    BY <1>1 DEF TypeOK
  <2>3. QED
    BY <2>1, <2>2, ServerFdsOpen DEF ServerFds
<1>19. QED
  BY <1>13, <1>14, <1>15, <1>16, <1>17, <1>18

\* Reading the first message takes its session, and no other, out of the pipe.
LEMMA FirstMessage ==
    ASSUME TypeOK, NoSidTwice(pipe), pipe # <<>>
    PROVE  /\ Head(pipe).sid \in SessionId /\ Head(pipe).sid \in Reported
           /\ SidsIn(Tail(pipe)) = Reported \ {Head(pipe).sid}
           /\ NoSidTwice(Tail(pipe))
           /\ Head(pipe) = pipe[1] /\ 1 \in DOMAIN pipe
           /\ \A i \in DOMAIN Tail(pipe) : \E j \in DOMAIN pipe : Tail(pipe)[i] = pipe[j] /\ j # 1
<1>1. pipe \in Seq(Message)
  BY DEF TypeOK
<1>2. /\ SidsIn(Tail(pipe)) = Reported \ {Head(pipe).sid}
      /\ Head(pipe).sid \in Reported /\ NoSidTwice(Tail(pipe))
  BY <1>1, TailSids DEF Reported
<1>3. Head(pipe).sid \in SessionId
  BY HeadOfPipe
<1>4. Head(pipe) = pipe[1] /\ 1 \in DOMAIN pipe
  BY <1>1
<1>5. ASSUME NEW i \in DOMAIN Tail(pipe)
      PROVE  \E j \in DOMAIN pipe : Tail(pipe)[i] = pipe[j] /\ j # 1
  <2>1. i + 1 \in DOMAIN pipe /\ Tail(pipe)[i] = pipe[i + 1] /\ i + 1 # 1
    BY <1>1
  <2>2. QED
    BY <2>1
<1>6. QED
  BY <1>2, <1>3, <1>4, <1>5

\* It is about a live session that nothing else holds.
LEMMA HeadSession ==
    ASSUME SInv, CommandReady
    PROVE  /\ Head(pipe).sid \in SessionId /\ Live(Head(pipe).sid)
           /\ Head(pipe).sid \in Reported
           /\ Head(pipe).sid \notin Queued \cup Handled \cup Rejected \cup Relaying
           /\ SidsIn(Tail(pipe)) = Reported \ {Head(pipe).sid}
           /\ NoSidTwice(Tail(pipe))
           /\ Rejected = {} /\ Running
           /\ Head(pipe) = pipe[1] /\ 1 \in DOMAIN pipe
           /\ \A i \in DOMAIN Tail(pipe) : \E j \in DOMAIN pipe : Tail(pipe)[i] = pipe[j] /\ j # 1
<1> USE DEF SInv
<1>1. pipe # <<>> /\ NoSidTwice(pipe) /\ main = Loop
  BY DEF CommandReady, HeldOnce
<1>2. Rejected = {} /\ Running
  BY <1>1 DEF Rejected, Running, Loop
<1>3. Live(Head(pipe).sid)
  BY <1>1, <1>2, FirstMessage DEF LiveIffHeld
<1>4. Head(pipe).sid \notin Queued \cup Handled \cup Rejected \cup Relaying
  BY <1>1, FirstMessage DEF HeldOnce
<1>5. QED
  BY <1>1, <1>2, <1>3, <1>4, FirstMessage

\* The session's descriptor is closed and the session ends: nobody else had either.
LEMMA RefuseStep ==
    ASSUME SInv, TypeOK', Refuse
    PROVE  SInv'
<1> USE DEF SInv
<1> DEFINE s == Head(pipe).sid
           c == sessions[s]
<1>0. /\ s \in SessionId /\ Live(s) /\ s \in Reported
      /\ s \notin Queued \cup Handled \cup Rejected \cup Relaying
      /\ SidsIn(Tail(pipe)) = Reported \ {s} /\ NoSidTwice(Tail(pipe))
      /\ Rejected = {} /\ Running
      /\ \A i \in DOMAIN Tail(pipe) : \E j \in DOMAIN pipe : Tail(pipe)[i] = pipe[j] /\ j # 1
  BY HeadSession DEF Refuse
<1>1. /\ fds' = [fds EXCEPT ![c] = None] /\ sessions' = [sessions EXCEPT ![s] = None]
      /\ pipe' = Tail(pipe)
      /\ UNCHANGED <<nextId, sockets, work, workers, main>>
  BY DEF Refuse, EndSession, ReadMessage
<1> HIDE DEF s, c
<1>2. c \in Fds /\ c # None /\ fds[c] = [role |-> "client", sid |-> s] /\ sessions[s] = c
  BY <1>0, NoneAssumption DEF c, Live, TypeOK, ClientFdIsOurs
<1>3. c \notin Registered
  BY <1>0, <1>2, NotRegistered
<1>4. /\ \A g \in Fds : g # c => fds'[g] = fds[g]
      /\ \A t \in SessionId : t # s => sessions'[t] = sessions[t]
      /\ sessions'[s] = None
  BY <1>0, <1>1, <1>2 DEF TypeOK
<1>5. Registered' = Registered /\ Registered \subseteq Fds
  BY <1>1 DEF Registered
<1>6. \A f \in Registered : sockets[f].sid \in SessionId /\ sockets[f].sid # s
  BY <1>0, SocketType DEF Registered, Relaying
<1>7. PairedSockets' /\ ClientIsListed' /\ Relaying' = Relaying
  BY <1>1, <1>3, <1>4, <1>5, <1>6, SocketsFrame
<1>8. Queued' = Queued /\ Handled' = Handled /\ Rejected' = Rejected /\ Reported' = Reported \ {s}
  <2>1. Queued' = Queued /\ Handled' = Handled /\ Rejected' = Rejected
    BY <1>1 DEF Queued, Handled, Rejected, InHand
  <2>2. Reported' = Reported \ {s}
    BY <1>0, <1>1 DEF Reported
  <2>3. QED
    BY <2>1, <2>2
<1>9. HeldOnce'
  <2>1. NoSidTwice(work)' /\ NoSidTwice(pipe)'
    BY <1>0, <1>1 DEF HeldOnce, NoSidTwice
  <2>2. HandsApart'
    BY <1>1 DEF HeldOnce, InHand, HandsApart
  <2>3. QED
    BY <1>7, <1>8, <2>1, <2>2 DEF HeldOnce, HandsApart
<1>10. LiveIffHeld'
  BY <1>0, <1>4, <1>7, <1>8 DEF LiveIffHeld, Live
<1>11. FreshIds' /\ ClientFdIsOurs'
  <2>1. FreshIds'
    BY <1>1, <1>4 DEF FreshIds, Live
  <2>2. ASSUME NEW t \in SessionId, Live(t)' PROVE fds'[sessions'[t]] = [role |-> "client", sid |-> t]
    <3>1. t # s /\ sessions'[t] = sessions[t] /\ sessions[t] \in Fds /\ Live(t)
      BY <1>4, <2>2 DEF Live, TypeOK
    <3>2. fds[sessions[t]] = [role |-> "client", sid |-> t]
      BY <3>1 DEF ClientFdIsOurs
    <3>3. sessions[t] # c
      BY <1>2, <3>1, <3>2
    <3>4. QED
      BY <1>4, <3>1, <3>2, <3>3
  <2>3. QED
    BY <2>1, <2>2 DEF ClientFdIsOurs
<1>12. ServerFds'
  <2>1. ASSUME NEW w \in Workers, workers'[w].pc = "dial"
        PROVE  fds'[workers'[w].fd] = [role |-> "server", sid |-> workers'[w].sid]
    <3>1. workers[w].fd \in Fds /\ fds[workers[w].fd] = [role |-> "server", sid |-> workers[w].sid]
      BY <1>1, <2>1, ServerFdsOpen DEF ServerFds
    <3>2. QED
      BY <1>1, <1>2, <1>4, <3>1
  <2>2. ASSUME NEW i \in DOMAIN pipe', pipe'[i].fd # None
        PROVE  fds'[pipe'[i].fd] = [role |-> "server", sid |-> pipe'[i].sid]
    <3>1. PICK j \in DOMAIN pipe : pipe'[i] = pipe[j]
      BY <1>0, <1>1
    <3>2. pipe[j].fd \in Fds /\ fds[pipe[j].fd] = [role |-> "server", sid |-> pipe[j].sid]
      BY <2>2, <3>1, ServerFdsOpen DEF ServerFds
    <3>3. QED
      BY <1>2, <1>4, <3>1, <3>2
  <2>3. QED
    BY <2>1, <2>2 DEF ServerFds
<1>13. QED
  BY <1>7, <1>9, <1>10, <1>11, <1>12

\* Steps that hand a session on, and leave sockets and descriptors alone.
LEMMA HandOver ==
    ASSUME SInv, TypeOK', Running, UNCHANGED <<sessions, nextId, fds, sockets>>,
           HeldApart', Held' = Held, ServerFds'
    PROVE  SInv'
<1> USE DEF SInv
<1>1. Registered' = Registered /\ Relaying' = Relaying
  BY DEF Registered, Relaying
<1>2. PairedSockets' /\ ClientIsListed'
  BY <1>1, SocketsFrame
<1>3. FreshIds' /\ ClientFdIsOurs'
  BY DEF FreshIds, ClientFdIsOurs, Live
<1>4. HeldOnce'
  <2>1. HeldOnce' <=> HeldApart' /\ Held' \cap Relaying' = {}
    BY DEF HeldOnce, HeldApart, HandsApart, Held
  <2>2. QED
    BY <1>1, <2>1, HeldOnceParts
<1>5. LiveIffHeld'
  BY <1>1 DEF LiveIffHeld, Live, Held
<1>6. QED
  BY <1>2, <1>3, <1>4, <1>5

\* The descriptors in hand are still right when messages and workers only go.
LEMMA ServerFdsShrink ==
    ASSUME ServerFds, UNCHANGED fds,
           \A w \in Workers : workers'[w] = workers[w] \/ workers'[w].pc # "dial",
           \A i \in DOMAIN pipe' : \/ pipe'[i].fd = None
                                   \/ \E j \in DOMAIN pipe : pipe'[i] = pipe[j]
    PROVE  ServerFds'
BY DEF ServerFds

\* The session of the first message goes back to the pool, ...
LEMMA ConnectMoves ==
    ASSUME TypeOK, HeldApart, ServerFds, ConnectProxy
    PROVE  HeldApart' /\ Held' = Held /\ ServerFds'
<1> DEFINE s == Head(pipe).sid
           m == [task |-> "asyncConnector", sid |-> s]
<1>0. /\ s \in SessionId /\ s \in Reported
      /\ SidsIn(Tail(pipe)) = Reported \ {s} /\ NoSidTwice(Tail(pipe))
      /\ \A i \in DOMAIN Tail(pipe) : \E j \in DOMAIN pipe : Tail(pipe)[i] = pipe[j] /\ j # 1
  BY FirstMessage DEF ConnectProxy, CommandReady, HeldApart
<1>1. /\ pipe' = Tail(pipe) /\ work' = Append(work, m) /\ UNCHANGED <<fds, workers, main>>
  BY DEF ConnectProxy, ReadMessage
<1>2. m \in Work /\ m.sid = s /\ work \in Seq(Work) /\ s \notin Queued
  BY <1>0 DEF Work, TypeOK, HeldApart
<1> HIDE DEF m, s
<1>3. Queued' = Queued \cup {s} /\ NoSidTwice(work)'
  BY <1>1, <1>2, AppendSids DEF Queued, HeldApart
<1>4. Reported' = Reported \ {s} /\ NoSidTwice(pipe)'
  BY <1>0, <1>1 DEF Reported
<1>5. Handled' = Handled /\ Rejected' = Rejected /\ HandsApart'
  BY <1>1 DEF Handled, Rejected, InHand, HeldApart, HandsApart
<1>6. ServerFds'
  BY <1>0, <1>1, ServerFdsShrink
<1>7. QED
  BY <1>0, <1>3, <1>4, <1>5, <1>6 DEF HeldApart, Held

\* ... is taken by the dispatch thread, ...
LEMMA ForbidMoves ==
    ASSUME TypeOK, HeldApart, ServerFds, ForbidHost
    PROVE  HeldApart' /\ Held' = Held /\ ServerFds'
<1> DEFINE s == Head(pipe).sid
<1>0. /\ s \in SessionId /\ s \in Reported
      /\ SidsIn(Tail(pipe)) = Reported \ {s} /\ NoSidTwice(Tail(pipe))
      /\ \A i \in DOMAIN Tail(pipe) : \E j \in DOMAIN pipe : Tail(pipe)[i] = pipe[j] /\ j # 1
  BY FirstMessage DEF ForbidHost, CommandReady, HeldApart
<1>1. /\ pipe' = Tail(pipe) /\ main' = [pc |-> "reject", sid |-> s, fd |-> None]
      /\ UNCHANGED <<fds, work, workers>> /\ main = Loop
  BY DEF ForbidHost, ReadMessage, CommandReady
<1> HIDE DEF s
<1>2. Queued' = Queued /\ NoSidTwice(work)' /\ Rejected' = {s} /\ Rejected = {}
  BY <1>1 DEF Queued, HeldApart, NoSidTwice, Rejected, Loop
<1>3. Reported' = Reported \ {s} /\ NoSidTwice(pipe)'
  BY <1>0, <1>1 DEF Reported
<1>4. Handled' = Handled /\ HandsApart'
  BY <1>1 DEF Handled, InHand, HeldApart, HandsApart
<1>5. ServerFds'
  BY <1>0, <1>1, ServerFdsShrink
<1>6. QED
  BY <1>0, <1>2, <1>3, <1>4, <1>5 DEF HeldApart, Held

\* A message written into the pipe: for a session that no message is about yet.
LEMMA ReportSids ==
    ASSUME TypeOK, NoSidTwice(pipe), NEW m \in Message, WriteMessage(m), m.sid \notin Reported
    PROVE  /\ Reported' = Reported \cup {m.sid} /\ NoSidTwice(pipe)'
           /\ \A i \in DOMAIN pipe' : pipe'[i] = m \/ \E j \in DOMAIN pipe : pipe'[i] = pipe[j]
<1>1. pipe' = Append(pipe, m) /\ pipe \in Seq(Message) /\ NoSidTwice(pipe)
  BY DEF WriteMessage, TypeOK
<1>2. Reported' = Reported \cup {m.sid} /\ NoSidTwice(pipe)'
  BY <1>1, AppendSids DEF Reported
<1>3. \A i \in DOMAIN pipe' : pipe'[i] = m \/ \E j \in DOMAIN pipe : pipe'[i] = pipe[j]
  <2> SUFFICES ASSUME NEW i \in DOMAIN pipe'
               PROVE  pipe'[i] = m \/ \E j \in DOMAIN pipe : pipe'[i] = pipe[j]
    OBVIOUS
  <2>1. /\ Len(pipe) \in Nat /\ DOMAIN pipe = 1 .. Len(pipe)
        /\ DOMAIN pipe' = 1 .. (Len(pipe) + 1)
        /\ pipe'[Len(pipe) + 1] = m
        /\ \A j \in DOMAIN pipe : pipe'[j] = pipe[j]
    BY <1>1
  <2>2. i = Len(pipe) + 1 \/ i \in DOMAIN pipe
    BY <2>1
  <2>3. QED
    BY <2>1, <2>2
<1>4. QED
  BY <1>2, <1>3

\* ... and is reported by it as a failure.
LEMMA SendErrorMoves ==
    ASSUME TypeOK, HeldApart, ServerFds, SendErrorResponse
    PROVE  HeldApart' /\ Held' = Held /\ ServerFds'
<1> DEFINE s == main.sid
           m == ConnectResult(s, None, FALSE)
<1>0. main.pc = "reject" /\ s \in SessionId /\ Rejected = {s}
  BY DEF SendErrorResponse, TypeOK, Dispatcher, Loop, Pruning, Down, Rejected
<1>1. WriteMessage(m) /\ main' = Loop /\ UNCHANGED <<fds, work, workers>>
  BY DEF SendErrorResponse
<1>2. m \in Message /\ m.sid = s /\ m.fd = None
  BY <1>0 DEF Message, ConnectResult
<1> HIDE DEF m, s
<1>3. s \notin Reported
  BY <1>0 DEF HeldApart
<1>4. /\ Reported' = Reported \cup {s} /\ NoSidTwice(pipe)'
      /\ \A i \in DOMAIN pipe' : pipe'[i] = m \/ \E j \in DOMAIN pipe : pipe'[i] = pipe[j]
  BY <1>1, <1>2, <1>3, ReportSids DEF HeldApart
<1>5. Queued' = Queued /\ NoSidTwice(work)' /\ Rejected' = {}
  BY <1>1 DEF Queued, HeldApart, NoSidTwice, Rejected, Loop
<1>6. Handled' = Handled /\ HandsApart'
  BY <1>1 DEF Handled, InHand, HeldApart, HandsApart
<1>7. ServerFds'
  BY <1>1, <1>2, <1>4, ServerFdsShrink
<1>8. QED
  BY <1>0, <1>4, <1>5, <1>6, <1>7 DEF HeldApart, Held

LEMMA HandOverMainSteps ==
    ASSUME SInv, TypeOK', ConnectProxy \/ ForbidHost \/ SendErrorResponse
    PROVE  SInv'
<1>1. HeldApart' /\ Held' = Held /\ ServerFds'
  BY HeldOnceParts, ConnectMoves, ForbidMoves, SendErrorMoves DEF SInv
<1>2. UNCHANGED <<sessions, nextId, fds, sockets>>
  BY DEF ConnectProxy, ForbidHost, SendErrorResponse
<1>3. main = Loop \/ main.pc = "reject"
  BY DEF ConnectProxy, ForbidHost, SendErrorResponse, CommandReady
<1>4. Running
  BY <1>3 DEF Running, Loop
<1>5. QED
  BY <1>1, <1>2, <1>4, HandOver

\* Both ends of an established connection are registered: the two descriptors
\* are open, different and not registered yet, so that epoll takes both.
LEMMA RegisterStep ==
    ASSUME SInv, TypeOK', RegisterPair, Faults = {}
    PROVE  SInv'
<1> USE DEF SInv
<1> DEFINE s == Head(pipe).sid
           c == sessions[s]
           p == Head(pipe).fd
<1>0. /\ s \in SessionId /\ Live(s) /\ s \in Reported
      /\ s \notin Queued \cup Handled \cup Rejected \cup Relaying
      /\ SidsIn(Tail(pipe)) = Reported \ {s} /\ NoSidTwice(Tail(pipe))
      /\ Rejected = {} /\ Running
      /\ Head(pipe) = pipe[1] /\ 1 \in DOMAIN pipe
      /\ \A i \in DOMAIN Tail(pipe) : \E j \in DOMAIN pipe : Tail(pipe)[i] = pipe[j] /\ j # 1
  BY HeadSession DEF RegisterPair
<1>1. c \in Fds /\ c # None /\ fds[c] = [role |-> "client", sid |-> s]
  BY <1>0, NoneAssumption DEF Live, TypeOK, ClientFdIsOurs
<1>2. p \in Fds /\ fds[p] = [role |-> "server", sid |-> s]
  <2>1. p \in Fds /\ p # None
    BY HeadOfPipe, NoneAssumption DEF RegisterPair, CommandReady
  <2>2. QED
    BY <1>0, <2>1 DEF ServerFds
<1>3. c # p /\ fds[c] # None /\ fds[p] # None
  BY <1>0, <1>1, <1>2, ConnectionIsNotNone
<1>4. sockets[c] = None /\ sockets[p] = None /\ c \notin Registered /\ p \notin Registered
  BY <1>0, <1>1, <1>2, NotRegistered
<1>5. AddSocketResults(c) = {TRUE} /\ AddSocketResults(p) = {TRUE}
  BY <1>3, <1>4 DEF AddSocketResults
<1>6. /\ sockets' = [f \in Fds |-> IF f = c THEN NewSocket(p, s, nextReg)
                                   ELSE IF f = p THEN NewSocket(c, s, nextReg + 1)
                                   ELSE sockets[f]]
      /\ fds' = [f \in Fds |-> fds[f]]
  BY <1>5 DEF RegisterPair
<1>7. /\ pipe' = Tail(pipe) /\ UNCHANGED <<sessions, nextId, work, workers, main>>
  BY DEF RegisterPair, ReadMessage
<1> HIDE DEF s, c, p
<1>8. fds' = fds
  BY <1>6 DEF TypeOK
<1>9. /\ sockets'[c].peer = p /\ sockets'[c].sid = s
      /\ sockets'[p].peer = c /\ sockets'[p].sid = s
      /\ sockets'[c] # None /\ sockets'[p] # None
      /\ \A f \in Fds \ {c, p} : sockets'[f] = sockets[f]
  <2>1. /\ sockets'[c] = NewSocket(p, s, nextReg) /\ sockets'[p] = NewSocket(c, s, nextReg + 1)
        /\ \A f \in Fds \ {c, p} : sockets'[f] = sockets[f]
    BY <1>1, <1>2, <1>3, <1>6
  <2>2. NewSocket(p, s, nextReg) \in Socket /\ NewSocket(c, s, nextReg + 1) \in Socket
    BY <1>0, <1>1, <1>2 DEF NewSocket, Socket, TypeOK
  <2>3. sockets'[c] # None /\ sockets'[p] # None
    BY <2>1, <2>2, NoneAssumption
  <2>4. QED
    BY <2>1, <2>3 DEF NewSocket
<1>10. Registered' = Registered \cup {c, p}
  BY <1>1, <1>2, <1>9 DEF Registered
<1>11. Relaying' = Relaying \cup {s}
  BY <1>4, <1>9, <1>10 DEF Relaying, Registered
<1>12. PairedSockets'
  <2> SUFFICES ASSUME NEW f \in Registered'
      PROVE  LET q == sockets'[f].peer IN
             /\ sockets'[q] # None
             /\ sockets'[q].peer = f
             /\ sockets'[q].sid = sockets'[f].sid
             /\ fds'[f] # None /\ fds'[q] # None
             /\ fds'[f].sid = sockets'[f].sid /\ fds'[q].sid = sockets'[f].sid
             /\ fds'[f].role # fds'[q].role
    BY DEF PairedSockets
  <2>1. CASE f = c
    BY <1>1, <1>2, <1>3, <1>8, <1>9, <2>1
  <2>2. CASE f = p
    BY <1>1, <1>2, <1>3, <1>8, <1>9, <2>2
  <2>3. CASE f \notin {c, p}
    <3> DEFINE q == sockets[f].peer
    <3>1. f \in Registered /\ f \in Fds
      BY <1>10, <2>3 DEF Registered
    <3>2. q \in Fds /\ q \in Registered
      BY <3>1, SocketType DEF PairedSockets, Registered
    <3>3. sockets'[f] = sockets[f] /\ sockets'[q] = sockets[q]
      BY <1>4, <1>9, <2>3, <3>1, <3>2
    <3>4. QED
      BY <1>8, <3>1, <3>3 DEF PairedSockets
  <2>4. QED
    BY <2>1, <2>2, <2>3
<1>13. ClientIsListed'
  <2> SUFFICES ASSUME NEW f \in Registered', fds'[f].role = "client"
               PROVE  sessions'[sockets'[f].sid] = f
    BY DEF ClientIsListed
  <2>1. CASE f = c
    BY <1>7, <1>9, <2>1 DEF c
  <2>2. CASE f = p
    BY <1>2, <1>8, <2>2
  <2>3. CASE f \notin {c, p}
    <3>1. f \in Registered /\ sockets'[f] = sockets[f]
      BY <1>9, <1>10, <2>3 DEF Registered
    <3>2. QED
      BY <1>7, <1>8, <3>1 DEF ClientIsListed
  <2>4. QED
    BY <2>1, <2>2, <2>3
<1>14. Queued' = Queued /\ Handled' = Handled /\ Rejected' = Rejected
  BY <1>7 DEF Queued, Handled, Rejected, InHand
<1>15. Reported' = Reported \ {s} /\ NoSidTwice(pipe)'
  BY <1>0, <1>7 DEF Reported
<1>16. HeldOnce'
  <2>1. NoSidTwice(work)'
    BY <1>7 DEF HeldOnce, NoSidTwice
  <2>2. HandsApart'
    BY <1>7 DEF HeldOnce, InHand, HandsApart
  <2>3. QED
    BY <1>0, <1>11, <1>14, <1>15, <2>1, <2>2 DEF HeldOnce, HandsApart
<1>17. LiveIffHeld'
  BY <1>0, <1>7, <1>11, <1>14, <1>15 DEF LiveIffHeld, Live
<1>18. FreshIds' /\ ClientFdIsOurs'
  BY <1>7, <1>8 DEF FreshIds, ClientFdIsOurs, Live
<1>19. ServerFds'
  BY <1>0, <1>7, <1>8, ServerFdsShrink
<1>20. QED
  BY <1>12, <1>13, <1>16, <1>17, <1>18, <1>19

\* The sockets of a relayed session are one socket and its peer.
LEMMA PairIsWhole ==
    ASSUME SInv, NEW f \in Registered, NEW g \in Registered, sockets[g].sid = sockets[f].sid
    PROVE  g = f \/ g = sockets[f].peer
<1> USE DEF SInv
<1> DEFINE s == sockets[f].sid
           qf == sockets[f].peer
           qg == sockets[g].peer
<1>1. f \in Fds /\ g \in Fds /\ qf \in Fds /\ qg \in Fds /\ qf \in Registered /\ qg \in Registered
  BY SocketType DEF PairedSockets, Registered
<1>2. /\ sockets[qf].sid = s /\ sockets[qg].sid = s
      /\ sockets[qf].peer = f /\ sockets[qg].peer = g
      /\ fds[f].role # fds[qf].role /\ fds[g].role # fds[qg].role
      /\ fds[f] \in Connection /\ fds[g] \in Connection
      /\ fds[qf] \in Connection /\ fds[qg] \in Connection
  BY <1>1 DEF PairedSockets, TypeOK
<1>3. \A x \in {f, g, qf, qg} : fds[x].role = "client" => x = sessions[s]
  BY <1>1, <1>2 DEF ClientIsListed
<1>4. \A x \in {f, g, qf, qg} : fds[x].role \in {"client", "server"}
  BY <1>2 DEF Connection
<1>5. \/ f = sessions[s] \/ qf = sessions[s]
  BY <1>2, <1>3, <1>4
<1>6. \/ g = sessions[s] \/ qg = sessions[s]
  BY <1>2, <1>3, <1>4
<1>7. QED
  BY <1>2, <1>5, <1>6

\* A socket, its peer and their session go together.
LEMMA DestroyStep ==
    ASSUME SInv, TypeOK', NEW f \in Registered,
           Destroy({f} \cup ({sockets[f].peer} \cap Registered)), EndSession(sockets[f].sid),
           UNCHANGED <<nextId, work, workers, pipe>>, Rejected' = Rejected, Running, Running'
    PROVE  SInv'
<1> USE DEF SInv
<1> DEFINE s == sockets[f].sid
           q == sockets[f].peer
<1>1. f \in Fds /\ q \in Fds /\ q \in Registered /\ s \in SessionId /\ s \in Relaying
  BY SocketType DEF PairedSockets, Registered, Relaying
<1>2. /\ sockets' = [g \in Fds |-> IF g \in {f, q} THEN None ELSE sockets[g]]
      /\ fds' = [g \in Fds |-> IF g \in {f, q} THEN None ELSE fds[g]]
      /\ sessions' = [sessions EXCEPT ![s] = None]
  BY <1>1 DEF Destroy, EndSession
<1>3. s \notin Queued \cup Handled \cup Reported \cup Rejected
  BY <1>1 DEF HeldOnce
<1>4. fds[f].sid = s /\ fds[q].sid = s
  BY DEF PairedSockets
<1>5. \A g \in Registered : sockets[g].sid = s => g \in {f, q}
  BY PairIsWhole
<1>6. sockets[q].sid = s
  BY DEF PairedSockets
<1> HIDE DEF s, q
<1>7. /\ \A g \in Fds \ {f, q} : fds'[g] = fds[g] /\ sockets'[g] = sockets[g]
      /\ \A t \in SessionId \ {s} : sessions'[t] = sessions[t]
      /\ sessions'[s] = None
  BY <1>1, <1>2 DEF TypeOK
<1>8. Registered' = Registered \ {f, q} /\ Registered \subseteq Fds
  BY <1>1, <1>2 DEF Registered
<1>9. Relaying' = Relaying \ {s}
  <2>1. ASSUME NEW t \in Relaying' PROVE t \in Relaying /\ t # s
    <3>1. PICK g \in Registered' : t = sockets'[g].sid
      BY <2>1 DEF Relaying
    <3>2. g \in Registered /\ g \notin {f, q} /\ sockets'[g] = sockets[g]
      BY <1>7, <1>8, <3>1
    <3>3. QED
      BY <1>5, <3>1, <3>2 DEF Relaying
  <2>2. ASSUME NEW t \in Relaying, t # s PROVE t \in Relaying'
    <3>1. PICK g \in Registered : t = sockets[g].sid
      BY <2>2 DEF Relaying
    <3>2. g \notin {f, q}
      BY <1>6, <2>2, <3>1 DEF s
    <3>3. QED
      BY <1>7, <1>8, <3>1, <3>2 DEF Relaying
  <2>3. QED
    BY <2>1, <2>2
<1>10. PairedSockets'
  <2> SUFFICES ASSUME NEW g \in Registered'
      PROVE  LET r == sockets'[g].peer IN
             /\ sockets'[r] # None
             /\ sockets'[r].peer = g
             /\ sockets'[r].sid = sockets'[g].sid
             /\ fds'[g] # None /\ fds'[r] # None
             /\ fds'[g].sid = sockets'[g].sid /\ fds'[r].sid = sockets'[g].sid
             /\ fds'[g].role # fds'[r].role
    BY DEF PairedSockets
  <2> DEFINE r == sockets[g].peer
  <2>1. g \in Registered /\ g \in Fds /\ g \notin {f, q} /\ sockets'[g] = sockets[g] /\ fds'[g] = fds[g]
    BY <1>7, <1>8
  <2>2. r \in Fds /\ r \in Registered /\ sockets[r].sid = sockets[g].sid
    BY <2>1, SocketType DEF PairedSockets, Registered
  <2>3. r \notin {f, q}
    BY <1>5, <1>6, <2>1, <2>2 DEF s
  <2>4. sockets'[r] = sockets[r] /\ fds'[r] = fds[r]
    BY <1>7, <2>2, <2>3
  <2>5. QED
    BY <2>1, <2>4 DEF PairedSockets
<1>11. ClientIsListed'
  <2> SUFFICES ASSUME NEW g \in Registered', fds'[g].role = "client"
               PROVE  sessions'[sockets'[g].sid] = g
    BY DEF ClientIsListed
  <2>1. g \in Registered /\ g \in Fds /\ g \notin {f, q} /\ sockets'[g] = sockets[g] /\ fds'[g] = fds[g]
    BY <1>7, <1>8
  <2>2. sockets[g].sid \in SessionId \ {s}
    BY <1>5, <2>1, SocketType DEF Registered
  <2>3. QED
    BY <1>7, <2>1, <2>2 DEF ClientIsListed
<1>12. HeldOnce'
  BY <1>9, QueuesFrame DEF HeldOnce
<1>13. LiveIffHeld'
  BY <1>1, <1>3, <1>7, <1>9, QueuesFrame DEF LiveIffHeld, Live
<1>14. FreshIds'
  BY <1>7 DEF FreshIds, Live
<1>15. ClientFdIsOurs'
  <2> SUFFICES ASSUME NEW t \in SessionId, Live(t)'
               PROVE  fds'[sessions'[t]] = [role |-> "client", sid |-> t]
    BY DEF ClientFdIsOurs
  <2>1. t # s /\ sessions'[t] = sessions[t] /\ sessions[t] \in Fds /\ Live(t)
    BY <1>7 DEF Live, TypeOK
  <2>2. fds[sessions[t]] = [role |-> "client", sid |-> t]
    BY <2>1 DEF ClientFdIsOurs
  <2>3. sessions[t] \notin {f, q}
    BY <1>4, <2>1, <2>2
  <2>4. QED
    BY <1>7, <2>1, <2>2, <2>3
<1>16. ServerFds'
  <2>1. ASSUME NEW w \in Workers, workers[w].pc = "dial"
        PROVE  fds'[workers[w].fd] = [role |-> "server", sid |-> workers[w].sid]
    <3>1. workers[w].fd \in Fds /\ fds[workers[w].fd] = [role |-> "server", sid |-> workers[w].sid]
      BY <2>1, ServerFdsOpen DEF ServerFds
    <3>2. workers[w].sid # s
      BY <1>3, <2>1 DEF Handled, InHand
    <3>3. QED
      BY <1>4, <1>7, <3>1, <3>2
  <2>2. ASSUME NEW i \in DOMAIN pipe, pipe[i].fd # None
        PROVE  fds'[pipe[i].fd] = [role |-> "server", sid |-> pipe[i].sid]
    <3>1. pipe[i].fd \in Fds /\ fds[pipe[i].fd] = [role |-> "server", sid |-> pipe[i].sid]
      BY <2>2, ServerFdsOpen DEF ServerFds
    <3>2. pipe[i].sid # s
      BY <1>3 DEF Reported, SidsIn
    <3>3. QED
      BY <1>4, <1>7, <3>1, <3>2
  <2>3. QED
    BY <2>1, <2>2 DEF ServerFds
<1>17. QED
  BY <1>10, <1>11, <1>12, <1>13, <1>14, <1>15, <1>16

LEMMA CloseAndPruneSteps ==
    ASSUME SInv, TypeOK', CloseSession \/ PruneExcessConnections, Faults = {}
    PROVE  SInv'
<1> TypeOK
  BY DEF SInv
<1>1. CASE CloseSession
  <2>1. PICK e \in events :
          /\ e.type = "Client" /\ sockets[e.fd] # None
          /\ Destroy({e.fd} \cup ({sockets[e.fd].peer} \cap Registered))
          /\ EndSession(sockets[e.fd].sid)
    BY <1>1 DEF CloseSession
  <2>2. e.fd \in Registered
    BY <2>1, ClientEventType DEF Registered
  <2>3. UNCHANGED <<nextId, work, workers, pipe>> /\ Rejected' = Rejected /\ Running /\ Running'
    BY <1>1 DEF CloseSession, Rejected, Running, Loop
  <2>4. QED
    BY <2>1, <2>2, <2>3, DestroyStep
<1>2. CASE PruneExcessConnections
  <2>1. PICK f \in Registered :
          /\ Destroy({f} \cup ({sockets[f].peer} \cap Registered))
          /\ EndSession(sockets[f].sid)
    BY <1>2 DEF PruneExcessConnections, FreedPeer
  <2>2. UNCHANGED <<nextId, work, workers, pipe>> /\ Rejected' = Rejected /\ Running /\ Running'
    BY <1>2 DEF PruneExcessConnections, Rejected, Running, Pruning, Loop
  <2>3. QED
    BY <2>1, <2>2, DestroyStep
<1>3. QED
  BY <1>1, <1>2

-----------------------------------------------------------------------------
(* The steps of the workers. *)

\* A worker takes the oldest session of the queue.
LEMMA TakeMoves ==
    ASSUME TypeOK, HeldApart, ServerFds, NEW w \in Workers, TakeWork(w)
    PROVE  /\ HeldApart' /\ Held' \subseteq Held /\ ServerFds'
           /\ Head(work).sid \in SessionId /\ Head(work).sid \in Queued
           /\ Live(Head(work).sid) => Held' = Held
<1> DEFINE s == Head(work).sid
           r == [pc |-> IF Head(work).task = "asyncDetector" THEN "detect" ELSE "resolve",
                 sid |-> s, fd |-> None]
<1>0. work \in Seq(Work) /\ work # <<>> /\ NoSidTwice(work) /\ workers[w] = Idle
  BY DEF TakeWork, TypeOK, HeldApart
<1>1. /\ SidsIn(Tail(work)) = Queued \ {s} /\ s \in Queued /\ NoSidTwice(Tail(work))
  BY <1>0, TailSids DEF Queued
<1>2. s \in SessionId
  BY <1>0, HeadOfWork
<1>3. work' = Tail(work) /\ UNCHANGED <<fds, pipe>>
  BY DEF TakeWork
<1>4. Queued' = Queued \ {s} /\ NoSidTwice(work)'
  BY <1>1, <1>3 DEF Queued
<1>5. Reported' = Reported /\ NoSidTwice(pipe)'
  BY <1>3 DEF Reported, HeldApart, NoSidTwice, SidsIn
<1>6. CASE Live(s)
  <2>1. workers' = [workers EXCEPT ![w] = r] /\ main' = main
    BY <1>6 DEF TakeWork
  <2>2. r.pc \in {"detect", "resolve", "dial"} /\ r.pc # "dial" /\ r.sid = s /\ ~ InHand(w)
    BY <1>0 DEF InHand, Idle
  <2> HIDE DEF r, s
  <2>3. Handled' = Handled \cup {s}
    BY <2>1, <2>2, WorkerBegins
  <2>4. HandsApart'
    BY <1>1, <2>1, <2>2, WorkersApart DEF HeldApart
  <2>5. ServerFds'
    <3>1. \A v \in Workers : workers'[v] = workers[v] \/ workers'[v].pc # "dial"
      BY <2>1, <2>2 DEF TypeOK
    <3>2. QED
      BY <1>3, <3>1, ServerFdsShrink
  <2>6. Rejected' = Rejected
    BY <2>1 DEF Rejected
  <2>7. HeldApart' /\ Held' = Held
    BY <1>1, <1>4, <1>5, <2>3, <2>4, <2>6 DEF HeldApart, Held
  <2>8. QED
    BY <1>1, <1>2, <2>5, <2>7 DEF s
<1>7. CASE ~ Live(s)
  <2>1. main' = Down /\ UNCHANGED workers
    BY <1>7 DEF TakeWork
  <2>2. Handled' = Handled /\ HandsApart'
    BY <2>1 DEF Handled, InHand, HeldApart, HandsApart
  <2>3. Rejected' = {}
    BY <2>1 DEF Rejected, Down
  <2>4. ServerFds'
    BY <1>3, <2>1, ServerFdsShrink
  <2>5. HeldApart' /\ Held' \subseteq Held
    BY <1>4, <1>5, <2>2, <2>3 DEF HeldApart, Held
  <2>6. QED
    BY <1>1, <1>2, <1>7, <2>4, <2>5
<1>8. QED
  BY <1>6, <1>7

\* A worker writes a message about its session into the pipe ...
Reports(w) ==
    \E m \in Message :
        /\ WriteMessage(m)
        /\ m.sid = workers[w].sid
        /\ m.fd = None \/ (workers[w].pc = "dial" /\ m.fd = workers[w].fd)

\* ... and has done with it.
LetsGo(w) ==
    \E r \in Worker : r.pc \in {"idle", "clear"} /\ workers' = [workers EXCEPT ![w] = r]

LEMMA ReportMoves ==
    ASSUME TypeOK, HeldApart, ServerFds, NEW w \in Workers, InHand(w), Reports(w), LetsGo(w),
           UNCHANGED <<fds, work, main>>
    PROVE  HeldApart' /\ Held' = Held /\ ServerFds'
<1>a. PICK m \in Message :
        /\ WriteMessage(m)
        /\ m.sid = workers[w].sid
        /\ m.fd = None \/ (workers[w].pc = "dial" /\ m.fd = workers[w].fd)
  BY DEF Reports
<1>b. PICK r \in Worker : r.pc \in {"idle", "clear"} /\ workers' = [workers EXCEPT ![w] = r]
  BY DEF LetsGo
<1> DEFINE s == workers[w].sid
<1>1. Handled' = Handled \ {s} /\ s \in Handled
  BY <1>b, WorkerEnds DEF HeldApart
<1>2. s \notin Reported
  BY <1>1 DEF HeldApart
<1>3. /\ Reported' = Reported \cup {s} /\ NoSidTwice(pipe)'
      /\ \A i \in DOMAIN pipe' : pipe'[i] = m \/ \E j \in DOMAIN pipe : pipe'[i] = pipe[j]
  BY <1>a, <1>2, ReportSids DEF HeldApart
<1>4. HandsApart'
  BY <1>b, WorkersApart DEF HeldApart
<1>5. Queued' = Queued /\ Rejected' = Rejected /\ NoSidTwice(work)'
  BY DEF Queued, Rejected, HeldApart, NoSidTwice
<1>6. ServerFds'
  <2>1. \A v \in Workers : workers'[v] = workers[v] \/ workers'[v].pc # "dial"
    BY <1>b DEF TypeOK
  <2>2. m.fd # None => fds[m.fd] = [role |-> "server", sid |-> m.sid]
    BY <1>a DEF ServerFds
  <2>3. QED
    BY <1>3, <2>1, <2>2 DEF ServerFds
<1> HIDE DEF s
<1>7. QED
  BY <1>1, <1>3, <1>4, <1>5, <1>6 DEF HeldApart, Held

Reporting(w) == AsyncDetector(w) \/ ResolveFails(w) \/ DialSucceeds(w) \/ DialFails(w)

LEMMA ReportingSteps ==
    ASSUME TypeOK, NEW w \in Workers, Reporting(w)
    PROVE  /\ InHand(w) /\ Running /\ Reports(w) /\ LetsGo(w)
           /\ UNCHANGED <<sessions, nextId, fds, sockets, work, events, main>>
<1> USE DEF Reporting
<1> DEFINE s == workers[w].sid
           Lost == ConnectResult(s, None, FALSE)
           Won == ConnectResult(s, workers[w].fd, TRUE)
           Cleaner == [pc |-> "clear", sid |-> s, fd |-> None]
<1>1. /\ InHand(w) /\ s \in SessionId /\ Running
      /\ workers[w].pc = "dial" => workers[w].fd \in Fds
      /\ UNCHANGED <<sessions, nextId, fds, sockets, work, events, main>>
  <2>1. /\ InHand(w) /\ Running
        /\ UNCHANGED <<sessions, nextId, fds, sockets, work, events, main>>
    BY DEF AsyncDetector, ResolveFails, DialSucceeds, DialFails, InHand
  <2>2. workers[w] \in Worker
    BY DEF TypeOK
  <2>3. s \in SessionId /\ (workers[w].pc = "dial" => workers[w].fd \in Fds)
    BY <2>1, <2>2 DEF InHand, Worker, Idle
  <2>4. QED
    BY <2>1, <2>3
<1>2. Reports(w)
  <2>1. CASE AsyncDetector(w)
    <3>1. PICK ok \in BOOLEAN :
            WriteMessage([id |-> "HOST_DETECT_RESULT", sid |-> s, fd |-> None, success |-> ok])
      BY <2>1 DEF AsyncDetector
    <3>2. [id |-> "HOST_DETECT_RESULT", sid |-> s, fd |-> None, success |-> ok] \in Message
      BY <1>1 DEF Message
    <3>3. QED
      BY <3>1, <3>2 DEF Reports
  <2>2. CASE ResolveFails(w) \/ DialFails(w)
    <3>1. WriteMessage(Lost)
      BY <2>2 DEF ResolveFails, DialFails
    <3>2. Lost \in Message /\ Lost.sid = s /\ Lost.fd = None
      BY <1>1 DEF Message, ConnectResult
    <3>3. QED
      BY <3>1, <3>2 DEF Reports
  <2>3. CASE DialSucceeds(w)
    <3>1. WriteMessage(Won) /\ workers[w].pc = "dial"
      BY <2>3 DEF DialSucceeds
    <3>2. Won \in Message /\ Won.sid = s /\ Won.fd = workers[w].fd
      BY <1>1, <3>1 DEF Message, ConnectResult
    <3>3. QED
      BY <3>1, <3>2 DEF Reports
  <2>4. QED
    BY <2>1, <2>2, <2>3
<1>3. LetsGo(w)
  <2>1. Idle \in Worker /\ Idle.pc = "idle" /\ Cleaner \in Worker /\ Cleaner.pc = "clear"
    BY <1>1 DEF Worker, Idle
  <2>2. \/ workers' = [workers EXCEPT ![w] = Idle]
        \/ workers' = [workers EXCEPT ![w] = Cleaner]
    BY DEF AsyncDetector, ResolveFails, DialSucceeds, DialFails
  <2> HIDE DEF Cleaner
  <2>3. QED
    BY <2>1, <2>2 DEF LetsGo
<1>4. QED
  BY <1>1, <1>2, <1>3

\* What a worker opens is open for the session it has in hand.
LEMMA OpenMoves ==
    ASSUME TypeOK, HeldApart, ServerFds, NEW w \in Workers, OpenSocket(w)
    PROVE  HeldApart' /\ Held' = Held /\ ServerFds'
<1>1. PICK f \in Fds :
        /\ fds[f] = None
        /\ fds' = [fds EXCEPT ![f] = [role |-> "server", sid |-> workers[w].sid]]
        /\ workers' = [workers EXCEPT ![w] = [pc |-> "dial", sid |-> workers[w].sid, fd |-> f]]
  BY DEF OpenSocket
<1> DEFINE r == [pc |-> "dial", sid |-> workers[w].sid, fd |-> f]
<1>2. UNCHANGED <<work, pipe, main>> /\ InHand(w)
  BY DEF OpenSocket, InHand
<1>3. /\ r.pc \in {"detect", "resolve", "dial"} /\ r.sid = workers[w].sid
      /\ workers' = [workers EXCEPT ![w] = r]
  BY <1>1
<1> HIDE DEF r
<1>4. Handled' = Handled
  BY <1>2, <1>3, WorkerGoesOn
<1>5. HandsApart'
  BY <1>2, <1>3, WorkersApart DEF HeldApart
<1>6. /\ Queued' = Queued /\ Reported' = Reported /\ Rejected' = Rejected
      /\ NoSidTwice(work)' /\ NoSidTwice(pipe)'
  BY <1>2 DEF Queued, Reported, Rejected, HeldApart, NoSidTwice
<1>7. \A g \in Fds : fds[g] # None => fds'[g] = fds[g]
  BY <1>1 DEF TypeOK
<1>8. ServerFds'
  <2>1. ASSUME NEW v \in Workers, workers'[v].pc = "dial"
        PROVE  fds'[workers'[v].fd] = [role |-> "server", sid |-> workers'[v].sid]
    <3>1. CASE v = w
      BY <1>1, <3>1 DEF TypeOK
    <3>2. CASE v # w
      <4>1. workers'[v] = workers[v]
        BY <1>1, <3>2 DEF TypeOK
      <4>2. QED
        BY <1>7, <2>1, <4>1, ServerFdsOpen DEF ServerFds
    <3>3. QED
      BY <3>1, <3>2
  <2>2. ASSUME NEW i \in DOMAIN pipe, pipe[i].fd # None
        PROVE  fds'[pipe[i].fd] = [role |-> "server", sid |-> pipe[i].sid]
    BY <1>7, <2>2, ServerFdsOpen DEF ServerFds
  <2>3. QED
    BY <1>2, <2>1, <2>2 DEF ServerFds
<1>9. QED
  BY <1>4, <1>5, <1>6, <1>8 DEF HeldApart, Held

LEMMA OpenStep ==
    ASSUME SInv, TypeOK', NEW w \in Workers, OpenSocket(w)
    PROVE  SInv'
<1> USE DEF SInv
<1>1. PICK f \in Fds :
        /\ fds[f] = None
        /\ fds' = [fds EXCEPT ![f] = [role |-> "server", sid |-> workers[w].sid]]
  BY DEF OpenSocket
<1>2. UNCHANGED <<sessions, nextId, sockets>> /\ Running
  BY DEF OpenSocket
<1>3. HeldApart' /\ Held' = Held /\ ServerFds'
  BY HeldOnceParts, OpenMoves
<1>4. \A g \in Fds : fds[g] # None => fds'[g] = fds[g]
  BY <1>1 DEF TypeOK
<1>5. \A g \in Registered : fds'[g] = fds[g]
  BY <1>4 DEF PairedSockets, Registered
<1>6. Registered' = Registered
  BY <1>2 DEF Registered
<1>7. PairedSockets' /\ ClientIsListed' /\ Relaying' = Relaying
  BY <1>2, <1>5, <1>6, SocketsFrame
<1>8. HeldOnce'
  <2>1. HeldOnce' <=> HeldApart' /\ Held' \cap Relaying' = {}
    BY DEF HeldOnce, HeldApart, HandsApart, Held
  <2>2. QED
    BY <1>3, <1>7, <2>1, HeldOnceParts
<1>9. LiveIffHeld'
  BY <1>2, <1>3, <1>7 DEF LiveIffHeld, Live, Held
<1>10. FreshIds'
  BY <1>2 DEF FreshIds, Live
<1>11. ClientFdIsOurs'
  <2> SUFFICES ASSUME NEW t \in SessionId, Live(t)
               PROVE  fds'[sessions[t]] = [role |-> "client", sid |-> t]
    BY <1>2 DEF ClientFdIsOurs, Live
  <2>1. sessions[t] \in Fds /\ fds[sessions[t]] = [role |-> "client", sid |-> t]
    BY DEF ClientFdIsOurs, Live, TypeOK
  <2>2. QED
    BY <1>4, <2>1, ConnectionIsNotNone
<1>12. QED
  BY <1>3, <1>7, <1>8, <1>9, <1>10, <1>11

\* A worker that clears the cache has done with its session.
LEMMA ClearMoves ==
    ASSUME TypeOK, HeldApart, ServerFds, NEW w \in Workers, ClearCacheForHost(w)
    PROVE  HeldApart' /\ Held' = Held /\ ServerFds'
<1>1. /\ workers' = [workers EXCEPT ![w] = Idle] /\ ~ InHand(w)
      /\ UNCHANGED <<fds, work, pipe, main>>
  BY DEF ClearCacheForHost, InHand
<1>2. Idle.pc \notin {"detect", "resolve", "dial"}
  BY DEF Idle
<1>3. Handled' = Handled
  BY <1>1, <1>2, WorkerRests
<1>4. HandsApart'
  BY <1>1, <1>2, WorkersApart DEF HeldApart
<1>5. /\ Queued' = Queued /\ Reported' = Reported /\ Rejected' = Rejected
      /\ NoSidTwice(work)' /\ NoSidTwice(pipe)'
  BY <1>1 DEF Queued, Reported, Rejected, HeldApart, NoSidTwice
<1>6. ServerFds'
  <2>1. \A v \in Workers : workers'[v] = workers[v] \/ workers'[v].pc # "dial"
    BY <1>1, <1>2 DEF TypeOK
  <2>2. QED
    BY <1>1, <2>1, ServerFdsShrink
<1>7. QED
  BY <1>3, <1>4, <1>5, <1>6 DEF HeldApart, Held

LEMMA HandOverWorkerSteps ==
    ASSUME SInv, TypeOK', NEW w \in Workers, TakeWork(w) \/ Reporting(w) \/ ClearCacheForHost(w)
    PROVE  SInv'
<1> TypeOK /\ HeldApart /\ ServerFds
  BY HeldOnceParts DEF SInv
<1>1. CASE TakeWork(w)
  <2>1. Live(Head(work).sid)
    BY <1>1, TakeMoves DEF SInv, LiveIffHeld, TakeWork
  <2>2. UNCHANGED <<sessions, nextId, fds, sockets>> /\ Running
    BY <1>1 DEF TakeWork
  <2>3. QED
    BY <1>1, <2>1, <2>2, TakeMoves, HandOver
<1>2. CASE Reporting(w)
  BY <1>2, ReportingSteps, ReportMoves, HandOver
<1>3. CASE ClearCacheForHost(w)
  <2>1. UNCHANGED <<sessions, nextId, fds, sockets>> /\ Running
    BY <1>3 DEF ClearCacheForHost
  <2>2. QED
    BY <1>3, <2>1, ClearMoves, HandOver
<1>4. QED
  BY <1>1, <1>2, <1>3

\* The process ends at the access to an erased session.
LEMMA UseAfterEraseStep ==
    ASSUME SInv, TypeOK', NEW w \in Workers, UseAfterErase(w)
    PROVE  SInv'
<1>1. UNCHANGED <<sessions, nextId, fds, sockets, work, workers, pipe>> /\ main'.pc = "down"
  BY DEF UseAfterErase, Down
<1>2. Registered' = Registered
  BY <1>1 DEF Registered
<1>3. QED
  BY <1>1, <1>2, QuietStep

-----------------------------------------------------------------------------
(* The theorems. *)

LEMMA NextSInv ==
    ASSUME Faults = {}
    PROVE  SInv /\ [Next]_vars => SInv'
<1> SUFFICES ASSUME SInv, [Next]_vars PROVE SInv'
  OBVIOUS
<1>1. TypeOK'
  BY NextTypeOK DEF SInv
<1>2. ~ CommandFault
  BY HeadSession DEF CommandFault
<1>3. ASSUME UNCHANGED vars PROVE SInv'
  <2>1. UNCHANGED <<sessions, nextId, fds, sockets, work, workers, pipe, main>>
    BY <1>3 DEF vars
  <2>2. Registered' = Registered
    BY <2>1 DEF Registered
  <2>3. QED
    BY <1>1, <2>1, <2>2, QuietStep
<1>4. CASE MainStep
  BY <1>1, <1>2, <1>4, QuietMainSteps, MarkingSteps, AcceptStep, RefuseStep, HandOverMainSteps,
     RegisterStep, CloseAndPruneSteps DEF MainStep
<1>5. ASSUME NEW w \in Workers, WorkerStep(w) PROVE SInv'
  BY <1>1, <1>5, HandOverWorkerSteps, OpenStep, UseAfterEraseStep DEF WorkerStep, Reporting
<1>6. CASE StalledWriteEnds \/ RemoteCloses
  BY <1>1, <1>6, MarkingSteps
<1>7. CASE Terminated
  BY <1>3, <1>7 DEF Terminated
<1>8. QED
  BY <1>3, <1>4, <1>5, <1>6, <1>7 DEF Next

LEMMA SessionInvariance ==
    ASSUME Faults = {}
    PROVE  Spec => []SInv
<1>1. QED
  BY InitSInv, NextSInv, PTL DEF Spec

\* A session is held in one place at a time: no two threads, messages or
\* sockets refer to the same session at once.
THEOREM ProxyHeldOnce ==
    ASSUME Faults = {}
    PROVE  Spec => []HeldOnce
<1>1. SInv => HeldOnce
  BY DEF SInv
<1>2. QED
  BY SessionInvariance, <1>1, PTL

\* A session is in the session list exactly as long as something refers to it:
\* no session is leaked, and no lookup of one by the dispatch thread or by a
\* worker that takes its work meets a null pointer.
THEOREM ProxyLiveIffHeld ==
    ASSUME Faults = {}
    PROVE  Spec => []LiveIffHeld
<1>1. SInv => LiveIffHeld
  BY DEF SInv
<1>2. QED
  BY SessionInvariance, <1>1, PTL

\* The descriptor of a live session has not been closed and reused for another.
THEOREM ProxyClientFdIsOurs ==
    ASSUME Faults = {}
    PROVE  Spec => []ClientFdIsOurs
<1>1. SInv => ClientFdIsOurs
  BY DEF SInv
<1>2. QED
  BY SessionInvariance, <1>1, PTL

\* The registered sockets are pairs, each of the two connections of one session.
THEOREM ProxyPairedSockets ==
    ASSUME Faults = {}
    PROVE  Spec => []PairedSockets
<1>1. SInv => PairedSockets
  BY DEF SInv
<1>2. QED
  BY SessionInvariance, <1>1, PTL

-----------------------------------------------------------------------------
(* No client is forgotten. *)

\* Steps that open no connection to a client and end no session.
LEMMA ClientsFrame ==
    ASSUME NoForgottenClients, UNCHANGED sessions,
           \A f \in Fds : fds'[f] = fds[f] \/ fds'[f] = None \/ fds'[f].role = "server"
    PROVE  NoForgottenClients'
BY DEF NoForgottenClients

LEMMA AcceptRemembers ==
    ASSUME SInv, NoForgottenClients, HandleServerSocketRead
    PROVE  NoForgottenClients'
<1> USE DEF SInv
<1>1. PICK f \in Fds :
        /\ fds' = [fds EXCEPT ![f] = [role |-> "client", sid |-> nextId]]
        /\ sessions' = [sessions EXCEPT ![nextId] = f]
  BY DEF HandleServerSocketRead
<1>2. nextId \in SessionId /\ nextId \in Nat
  BY BoundsAssumption DEF HandleServerSocketRead, SessionId, TypeOK
<1>3. /\ sessions'[nextId] = f
      /\ \A s \in SessionId : s # nextId => sessions'[s] = sessions[s]
      /\ fds'[f].sid = nextId
      /\ \A g \in Fds : g # f => fds'[g] = fds[g]
  BY <1>1, <1>2 DEF TypeOK
<1>4. ASSUME NEW g \in Fds, g # f, fds[g] # None, fds[g].role = "client"
      PROVE  sessions'[fds[g].sid] = g
  <2>1. fds[g].sid \in SessionId /\ sessions[fds[g].sid] = g
    BY <1>4 DEF TypeOK, Connection, NoForgottenClients
  <2>2. fds[g].sid < nextId
    BY <2>1, NoneAssumption DEF FreshIds, Live
  <2>3. fds[g].sid # nextId
    BY <1>2, <2>1, <2>2, BoundsAssumption DEF SessionId
  <2>4. QED
    BY <1>3, <2>1, <2>3
<1>5. QED
  BY <1>3, <1>4 DEF NoForgottenClients

LEMMA RefuseRemembers ==
    ASSUME SInv, NoForgottenClients, Refuse
    PROVE  NoForgottenClients'
<1> USE DEF SInv
<1> DEFINE s == Head(pipe).sid
           c == sessions[s]
<1>1. s \in SessionId /\ c \in Fds
  BY HeadSession DEF Refuse, Live, TypeOK
<1>2. fds' = [fds EXCEPT ![c] = None] /\ sessions' = [sessions EXCEPT ![s] = None]
  BY DEF Refuse, EndSession
<1> HIDE DEF s
<1>3. /\ \A g \in Fds : g # c => fds'[g] = fds[g]
      /\ fds'[c] = None
      /\ \A t \in SessionId : t # s => sessions'[t] = sessions[t]
  BY <1>1, <1>2 DEF TypeOK
<1>4. \A g \in Fds : fds[g] # None => fds[g].sid \in SessionId
  BY DEF TypeOK, Connection
<1>5. QED
  BY <1>3, <1>4 DEF NoForgottenClients

\* One of the two sockets of a session is its client.
LEMMA DestroyRemembers ==
    ASSUME SInv, NoForgottenClients, NEW f \in Registered,
           Destroy({f} \cup ({sockets[f].peer} \cap Registered)), EndSession(sockets[f].sid)
    PROVE  NoForgottenClients'
<1> USE DEF SInv
<1> DEFINE s == sockets[f].sid
           q == sockets[f].peer
<1>1. f \in Fds /\ q \in Fds /\ q \in Registered /\ s \in SessionId
  BY SocketType DEF PairedSockets, Registered
<1>2. /\ fds' = [g \in Fds |-> IF g \in {f, q} THEN None ELSE fds[g]]
      /\ sessions' = [sessions EXCEPT ![s] = None]
  BY <1>1 DEF Destroy, EndSession
<1>3. /\ fds[f].role # fds[q].role /\ fds[f] \in Connection /\ fds[q] \in Connection
      /\ sockets[q].sid = s
  BY <1>1 DEF PairedSockets, TypeOK
<1>4. sessions[s] = f \/ sessions[s] = q
  BY <1>1, <1>3 DEF Connection, ClientIsListed
<1> HIDE DEF s, q
<1>5. ASSUME NEW g \in Fds, fds'[g] # None, fds'[g].role = "client"
      PROVE  sessions'[fds'[g].sid] = g
  <2>1. g \notin {f, q} /\ fds'[g] = fds[g]
    BY <1>2, <1>5
  <2>2. fds[g].sid \in SessionId /\ sessions[fds[g].sid] = g
    BY <1>5, <2>1 DEF TypeOK, Connection, NoForgottenClients
  <2>3. fds[g].sid # s
    BY <1>4, <2>1, <2>2
  <2>4. QED
    BY <1>1, <1>2, <2>1, <2>2, <2>3 DEF TypeOK
<1>6. QED
  BY <1>5 DEF NoForgottenClients

LEMMA NextRemembers ==
    ASSUME Faults = {}
    PROVE  SInv /\ NoForgottenClients /\ [Next]_vars => NoForgottenClients'
<1> SUFFICES ASSUME SInv, NoForgottenClients, [Next]_vars PROVE NoForgottenClients'
  OBVIOUS
<1> TypeOK
  BY DEF SInv
<1>1. CASE \/ EpollWait \/ EpollTimeout \/ AcceptFails \/ SkipEvent \/ ReadNothing \/ RelayData
           \/ RelayStalls \/ ConnectProxy \/ ForbidHost \/ SendErrorResponse \/ CommandFault
           \/ StalledWriteEnds \/ RemoteCloses \/ UNCHANGED vars
  <2>1. UNCHANGED <<sessions, fds>>
    BY <1>1 DEF EpollWait, EpollTimeout, AcceptFails, SkipEvent, ReadNothing, RelayData,
       RelayStalls, ConnectProxy, ForbidHost, SendErrorResponse, CommandFault,
       StalledWriteEnds, RemoteCloses, vars
  <2>2. QED
    BY <2>1, ClientsFrame
<1>2. CASE RegisterPair
  <2>1. UNCHANGED sessions /\ \A f \in Fds : fds'[f] = fds[f] \/ fds'[f] = None
    BY <1>2 DEF RegisterPair
  <2>2. QED
    BY <2>1, ClientsFrame
<1>3. CASE CloseSession
  <2>1. PICK e \in events :
          /\ e.type = "Client" /\ sockets[e.fd] # None
          /\ Destroy({e.fd} \cup ({sockets[e.fd].peer} \cap Registered))
          /\ EndSession(sockets[e.fd].sid)
    BY <1>3 DEF CloseSession
  <2>2. e.fd \in Registered
    BY <2>1, ClientEventType DEF Registered
  <2>3. QED
    BY <2>1, <2>2, DestroyRemembers
<1>4. CASE PruneExcessConnections
  <2>1. PICK f \in Registered :
          /\ Destroy({f} \cup ({sockets[f].peer} \cap Registered))
          /\ EndSession(sockets[f].sid)
    BY <1>4 DEF PruneExcessConnections, FreedPeer
  <2>2. QED
    BY <2>1, DestroyRemembers
<1>5. ASSUME NEW w \in Workers, WorkerStep(w) PROVE NoForgottenClients'
  <2>1. CASE OpenSocket(w)
    <3>1. UNCHANGED sessions /\ \A f \in Fds : fds'[f] = fds[f] \/ fds'[f].role = "server"
      BY <2>1 DEF OpenSocket, TypeOK
    <3>2. QED
      BY <3>1, ClientsFrame
  <2>2. CASE ~ OpenSocket(w)
    <3>1. UNCHANGED <<sessions, fds>>
      BY <1>5, <2>2 DEF WorkerStep, TakeWork, AsyncDetector, ResolveFails, DialSucceeds,
         DialFails, ClearCacheForHost, UseAfterErase
    <3>2. QED
      BY <3>1, ClientsFrame
  <2>3. QED
    BY <2>1, <2>2
<1>6. QED
  BY <1>1, <1>2, <1>3, <1>4, <1>5, AcceptRemembers, RefuseRemembers
     DEF Next, MainStep, Terminated

\* Every open connection from a client is the one of a live session: no handler
\* forgets to close one, whichever way the session takes.
THEOREM ProxyNoForgottenClients ==
    ASSUME Faults = {}
    PROVE  Spec => []NoForgottenClients
<1>1. Init => NoForgottenClients
  BY DEF Init, NoForgottenClients
<1>2. QED
  BY <1>1, NextRemembers, SessionInvariance, PTL DEF Spec

-----------------------------------------------------------------------------
(* The dispatch thread can write into its own pipe. *)

\* Each message, and the session that is being rejected, has a client of its own.
LEMMA RoomInPipe ==
    ASSUME SInv, Cardinality(Fds) <= PipeCapacity
    PROVE  PipeHasRoom
<1> USE DEF SInv
<1> SUFFICES ASSUME main.pc = "reject" PROVE Len(pipe) < PipeCapacity
  BY DEF PipeHasRoom
<1> DEFINE n == Len(pipe)
           sid(i) == IF i = n + 1 THEN main.sid ELSE pipe[i].sid
           client == [i \in 1 .. n + 1 |-> sessions[sid(i)]]
<1>1. pipe \in Seq(Message) /\ n \in Nat /\ DOMAIN pipe = 1 .. n
  BY DEF TypeOK
<1>2. main.sid \in SessionId /\ Rejected = {main.sid} /\ Running
  BY DEF TypeOK, Dispatcher, Loop, Pruning, Down, Rejected, Running
<1>3. ASSUME NEW i \in 1 .. n PROVE pipe[i].sid \in SessionId /\ pipe[i].sid \in Reported
  <2>1. pipe[i] \in Message
    BY <1>1
  <2>2. QED
    BY <1>1, <2>1 DEF Message, Reported, SidsIn
<1>4. ASSUME NEW i \in 1 .. n + 1
      PROVE  sid(i) \in SessionId /\ sid(i) \in Reported \cup Rejected
  BY <1>1, <1>2, <1>3
<1>5. ASSUME NEW i \in 1 .. n + 1, NEW j \in 1 .. n + 1, sid(i) = sid(j) PROVE i = j
  <2>1. \A k \in 1 .. n : pipe[k].sid # main.sid
    BY <1>2, <1>3 DEF HeldOnce
  <2>2. CASE i \in 1 .. n /\ j \in 1 .. n
    BY <1>1, <1>5, <2>2 DEF HeldOnce, NoSidTwice
  <2>3. CASE i = n + 1 \/ j = n + 1
    BY <1>1, <1>5, <2>1, <2>3
  <2>4. QED
    BY <1>1, <2>2, <2>3
<1> HIDE DEF sid
<1>6. ASSUME NEW i \in 1 .. n + 1
      PROVE  /\ sessions[sid(i)] \in Fds
             /\ fds[sessions[sid(i)]] = [role |-> "client", sid |-> sid(i)]
  <2>1. Live(sid(i))
    BY <1>2, <1>4 DEF LiveIffHeld
  <2>2. QED
    BY <1>4, <2>1 DEF Live, TypeOK, ClientFdIsOurs
<1>7. client \in [1 .. n + 1 -> Fds]
  BY <1>6
<1>8. ASSUME NEW i \in 1 .. n + 1, NEW j \in 1 .. n + 1, client[i] = client[j] PROVE i = j
  <2>1. sessions[sid(i)] = sessions[sid(j)]
    BY <1>8
  <2>2. /\ fds[sessions[sid(i)]].sid = [role |-> "client", sid |-> sid(i)].sid
        /\ fds[sessions[sid(j)]].sid = [role |-> "client", sid |-> sid(j)].sid
    BY <1>6, Zenon
  <2>3. sid(i) = sid(j)
    BY <2>1, <2>2
  <2>4. QED
    BY <1>5, <2>3
<1> HIDE DEF client
<1>9. IsFiniteSet(1 .. n + 1) /\ Cardinality(1 .. n + 1) = n + 1
  BY <1>1, FS_Interval
<1>10. ~ (Cardinality(Fds) < n + 1)
  BY <1>7, <1>8, <1>9, FdsAssumption, FS_PigeonHole
<1>11. Cardinality(Fds) \in Nat
  BY FdsAssumption, FS_CardinalityType
<1>12. QED
  BY <1>1, <1>10, <1>11, BoundsAssumption

\* The dispatch thread never waits for room in the pipe that only it empties, if
\* the pipe holds as many messages as the process may open descriptors: every
\* message is about a session of its own, with an open client.
THEOREM ProxyPipeHasRoom ==
    ASSUME Faults = {}, Cardinality(Fds) <= PipeCapacity
    PROVE  Spec => []PipeHasRoom
<1>1. SInv => PipeHasRoom
  BY RoomInPipe
<1>2. QED
  BY SessionInvariance, <1>1, PTL

-----------------------------------------------------------------------------
(* NermalProxy implements SessionProtocol. *)

\* The work packages, the messages and the threads, kind by kind.
Elems(q) == {q[i] : i \in DOMAIN q}
WorkTask(k, s) == [task |-> k, sid |-> s] \in Elems(work)
HandTask(K, s) == \E w \in Workers : workers[w].pc \in K /\ workers[w].sid = s
PipeTask(k, s) == \E m \in Elems(pipe) : m.id = k /\ m.sid = s

Detecting(s) ==
    \/ WorkTask("asyncDetector", s)
    \/ HandTask({"detect"}, s)
    \/ PipeTask("HOST_DETECT_RESULT", s)

Connecting(s) ==
    \/ WorkTask("asyncConnector", s)
    \/ HandTask({"resolve", "dial"}, s)
    \/ PipeTask("HOST_CONNECT_RESULT", s)
    \/ main.pc = "reject" /\ main.sid = s

\* The stage of a session without the sockets: a live session that nothing else
\* holds is relayed.
StageReads ==
    \A s \in SessionId :
        Stage(s) = IF s >= nextId THEN "new"
                   ELSE IF ~ Running \/ ~ Live(s) THEN "ended"
                   ELSE IF Connecting(s) THEN "connecting"
                   ELSE IF Detecting(s) THEN "detecting"
                   ELSE "relaying"

LEMMA AppendElems ==
    ASSUME NEW S, NEW q \in Seq(S), NEW m \in S
    PROVE  Elems(Append(q, m)) = Elems(q) \cup {m}
<1>1. /\ Len(q) \in Nat /\ DOMAIN q = 1 .. Len(q)
      /\ DOMAIN Append(q, m) = 1 .. (Len(q) + 1)
      /\ Append(q, m)[Len(q) + 1] = m
      /\ \A i \in DOMAIN q : Append(q, m)[i] = q[i]
  OBVIOUS
<1>2. DOMAIN Append(q, m) = DOMAIN q \cup {Len(q) + 1}
  BY <1>1
<1>3. QED
  BY <1>1, <1>2 DEF Elems

LEMMA TailElems ==
    ASSUME NEW S, NEW q \in Seq(S), q # <<>>
    PROVE  Elems(q) = Elems(Tail(q)) \cup {Head(q)}
<1>1. /\ Len(q) \in Nat \ {0} /\ DOMAIN q = 1 .. Len(q)
      /\ DOMAIN Tail(q) = 1 .. (Len(q) - 1)
      /\ \A i \in DOMAIN Tail(q) : Tail(q)[i] = q[i + 1] /\ i + 1 \in DOMAIN q
      /\ \A i \in DOMAIN q : i # 1 => i - 1 \in DOMAIN Tail(q) /\ Tail(q)[i - 1] = q[i]
      /\ Head(q) = q[1] /\ 1 \in DOMAIN q
  OBVIOUS
<1>2. ASSUME NEW x \in Elems(q) PROVE x \in Elems(Tail(q)) \cup {Head(q)}
  <2>1. PICK i \in DOMAIN q : x = q[i]
    BY <1>2 DEF Elems
  <2>2. QED
    BY <1>1, <2>1 DEF Elems
<1>3. ASSUME NEW x \in Elems(Tail(q)) PROVE x \in Elems(q)
  <2>1. PICK i \in DOMAIN Tail(q) : x = Tail(q)[i]
    BY <1>3 DEF Elems
  <2>2. QED
    BY <1>1, <2>1 DEF Elems
<1>4. Head(q) \in Elems(q)
  BY <1>1 DEF Elems
<1>5. QED
  BY <1>2, <1>3, <1>4

LEMMA TasksRead ==
    ASSUME NEW s
    PROVE  DetectTask(s) = Detecting(s) /\ ConnectTask(s) = Connecting(s)
BY DEF DetectTask, ConnectTask, Detecting, Connecting, WorkTask, HandTask, PipeTask, Elems

\* A session on its way is being detected or being connected.
LEMMA HeldHasTask ==
    ASSUME TypeOK, NEW s \in SessionId
    PROVE  s \in Held <=> Detecting(s) \/ Connecting(s)
<1>1. s \in Queued <=> WorkTask("asyncDetector", s) \/ WorkTask("asyncConnector", s)
  <2>1. \A m \in Work : m.sid = s =>
          m = [task |-> "asyncDetector", sid |-> s] \/ m = [task |-> "asyncConnector", sid |-> s]
    BY DEF Work
  <2>2. \A i \in DOMAIN work : work[i] \in Work
    BY DEF TypeOK
  <2>3. ASSUME s \in Queued
        PROVE  WorkTask("asyncDetector", s) \/ WorkTask("asyncConnector", s)
    <3>1. PICK i \in DOMAIN work : work[i].sid = s
      BY <2>3 DEF Queued, SidsIn
    <3>2. QED
      BY <2>1, <2>2, <3>1 DEF WorkTask, Elems
  <2>4. ASSUME NEW k, WorkTask(k, s) PROVE s \in Queued
    <3>1. PICK i \in DOMAIN work : work[i] = [task |-> k, sid |-> s]
      BY <2>4 DEF WorkTask, Elems
    <3>2. QED
      BY <3>1 DEF Queued, SidsIn
  <2>5. QED
    BY <2>3, <2>4
<1>2. s \in Handled <=> HandTask({"detect"}, s) \/ HandTask({"resolve", "dial"}, s)
  BY DEF Handled, InHand, HandTask
<1>3. s \in Reported <=> PipeTask("HOST_DETECT_RESULT", s) \/ PipeTask("HOST_CONNECT_RESULT", s)
  <2>1. \A m \in Message : m.id \in {"HOST_DETECT_RESULT", "HOST_CONNECT_RESULT"}
    BY DEF Message
  <2>2. \A i \in DOMAIN pipe : pipe[i] \in Message
    BY DEF TypeOK
  <2>3. QED
    BY <2>1, <2>2 DEF Reported, SidsIn, PipeTask, Elems
<1>4. s \in Rejected <=> main.pc = "reject" /\ main.sid = s
  BY DEF Rejected
<1>5. QED
  BY <1>1, <1>2, <1>3, <1>4 DEF Held, Detecting, Connecting

HeldHaveTasks == \A s \in SessionId : s \in Held <=> Detecting(s) \/ Connecting(s)

LEMMA HeldHasTaskNext == TypeOK' => HeldHaveTasks'
<1>1. TypeOK => HeldHaveTasks
  BY HeldHasTask DEF HeldHaveTasks
<1>2. QED
  BY <1>1, PTL

LEMMA SInvStageReads == SInv => StageReads
<1> SUFFICES ASSUME SInv, NEW s \in SessionId
    PROVE  Stage(s) = IF s >= nextId THEN "new"
                      ELSE IF ~ Running \/ ~ Live(s) THEN "ended"
                      ELSE IF Connecting(s) THEN "connecting"
                      ELSE IF Detecting(s) THEN "detecting"
                      ELSE "relaying"
  BY DEF StageReads
<1>1. s \in Nat /\ nextId \in Nat
  BY BoundsAssumption DEF SInv, TypeOK, SessionId
<1>2. s < nextId <=> ~ (s >= nextId)
  BY <1>1
<1>3. ASSUME Running, Live(s) PROVE s \in Relaying <=> ~ (Detecting(s) \/ Connecting(s))
  <2>1. Held \cap Relaying = {}
    BY HeldOnceParts DEF SInv
  <2>2. s \in Held \cup Relaying
    BY <1>3 DEF SInv, LiveIffHeld, Held
  <2>3. QED
    BY <2>1, <2>2, HeldHasTask DEF SInv
<1>4. DetectTask(s) = Detecting(s) /\ ConnectTask(s) = Connecting(s)
  BY TasksRead
<1>5. CASE s >= nextId
  BY <1>2, <1>5 DEF Stage
<1>6. CASE s < nextId /\ (~ Running \/ ~ Live(s))
  BY <1>2, <1>6 DEF Stage
<1>7. CASE s < nextId /\ Running /\ Live(s)
  BY <1>2, <1>3, <1>4, <1>7 DEF Stage
<1>8. QED
  BY <1>1, <1>2, <1>5, <1>6, <1>7

LEMMA SInvStageReadsNext == SInv' => StageReads'
BY SInvStageReads, PTL

\* A step of NermalProxy that no session notices is a stutter of the protocol, ...
LEMMA NoMove ==
    ASSUME SInv, SInv', nextId' = nextId, Running, Running',
           \A t \in SessionId : /\ Live(t)' <=> Live(t)
                                /\ Detecting(t)' <=> Detecting(t)
                                /\ Connecting(t)' <=> Connecting(t)
    PROVE  UNCHANGED Protocol!pvars
<1>1. \A t \in SessionId : Stage(t)' = Stage(t)
  BY SInvStageReads, SInvStageReadsNext DEF StageReads
<1>2. Running' = Running
  BY DEF Running
<1>3. [s \in SessionId |-> Stage(s)]' = [s \in SessionId |-> Stage(s)]
  BY <1>1
<1>4. QED
  BY <1>2, <1>3 DEF Protocol!pvars

\* ... one that a single session notices moves that session, ...
LEMMA OneMove ==
    ASSUME SInv, SInv', Running, Running', NEW s \in SessionId, NEW from, NEW to,
           Stage(s) = from, Stage(s)' = to,
           \A t \in SessionId \ {s} : /\ t >= nextId' <=> t >= nextId
                                      /\ Live(t)' <=> Live(t)
                                      /\ Detecting(t)' <=> Detecting(t)
                                      /\ Connecting(t)' <=> Connecting(t)
    PROVE  Protocol!Move(s, from, to)
<1>1. \A t \in SessionId \ {s} : Stage(t)' = Stage(t)
  BY SInvStageReads, SInvStageReadsNext DEF StageReads
<1>2. Running' = Running
  BY DEF Running
<1>3. [t \in SessionId |-> Stage(t)]' = [[t \in SessionId |-> Stage(t)] EXCEPT ![s] = to]
  BY <1>1
<1>4. QED
  BY <1>2, <1>3 DEF Protocol!Move

\* ... and the end of the process ends them all.
LEMMA HaltMove ==
    ASSUME SInv, SInv', nextId' = nextId, Running, ~ Running'
    PROVE  Protocol!Halt
<1>1. \A s \in SessionId : Stage(s)' = IF Stage(s) = "new" THEN "new" ELSE "ended"
  BY SInvStageReads, SInvStageReadsNext DEF StageReads
<1>2. [s \in SessionId |-> Stage(s)]'
        = [s \in SessionId |-> IF [t \in SessionId |-> Stage(t)][s] = "new" THEN "new" ELSE "ended"]
  BY <1>1
<1>3. Running' = FALSE
  BY DEF Running
<1>4. QED
  BY <1>2, <1>3 DEF Protocol!Halt

\* The stage of the session of the first message, read off its message.
LEMMA HeadStage ==
    ASSUME SInv, CommandReady
    PROVE  /\ Head(pipe).id = "HOST_DETECT_RESULT" => Stage(Head(pipe).sid) = "detecting"
           /\ Head(pipe).id = "HOST_CONNECT_RESULT" => Stage(Head(pipe).sid) = "connecting"
<1> DEFINE s == Head(pipe).sid
<1>0. TypeOK /\ HeldOnce /\ FreshIds
  BY DEF SInv
<1>1. /\ s \in SessionId /\ Live(s) /\ Running
      /\ s \notin Queued \cup Handled \cup Rejected \cup Relaying
      /\ Head(pipe) = pipe[1] /\ 1 \in DOMAIN pipe
  BY HeadSession
<1>2. s \in Nat /\ nextId \in Nat /\ s < nextId
  BY <1>0, <1>1, BoundsAssumption DEF TypeOK, FreshIds, SessionId
<1>3. /\ \A k : ~ WorkTask(k, s)
      /\ ~ HandTask({"detect"}, s) /\ ~ HandTask({"resolve", "dial"}, s)
      /\ ~ (main.pc = "reject" /\ main.sid = s)
  <2>1. ASSUME NEW k, WorkTask(k, s) PROVE FALSE
    <3>1. PICK i \in DOMAIN work : work[i] = [task |-> k, sid |-> s]
      BY <2>1 DEF WorkTask, Elems
    <3>2. work[i].sid = s
      BY <3>1
    <3>3. QED
      BY <1>1, <3>2 DEF Queued, SidsIn
  <2>2. ~ HandTask({"detect"}, s) /\ ~ HandTask({"resolve", "dial"}, s)
    BY <1>1 DEF HandTask, Handled, InHand
  <2>3. ~ (main.pc = "reject" /\ main.sid = s)
    BY <1>1 DEF Rejected
  <2>4. QED
    BY <2>1, <2>2, <2>3
<1>4. \A k : PipeTask(k, s) <=> Head(pipe).id = k
  BY <1>0, <1>1 DEF PipeTask, Elems, HeldOnce, NoSidTwice
<1> HIDE DEF s
<1>5. /\ Detecting(s) <=> Head(pipe).id = "HOST_DETECT_RESULT"
      /\ Connecting(s) <=> Head(pipe).id = "HOST_CONNECT_RESULT"
  BY <1>3, <1>4 DEF Detecting, Connecting
<1>6. /\ Head(pipe).id = "HOST_DETECT_RESULT" => Stage(s) = "detecting"
      /\ Head(pipe).id = "HOST_CONNECT_RESULT" => Stage(s) = "connecting"
  BY <1>1, <1>2, <1>5, SInvStageReads DEF StageReads
<1>7. QED
  BY <1>6 DEF s

\* Reading the first message changes the tasks of its session only.
LEMMA MessageTasks ==
    ASSUME TypeOK, pipe # <<>>, pipe' = Tail(pipe), NEW k, NEW t, t # Head(pipe).sid
    PROVE  PipeTask(k, t)' <=> PipeTask(k, t)
<1>1. Elems(pipe) = Elems(pipe') \cup {Head(pipe)}
  BY TailElems DEF TypeOK
<1>2. QED
  BY <1>1 DEF PipeTask

LEMMA WrittenTasks ==
    ASSUME TypeOK, NEW m \in Message, WriteMessage(m), NEW k, NEW t
    PROVE  PipeTask(k, t)' <=> PipeTask(k, t) \/ (m.id = k /\ m.sid = t)
<1>1. Elems(pipe') = Elems(pipe) \cup {m}
  BY AppendElems DEF TypeOK, WriteMessage
<1>2. QED
  BY <1>1 DEF PipeTask

LEMMA DispatchedTasks ==
    ASSUME TypeOK, NEW m \in Work, work' = Append(work, m), NEW k, NEW t
    PROVE  WorkTask(k, t)' <=> WorkTask(k, t) \/ m = [task |-> k, sid |-> t]
<1>1. Elems(work') = Elems(work) \cup {m}
  BY AppendElems DEF TypeOK
<1>2. QED
  BY <1>1 DEF WorkTask

LEMMA TakenTasks ==
    ASSUME TypeOK, work # <<>>, work' = Tail(work), NEW k, NEW t
    PROVE  WorkTask(k, t) <=> WorkTask(k, t)' \/ Head(work) = [task |-> k, sid |-> t]
<1>1. Elems(work) = Elems(work') \cup {Head(work)}
  BY TailElems DEF TypeOK
<1>2. QED
  BY <1>1 DEF WorkTask

LEMMA TasksFrame ==
    ASSUME NEW k, NEW t
    PROVE  /\ UNCHANGED work => (WorkTask(k, t)' <=> WorkTask(k, t))
           /\ UNCHANGED workers => (HandTask(k, t)' <=> HandTask(k, t))
           /\ UNCHANGED pipe => (PipeTask(k, t)' <=> PipeTask(k, t))
BY DEF WorkTask, HandTask, PipeTask, Elems

LEMMA SameTasks ==
    ASSUME UNCHANGED <<work, workers, pipe>>, Rejected' = Rejected, NEW t
    PROVE  (Detecting(t)' <=> Detecting(t)) /\ (Connecting(t)' <=> Connecting(t))
<1>1. (main'.pc = "reject" /\ main'.sid = t) <=> (main.pc = "reject" /\ main.sid = t)
  BY DEF Rejected
<1>2. QED
  BY <1>1, TasksFrame DEF Detecting, Connecting

\* Steps that leave queues, threads and sessions alone.
LEMMA QuietImplements ==
    ASSUME SInv, SInv', Running, UNCHANGED <<sessions, nextId, work, workers, pipe>>,
           Rejected' = Rejected \/ ~ Running'
    PROVE  Protocol!Next \/ UNCHANGED Protocol!pvars
<1>1. CASE Running'
  <2>1. \A t \in SessionId : /\ Live(t)' <=> Live(t)
                             /\ Detecting(t)' <=> Detecting(t)
                             /\ Connecting(t)' <=> Connecting(t)
    BY <1>1, SameTasks DEF Live
  <2>2. QED
    BY <1>1, <2>1, NoMove
<1>2. CASE ~ Running'
  BY <1>2, HaltMove DEF Protocol!Next
<1>3. QED
  BY <1>1, <1>2

LEMMA AcceptImplements ==
    ASSUME SInv, SInv', HandleServerSocketRead
    PROVE  Protocol!Next
<1>0. TypeOK /\ FreshIds
  BY DEF SInv
<1>1. PICK f \in Fds :
        /\ sessions' = [sessions EXCEPT ![nextId] = f]
        /\ work' = Append(work, [task |-> "asyncDetector", sid |-> GetSessionForClient(sessions', f)])
  BY DEF HandleServerSocketRead
<1>2. PICK n \in SessionId : n = nextId
  BY <1>0, BoundsAssumption DEF HandleServerSocketRead, SessionId, TypeOK
<1>3. /\ nextId' = n + 1 /\ n \in Nat /\ f # None
      /\ UNCHANGED <<workers, pipe, main>> /\ Running /\ Running'
  BY <1>2, BoundsAssumption, NoneAssumption DEF HandleServerSocketRead, SessionId, Running, Loop
<1>4. /\ sessions'[n] = f
      /\ \A s \in SessionId : s # n => sessions'[s] = sessions[s]
  BY <1>0, <1>1, <1>2 DEF TypeOK
<1>5. PICK g \in SessionId : g = GetSessionForClient(sessions', f) /\ sessions'[g] = f
  BY <1>2, <1>4, FirstSession
<1>6. g = n
  <2>1. /\ fds'[f] = [role |-> "client", sid |-> g]
        /\ fds'[f] = [role |-> "client", sid |-> n]
    BY <1>3, <1>4, <1>5 DEF SInv, ClientFdIsOurs, Live
  <2>2. QED
    BY <2>1
<1> DEFINE m == [task |-> "asyncDetector", sid |-> n]
<1>7. m \in Work /\ work' = Append(work, m)
  BY <1>1, <1>5, <1>6 DEF Work
<1>8. /\ \A t : WorkTask("asyncConnector", t)' <=> WorkTask("asyncConnector", t)
      /\ \A t : WorkTask("asyncDetector", t)' <=> WorkTask("asyncDetector", t) \/ t = n
  BY <1>0, <1>7, DispatchedTasks
<1>9. /\ \A t : Connecting(t)' <=> Connecting(t)
      /\ \A t : t # n => (Detecting(t)' <=> Detecting(t))
      /\ Detecting(n)'
  BY <1>3, <1>8, TasksFrame DEF Connecting, Detecting
<1>10. ~ Connecting(n)
  <2>1. ~ Live(n)
    BY <1>0, <1>2, <1>3 DEF FreshIds
  <2>2. n \notin Held
    BY <1>3, <2>1 DEF SInv, LiveIffHeld, Held
  <2>3. QED
    BY <1>0, <2>2, HeldHasTask
<1>11. Stage(n) = "new" /\ Stage(n)' = "detecting"
  <2>1. Stage(n) = "new"
    BY <1>2, <1>3, SInvStageReads DEF StageReads
  <2>2. Live(n)' /\ ~ (n >= nextId') /\ ~ Connecting(n)'
    BY <1>3, <1>4, <1>9, <1>10 DEF Live
  <2>3. QED
    BY <1>3, <1>9, <2>1, <2>2, SInvStageReadsNext DEF StageReads
<1>12. \A t \in SessionId \ {n} : (t >= nextId' <=> t >= nextId) /\ (Live(t)' <=> Live(t))
  BY <1>2, <1>3, <1>4, BoundsAssumption DEF SessionId, Live
<1>13. Protocol!Move(n, "new", "detecting")
  BY <1>3, <1>9, <1>11, <1>12, OneMove
<1>14. QED
  BY <1>13 DEF Protocol!Next, Protocol!Accept

\* A request that was read and allowed goes back to the pool, or is refused later.
LEMMA ConnectImplements ==
    ASSUME SInv, SInv', ConnectProxy \/ ForbidHost
    PROVE  Protocol!Next
<1>0. TypeOK /\ FreshIds /\ FreshIds'
  BY DEF SInv
<1>1. /\ CommandReady /\ pipe # <<>> /\ Head(pipe).id = "HOST_DETECT_RESULT"
      /\ pipe' = Tail(pipe) /\ UNCHANGED <<sessions, nextId, workers>>
  BY DEF ConnectProxy, ForbidHost, CommandReady, ReadMessage
<1>2. PICK s \in SessionId : s = Head(pipe).sid /\ Live(s)
  BY <1>1, HeadSession
<1>3. Running /\ Running' /\ Rejected = {}
  BY <1>1 DEF ConnectProxy, ForbidHost, CommandReady, Running, Rejected, Loop
<1>4. \A k, t : t # s => (PipeTask(k, t)' <=> PipeTask(k, t))
  BY <1>0, <1>1, <1>2, MessageTasks
<1>5. /\ \A t : t # s => (Connecting(t)' <=> Connecting(t)) /\ (Detecting(t)' <=> Detecting(t))
      /\ Connecting(s)'
  <2>1. CASE ConnectProxy
    <3> DEFINE m == [task |-> "asyncConnector", sid |-> s]
    <3>1. m \in Work /\ work' = Append(work, m) /\ main' = main
      BY <1>2, <2>1 DEF ConnectProxy, Work
    <3>2. /\ \A t : WorkTask("asyncDetector", t)' <=> WorkTask("asyncDetector", t)
          /\ \A t : WorkTask("asyncConnector", t)' <=> WorkTask("asyncConnector", t) \/ t = s
      BY <1>0, <3>1, DispatchedTasks
    <3>3. QED
      BY <1>1, <1>4, <3>1, <3>2, TasksFrame DEF Connecting, Detecting
  <2>2. CASE ForbidHost
    <3>1. main' = [pc |-> "reject", sid |-> s, fd |-> None] /\ UNCHANGED work
      BY <1>2, <2>2 DEF ForbidHost
    <3>2. main'.pc = "reject" /\ main'.sid = s /\ main.pc # "reject"
      BY <1>1, <3>1 DEF CommandReady, Loop
    <3>3. QED
      BY <1>1, <1>4, <3>1, <3>2, TasksFrame DEF Connecting, Detecting
  <2>3. QED
    BY <2>1, <2>2
<1>6. Stage(s) = "detecting"
  BY <1>1, <1>2, HeadStage
<1>7. Stage(s)' = "connecting"
  <2>1. s < nextId' /\ s \in Nat /\ nextId' \in Nat /\ Live(s)'
    BY <1>0, <1>1, <1>2, BoundsAssumption DEF FreshIds, Live, SessionId, TypeOK
  <2>2. ~ (s >= nextId')
    BY <2>1
  <2>3. QED
    BY <1>3, <1>5, <2>1, <2>2, SInvStageReadsNext DEF StageReads
<1>8. \A t \in SessionId \ {s} : (t >= nextId' <=> t >= nextId) /\ (Live(t)' <=> Live(t))
  BY <1>1 DEF Live
<1>9. Protocol!Move(s, "detecting", "connecting")
  BY <1>3, <1>5, <1>6, <1>7, <1>8, OneMove
<1>10. QED
  BY <1>9 DEF Protocol!Next, Protocol!Connect

LEMMA RegisterImplements ==
    ASSUME SInv, SInv', RegisterPair
    PROVE  Protocol!Next
<1>0. TypeOK /\ FreshIds /\ TypeOK'
  BY DEF SInv
<1>1. /\ CommandReady /\ pipe # <<>> /\ Head(pipe).id = "HOST_CONNECT_RESULT"
      /\ pipe' = Tail(pipe) /\ UNCHANGED <<sessions, nextId, work, workers, main>>
  BY DEF RegisterPair, CommandReady, ReadMessage
<1>2. PICK s \in SessionId :
        /\ s = Head(pipe).sid /\ Live(s) /\ s \notin Queued \cup Handled \cup Rejected
        /\ SidsIn(Tail(pipe)) = Reported \ {s}
  BY <1>1, HeadSession
<1>3. Running /\ Running'
  BY <1>1 DEF CommandReady, Running, Loop
<1>4. \A k, t : t # s => (PipeTask(k, t)' <=> PipeTask(k, t))
  BY <1>0, <1>1, <1>2, MessageTasks
<1>5. \A t : t # s => (Connecting(t)' <=> Connecting(t)) /\ (Detecting(t)' <=> Detecting(t))
  BY <1>1, <1>4, TasksFrame DEF Connecting, Detecting
<1>6. Stage(s) = "connecting"
  BY <1>1, <1>2, HeadStage
<1>7. ~ Connecting(s)' /\ ~ Detecting(s)'
  <2>1. s \notin Held'
    BY <1>1, <1>2 DEF Held, Queued, Handled, Reported, Rejected, InHand
  <2>2. QED
    BY <1>0, <2>1, HeldHasTaskNext DEF HeldHaveTasks
<1>8. Stage(s)' = "relaying"
  <2>1. s < nextId' /\ s \in Nat /\ nextId' \in Nat /\ Live(s)'
    BY <1>0, <1>1, <1>2, BoundsAssumption DEF FreshIds, Live, SessionId, TypeOK
  <2>2. ~ (s >= nextId')
    BY <2>1
  <2>3. QED
    BY <1>3, <1>7, <2>1, <2>2, SInvStageReadsNext DEF StageReads
<1>9. \A t \in SessionId \ {s} : (t >= nextId' <=> t >= nextId) /\ (Live(t)' <=> Live(t))
  BY <1>1 DEF Live
<1>10. Protocol!Move(s, "connecting", "relaying")
  BY <1>3, <1>5, <1>6, <1>8, <1>9, OneMove
<1>11. QED
  BY <1>10 DEF Protocol!Next, Protocol!Establish

\* A session that has ended stays at no stage but "ended".
LEMMA EndedStage ==
    ASSUME SInv, SInv', Running, Running', NEW s \in SessionId, Live(s), ~ Live(s)',
           nextId' = nextId, Stage(s) \in {"detecting", "connecting", "relaying"},
           \A t \in SessionId \ {s} : /\ Live(t)' <=> Live(t)
                                      /\ Detecting(t)' <=> Detecting(t)
                                      /\ Connecting(t)' <=> Connecting(t)
    PROVE  Protocol!Next
<1>1. s < nextId' /\ s \in Nat /\ nextId' \in Nat
  BY BoundsAssumption DEF SInv, FreshIds, SessionId, TypeOK
<1>2. ~ (s >= nextId')
  BY <1>1
<1>3. Stage(s)' = "ended"
  BY <1>2, SInvStageReadsNext DEF StageReads
<1>4. PICK from \in {"detecting", "connecting", "relaying"} : Stage(s) = from
  OBVIOUS
<1>5. Protocol!Move(s, from, "ended")
  BY <1>3, <1>4, OneMove
<1>6. QED
  BY <1>5 DEF Protocol!Next, Protocol!End

LEMMA RefuseImplements ==
    ASSUME SInv, SInv', Refuse
    PROVE  Protocol!Next
<1>0. TypeOK
  BY DEF SInv
<1>1. /\ CommandReady /\ pipe # <<>> /\ pipe' = Tail(pipe)
      /\ sessions' = [sessions EXCEPT ![Head(pipe).sid] = None]
      /\ UNCHANGED <<nextId, work, workers, main>>
  BY DEF Refuse, CommandReady, ReadMessage, EndSession
<1>2. PICK s \in SessionId : s = Head(pipe).sid /\ Live(s)
  BY <1>1, HeadSession
<1>3. Running /\ Running'
  BY <1>1 DEF CommandReady, Running, Loop
<1>4. \A k, t : t # s => (PipeTask(k, t)' <=> PipeTask(k, t))
  BY <1>0, <1>1, <1>2, MessageTasks
<1>5. \A t : t # s => (Connecting(t)' <=> Connecting(t)) /\ (Detecting(t)' <=> Detecting(t))
  BY <1>1, <1>4, TasksFrame DEF Connecting, Detecting
<1>6. Stage(s) \in {"detecting", "connecting", "relaying"}
  <2>1. Head(pipe).id \in {"HOST_DETECT_RESULT", "HOST_CONNECT_RESULT"}
    BY <1>0, <1>1, HeadOfPipe DEF Message
  <2>2. QED
    BY <1>1, <1>2, <2>1, HeadStage
<1>7. ~ Live(s)' /\ \A t \in SessionId \ {s} : Live(t)' <=> Live(t)
  BY <1>0, <1>1, <1>2 DEF Live, TypeOK
<1>8. QED
  BY <1>1, <1>2, <1>3, <1>5, <1>6, <1>7, EndedStage

\* A socket of a relayed session, and with it the session, is destroyed.
LEMMA DestroyImplements ==
    ASSUME SInv, SInv', NEW f \in Registered, EndSession(sockets[f].sid),
           UNCHANGED <<nextId, work, workers, pipe>>, Rejected' = Rejected, Running, Running'
    PROVE  Protocol!Next
<1>0. TypeOK /\ FreshIds
  BY DEF SInv
<1>1. PICK s \in SessionId : s = sockets[f].sid /\ s \in Relaying
  BY <1>0, SocketType DEF Registered, Relaying
<1>2. Live(s)
  BY <1>1 DEF SInv, LiveIffHeld
<1>3. ~ Detecting(s) /\ ~ Connecting(s)
  BY <1>0, <1>1, HeldOnceParts, HeldHasTask DEF SInv
<1>4. Stage(s) = "relaying"
  <2>1. s < nextId /\ s \in Nat /\ nextId \in Nat
    BY <1>0, <1>2, BoundsAssumption DEF FreshIds, SessionId, TypeOK
  <2>2. ~ (s >= nextId)
    BY <2>1
  <2>3. QED
    BY <1>2, <1>3, <2>2, SInvStageReads DEF StageReads
<1>5. ~ Live(s)' /\ \A t \in SessionId \ {s} : Live(t)' <=> Live(t)
  BY <1>0, <1>1 DEF Live, TypeOK, EndSession
<1>6. QED
  BY <1>2, <1>4, <1>5, SameTasks, EndedStage

LEMMA CloseAndPruneImplement ==
    ASSUME SInv, SInv', CloseSession \/ PruneExcessConnections
    PROVE  Protocol!Next
<1> TypeOK
  BY DEF SInv
<1>1. CASE CloseSession
  <2>1. PICK e \in events :
          /\ e.type = "Client" /\ sockets[e.fd] # None
          /\ EndSession(sockets[e.fd].sid)
    BY <1>1 DEF CloseSession
  <2>2. e.fd \in Registered
    BY <2>1, ClientEventType DEF Registered
  <2>3. UNCHANGED <<nextId, work, workers, pipe>> /\ Rejected' = Rejected /\ Running /\ Running'
    BY <1>1 DEF CloseSession, Rejected, Running, Loop
  <2>4. QED
    BY <2>1, <2>2, <2>3, DestroyImplements
<1>2. CASE PruneExcessConnections
  <2>1. PICK f \in Registered : EndSession(sockets[f].sid)
    BY <1>2 DEF PruneExcessConnections
  <2>2. UNCHANGED <<nextId, work, workers, pipe>> /\ Rejected' = Rejected /\ Running /\ Running'
    BY <1>2 DEF PruneExcessConnections, Rejected, Running, Pruning, Loop
  <2>3. QED
    BY <2>1, <2>2, DestroyImplements
<1>3. QED
  BY <1>1, <1>2

\* From hand to hand a session keeps its stage: the rejected one in the dispatch
\* thread, ...
LEMMA SendErrorImplements ==
    ASSUME SInv, SInv', SendErrorResponse
    PROVE  UNCHANGED Protocol!pvars
<1>0. TypeOK
  BY DEF SInv
<1>1. main.pc = "reject" /\ main' = Loop /\ UNCHANGED <<sessions, nextId, work, workers>>
  BY DEF SendErrorResponse
<1>2. PICK s \in SessionId : s = main.sid
  BY <1>0, <1>1 DEF TypeOK, Dispatcher, Loop, Pruning, Down
<1>3. PICK m \in Message : WriteMessage(m) /\ m.id = "HOST_CONNECT_RESULT" /\ m.sid = s
  <2>1. ConnectResult(s, None, FALSE) \in Message
    BY DEF ConnectResult, Message
  <2>2. QED
    BY <1>2, <2>1 DEF SendErrorResponse, ConnectResult
<1>4. /\ \A t : PipeTask("HOST_CONNECT_RESULT", t)' <=> PipeTask("HOST_CONNECT_RESULT", t) \/ t = s
      /\ \A t : PipeTask("HOST_DETECT_RESULT", t)' <=> PipeTask("HOST_DETECT_RESULT", t)
  BY <1>0, <1>3, WrittenTasks
<1>5. main'.pc # "reject"
  BY <1>1 DEF Loop
<1>6. \A t : (Connecting(t)' <=> Connecting(t)) /\ (Detecting(t)' <=> Detecting(t))
  BY <1>1, <1>2, <1>4, <1>5, TasksFrame DEF Connecting, Detecting
<1>7. Running /\ Running'
  BY <1>1 DEF Running, Loop
<1>8. QED
  BY <1>1, <1>6, <1>7, NoMove DEF Live

\* ... the queued one in the thread that takes it, ...
LEMMA TakeImplements ==
    ASSUME SInv, SInv', NEW w \in Workers, TakeWork(w)
    PROVE  UNCHANGED Protocol!pvars
<1>0. TypeOK /\ HeldApart /\ ServerFds
  BY HeldOnceParts DEF SInv
<1>1. Running /\ work # <<>> /\ work' = Tail(work) /\ UNCHANGED <<sessions, nextId, pipe>>
  BY DEF TakeWork
<1>2. Live(Head(work).sid)
  BY <1>0, <1>1, TakeMoves DEF SInv, LiveIffHeld
<1>3. PICK s \in SessionId, d \in BOOLEAN :
        /\ s = Head(work).sid
        /\ Head(work) = [task |-> IF d THEN "asyncDetector" ELSE "asyncConnector", sid |-> s]
  BY <1>0, <1>1, HeadOfWork DEF Work
<1>4. workers' = [workers EXCEPT ![w] = [pc |-> IF d THEN "detect" ELSE "resolve", sid |-> s, fd |-> None]]
  BY <1>2, <1>3 DEF TakeWork
<1>5. main' = main /\ Running'
  BY <1>1, <1>2 DEF TakeWork, Running
<1>6. workers[w].pc = "idle"
  BY DEF TakeWork, Idle
<1>7. /\ \A t : HandTask({"detect"}, t)' <=> HandTask({"detect"}, t) \/ (d /\ t = s)
      /\ \A t : HandTask({"resolve", "dial"}, t)' <=> HandTask({"resolve", "dial"}, t) \/ (~ d /\ t = s)
  <2>1. /\ workers'[w].pc = (IF d THEN "detect" ELSE "resolve") /\ workers'[w].sid = s
        /\ \A v \in Workers : v # w => workers'[v] = workers[v]
    BY <1>0, <1>4 DEF TypeOK
  <2>2. QED
    BY <1>6, <2>1 DEF HandTask
<1>8. /\ \A t : WorkTask("asyncDetector", t) <=> WorkTask("asyncDetector", t)' \/ (d /\ t = s)
      /\ \A t : WorkTask("asyncConnector", t) <=> WorkTask("asyncConnector", t)' \/ (~ d /\ t = s)
  BY <1>0, <1>1, <1>3, TakenTasks
<1>9. \A t : (Connecting(t)' <=> Connecting(t)) /\ (Detecting(t)' <=> Detecting(t))
  BY <1>1, <1>5, <1>7, <1>8, TasksFrame DEF Connecting, Detecting
<1>10. QED
  BY <1>1, <1>5, <1>9, NoMove DEF Live

\* ... the one in hand in the message that reports on it, ...
LEMMA ReportImplements ==
    ASSUME SInv, SInv', NEW w \in Workers, Reporting(w)
    PROVE  UNCHANGED Protocol!pvars
<1>0. TypeOK
  BY DEF SInv
<1>1. InHand(w) /\ Running /\ LetsGo(w) /\ UNCHANGED <<sessions, nextId, work, main>>
  BY <1>0, ReportingSteps
<1>2. PICK s \in SessionId : s = workers[w].sid
  <2>1. workers[w] \in Worker
    BY <1>0 DEF TypeOK
  <2>2. QED
    BY <1>1, <2>1 DEF InHand, Worker, Idle
<1>3. PICK r \in Worker : r.pc \in {"idle", "clear"} /\ workers' = [workers EXCEPT ![w] = r]
  BY <1>1 DEF LetsGo
<1>4. /\ workers'[w].pc \in {"idle", "clear"}
      /\ \A v \in Workers : v # w => workers'[v] = workers[v]
  BY <1>0, <1>3 DEF TypeOK
<1>5. PICK d \in BOOLEAN :
        /\ workers[w].pc \in (IF d THEN {"detect"} ELSE {"resolve", "dial"})
        /\ \E m \in Message :
            /\ WriteMessage(m) /\ m.sid = s
            /\ m.id = IF d THEN "HOST_DETECT_RESULT" ELSE "HOST_CONNECT_RESULT"
  <2>1. CASE AsyncDetector(w)
    <3>1. PICK ok \in BOOLEAN :
            WriteMessage([id |-> "HOST_DETECT_RESULT", sid |-> s, fd |-> None, success |-> ok])
      BY <1>2, <2>1 DEF AsyncDetector
    <3>2. [id |-> "HOST_DETECT_RESULT", sid |-> s, fd |-> None, success |-> ok] \in Message
      BY DEF Message
    <3>3. workers[w].pc = "detect"
      BY <2>1 DEF AsyncDetector
    <3>4. QED
      BY <3>1, <3>2, <3>3
  <2>2. CASE ResolveFails(w) \/ DialFails(w) \/ DialSucceeds(w)
    <3>1. workers[w].pc \in {"resolve", "dial"}
      BY <2>2 DEF ResolveFails, DialFails, DialSucceeds
    <3>2. PICK m \in Message : WriteMessage(m) /\ m.sid = s /\ m.id = "HOST_CONNECT_RESULT"
      <4>1. ASSUME NEW f, NEW ok, WriteMessage(ConnectResult(s, f, ok)), ConnectResult(s, f, ok) \in Message
            PROVE  \E m \in Message : WriteMessage(m) /\ m.sid = s /\ m.id = "HOST_CONNECT_RESULT"
        BY <4>1 DEF ConnectResult
      <4>2. CASE ResolveFails(w) \/ DialFails(w)
        <5>1. WriteMessage(ConnectResult(s, None, FALSE))
          BY <1>2, <4>2 DEF ResolveFails, DialFails
        <5>2. ConnectResult(s, None, FALSE) \in Message
          BY DEF ConnectResult, Message
        <5>3. QED
          BY <4>1, <5>1, <5>2
      <4>3. CASE DialSucceeds(w)
        <5>1. WriteMessage(ConnectResult(s, workers[w].fd, TRUE)) /\ workers[w].pc = "dial"
          BY <1>2, <4>3 DEF DialSucceeds
        <5>2. workers[w] \in Worker
          BY <1>0 DEF TypeOK
        <5>3. workers[w].fd \in Fds
          BY <5>1, <5>2 DEF Worker, Idle
        <5>4. ConnectResult(s, workers[w].fd, TRUE) \in Message
          BY <5>3 DEF ConnectResult, Message
        <5>5. QED
          BY <4>1, <5>1, <5>4
      <4>4. QED
        BY <2>2, <4>2, <4>3
    <3>3. QED
      BY <3>1, <3>2
  <2>3. QED
    BY <2>1, <2>2 DEF Reporting
<1>6. /\ \A t : HandTask({"detect"}, t) <=> HandTask({"detect"}, t)' \/ (d /\ t = s)
      /\ \A t : HandTask({"resolve", "dial"}, t)
                  <=> HandTask({"resolve", "dial"}, t)' \/ (~ d /\ t = s)
  BY <1>2, <1>4, <1>5 DEF HandTask
<1>7. /\ \A t : PipeTask("HOST_DETECT_RESULT", t)'
                  <=> PipeTask("HOST_DETECT_RESULT", t) \/ (d /\ t = s)
      /\ \A t : PipeTask("HOST_CONNECT_RESULT", t)'
                  <=> PipeTask("HOST_CONNECT_RESULT", t) \/ (~ d /\ t = s)
  BY <1>0, <1>5, WrittenTasks
<1>8. \A t : (Connecting(t)' <=> Connecting(t)) /\ (Detecting(t)' <=> Detecting(t))
  BY <1>1, <1>6, <1>7, TasksFrame DEF Connecting, Detecting
<1>9. Running'
  BY <1>1 DEF Running
<1>10. QED
  BY <1>1, <1>8, <1>9, NoMove DEF Live

\* ... and a thread keeps the session it has in hand, or has none.
LEMMA OpenAndClearImplement ==
    ASSUME SInv, SInv', NEW w \in Workers, OpenSocket(w) \/ ClearCacheForHost(w)
    PROVE  UNCHANGED Protocol!pvars
<1>0. TypeOK
  BY DEF SInv
<1>1. Running /\ UNCHANGED <<sessions, nextId, work, pipe, main>>
  BY DEF OpenSocket, ClearCacheForHost
<1>2. \A v \in Workers : v # w => workers'[v] = workers[v]
  BY <1>0 DEF OpenSocket, ClearCacheForHost, TypeOK
<1>3. \/ /\ workers[w].pc = "resolve"
         /\ workers'[w].pc = "dial" /\ workers'[w].sid = workers[w].sid
      \/ workers[w].pc = "clear" /\ workers'[w].pc = "idle"
  BY <1>0 DEF OpenSocket, ClearCacheForHost, TypeOK, Idle
<1>4. /\ \A t : HandTask({"detect"}, t)' <=> HandTask({"detect"}, t)
      /\ \A t : HandTask({"resolve", "dial"}, t)' <=> HandTask({"resolve", "dial"}, t)
  BY <1>2, <1>3 DEF HandTask
<1>5. \A t : (Connecting(t)' <=> Connecting(t)) /\ (Detecting(t)' <=> Detecting(t))
  BY <1>1, <1>4, TasksFrame DEF Connecting, Detecting
<1>6. Running'
  BY <1>1 DEF Running
<1>7. QED
  BY <1>1, <1>5, <1>6, NoMove DEF Live

LEMMA QuietStepsImplement ==
    ASSUME SInv, SInv',
           \/ EpollWait \/ EpollTimeout \/ AcceptFails \/ SkipEvent
           \/ ReadNothing \/ RelayData \/ RelayStalls \/ StalledWriteEnds \/ RemoteCloses
           \/ \E w \in Workers : UseAfterErase(w)
    PROVE  Protocol!Next \/ UNCHANGED Protocol!pvars
<1>1. UNCHANGED <<sessions, nextId, work, workers, pipe>>
  BY DEF EpollWait, EpollTimeout, AcceptFails, SkipEvent, ReadNothing, RelayData, RelayStalls,
         StalledWriteEnds, RemoteCloses, UseAfterErase
<1>2. Running /\ (Rejected' = Rejected \/ ~ Running')
  <2>1. CASE EpollWait \/ EpollTimeout \/ AcceptFails \/ SkipEvent \/ RelayStalls
    BY <2>1 DEF EpollWait, EpollTimeout, AcceptFails, SkipEvent, RelayStalls,
                Rejected, Running, Loop, Pruning, Down
  <2>2. CASE ReadNothing \/ RelayData
    <3>1. PICK s : main = Loop /\ main' = AfterRelay(s)
      BY <2>2 DEF ReadNothing, RelayData
    <3>2. QED
      BY <3>1 DEF AfterRelay, Rejected, Running, Loop, Down
  <2>3. CASE StalledWriteEnds
    BY <2>3 DEF StalledWriteEnds, AfterRelay, Rejected, Running, Loop, Down
  <2>4. CASE RemoteCloses
    BY <2>4 DEF RemoteCloses, Rejected, Running
  <2>5. CASE \E w \in Workers : UseAfterErase(w)
    BY <2>5 DEF UseAfterErase, Rejected, Running, Down
  <2>6. QED
    BY <2>1, <2>2, <2>3, <2>4, <2>5
<1>3. QED
  BY <1>1, <1>2, QuietImplements

LEMMA StutterImplements ==
    ASSUME SInv, SInv', UNCHANGED vars
    PROVE  UNCHANGED Protocol!pvars
<1>1. UNCHANGED <<sessions, nextId, work, workers, pipe, main>>
  BY DEF vars
<1>2. Running' = Running /\ Rejected' = Rejected
  BY <1>1 DEF Running, Rejected
<1>3. \A t \in SessionId : Stage(t)' = Stage(t)
  <2>1. \A t \in SessionId : /\ Live(t)' <=> Live(t)
                             /\ Detecting(t)' <=> Detecting(t)
                             /\ Connecting(t)' <=> Connecting(t)
    BY <1>1, <1>2, SameTasks DEF Live
  <2>2. QED
    BY <1>1, <1>2, <2>1, SInvStageReads, SInvStageReadsNext DEF StageReads
<1>4. [s \in SessionId |-> Stage(s)]' = [s \in SessionId |-> Stage(s)]
  BY <1>3
<1>5. QED
  BY <1>2, <1>4 DEF Protocol!pvars

LEMMA StepImplements ==
    ASSUME SInv, SInv', [Next]_vars
    PROVE  Protocol!Next \/ UNCHANGED Protocol!pvars
<1>1. ~ CommandFault
  BY HeadSession DEF CommandFault
<1>2. CASE MainStep
  BY <1>1, <1>2, QuietStepsImplement, AcceptImplements, ConnectImplements, RegisterImplements,
     RefuseImplements, CloseAndPruneImplement, SendErrorImplements DEF MainStep
<1>3. ASSUME NEW w \in Workers, WorkerStep(w) PROVE Protocol!Next \/ UNCHANGED Protocol!pvars
  BY <1>3, TakeImplements, ReportImplements, OpenAndClearImplement, QuietStepsImplement
     DEF WorkerStep, Reporting
<1>4. CASE StalledWriteEnds \/ RemoteCloses
  BY <1>4, QuietStepsImplement
<1>5. CASE Terminated \/ UNCHANGED vars
  BY <1>5, StutterImplements DEF Terminated
<1>6. QED
  BY <1>2, <1>3, <1>4, <1>5 DEF Next

LEMMA InitImplements == Init => Protocol!Init
<1> SUFFICES ASSUME Init PROVE Protocol!Init
  OBVIOUS
<1>1. Running = TRUE
  BY DEF Init, Running, Loop
<1>2. \A s \in SessionId : s >= nextId
  BY BoundsAssumption DEF Init, SessionId
<1>3. \A s \in SessionId : Stage(s) = "new"
  <2> SUFFICES ASSUME NEW s \in SessionId PROVE Stage(s) = "new"
    OBVIOUS
  <2>1. s >= nextId /\ ~ (s < nextId)
    BY <1>2, BoundsAssumption DEF Init, SessionId
  <2>2. QED
    BY <2>1 DEF Stage
<1>4. QED
  BY <1>1, <1>3 DEF Protocol!Init

\* The threads, queues, messages and descriptors together implement the protocol
\* of a session, for any number of threads, descriptors and sessions: a session
\* is accepted once, its request is read before a connection is made for it, it
\* is relayed only over an established connection, and once ended it stays so.
THEOREM ProxyImplementsProtocol ==
    ASSUME Faults = {}
    PROVE  Spec => ImplementsProtocol
<1>1. SInv /\ SInv' /\ [Next]_vars => [Protocol!Next]_(Protocol!pvars)
  BY StepImplements
<1>2. QED
  BY <1>1, InitImplements, SessionInvariance, PTL DEF Spec, ImplementsProtocol, Protocol!Spec

-----------------------------------------------------------------------------
(* What holds of the sockets and the events of the dispatch thread         *)
(* whatever fails.  With a fault a session may come to be relayed and      *)
(* handled at once, and may have lost its descriptor; what is left is that *)
(* the descriptors of the sessions on their way through the threads are    *)
(* open and not registered.                                                *)

\* Nothing refers to a session that is yet to come.
GivenOut == \A s \in SessionId : s \in Held \/ Live(s) => s < nextId

\* The client of a session on its way is open and not registered, ...
HeldClients ==
    \A s \in Held : Live(s) =>
        /\ fds[sessions[s]] # None /\ fds[sessions[s]].role = "client"
        /\ sockets[sessions[s]] = None

\* ... and is the client of no other session on its way.
OwnClients ==
    \A s, t \in Held : Live(s) /\ sessions[s] = sessions[t] => s = t

\* The same of the descriptor that is dialled with, or that a message carries.
ServersUnregistered ==
    /\ \A w \in Workers : workers[w].pc = "dial" => sockets[workers[w].fd] = None
    /\ \A i \in DOMAIN pipe : pipe[i].fd # None => sockets[pipe[i].fd] = None

\* An event on the pipe has a message, the same one until it is dispatched, and
\* no other event of the pass has one of the descriptors that it will register.
HeadPrepared ==
    CommandEvent \in events =>
        /\ pipe # <<>>
        /\ \A e \in events : e.type = "Client" =>
            /\ e.fd # Head(pipe).fd
            /\ Live(Head(pipe).sid) => e.fd # sessions[Head(pipe).sid]

\* The inductive invariant.
DInv ==
    /\ TypeOK
    /\ HeldApart
    /\ GivenOut
    /\ HeldClients
    /\ OwnClients
    /\ ServerFds
    /\ ServersUnregistered
    /\ RegisteredOpen
    /\ HeadPrepared
    /\ EventsNotStale

LEMMA HeldType ==
    ASSUME TypeOK
    PROVE  Held \subseteq SessionId
<1>1. Queued \subseteq SessionId
  <2>1. \A m \in Work : m.sid \in SessionId
    BY DEF Work
  <2>2. QED
    BY <2>1 DEF Queued, SidsIn, TypeOK
<1>2. Handled \subseteq SessionId
  <2>1. \A r \in Worker : r.pc \in {"detect", "resolve", "dial"} => r.sid \in SessionId
    BY DEF Worker, Idle
  <2>2. QED
    BY <2>1 DEF Handled, InHand, TypeOK
<1>3. Reported \subseteq SessionId
  <2>1. \A m \in Message : m.sid \in SessionId
    BY DEF Message
  <2>2. QED
    BY <2>1 DEF Reported, SidsIn, TypeOK
<1>4. Rejected \subseteq SessionId
  BY DEF Rejected, TypeOK, Dispatcher, Loop, Pruning, Down
<1>5. QED
  BY <1>1, <1>2, <1>3, <1>4 DEF Held

-----------------------------------------------------------------------------
(* What stays as it is. *)

\* The first message of the pipe stays the first until it is dispatched.
LEMMA HeadFrame ==
    ASSUME HeadPrepared, events' \subseteq events,
           CommandEvent \in events' =>
               /\ pipe' # <<>> /\ Head(pipe') = Head(pipe)
               /\ \/ sessions'[Head(pipe).sid] = None
                  \/ sessions'[Head(pipe).sid] = sessions[Head(pipe).sid]
    PROVE  HeadPrepared'
BY DEF HeadPrepared, Live

\* Sockets that go, or are marked, leave no event for another socket.
LEMMA EventsFrame ==
    ASSUME TypeOK, EventsNotStale, events' \subseteq events,
           \A f \in Fds : sockets'[f] # None => sockets[f] # None /\ sockets'[f].sid = sockets[f].sid
    PROVE  EventsNotStale'
BY ClientEventType DEF EventsNotStale

\* A message is written behind the others: the first one stays the first.
LEMMA WrittenBehind ==
    ASSUME TypeOK, HeadPrepared, NEW m \in Message, WriteMessage(m), UNCHANGED <<sessions, events>>
    PROVE  /\ HeadPrepared'
           /\ \A i \in DOMAIN pipe' : pipe'[i] = m \/ \E j \in DOMAIN pipe : pipe'[i] = pipe[j]
<1>1. pipe' = Append(pipe, m) /\ pipe \in Seq(Message)
  BY DEF WriteMessage, TypeOK
<1>2. pipe # <<>> => pipe' # <<>> /\ Head(pipe') = Head(pipe)
  BY <1>1
<1>3. HeadPrepared'
  BY <1>2, HeadFrame DEF HeadPrepared
<1>4. ASSUME NEW i \in DOMAIN pipe'
      PROVE  pipe'[i] = m \/ \E j \in DOMAIN pipe : pipe'[i] = pipe[j]
  <2>1. /\ Len(pipe) \in Nat /\ DOMAIN pipe = 1 .. Len(pipe)
        /\ DOMAIN pipe' = 1 .. (Len(pipe) + 1)
        /\ pipe'[Len(pipe) + 1] = m
        /\ \A j \in DOMAIN pipe : pipe'[j] = pipe[j]
    BY <1>1
  <2>2. i = Len(pipe) + 1 \/ i \in DOMAIN pipe
    BY <2>1
  <2>3. QED
    BY <2>1, <2>2
<1>5. QED
  BY <1>3, <1>4

\* Steps that hand sessions on and leave the descriptors alone.
LEMMA HandOn ==
    ASSUME DInv, TypeOK', UNCHANGED <<sessions, nextId, fds>>, Registered' = Registered,
           Held' \subseteq Held, HeldApart', ServerFds', ServersUnregistered',
           HeadPrepared', EventsNotStale'
    PROVE  DInv'
<1> USE DEF DInv
<1>1. GivenOut'
  BY DEF GivenOut, Live
<1>2. HeldClients'
  <2> SUFFICES ASSUME NEW s \in Held, Live(s)
               PROVE  /\ fds[sessions[s]] # None /\ fds[sessions[s]].role = "client"
                      /\ sockets'[sessions[s]] = None
    BY DEF HeldClients, Live
  <2>1. /\ fds[sessions[s]] # None /\ fds[sessions[s]].role = "client"
        /\ sockets[sessions[s]] = None
    BY DEF HeldClients
  <2>2. sessions[s] \in Fds
    BY HeldType DEF Live, TypeOK
  <2>3. QED
    BY <2>1, <2>2 DEF Registered
<1>3. OwnClients'
  BY DEF OwnClients, Live
<1>4. RegisteredOpen'
  BY DEF RegisteredOpen
<1>5. QED
  BY <1>1, <1>2, <1>3, <1>4

\* Steps that change no session, no descriptor and no queue.
LEMMA QuietD ==
    ASSUME DInv, TypeOK', UNCHANGED <<sessions, nextId, fds, work, workers, pipe>>,
           Registered' = Registered, \A f \in Registered : sockets'[f].sid = sockets[f].sid,
           main'.pc = "reject" => main' = main,
           events' \subseteq events
    PROVE  DInv'
<1> USE DEF DInv
<1>1. /\ Queued' = Queued /\ Handled' = Handled /\ Reported' = Reported
      /\ NoSidTwice(work)' = NoSidTwice(work) /\ NoSidTwice(pipe)' = NoSidTwice(pipe)
      /\ \A w \in Workers : InHand(w)' = InHand(w)
  BY QueuesFrame
<1>2. Rejected' \subseteq Rejected
  BY DEF Rejected
<1>3. HeldApart' /\ Held' \subseteq Held
  BY <1>1, <1>2 DEF HeldApart, HandsApart, Held
<1>4. ServerFds'
  BY DEF ServerFds
<1>5. ServersUnregistered'
  <2>1. \A f \in Fds : sockets[f] = None => sockets'[f] = None
    BY DEF Registered
  <2>2. QED
    BY <2>1, ServerFdsOpen DEF ServersUnregistered
<1>6. HeadPrepared'
  BY HeadFrame DEF HeadPrepared
<1>7. EventsNotStale'
  BY EventsFrame DEF Registered
<1>8. QED
  BY <1>3, <1>4, <1>5, <1>6, <1>7, HandOn

LEMMA InitDInv == Init => DInv
<1> SUFFICES ASSUME Init PROVE DInv
  OBVIOUS
<1>1. TypeOK
  BY InitTypeOK
<1>2. /\ Queued = {} /\ Handled = {} /\ Reported = {} /\ Rejected = {} /\ Registered = {}
  BY DEF Init, Queued, Handled, Reported, Rejected, Registered, SidsIn, InHand, Idle, Loop
<1>3. Held = {}
  BY <1>2 DEF Held
<1>4. HeldApart
  BY <1>2 DEF HeldApart, HandsApart, NoSidTwice, Init, InHand, Idle
<1>5. GivenOut /\ HeldClients /\ OwnClients
  BY <1>3 DEF GivenOut, HeldClients, OwnClients, Live, Init
<1>6. ServerFds /\ ServersUnregistered /\ RegisteredOpen
  BY <1>2 DEF ServerFds, ServersUnregistered, RegisteredOpen, Init, Idle
<1>7. HeadPrepared /\ EventsNotStale
  BY DEF HeadPrepared, EventsNotStale, Init
<1>8. QED
  BY <1>1, <1>4, <1>5, <1>6, <1>7 DEF DInv

-----------------------------------------------------------------------------
(* The steps of the dispatch thread and of the remote ends. *)

\* The session of the first message and its descriptors.
LEMMA HeadHeld ==
    ASSUME DInv, pipe # <<>>
    PROVE  /\ Head(pipe).sid \in SessionId /\ Head(pipe).sid \in Reported
           /\ Head(pipe).sid \in Held /\ Head(pipe).sid < nextId
           /\ Head(pipe).sid \notin Queued \cup Handled \cup Rejected
           /\ Live(Head(pipe).sid) =>
                /\ sessions[Head(pipe).sid] \in Fds
                /\ fds[sessions[Head(pipe).sid]] # None
                /\ fds[sessions[Head(pipe).sid]].role = "client"
                /\ sockets[sessions[Head(pipe).sid]] = None
           /\ Head(pipe).fd # None =>
                /\ Head(pipe).fd \in Fds
                /\ fds[Head(pipe).fd] = [role |-> "server", sid |-> Head(pipe).sid]
                /\ sockets[Head(pipe).fd] = None
<1> USE DEF DInv
<1>1. /\ Head(pipe).sid \in SessionId /\ Head(pipe).sid \in Reported
      /\ Head(pipe) = pipe[1] /\ 1 \in DOMAIN pipe
  BY FirstMessage DEF HeldApart
<1>2. Head(pipe).sid \in Held /\ Head(pipe).sid \notin Queued \cup Handled \cup Rejected
  BY <1>1 DEF Held, HeldApart
<1>3. Head(pipe).sid < nextId
  BY <1>1, <1>2 DEF GivenOut
<1>4. Live(Head(pipe).sid) =>
        /\ sessions[Head(pipe).sid] \in Fds
        /\ fds[sessions[Head(pipe).sid]] # None
        /\ fds[sessions[Head(pipe).sid]].role = "client"
        /\ sockets[sessions[Head(pipe).sid]] = None
  BY <1>1, <1>2 DEF HeldClients, Live, TypeOK
<1>5. Head(pipe).fd # None =>
        /\ Head(pipe).fd \in Fds
        /\ fds[Head(pipe).fd] = [role |-> "server", sid |-> Head(pipe).sid]
        /\ sockets[Head(pipe).fd] = None
  BY <1>1, ServerFdsOpen DEF ServerFds, ServersUnregistered
<1>6. QED
  BY <1>1, <1>2, <1>3, <1>4, <1>5

\* epoll reports sockets that are registered, and so none of the descriptors
\* that the first message of the pipe is going to register.
LEMMA EpollWaitD ==
    ASSUME DInv, TypeOK', EpollWait
    PROVE  DInv'
<1>1. UNCHANGED <<sessions, nextId, fds, sockets, work, workers, pipe, main>>
  BY DEF EpollWait
<1>2. \A e \in events' : \/ e = ServerEvent
                         \/ e = CommandEvent /\ pipe # <<>>
                         \/ \E f \in Registered : e = ClientEvent(f)
  BY DEF EpollWait, MayReport, MustReport
<1>3. \A e \in events' : e.type = "Client" =>
        e.fd \in Fds /\ sockets[e.fd] # None /\ sockets[e.fd].sid = e.sid
  BY <1>2 DEF ServerEvent, CommandEvent, ClientEvent, Registered
<1>4. CommandEvent \in events' => pipe # <<>>
  <2>1. CommandEvent # ServerEvent /\ \A f \in Fds : CommandEvent # ClientEvent(f)
    BY DEF ServerEvent, CommandEvent, ClientEvent
  <2>2. QED
    BY <1>2, <2>1 DEF Registered
<1>5. HeadPrepared'
  <2> SUFFICES ASSUME pipe # <<>>, NEW e \in events', e.type = "Client"
               PROVE  /\ e.fd # Head(pipe).fd
                      /\ Live(Head(pipe).sid) => e.fd # sessions[Head(pipe).sid]
    BY <1>1, <1>4 DEF HeadPrepared, Live
  <2>1. e.fd \in Fds /\ e.fd # None /\ sockets[e.fd] # None
    BY <1>3, NoneAssumption
  <2>2. QED
    BY <2>1, HeadHeld
<1>6. EventsNotStale'
  BY <1>1, <1>3 DEF EventsNotStale
<1>7. HeldApart' /\ Held' \subseteq Held
  BY <1>1, QueuesFrame DEF HeldApart, HandsApart, Held, Rejected, DInv
<1>8. ServerFds' /\ ServersUnregistered' /\ Registered' = Registered
  BY <1>1 DEF ServerFds, ServersUnregistered, Registered, DInv
<1>9. QED
  BY <1>1, <1>5, <1>6, <1>7, <1>8, HandOn

LEMMA QuietStepsD ==
    ASSUME DInv, TypeOK',
           \/ EpollTimeout \/ AcceptFails \/ SkipEvent \/ RelayStalls \/ CommandFault
           \/ \E w \in Workers : UseAfterErase(w)
           \/ UNCHANGED vars
    PROVE  DInv'
<1>1. UNCHANGED <<sessions, nextId, fds, sockets, work, workers, pipe>> /\ events' \subseteq events
  BY DEF EpollTimeout, AcceptFails, SkipEvent, RelayStalls, CommandFault, UseAfterErase, vars
<1>2. main'.pc = "reject" => main' = main
  BY DEF EpollTimeout, AcceptFails, SkipEvent, RelayStalls, CommandFault, UseAfterErase, vars,
         Loop, Down, Pruning
<1>3. Registered' = Registered
  BY <1>1 DEF Registered
<1>4. QED
  BY <1>1, <1>2, <1>3, QuietD

LEMMA MarkingStepsD ==
    ASSUME DInv, TypeOK', ReadNothing \/ RelayData \/ StalledWriteEnds \/ RemoteCloses
    PROVE  DInv'
<1> TypeOK
  BY DEF DInv
<1>1. /\ Registered' = Registered
      /\ \A g \in Registered : sockets'[g].sid = sockets[g].sid
  BY MarkingKeeps
<1>2. UNCHANGED <<sessions, nextId, fds, work, workers, pipe>> /\ events' \subseteq events
  BY DEF ReadNothing, RelayData, StalledWriteEnds, RemoteCloses
<1>3. main'.pc = "reject" => main' = main
  <2>1. CASE RemoteCloses
    BY <2>1 DEF RemoteCloses
  <2>2. CASE ReadNothing \/ RelayData \/ StalledWriteEnds
    <3>1. \E x : main' = AfterRelay(x)
      BY <2>2 DEF ReadNothing, RelayData, StalledWriteEnds
    <3>2. QED
      BY <3>1 DEF AfterRelay, Loop, Down
  <2>3. QED
    BY <2>1, <2>2
<1>4. QED
  BY <1>1, <1>2, <1>3, QuietD

\* A connection is accepted on a descriptor that nobody has: the session that
\* the lookup by descriptor finds, new or forgotten, is on its way nowhere else.
LEMMA AcceptD ==
    ASSUME DInv, TypeOK', HandleServerSocketRead
    PROVE  DInv'
<1> USE DEF DInv
<1>1. PICK f \in Fds :
        /\ fds[f] = None
        /\ fds' = [fds EXCEPT ![f] = [role |-> "client", sid |-> nextId]]
        /\ sessions' = [sessions EXCEPT ![nextId] = f]
        /\ work' = Append(work, [task |-> "asyncDetector", sid |-> GetSessionForClient(sessions', f)])
  BY DEF HandleServerSocketRead
<1> DEFINE n == GetSessionForClient(sessions', f)
           m == [task |-> "asyncDetector", sid |-> n]
<1>2. nextId \in SessionId /\ f # None /\ nextId' = nextId + 1 /\ nextId \in Nat
  BY BoundsAssumption, NoneAssumption DEF HandleServerSocketRead, SessionId, TypeOK
<1>3. /\ UNCHANGED <<sockets, workers, pipe, main>> /\ events' \subseteq events
  BY DEF HandleServerSocketRead
<1>4. /\ sessions'[nextId] = f
      /\ \A s \in SessionId : s # nextId => sessions'[s] = sessions[s]
  BY <1>1, <1>2 DEF TypeOK
<1>5. n \in SessionId /\ sessions'[n] = f
  BY <1>2, <1>4, FirstSession
<1>6. m \in Work /\ m.sid = n /\ work \in Seq(Work) /\ work' = Append(work, m)
  BY <1>1, <1>5 DEF Work, TypeOK
<1> HIDE DEF n, m
<1>7. \A s \in SessionId : s < nextId => s \in Nat /\ s # nextId /\ s < nextId'
  BY <1>2, BoundsAssumption DEF SessionId
<1>8. /\ Held \subseteq SessionId
      /\ \A s \in Held : s # nextId /\ sessions'[s] = sessions[s] /\ sessions[s] # f
  BY <1>1, <1>2, <1>4, <1>7, HeldType DEF GivenOut, HeldClients, Live
<1>9. n \notin Held
  BY <1>5, <1>8
<1>10. Queued' = Queued \cup {n} /\ NoSidTwice(work)'
  BY <1>6, <1>9, AppendSids DEF Queued, HeldApart, Held
<1>11. Handled' = Handled /\ Reported' = Reported /\ Rejected' = Rejected /\ HandsApart' /\ NoSidTwice(pipe)'
  BY <1>3 DEF Handled, Reported, Rejected, InHand, SidsIn, HandsApart, HeldApart, NoSidTwice
<1>12. HeldApart' /\ Held' = Held \cup {n}
  BY <1>9, <1>10, <1>11 DEF HeldApart, Held
<1>13. GivenOut'
  <2> SUFFICES ASSUME NEW s \in SessionId, s \in Held' \/ Live(s)' PROVE s < nextId'
    BY DEF GivenOut
  <2>1. s = nextId \/ s \in Held \/ Live(s)
    BY <1>2, <1>4, <1>5, <1>12 DEF Live
  <2>2. QED
    BY <1>2, <1>7, <2>1 DEF GivenOut
<1>14. \A g \in Fds : fds[g] # None => g # f /\ fds'[g] = fds[g]
  BY <1>1 DEF TypeOK
<1>15. /\ fds'[f] # None /\ fds'[f].role = "client" /\ sockets'[f] = None
  BY <1>1, <1>2, <1>3, ConnectionIsNotNone DEF RegisteredOpen, Registered, TypeOK
<1>16. HeldClients'
  <2> SUFFICES ASSUME NEW s \in Held', Live(s)'
               PROVE  /\ fds'[sessions'[s]] # None /\ fds'[sessions'[s]].role = "client"
                      /\ sockets'[sessions'[s]] = None
    BY DEF HeldClients
  <2>1. CASE s = n
    BY <1>5, <1>15, <2>1
  <2>2. CASE s \in Held
    <3>1. sessions'[s] = sessions[s] /\ Live(s) /\ sessions[s] \in Fds
      BY <1>8, <2>2 DEF Live, TypeOK
    <3>2. QED
      BY <1>3, <1>14, <2>2, <3>1 DEF HeldClients
  <2>3. QED
    BY <1>12, <2>1, <2>2
<1>17. OwnClients'
  <2> SUFFICES ASSUME NEW s \in Held', NEW t \in Held', Live(s)', sessions'[s] = sessions'[t]
               PROVE  s = t
    BY DEF OwnClients
  <2>1. CASE s \in Held /\ t \in Held
    BY <1>8, <2>1 DEF OwnClients, Live
  <2>2. CASE s \notin Held \/ t \notin Held
    BY <1>5, <1>8, <1>12, <2>2
  <2>3. QED
    BY <2>1, <2>2
<1>18. ServerFds'
  BY <1>3, <1>14, ServerFdsOpen DEF ServerFds
<1>19. ServersUnregistered'
  BY <1>3 DEF ServersUnregistered
<1>20. RegisteredOpen'
  BY <1>3, <1>14 DEF RegisteredOpen, Registered
<1>21. HeadPrepared'
  BY <1>3, <1>8, HeadHeld, HeadFrame DEF HeadPrepared
<1>22. EventsNotStale'
  BY <1>3, EventsFrame
<1>23. QED
  BY <1>12, <1>13, <1>16, <1>17, <1>18, <1>19, <1>20, <1>21, <1>22

\* Reading a message takes its session off its way.
LEMMA MessageGone ==
    ASSUME DInv, pipe # <<>>, ReadMessage, UNCHANGED <<work, workers, main>>
    PROVE  /\ HeldApart' /\ Held' = Held \ {Head(pipe).sid}
           /\ HeadPrepared' /\ events' \subseteq events
           /\ \A i \in DOMAIN pipe' :
                \E j \in DOMAIN pipe : pipe'[i] = pipe[j] /\ pipe[j].sid # Head(pipe).sid
<1> USE DEF DInv
<1>1. pipe' = Tail(pipe) /\ events' = events \ {CommandEvent}
  BY DEF ReadMessage
<1>2. /\ Head(pipe).sid \in Reported
      /\ SidsIn(Tail(pipe)) = Reported \ {Head(pipe).sid}
      /\ NoSidTwice(Tail(pipe)) /\ NoSidTwice(pipe)
      /\ Head(pipe) = pipe[1] /\ 1 \in DOMAIN pipe
      /\ \A i \in DOMAIN Tail(pipe) : \E j \in DOMAIN pipe : Tail(pipe)[i] = pipe[j] /\ j # 1
  BY FirstMessage DEF HeldApart
<1>3. Reported' = Reported \ {Head(pipe).sid} /\ NoSidTwice(pipe)'
  BY <1>1, <1>2 DEF Reported
<1>4. Queued' = Queued /\ Handled' = Handled /\ Rejected' = Rejected /\ HandsApart' /\ NoSidTwice(work)'
  BY DEF Queued, Handled, Rejected, InHand, HandsApart, HeldApart, NoSidTwice
<1>5. HeldApart' /\ Held' = Held \ {Head(pipe).sid}
  BY <1>2, <1>3, <1>4 DEF HeldApart, Held
<1>6. HeadPrepared'
  BY <1>1 DEF HeadPrepared
<1>7. \A i \in DOMAIN pipe' :
        \E j \in DOMAIN pipe : pipe'[i] = pipe[j] /\ pipe[j].sid # Head(pipe).sid
  BY <1>1, <1>2 DEF NoSidTwice
<1>8. QED
  BY <1>1, <1>5, <1>6, <1>7

\* The client of the session is closed; it is the client of no other session on
\* its way, no server and no registered socket.
LEMMA RefuseD ==
    ASSUME DInv, TypeOK', Refuse
    PROVE  DInv'
<1> USE DEF DInv
<1> DEFINE s == Head(pipe).sid
           c == sessions[s]
<1>1. /\ fds' = [fds EXCEPT ![c] = None] /\ sessions' = [sessions EXCEPT ![s] = None]
      /\ UNCHANGED <<nextId, sockets, work, workers, main>>
      /\ pipe # <<>> /\ ReadMessage /\ Live(s)
  BY DEF Refuse, EndSession, CommandReady
<1>2. /\ HeldApart' /\ Held' = Held \ {s} /\ HeadPrepared' /\ events' \subseteq events
      /\ \A i \in DOMAIN pipe' :
           \E j \in DOMAIN pipe : pipe'[i] = pipe[j] /\ pipe[j].sid # s
  BY <1>1, MessageGone
<1>3. /\ s \in SessionId /\ s \in Held /\ c \in Fds
      /\ fds[c] # None /\ fds[c].role = "client" /\ sockets[c] = None
  BY <1>1, HeadHeld
<1> HIDE DEF s, c
<1>4. /\ \A g \in Fds : g # c => fds'[g] = fds[g]
      /\ \A t \in SessionId : t # s => sessions'[t] = sessions[t]
      /\ sessions'[s] = None /\ sessions[s] = c
  BY <1>1, <1>3 DEF TypeOK, c
<1>5. GivenOut'
  BY <1>1, <1>2, <1>4 DEF GivenOut, Live
<1>6. HeldClients'
  <2> SUFFICES ASSUME NEW t \in Held, t # s, sessions'[t] # None
               PROVE  /\ fds'[sessions'[t]] # None /\ fds'[sessions'[t]].role = "client"
                      /\ sockets[sessions'[t]] = None
    BY <1>1, <1>2 DEF HeldClients, Live
  <2>1. t \in SessionId /\ sessions'[t] = sessions[t] /\ sessions[t] \in Fds /\ Live(t)
    BY <1>4, HeldType DEF Live, TypeOK
  <2>2. sessions[t] # c
    BY <1>3, <1>4, <2>1 DEF OwnClients
  <2>3. QED
    BY <1>4, <2>1, <2>2 DEF HeldClients
<1>7. OwnClients'
  BY <1>2, <1>4, HeldType DEF OwnClients, Live
<1>8. \A g \in Fds : \A t : fds[g] = [role |-> "server", sid |-> t] => fds'[g] = fds[g]
  BY <1>3, <1>4
<1>9. ServerFds'
  BY <1>1, <1>2, <1>8, ServerFdsOpen DEF ServerFds
<1>10. ServersUnregistered'
  BY <1>1, <1>2 DEF ServersUnregistered
<1>11. RegisteredOpen'
  BY <1>1, <1>3, <1>4 DEF RegisteredOpen, Registered
<1>12. EventsNotStale'
  BY <1>1, <1>2, EventsFrame
<1>13. QED
  BY <1>2, <1>5, <1>6, <1>7, <1>9, <1>10, <1>11, <1>12

\* Whichever of the two ends epoll takes: what is registered is open, no event
\* of this pass has its descriptor, and what is closed belonged to nobody else.
LEMMA RegisterD ==
    ASSUME DInv, TypeOK', RegisterPair
    PROVE  DInv'
<1> USE DEF DInv
<1> DEFINE s == Head(pipe).sid
           c == sessions[s]
           p == Head(pipe).fd
<1>1. /\ UNCHANGED <<sessions, nextId, work, workers, main>>
      /\ pipe # <<>> /\ ReadMessage /\ Live(s) /\ CommandEvent \in events
      /\ Head(pipe).id = "HOST_CONNECT_RESULT" /\ Head(pipe).success
  BY DEF RegisterPair, CommandReady
<1>2. PICK okC \in AddSocketResults(c), okP \in AddSocketResults(p) :
        /\ sockets' = [f \in Fds |->
                        IF f = c /\ okC THEN NewSocket(p, s, nextReg)
                        ELSE IF f = p /\ okP THEN NewSocket(c, s, nextReg + 1)
                        ELSE sockets[f]]
        /\ fds' = [f \in Fds |-> IF (f = c /\ ~ okC) \/ (f = p /\ ~ okP)
                                 THEN None ELSE fds[f]]
  BY DEF RegisterPair
<1>3. /\ HeldApart' /\ Held' = Held \ {s} /\ HeadPrepared' /\ events' \subseteq events
      /\ \A i \in DOMAIN pipe' :
           \E j \in DOMAIN pipe : pipe'[i] = pipe[j] /\ pipe[j].sid # s
  BY <1>1, MessageGone
<1>4. /\ s \in SessionId /\ s \in Held /\ s \notin Handled /\ c \in Fds
      /\ fds[c] # None /\ fds[c].role = "client" /\ sockets[c] = None
  BY <1>1, HeadHeld
<1>5. /\ p \in Fds /\ fds[p] = [role |-> "server", sid |-> s] /\ sockets[p] = None
  <2>1. p \in Fds /\ p # None
    BY <1>1, HeadOfPipe, NoneAssumption
  <2>2. QED
    BY <1>1, <2>1, HeadHeld
<1>6. \A e \in events : e.type = "Client" => e.fd \notin {c, p}
  BY <1>1 DEF HeadPrepared
<1> HIDE DEF s, c, p
<1>7. c # p /\ okC \in BOOLEAN /\ okP \in BOOLEAN /\ fds[p] # None
  <2>1. c # p /\ fds[p] # None
    BY <1>4, <1>5, ConnectionIsNotNone
  <2>2. AddSocketResults(c) \subseteq BOOLEAN /\ AddSocketResults(p) \subseteq BOOLEAN
    BY DEF AddSocketResults
  <2>3. okC \in BOOLEAN /\ okP \in BOOLEAN
    BY <2>2
  <2>4. QED
    BY <2>1, <2>3
<1>8. /\ \A g \in Fds \ {c, p} : fds'[g] = fds[g] /\ sockets'[g] = sockets[g]
      /\ sockets'[c] # None => fds'[c] = fds[c]
      /\ sockets'[p] # None => fds'[p] = fds[p]
  <2>1. \A g \in Fds \ {c, p} : fds'[g] = fds[g] /\ sockets'[g] = sockets[g]
    BY <1>2
  <2>2. sockets'[c] # None => fds'[c] = fds[c]
    BY <1>2, <1>4, <1>7
  <2>3. sockets'[p] # None => fds'[p] = fds[p]
    BY <1>2, <1>5, <1>7
  <2>4. QED
    BY <2>1, <2>2, <2>3
<1>9. GivenOut'
  BY <1>1, <1>3 DEF GivenOut, Live
<1>10. HeldClients'
  <2> SUFFICES ASSUME NEW t \in Held, t # s, Live(t)
               PROVE  /\ fds'[sessions[t]] # None /\ fds'[sessions[t]].role = "client"
                      /\ sockets'[sessions[t]] = None
    BY <1>1, <1>3 DEF HeldClients, Live
  <2>1. /\ sessions[t] \in Fds /\ fds[sessions[t]] # None /\ fds[sessions[t]].role = "client"
        /\ sockets[sessions[t]] = None
    BY HeldType DEF HeldClients, Live, TypeOK
  <2>2. sessions[t] # c
    BY <1>4 DEF OwnClients, c
  <2>3. sessions[t] # p
    BY <1>5, <2>1
  <2>4. QED
    BY <1>8, <2>1, <2>2, <2>3
<1>11. OwnClients'
  BY <1>1, <1>3 DEF OwnClients, Live
<1>12. \A g \in Fds, t \in SessionId : fds[g] = [role |-> "server", sid |-> t] /\ t # s =>
         g \notin {c, p}
  BY <1>4, <1>5
<1>13. ASSUME NEW w \in Workers, workers[w].pc = "dial"
       PROVE  /\ fds'[workers[w].fd] = [role |-> "server", sid |-> workers[w].sid]
              /\ sockets'[workers[w].fd] = None
  <2>1. /\ workers[w].fd \in Fds /\ workers[w].sid \in SessionId
        /\ fds[workers[w].fd] = [role |-> "server", sid |-> workers[w].sid]
        /\ sockets[workers[w].fd] = None
    BY <1>13, ServerFdsOpen DEF ServerFds, ServersUnregistered
  <2>2. workers[w].sid # s
    BY <1>4, <1>13 DEF Handled, InHand
  <2>3. QED
    BY <1>8, <1>12, <2>1, <2>2
<1>14. ASSUME NEW i \in DOMAIN pipe', pipe'[i].fd # None
       PROVE  /\ fds'[pipe'[i].fd] = [role |-> "server", sid |-> pipe'[i].sid]
              /\ sockets'[pipe'[i].fd] = None
  <2>1. PICK j \in DOMAIN pipe : pipe'[i] = pipe[j] /\ pipe[j].sid # s
    BY <1>3
  <2>2. /\ pipe[j].fd \in Fds /\ pipe[j].sid \in SessionId
        /\ fds[pipe[j].fd] = [role |-> "server", sid |-> pipe[j].sid]
        /\ sockets[pipe[j].fd] = None
    BY <1>14, <2>1, ServerFdsOpen DEF ServerFds, ServersUnregistered
  <2>3. QED
    BY <1>8, <1>12, <2>1, <2>2
<1>15. ServerFds' /\ ServersUnregistered'
  BY <1>1, <1>13, <1>14 DEF ServerFds, ServersUnregistered
<1>16. RegisteredOpen'
  BY <1>4, <1>7, <1>8 DEF RegisteredOpen, Registered
<1>17. EventsNotStale'
  <2> SUFFICES ASSUME NEW e \in events', e.type = "Client", sockets'[e.fd] # None
               PROVE  sockets'[e.fd].sid = e.sid
    BY DEF EventsNotStale
  <2>1. e \in events /\ e.fd \in Fds /\ e.fd \notin {c, p}
    BY <1>3, <1>6, ClientEventType
  <2>2. QED
    BY <1>8, <2>1 DEF EventsNotStale
<1>18. QED
  BY <1>3, <1>9, <1>10, <1>11, <1>15, <1>16, <1>17

\* Sockets that are destroyed close descriptors of their own.
LEMMA DestroyD ==
    ASSUME DInv, TypeOK', NEW gone \in SUBSET Registered, Destroy(gone),
           NEW s \in SessionId, EndSession(s),
           UNCHANGED <<nextId, work, workers, pipe>>, Rejected' = Rejected,
           events' \subseteq events
    PROVE  DInv'
<1> USE DEF DInv
<1>1. /\ \A g \in Fds : sockets[g] = None => g \notin gone /\ fds'[g] = fds[g] /\ sockets'[g] = None
      /\ \A g \in Fds : sockets'[g] # None => sockets'[g] = sockets[g] /\ fds'[g] = fds[g]
  BY DEF Destroy, Registered
<1>2. \A t \in SessionId : sessions'[t] = None \/ sessions'[t] = sessions[t]
  BY DEF EndSession, TypeOK
<1>3. HeldApart' /\ Held' = Held
  BY QueuesFrame DEF HeldApart, HandsApart, Held
<1>4. GivenOut'
  BY <1>2, <1>3 DEF GivenOut, Live
<1>5. HeldClients'
  <2> SUFFICES ASSUME NEW t \in Held, Live(t)'
               PROVE  /\ fds'[sessions'[t]] # None /\ fds'[sessions'[t]].role = "client"
                      /\ sockets'[sessions'[t]] = None
    BY <1>3 DEF HeldClients
  <2>1. t \in SessionId /\ sessions'[t] = sessions[t] /\ Live(t) /\ sessions[t] \in Fds
    BY <1>2, HeldType DEF Live, TypeOK
  <2>2. QED
    BY <1>1, <2>1 DEF HeldClients
<1>6. OwnClients'
  <2> SUFFICES ASSUME NEW t \in Held, NEW u \in Held, Live(t)', sessions'[t] = sessions'[u]
               PROVE  t = u
    BY <1>3 DEF OwnClients
  <2>1. Live(t) /\ sessions[t] = sessions[u]
    BY <1>2, HeldType DEF Live
  <2>2. QED
    BY <2>1 DEF OwnClients
<1>7. ServerFds' /\ ServersUnregistered'
  <2>1. \A w \in Workers : workers[w].pc = "dial" =>
          /\ fds'[workers[w].fd] = [role |-> "server", sid |-> workers[w].sid]
          /\ sockets'[workers[w].fd] = None
    BY <1>1, ServerFdsOpen DEF ServerFds, ServersUnregistered
  <2>2. \A i \in DOMAIN pipe : pipe[i].fd # None =>
          /\ fds'[pipe[i].fd] = [role |-> "server", sid |-> pipe[i].sid]
          /\ sockets'[pipe[i].fd] = None
    BY <1>1, ServerFdsOpen DEF ServerFds, ServersUnregistered
  <2>3. QED
    BY <2>1, <2>2 DEF ServerFds, ServersUnregistered
<1>8. RegisteredOpen'
  BY <1>1 DEF RegisteredOpen, Registered
<1>9. HeadPrepared'
  BY <1>2, HeadHeld, HeadFrame DEF HeadPrepared
<1>10. EventsNotStale'
  BY <1>1, EventsFrame
<1>11. QED
  BY <1>3, <1>4, <1>5, <1>6, <1>7, <1>8, <1>9, <1>10

LEMMA CloseAndPruneD ==
    ASSUME DInv, TypeOK', CloseSession \/ PruneExcessConnections
    PROVE  DInv'
<1> TypeOK
  BY DEF DInv
<1>1. CASE CloseSession
  <2>1. PICK e \in events :
          /\ e.type = "Client" /\ sockets[e.fd] # None
          /\ Destroy({e.fd} \cup ({sockets[e.fd].peer} \cap Registered))
          /\ EndSession(sockets[e.fd].sid)
          /\ events' = events \ {e}
    BY <1>1 DEF CloseSession
  <2>2. e.fd \in Registered /\ sockets[e.fd].sid \in SessionId
    BY <2>1, ClientEventType, SocketType DEF Registered
  <2>3. UNCHANGED <<nextId, work, workers, pipe>> /\ Rejected' = Rejected
    BY <1>1 DEF CloseSession, Rejected
  <2> DEFINE gone == {e.fd} \cup ({sockets[e.fd].peer} \cap Registered)
  <2>4. gone \in SUBSET Registered /\ Destroy(gone)
    BY <2>1, <2>2
  <2> HIDE DEF gone
  <2>5. QED
    BY <2>1, <2>2, <2>3, <2>4, DestroyD
<1>2. CASE PruneExcessConnections
  <2>0. PICK f \in Registered :
          /\ \E peer \in FreedPeer(f) : Destroy({f} \cup ({peer} \cap Registered))
          /\ EndSession(sockets[f].sid)
    BY <1>2 DEF PruneExcessConnections
  <2>1. PICK peer \in FreedPeer(f) : Destroy({f} \cup ({peer} \cap Registered))
    BY <2>0
  <2>2. sockets[f].sid \in SessionId
    BY SocketType DEF Registered
  <2>3. UNCHANGED <<nextId, work, workers, pipe, events>> /\ Rejected' = Rejected
    BY <1>2 DEF PruneExcessConnections, Rejected, Pruning, Loop
  <2> DEFINE gone == {f} \cup ({peer} \cap Registered)
  <2>4. gone \in SUBSET Registered /\ Destroy(gone)
    BY <2>1
  <2> HIDE DEF gone
  <2>5. QED
    BY <2>0, <2>2, <2>3, <2>4, DestroyD
<1>3. QED
  BY <1>1, <1>2

LEMMA HandOverMainD ==
    ASSUME DInv, TypeOK', ConnectProxy \/ ForbidHost \/ SendErrorResponse
    PROVE  DInv'
<1> USE DEF DInv
<1>1. HeldApart' /\ Held' = Held /\ ServerFds'
  BY ConnectMoves, ForbidMoves, SendErrorMoves
<1>2. UNCHANGED <<sessions, nextId, fds, sockets, workers>> /\ Registered' = Registered
  BY DEF ConnectProxy, ForbidHost, SendErrorResponse, Registered
<1>3. CASE ConnectProxy \/ ForbidHost
  <2>1. pipe # <<>> /\ pipe' = Tail(pipe) /\ events' = events \ {CommandEvent}
    BY <1>3 DEF ConnectProxy, ForbidHost, CommandReady, ReadMessage
  <2>2. HeadPrepared'
    BY <2>1 DEF HeadPrepared
  <2>3. EventsNotStale'
    BY <1>2, <2>1, EventsFrame
  <2>4. ServersUnregistered'
    BY <1>2, <2>1, FirstMessage DEF ServersUnregistered, HeldApart
  <2>5. QED
    BY <1>1, <1>2, <2>2, <2>3, <2>4, HandOn
<1>4. CASE SendErrorResponse
  <2> DEFINE m == ConnectResult(main.sid, None, FALSE)
  <2>1. WriteMessage(m) /\ events' = events /\ m.fd = None
    BY <1>4 DEF SendErrorResponse, ConnectResult
  <2>2. m \in Message
    BY <1>4 DEF SendErrorResponse, ConnectResult, Message, TypeOK, Dispatcher, Loop, Pruning, Down
  <2> HIDE DEF m
  <2>3. HeadPrepared' /\ \A i \in DOMAIN pipe' : pipe'[i] = m \/ \E j \in DOMAIN pipe : pipe'[i] = pipe[j]
    BY <1>2, <2>1, <2>2, WrittenBehind
  <2>4. EventsNotStale'
    BY <1>2, <2>1, EventsFrame
  <2>5. ServersUnregistered'
    BY <1>2, <2>1, <2>3 DEF ServersUnregistered
  <2>6. QED
    BY <1>1, <1>2, <2>3, <2>4, <2>5, HandOn
<1>5. QED
  BY <1>3, <1>4

-----------------------------------------------------------------------------
(* The steps of the workers. *)

LEMMA TakeD ==
    ASSUME DInv, TypeOK', NEW w \in Workers, TakeWork(w)
    PROVE  DInv'
<1> USE DEF DInv
<1>1. HeldApart' /\ Held' \subseteq Held /\ ServerFds'
  BY TakeMoves
<1>2. UNCHANGED <<sessions, nextId, fds, sockets, pipe, events>> /\ Registered' = Registered
  BY DEF TakeWork, Registered
<1>3. \A v \in Workers : workers'[v] = workers[v] \/ workers'[v].pc # "dial"
  BY DEF TakeWork, TypeOK
<1>4. ServersUnregistered'
  BY <1>2, <1>3 DEF ServersUnregistered
<1>5. HeadPrepared' /\ EventsNotStale'
  BY <1>2 DEF HeadPrepared, EventsNotStale, Live
<1>6. QED
  BY <1>1, <1>2, <1>4, <1>5, HandOn

\* The descriptor a worker reports is the one it dialled with.
LEMMA ReportD ==
    ASSUME DInv, TypeOK', NEW w \in Workers, Reporting(w)
    PROVE  DInv'
<1> USE DEF DInv
<1>1. /\ InHand(w) /\ Reports(w) /\ LetsGo(w)
      /\ UNCHANGED <<sessions, nextId, fds, sockets, work, events, main>>
  BY ReportingSteps
<1>2. HeldApart' /\ Held' = Held /\ ServerFds' /\ Registered' = Registered
  BY <1>1, ReportMoves DEF Registered
<1>3. PICK m \in Message :
        /\ WriteMessage(m)
        /\ m.fd = None \/ (workers[w].pc = "dial" /\ m.fd = workers[w].fd)
  BY <1>1 DEF Reports
<1>4. HeadPrepared' /\ \A i \in DOMAIN pipe' : pipe'[i] = m \/ \E j \in DOMAIN pipe : pipe'[i] = pipe[j]
  BY <1>1, <1>3, WrittenBehind
<1>5. \A v \in Workers : workers'[v] = workers[v] \/ workers'[v].pc # "dial"
  BY <1>1 DEF LetsGo, TypeOK
<1>6. ServersUnregistered'
  BY <1>1, <1>3, <1>4, <1>5 DEF ServersUnregistered
<1>7. EventsNotStale'
  BY <1>1, EventsFrame
<1>8. QED
  BY <1>1, <1>2, <1>4, <1>6, <1>7, HandOn

\* The kernel gives a worker a descriptor that is closed, and so not registered.
LEMMA OpenD ==
    ASSUME DInv, TypeOK', NEW w \in Workers, OpenSocket(w)
    PROVE  DInv'
<1> USE DEF DInv
<1>1. HeldApart' /\ Held' = Held /\ ServerFds'
  BY OpenMoves
<1>2. PICK f \in Fds :
        /\ fds[f] = None
        /\ fds' = [fds EXCEPT ![f] = [role |-> "server", sid |-> workers[w].sid]]
        /\ workers' = [workers EXCEPT ![w] = [pc |-> "dial", sid |-> workers[w].sid, fd |-> f]]
  BY DEF OpenSocket
<1>3. UNCHANGED <<sessions, nextId, sockets, pipe, events>>
  BY DEF OpenSocket
<1>4. /\ \A g \in Fds : fds[g] # None => fds'[g] = fds[g]
      /\ sockets[f] = None
  BY <1>2 DEF TypeOK, RegisteredOpen, Registered
<1>5. GivenOut'
  BY <1>1, <1>3 DEF GivenOut, Live
<1>6. HeldClients'
  <2> SUFFICES ASSUME NEW s \in Held, Live(s)
               PROVE  /\ fds'[sessions[s]] # None /\ fds'[sessions[s]].role = "client"
                      /\ sockets[sessions[s]] = None
    BY <1>1, <1>3 DEF HeldClients, Live
  <2>1. sessions[s] \in Fds
    BY HeldType DEF Live, TypeOK
  <2>2. QED
    BY <1>4, <2>1 DEF HeldClients
<1>7. OwnClients'
  BY <1>1, <1>3 DEF OwnClients, Live
<1>8. ServersUnregistered'
  <2>1. \A v \in Workers : v # w => workers'[v] = workers[v]
    BY <1>2 DEF TypeOK
  <2>2. workers'[w].fd = f
    BY <1>2 DEF TypeOK
  <2>3. QED
    BY <1>3, <1>4, <2>1, <2>2 DEF ServersUnregistered
<1>9. RegisteredOpen'
  BY <1>3, <1>4 DEF RegisteredOpen, Registered
<1>10. HeadPrepared' /\ EventsNotStale'
  BY <1>3 DEF HeadPrepared, EventsNotStale, Live
<1>11. QED
  BY <1>1, <1>5, <1>6, <1>7, <1>8, <1>9, <1>10

LEMMA ClearD ==
    ASSUME DInv, TypeOK', NEW w \in Workers, ClearCacheForHost(w)
    PROVE  DInv'
<1> USE DEF DInv
<1>1. HeldApart' /\ Held' = Held /\ ServerFds'
  BY ClearMoves
<1>2. UNCHANGED <<sessions, nextId, fds, sockets, pipe, events>> /\ Registered' = Registered
  BY DEF ClearCacheForHost, Registered
<1>3. \A v \in Workers : workers'[v] = workers[v] \/ workers'[v].pc # "dial"
  BY DEF ClearCacheForHost, TypeOK, Idle
<1>4. ServersUnregistered'
  BY <1>2, <1>3 DEF ServersUnregistered
<1>5. HeadPrepared' /\ EventsNotStale'
  BY <1>2 DEF HeadPrepared, EventsNotStale, Live
<1>6. QED
  BY <1>1, <1>2, <1>4, <1>5, HandOn

-----------------------------------------------------------------------------
(* The theorems. *)

LEMMA NextDInv == DInv /\ [Next]_vars => DInv'
<1> SUFFICES ASSUME DInv, [Next]_vars PROVE DInv'
  OBVIOUS
<1>1. TypeOK'
  BY NextTypeOK DEF DInv
<1>2. CASE MainStep
  BY <1>1, <1>2, EpollWaitD, QuietStepsD, MarkingStepsD, AcceptD, RefuseD, RegisterD,
     CloseAndPruneD, HandOverMainD DEF MainStep
<1>3. ASSUME NEW w \in Workers, WorkerStep(w) PROVE DInv'
  BY <1>1, <1>3, TakeD, ReportD, OpenD, ClearD, QuietStepsD DEF WorkerStep, Reporting
<1>4. CASE StalledWriteEnds \/ RemoteCloses
  BY <1>1, <1>4, MarkingStepsD
<1>5. CASE UNCHANGED vars
  BY <1>1, <1>5, QuietStepsD
<1>6. QED
  BY <1>2, <1>3, <1>4, <1>5 DEF Next, Terminated

LEMMA DispatchInvariance == Spec => []DInv
<1>1. QED
  BY InitDInv, NextDInv, PTL DEF Spec

\* An event of epoll_wait reaches the socket that was ready or none at all,
\* whatever was closed, accepted, dialled and registered in the same pass and
\* whatever failed: the descriptors that a message registers are in no event of
\* the pass that reads it.
THEOREM ProxyEventsNotStale == Spec => []EventsNotStale
<1>1. DInv => EventsNotStale
  BY DEF DInv
<1>2. QED
  BY DispatchInvariance, <1>1, PTL

\* A socket of m_sockets is open, whatever failed: no handler closes, and no
\* failed registration destroys, a descriptor that another socket owns.
THEOREM ProxyRegisteredOpen == Spec => []RegisteredOpen
<1>1. DInv => RegisteredOpen
  BY DEF DInv
<1>2. QED
  BY DispatchInvariance, <1>1, PTL

=============================================================================
