------------------------------ MODULE AuditLog ------------------------------
(***************************************************************************)
(* What nermalproxy records about its users: the byte counts and times of  *)
(* a Session, the statistics EndSession adds to (GlobalStats, UserStats,   *)
(* SiteStats) and the numbered files into which the dispatch thread writes *)
(* them when a pass of ProcessSockets finds no event.                      *)
(*                                                                         *)
(* A session is shown as far as it is recorded: who its user is, which     *)
(* host it asked for and how it ended.  Why a request is refused is in     *)
(* AccessControl, how sessions and sockets hang together in NermalProxy.   *)
(***************************************************************************)
EXTENDS Clock, Sequences, FiniteSets, SequencesExt

CONSTANTS
    Users,             \* the users of the configuration
    Audited,           \* those with "audit:enabled"
    AuthEnabled,       \* AuthManager::m_enabled
    Hosts,             \* the hosts that are asked for
    NoName,            \* the empty string: no user, no host
    MaxSessions,       \* bound: sessions in one behaviour
    MaxRead,           \* bound: the bytes of one read, 32768 in the code
    Modulus,           \* 2^64, where the byte counts wrap
    Garbage,           \* what m_clientRxBytes and m_clientTxBytes may start from
    m_logFrequency,    \* seconds between two logs
    m_logPersistence,  \* the highest number of a log file
    Ticks,             \* how far the clock may move in one step
    MaxClock,          \* bound: the last time of the clock
    MaxRuns,           \* bound: how often the process is started
    Faults,            \* the calls that may fail
    Cut,               \* what a short write leaves of a line
    None               \* no session, no file, no time, no log being written

ASSUME NamesAssumption == NoName \notin Users \cup Hosts /\ Audited \subseteq Users
ASSUME NumbersAssumption ==
    /\ {MaxSessions, MaxRead, m_logFrequency, m_logPersistence, MaxClock, MaxRuns} \subseteq Nat
    /\ Modulus \in Nat /\ Modulus > MaxRead + 1 /\ Garbage \subseteq 0 .. Modulus - 1
    /\ Ticks \subseteq Nat \ {0} /\ AuthEnabled \in BOOLEAN /\ MaxRuns # 0

\* "read": read() fails on a socket; "peer": write() to the other socket fails,
\* at once or after part of the bytes; "open", "write": open() or write() fails
\* on a log file, or write() is short; "exit": the process ends, at any moment,
\* and is started again.
ASSUME FaultsAssumption == Faults \subseteq {"read", "peer", "open", "write", "exit"}

SessionId == 1 .. MaxSessions
Counter == 0 .. Modulus - 1
LogNumber == 0 .. m_logPersistence

\* "active": the sockets of the session for which m_isActive holds.  History: the
\* bytes that reached the server and those that were read from it, on top of what
\* the counters began with, and whether a write of what was read to the one or a
\* read from the other has failed.
Session == [stage : {"detecting", "connecting", "relaying"}, host : Hosts \cup {NoName},
            user : Users \cup {NoName}, rx : Counter, tx : Counter, start : 0 .. MaxClock,
            active : SUBSET {"client", "server"},
            reached : Counter, fetched : Counter, writeFailed : BOOLEAN, readFailed : BOOLEAN]
SiteStats == [host : Hosts, rx : Counter, tx : Counter, totalTime : Nat, connections : Nat]
Tag == [run : 1 .. MaxRuns, period : Nat]
LogFile == [tag : Tag, header : BOOLEAN, lines : Seq(SiteStats \cup {Cut})]

ASSUME NoneAssumption ==
    None \notin LogFile \cup Session \cup [user : Nat, next : Nat] /\ Cut \notin SiteStats

VARIABLES
    now,            \* the clock
    sessions,       \* m_sessionList
    nextId,         \* the next session
    m_userStats,    \* GlobalStats: the users and, for each, the hosts in the order of arrival
    m_lastLogTime,  \* None until GlobalStats::Instance() is called
    s_logNumber,
    logging,        \* LogAndReset: the place in m_userStats it has come to and its
                    \* next call for it: 0 open, 1 the header, 2 the first line, ...
    files,          \* the log files on disk, by user and number
    tag,            \* history: which run of the process, and which period of it
    ended,          \* history: the sessions that have ended
    failed,         \* history: the users and periods for whose file a call has failed
    cutOff          \* history: those whose file was open when the process ended

vars == <<now, sessions, nextId, m_userStats, m_lastLogTime, s_logNumber, logging, files, tag,
          ended, failed, cutOff>>
disk == <<files, failed, cutOff>>
stats == <<m_userStats, m_lastLogTime, s_logNumber, logging, tag, disk>>

Init ==
    /\ now = 0
    /\ sessions = [s \in SessionId |-> None]
    /\ nextId = 1
    /\ m_userStats = <<>>
    /\ m_lastLogTime = None
    /\ s_logNumber = 0
    /\ logging = None
    /\ files = [f \in Users \X LogNumber |-> None]
    /\ tag = [run |-> 1, period |-> 0]
    /\ ended = {}
    /\ failed = {}
    /\ cutOff = {}

-----------------------------------------------------------------------------
(* The statistics. *)

NewSiteStats(h) == [host |-> h, rx |-> 0, tx |-> 0, totalTime |-> 0, connections |-> 0]

\* UserStats::GetStats: the list with the host in it, and the place of the host.
GetStats(stat, h) ==
    LET i == SelectInSeq(stat, LAMBDA x : x.host = h)
    IN  IF i # 0 THEN [list |-> stat, at |-> i]
        ELSE [list |-> Append(stat, NewSiteStats(h)), at |-> Len(stat) + 1]

\* What EndSession adds to a line.
Grown(x, rx, tx, time) ==
    [host |-> x.host, rx |-> (x.rx + rx) % Modulus, tx |-> (x.tx + tx) % Modulus,
     totalTime |-> x.totalTime + time, connections |-> x.connections + 1]

\* The line of the host grows.
AddSession(stat, h, rx, tx, time) ==
    LET found == GetStats(stat, h)
    IN  [found.list EXCEPT ![found.at] = Grown(@, rx, tx, time)]

\* GlobalStats::GetStats and what EndSession does with its result.
AddUserSession(u, h, rx, tx, time) ==
    LET i == SelectInSeq(m_userStats, LAMBDA x : x.user = u)
    IN  IF i # 0
        THEN [m_userStats EXCEPT ![i].stats = AddSession(@, h, rx, tx, time)]
        ELSE Append(m_userStats, [user |-> u, stats |-> AddSession(<<>>, h, rx, tx, time)])

\* GlobalStats::Instance() creates the object, and starts the period, when it
\* is first called.
LastLogTime == IF m_lastLogTime = None THEN Timestamp(now) ELSE m_lastLogTime

IsAuditEnabled(u) == u \in Audited

\* EndSession for session s, which is "x" by now.
EndSession(s, x) ==
    LET time == Timestamp(now) - Timestamp(x.start)
    IN  /\ sessions' = [sessions EXCEPT ![s] = None]
        /\ IF x.host # NoName /\ AuthEnabled /\ IsAuditEnabled(x.user)
           THEN /\ m_userStats' = AddUserSession(x.user, x.host, x.rx, x.tx, time)
                /\ m_lastLogTime' = LastLogTime
           ELSE UNCHANGED <<m_userStats, m_lastLogTime>>
        /\ ended' = ended \cup {[sid |-> s, tag |-> tag, elapsed |-> now - x.start, time |-> time,
                                 host |-> x.host, user |-> x.user, rx |-> x.rx, tx |-> x.tx,
                                 reached |-> x.reached, fetched |-> x.fetched,
                                 writeFailed |-> x.writeFailed, readFailed |-> x.readFailed]}
        /\ UNCHANGED <<now, nextId, s_logNumber, logging, tag, disk>>

-----------------------------------------------------------------------------
(* A session, as far as it is recorded. *)

\* The byte counts are not initialised.
CreateSession ==
    /\ nextId <= MaxSessions
    /\ \E rx, tx \in Garbage :
        sessions' = [sessions EXCEPT ![nextId] =
            [stage |-> "detecting", host |-> NoName, user |-> NoName, rx |-> rx, tx |-> tx,
             start |-> now, active |-> {}, reached |-> rx, fetched |-> tx,
             writeFailed |-> FALSE, readFailed |-> FALSE]]
    /\ nextId' = nextId + 1
    /\ UNCHANGED <<now, stats, ended>>

At(s, stage) == sessions[s] # None /\ sessions[s].stage = stage

\* 400: the host has not been set.
DetectFails(s) == At(s, "detecting") /\ EndSession(s, sessions[s])

\* The host that asyncDetector has set (empty if the request names none) and
\* the user the dispatch thread finds for the request.
Detected(s, h, u) == [sessions[s] EXCEPT !.host = h, !.user = u]

\* 403 and 407: the credentials leave their user in the session (an empty name
\* if they are wrong) before the schedule is looked at; an address does not.
Refuse(s) ==
    /\ At(s, "detecting") /\ AuthEnabled
    /\ \E h \in Hosts \cup {NoName}, u \in Users \cup {NoName} : EndSession(s, Detected(s, h, u))

Authenticated(s) ==
    /\ At(s, "detecting")
    /\ \E h \in Hosts \cup {NoName}, u \in IF AuthEnabled THEN Users ELSE {NoName} :
        sessions' = [sessions EXCEPT ![s] = [Detected(s, h, u) EXCEPT !.stage = "connecting"]]
    /\ UNCHANGED <<now, nextId, stats, ended>>

\* 404: a list has the host, or it cannot be reached.
ConnectFails(s) == At(s, "connecting") /\ EndSession(s, sessions[s])

\* The two ClientSockets.
Connected(s) ==
    /\ At(s, "connecting") /\ sessions[s].host # NoName
    /\ sessions' = [sessions EXCEPT ![s] =
                        [@ EXCEPT !.stage = "relaying", !.active = {"client", "server"}]]
    /\ UNCHANGED <<now, nextId, stats, ended>>

\* What read() returns, as the size_t it is kept in: some bytes, none at an end of
\* file, SIZE_MAX when it fails.
Reads == 0 .. MaxRead \cup {n \in {Modulus - 1} : "read" \in Faults}

\* How many of n bytes the calls of write() in ClientSocket::Write take before one
\* fails or none are left.  No write() accepts SIZE_MAX bytes.
Taken(n) == IF n > MaxRead THEN {0} ELSE IF "peer" \in Faults THEN 0 .. n ELSE {n}

\* ClientSocket::Write: what it returns when that many have been taken.
Write(n, taken) == IF taken = n THEN n ELSE 0

\* OnError: an end of file, or a write() that fails, ends the socket it was read
\* from; its session is closed at its next event.
ActiveAfter(active, socket, n, taken) ==
    IF n = 0 \/ taken # n THEN active \ {socket} ELSE active

\* Mutant: the bytes that were read from the client are counted.
ToServerRead(x, n, taken) ==
    [x EXCEPT !.rx = (@ + n) % Modulus, !.active = ActiveAfter(@, "client", n, taken),
              !.reached = (@ + taken) % Modulus, !.writeFailed = n <= MaxRead /\ taken # n]

\* AddRxBytes(numWritten).
ToServer(x, n, taken) ==
    [x EXCEPT !.rx = (@ + Write(n, taken)) % Modulus, !.active = ActiveAfter(@, "client", n, taken),
              !.reached = (@ + taken) % Modulus, !.writeFailed = n <= MaxRead /\ taken # n]

\* AddTxBytes(numRead), whatever the client has got of it.
ToClient(x, n, taken) ==
    [x EXCEPT !.tx = (@ + n) % Modulus, !.active = ActiveAfter(@, "server", n, taken),
              !.fetched = (@ + IF n > MaxRead THEN 0 ELSE n) % Modulus, !.readFailed = n > MaxRead]

\* HandleClientSocketRead, for a socket that is active.
ClientToProxy(s) ==
    /\ At(s, "relaying") /\ "client" \in sessions[s].active
    /\ \E n \in Reads : \E taken \in Taken(n) :
        sessions' = [sessions EXCEPT ![s] = ToServer(@, n, taken)]
    /\ UNCHANGED <<now, nextId, stats, ended>>

ProxyToClient(s) ==
    /\ At(s, "relaying") /\ "server" \in sessions[s].active
    /\ \E n \in Reads : \E taken \in Taken(n) :
        sessions' = [sessions EXCEPT ![s] = ToClient(@, n, taken)]
    /\ UNCHANGED <<now, nextId, stats, ended>>

\* The event of a socket that is not active, or the session is pruned.
Close(s) == At(s, "relaying") /\ EndSession(s, sessions[s])

-----------------------------------------------------------------------------
(* Writing the log: while the dispatch thread is at it nothing else happens   *)
(* but that time passes or the process ends.                                 *)

ReadyToLog == Timestamp(now) - LastLogTime > 1000 * m_logFrequency

\* Mutant: the number never starts again.
NextLogNumberGrows(n) == n + 1

\* Mutant: the number starts again one too early.
NextLogNumberEarly(n) == IF n + 1 >= m_logPersistence THEN 0 ELSE n + 1

NextLogNumber(n) == IF n + 1 > m_logPersistence THEN 0 ELSE n + 1

LinesOf(u) ==
    LET i == SelectInSeq(m_userStats, LAMBDA x : x.user = u)
    IN  IF i = 0 THEN <<>> ELSE m_userStats[i].stats

\* A pass of ProcessSockets in which epoll_wait reports nothing; LogAndReset sets
\* the time before it writes.
IdlePass ==
    /\ logging = None
    /\ IF ReadyToLog
       THEN m_lastLogTime' = Timestamp(now) /\ logging' = [user |-> 1, next |-> 0]
       ELSE m_lastLogTime' = LastLogTime /\ UNCHANGED logging
    /\ UNCHANGED <<now, sessions, nextId, m_userStats, s_logNumber, tag, disk, ended>>

\* UserStats::LogToFile.  A user in the list has at least one line, so its early
\* return is never taken.
IsLogging == logging # None /\ logging.user <= Len(m_userStats)
Logging(next) == IsLogging /\ logging.next = next

LoggedUser == m_userStats[logging.user].user
LoggedStats == m_userStats[logging.user].stats
LoggedFile == <<LoggedUser, s_logNumber>>

GoesOnWith(user, next) ==
    /\ logging' = [user |-> user, next |-> next]
    /\ UNCHANGED <<now, sessions, nextId, m_userStats, m_lastLogTime, s_logNumber, tag, ended, cutOff>>

Fails == failed' = failed \cup {<<LoggedUser, tag>>}

\* Mutant: the file is opened without O_TRUNC, and its lines stay.
OpenedAppending(old) ==
    [tag |-> tag, header |-> FALSE, lines |-> IF old = None THEN <<>> ELSE old.lines]

Opened(old) == [tag |-> tag, header |-> FALSE, lines |-> <<>>]

OpenLogFile ==
    /\ Logging(0)
    /\ \/ /\ files' = [files EXCEPT ![LoggedFile] = Opened(@)]
          /\ UNCHANGED failed /\ GoesOnWith(logging.user, 1)
       \/ /\ "open" \in Faults /\ Fails /\ UNCHANGED files
          /\ GoesOnWith(logging.user + 1, 0)

\* Only -1 is noticed; a short write goes on with the lines.
WriteHeader ==
    /\ Logging(1)
    /\ \/ /\ files' = [files EXCEPT ![LoggedFile].header = TRUE]
          /\ UNCHANGED failed /\ GoesOnWith(logging.user, 2)
       \/ /\ "write" \in Faults /\ Fails /\ UNCHANGED files
          /\ GoesOnWith(logging.user + 1, 0) \/ GoesOnWith(logging.user, 2)

\* SiteStats::LogToFile: a write that fails or is short is logged, no more.
WriteLine ==
    /\ IsLogging
    /\ \E i \in DOMAIN LoggedStats :
        /\ logging.next = i + 1
        /\ \/ /\ files' = [files EXCEPT ![LoggedFile].lines = Append(@, LoggedStats[i])]
              /\ UNCHANGED failed
           \/ /\ "write" \in Faults /\ Fails
              /\ files' = [files EXCEPT ![LoggedFile].lines = Append(@, Cut)] \/ UNCHANGED files
        /\ GoesOnWith(logging.user, i + 2)

CloseLogFile ==
    /\ Logging(Len(LoggedStats) + 2)
    /\ GoesOnWith(logging.user + 1, 0)
    /\ UNCHANGED <<files, failed>>

\* The rest of LogAndReset.
Reset ==
    /\ logging # None /\ logging.user > Len(m_userStats)
    /\ logging' = None
    /\ m_userStats' = <<>>
    /\ s_logNumber' = NextLogNumber(s_logNumber)
    /\ tag' = [tag EXCEPT !.period = @ + 1]
    /\ UNCHANGED <<now, sessions, nextId, m_lastLogTime, disk, ended>>

LogAndReset == OpenLogFile \/ WriteHeader \/ WriteLine \/ CloseLogFile \/ Reset

-----------------------------------------------------------------------------
Tick ==
    /\ \E d \in Ticks : now + d <= MaxClock /\ now' = now + d
    /\ UNCHANGED <<sessions, nextId, stats, ended>>

\* A file is open: it has been truncated, and not all of it has been written.
IsOpen(f) == IsLogging /\ logging.next > 0 /\ f = LoggedFile

\* The process ends, with all it has in memory, and is started again.
Restart ==
    /\ "exit" \in Faults /\ tag.run < MaxRuns
    /\ sessions' = [s \in SessionId |-> None]
    /\ m_userStats' = <<>>
    /\ m_lastLogTime' = None
    /\ s_logNumber' = 0
    /\ logging' = None
    /\ tag' = [run |-> tag.run + 1, period |-> 0]
    /\ cutOff' = cutOff \cup {<<f[1], tag>> : f \in {g \in DOMAIN files : IsOpen(g)}}
    /\ UNCHANGED <<now, nextId, files, ended, failed>>

\* The events a pass finds, if it finds any.
BusyPass ==
    /\ logging = None
    /\ \/ CreateSession
       \/ \E s \in SessionId :
          \/ DetectFails(s) \/ Refuse(s) \/ Authenticated(s) \/ ConnectFails(s) \/ Connected(s)
          \/ ClientToProxy(s) \/ ProxyToClient(s) \/ Close(s)

DispatchThread == BusyPass \/ IdlePass \/ LogAndReset

Next == DispatchThread \/ Tick \/ Restart

Spec == Init /\ [][Next]_vars

\* The dispatch thread goes on from pass to pass.  Nothing makes a pass an idle
\* one: that is up to the clients and the servers.
FairSpec == Spec /\ WF_vars(DispatchThread)

-----------------------------------------------------------------------------
(* Correctness. *)

\* Every variable has its type: in particular no counter leaves its width and
\* the number of the log stays one of m_logPersistence + 1.
TypeOK ==
    /\ now \in 0 .. MaxClock
    /\ sessions \in [SessionId -> Session \cup {None}]
    /\ nextId \in 1 .. MaxSessions + 1
    /\ \A i \in DOMAIN m_userStats :
        m_userStats[i].user \in Audited /\ m_userStats[i].stats \in Seq(SiteStats)
    /\ m_lastLogTime \in Nat \cup {None}
    /\ s_logNumber \in LogNumber
    /\ logging # None => logging \in [user : 1 .. Len(m_userStats) + 1, next : Nat]
    /\ files \in [Users \X LogNumber -> LogFile \cup {None}]
    /\ tag \in Tag

SumOf(field, S) == MapThenSumSet(LAMBDA e : e[field], S)

\* The sessions of a user in a period that are to be recorded, and the lines
\* they come to, one for each host.
Recorded(u, t) ==
    {e \in ended : e.user = u /\ e.tag = t /\ e.host # NoName /\ AuthEnabled /\ u \in Audited}

Expected(u, t) ==
    {LET E == {e \in Recorded(u, t) : e.host = h}
     IN  [host |-> h, rx |-> SumOf("rx", E) % Modulus, tx |-> SumOf("tx", E) % Modulus,
          totalTime |-> SumOf("time", E), connections |-> Cardinality(E)]
        : h \in {e.host : e \in Recorded(u, t)}}

Matches(lines, expected) == ToSet(lines) = expected /\ Len(lines) = Cardinality(expected)

FileOf(u, t) == {f \in DOMAIN files : f[1] = u /\ files[f] # None /\ files[f].tag = t}

\* Nothing is lost: what the audited sessions of this period did is in memory,
\* one line for each host, and for each of the last m_logPersistence + 1 periods
\* there is a file for every user with sessions in it; the oldest goes when the
\* one of this period is opened in its place.  Files are overwritten in turn,
\* lists are searched and cleared, and sessions outlast the period they began in;
\* a file that cannot be written is a loss for its own user alone.
AuditComplete ==
    \A u \in Users :
        /\ Matches(LinesOf(u), Expected(u, tag))
        /\ \A p \in 0 .. tag.period - 1 :
            LET t == [tag EXCEPT !.period = p]
            IN  p >= tag.period - (m_logPersistence + 1) /\ <<u, t>> \notin failed /\ Expected(u, t) # {}
                    => \/ FileOf(u, t) # {}
                       \/ p = tag.period - (m_logPersistence + 1) /\ FileOf(u, tag) # {}

\* The lines are from the record, none of them twice, but for what short writes
\* have left.
PartOf(lines, expected) ==
    \A i \in DOMAIN lines :
        lines[i] # Cut => lines[i] \in expected /\ \A j \in DOMAIN lines : lines[j] = lines[i] => i = j

\* A log file, whichever run of the process wrote it, over whatever was there and
\* whenever that run ended, has lines of the record of one user in one period,
\* and nothing of another user, period or run.  It has all of them, behind the
\* header, unless one of its own calls failed, it is just being written, or the
\* process ended between its truncation and its last line: the files closed
\* before that one, and those not yet opened, are whole.
FilesTruthful ==
    \A f \in DOMAIN files : files[f] # None =>
        LET file == files[f]
            expected == Expected(f[1], file.tag)
        IN  /\ PartOf(file.lines, expected)
            /\ \/ <<f[1], file.tag>> \in failed \cup cutOff
               \/ IsOpen(f)
               \/ file.header /\ Matches(file.lines, expected)

\* The time recorded for a session is less than a second off the time that
\* passed, and never wraps below zero, in spite of the jumps of Timestamp().
TimeWithinASecond ==
    \A e \in ended : e.time >= 0 /\ e.time - 10 * e.elapsed \in -999 .. 999

Due == m_lastLogTime # None /\ Timestamp(now) - m_lastLogTime > 1000 * m_logFrequency

\* What the documentation says: the log is written once in each period.
LogsWhenDue == Due ~> ~ Due

\* The bytes recorded for a session, from whatever was in memory when it began
\* on.  To the server: all that reached it, unless a write failed; what that one
\* write had sent before is not counted, so less than one buffer is missing, and
\* nothing is ever counted that did not arrive.  From the server: all that was
\* read from it, whether or not the client got it, less one if a read failed.
BytesAsRelayed ==
    \A e \in ended :
        /\ (e.reached - e.rx) % Modulus \in IF e.writeFailed THEN 0 .. MaxRead - 1 ELSE {0}
        /\ (e.fetched - e.tx) % Modulus = IF e.readFailed THEN 1 ELSE 0

=============================================================================
