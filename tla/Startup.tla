------------------------------ MODULE Startup ------------------------------
(***************************************************************************)
(* main() up to its loop: the configuration file, which ConfigFile reads,  *)
(* its general options, the daemon, Log, and the descriptors and           *)
(* registrations that the dispatch thread needs.  Every call to the system *)
(* may fail.  What DoConfig makes of the lists, users and policies is in   *)
(* AccessControl, and the loop is in NermalProxy.                          *)
(***************************************************************************)
EXTENDS Integers, Sequences, FiniteSets, FiniteSetsExt

CONSTANTS
    Documents,  \* what the configuration file may say
    Words,      \* the names of sections and keys in it
    Sections,   \* those of the sections of users and lists
    Garbage,    \* what is in a buffer before it is written
    Number,     \* stoul(): what it makes of the words it accepts
    Faults,     \* the calls that may fail
    PortWidth,  \* 2^16
    Ephemeral,  \* the ports that the system chooses from when it is asked for port 0
    MaxFd,      \* bound: the highest descriptor
    Unset       \* a descriptor that is free or has no holder

ASSUME SectionsAssumption == Sections \subseteq Words
ASSUME PortsAssumption ==
    /\ \A w \in DOMAIN Number : Number[w] \in Nat
    /\ PortWidth \in Nat \ {0} /\ 10080 < PortWidth
ASSUME EphemeralAssumption == Ephemeral # {} /\ Ephemeral \subseteq 1 .. PortWidth - 1
ASSUME MaxFdAssumption == MaxFd \in Nat /\ MaxFd >= 7
ASSUME FaultsAssumption ==
    Faults \subseteq {"access", "fopen", "getline", "fork", "setsid", "epoll_create", "socket",
                      "setsockopt", "bind", "listen", "epoll_ctl", "pipe", "sigaction", "logs.txt"}

Fd == 0 .. MaxFd

ASSUME UnsetAssumption ==
    Unset \notin Fd /\ Unset \notin {"terminal", "/dev/null", "log", "epoll", "listen", "pipe"}

\* LogSeverity, by its numbers.
Rank == [error |-> 0, warn |-> 1, info |-> 2, debug |-> 3, verbose |-> 4]

VARIABLES
    document, parser, line, m_data, sectionName, keyName, value, valuetmp,  \* ConfigFile
    pc,
    files,       \* what each descriptor is open on
    m_verbosity,
    m_toFile,
    logFile,     \* descriptors, as their holders know them
    m_epollFd,
    m_socketFd,
    m_pipeFds,
    boundPort,   \* where the server listens
    g_serverPort,
    g_authEnabled,
    registered,  \* the descriptors in the epoll set, m_sockets
    ignored,     \* signals
    unseen       \* history: the calls that failed and nobody looked

Config == INSTANCE ConfigFile WITH pc <- parser

IsWord(w, special) == w \in Seq(Range(w)) /\ Range(w) \cap special = {}

\* What is written in a file is read back as it is: a name, a key or a value has
\* no character that ends it.  An option that is there has a value; what a
\* missing one becomes is in LoadData.
ASSUME DocumentsAssumption ==
    \A doc \in Documents :
        /\ doc \in Seq(Range(doc))
        /\ \A item \in Range(doc) :
            \/ item.kind = "section" /\ IsWord(item.name, {" ", "#"})
            \/ /\ item.kind = "entry"
               /\ IsWord(item.key, {" ", "#", "[", ":"}) /\ item.key # <<>>
               /\ item.values \in Seq(Range(item.values)) /\ item.values # <<>>
               /\ \A v \in Range(item.values) : IsWord(v, {" ", "#", "[", ","})
               /\ item.key \in {<<"daemon_mode">>, <<"port">>, <<"auth">>} => item.values[1] # <<>>
               /\ item.comment = <<>> \/ (IsWord(item.comment, {}) /\ item.comment[1] = "#")
            \/ item.kind \in {"stray", "blank", "comment"}

log == <<m_verbosity, m_toFile, logFile>>
configFile == <<document, parser, line, m_data, sectionName, keyName, value, valuetmp>>
config == <<configFile, g_serverPort, g_authEnabled>>
sockets == <<m_epollFd, m_socketFd, boundPort, m_pipeFds, registered>>
vars == <<config, pc, files, log, sockets, ignored, unseen>>

Init ==
    /\ Config!Init
    /\ pc = "access"
    /\ files = [d \in Fd |-> IF d < 3 THEN "terminal" ELSE Unset]
    /\ m_verbosity = Rank["debug"] /\ m_toFile = FALSE /\ logFile = Unset
    /\ m_epollFd = Unset /\ m_socketFd = Unset /\ boundPort = Unset /\ m_pipeFds = {}
    /\ g_serverPort = 10080 /\ g_authEnabled = FALSE
    /\ registered = {} /\ ignored = {} /\ unseen = {}

\* A call may fail, or may do what it should.
Fails(call) == call \in Faults

\* The system hands out the lowest descriptors that are free.
FreeFd == Min({d \in Fd : files[d] = Unset})

-----------------------------------------------------------------------------
(* Log. *)

Emits(verbosity, severity) == ~ (verbosity < Rank[severity])

\* The first message that is written to a file opens it; if that fails the
\* message is written through a null pointer.
OpensLog(severity) == m_toFile /\ logFile = Unset /\ Emits(m_verbosity, severity)

\* A step to "next" that has something to log at its end.
LogAndGo(severity, next) ==
    /\ UNCHANGED <<m_verbosity, m_toFile>>
    /\ \/ /\ ~ OpensLog(severity)
          /\ pc' = next /\ UNCHANGED <<files, logFile>>
       \/ /\ OpensLog(severity)
          /\ files' = [files EXCEPT ![FreeFd] = "log"] /\ logFile' = FreeFd
          /\ pc' = next
       \/ /\ OpensLog(severity) /\ Fails("logs.txt")
          /\ pc' = "crashed" /\ UNCHANGED <<files, logFile>>

Exit(severity) ==
    /\ LogAndGo(severity, "exited")
    /\ UNCHANGED <<config, sockets, ignored, unseen>>

-----------------------------------------------------------------------------
(* DoConfig and the daemon. *)

\* The file of the command line is not there; main() writes to stderr.
NoConfigFile ==
    /\ pc = "access" /\ Fails("access")
    /\ pc' = "exited"
    /\ UNCHANGED <<config, files, log, sockets, ignored, unseen>>

ConfigFileThere ==
    /\ pc = "access"
    /\ pc' = "load"
    /\ UNCHANGED <<config, files, log, sockets, ignored, unseen>>

\* LoadData() tells nobody that it could not open the file, or read all of it:
\* main() goes on with what there is.
LoadData ==
    /\ pc = "load"
    /\ \/ Config!LoadData /\ UNCHANGED unseen
       \/ Fails("fopen") /\ Config!NoFile /\ unseen' = unseen \cup {"fopen"}
       \/ Fails("getline") /\ Config!ReadFails /\ unseen' = unseen \cup {"getline"}
    /\ UNCHANGED <<pc, g_serverPort, g_authEnabled, files, log, sockets, ignored>>

Proxy == <<"Proxy">>

\* What GetValue() of a general option returns, empty if there is nothing.
Option(key) ==
    LET values == Config!ValuesOf(Proxy, <<key>>) IN IF values = <<>> THEN <<>> ELSE Head(values)

Enabled(key) == Option(key) = <<"enabled">>

DaemonMode ==
    /\ pc = "load" /\ parser = "loaded"
    /\ Config!GetSection(Proxy)
    /\ pc' = IF Enabled("daemon_mode") THEN "fork" ELSE "options"
    /\ UNCHANGED <<g_serverPort, g_authEnabled, files, log, sockets, ignored, unseen>>

\* The process that is left is followed as the child, or as the parent, which
\* ends, as it does when fork() or setsid() fails.
DaemonizeExits ==
    /\ pc = "fork"
    /\ Exit("info") \/ (Fails("fork") /\ Exit("error")) \/ (Fails("setsid") /\ Exit("error"))

Daemonize ==
    /\ pc = "fork"
    /\ ignored' = ignored \cup {"SIGHUP", "SIGCHLD"}
    /\ files' = [d \in Fd |-> IF d < 3 THEN "/dev/null" ELSE Unset]
    /\ pc' = "options"
    /\ UNCHANGED <<config, log, sockets, unseen>>

\* Verbosity and file.  What it logs is logged before m_toFile is set.
LogOptions ==
    /\ pc = "options"
    /\ m_verbosity' = IF Option("log_verbosity") \in {<<"debug">>, <<"info">>, <<"warn">>, <<"error">>}
                      THEN Rank[Head(Option("log_verbosity"))] ELSE m_verbosity
    /\ m_toFile' = Enabled("log_to_file")
    /\ pc' = "port"
    /\ UNCHANGED <<config, files, logFile, sockets, ignored, unseen>>

\* std::uint16_t(n)
ToPort(n) == n % PortWidth

\* Port and authentication, each of which is logged.
ServerOptions ==
    /\ pc = "port" /\ Option("port") \in DOMAIN Number \cup {<<>>}
    /\ g_serverPort' = IF Option("port") # <<>> THEN ToPort(Number[Option("port")]) ELSE g_serverPort
    /\ g_authEnabled' = Enabled("auth")
    /\ IF Option("port") # <<>> \/ Enabled("auth") THEN LogAndGo("debug", "lists")
       ELSE pc' = "lists" /\ UNCHANGED <<files, log>>
    /\ UNCHANGED <<configFile, sockets, ignored, unseen>>

\* stoul() throws, and nobody catches it.
PortThrows ==
    /\ pc = "port" /\ Option("port") \notin DOMAIN Number \cup {<<>>}
    /\ pc' = "crashed"
    /\ UNCHANGED <<config, files, log, sockets, ignored, unseen>>

\* The sections of the lists and of the users are read, here in any order; what
\* is there or missing is logged.
ReadSection ==
    /\ pc = "lists"
    /\ \E s \in Sections : Config!GetSection(s)
    /\ UNCHANGED <<pc, g_serverPort, g_authEnabled, files, log, sockets, ignored, unseen>>

DoConfigReturns ==
    /\ pc = "lists"
    /\ Config!Destroyed
    /\ LogAndGo("debug", "epoll") \/ LogAndGo("warn", "epoll")
    /\ UNCHANGED <<g_serverPort, g_authEnabled, sockets, ignored, unseen>>

-----------------------------------------------------------------------------
(* SocketManager, ServerSocket and CommandSocket. *)

InitializeManager ==
    /\ pc = "epoll"
    /\ \/ Fails("epoll_create") /\ Exit("error")
       \/ /\ m_epollFd' = FreeFd
          /\ files' = [files EXCEPT ![FreeFd] = "epoll"]
          /\ pc' = "server"
          /\ UNCHANGED <<config, log, m_socketFd, boundPort, m_pipeFds, registered, ignored, unseen>>

\* socket() fails: the server is not active, and -1 is true.
NoSocket ==
    /\ pc = "server" /\ Fails("socket")
    /\ LogAndGo("debug", "addserver")
    /\ unseen' = unseen \cup {"socket"}
    /\ UNCHANGED <<config, sockets, ignored>>

\* The descriptor is left open, but the process ends.
InitializeServerFails ==
    /\ pc = "server" /\ (Fails("setsockopt") \/ Fails("bind") \/ Fails("listen"))
    /\ Exit("error")

\* Mutant: the port the program was built with.
InitializeServerDefault ==
    /\ pc = "server"
    /\ m_socketFd' = FreeFd /\ boundPort' = 10080
    /\ files' = [files EXCEPT ![FreeFd] = "listen"]
    /\ pc' = "addserver"
    /\ UNCHANGED <<config, log, m_epollFd, m_pipeFds, registered, ignored, unseen>>

InitializeServer ==
    /\ pc = "server"
    /\ m_socketFd' = FreeFd
    /\ boundPort' \in IF g_serverPort = 0 THEN Ephemeral ELSE {g_serverPort}
    /\ files' = [files EXCEPT ![FreeFd] = "listen"]
    /\ pc' = "addserver"
    /\ UNCHANGED <<config, log, m_epollFd, m_pipeFds, registered, ignored, unseen>>

\* Mutant: the server that is not added is destroyed without being closed.
AddServerLeaks ==
    /\ pc = "addserver"
    /\ \/ m_socketFd # Unset /\ registered' = registered \cup {m_socketFd} /\ UNCHANGED m_socketFd
       \/ m_socketFd # Unset /\ Fails("epoll_ctl") /\ m_socketFd' = Unset /\ UNCHANGED registered
       \/ m_socketFd = Unset /\ UNCHANGED <<m_socketFd, registered>>
    /\ pc' = "addcommand"
    /\ UNCHANGED <<config, files, log, m_epollFd, boundPort, m_pipeFds, ignored, unseen>>

\* epoll_ctl() refuses a server that is not active, whose descriptor is -1.  A
\* socket that is not added is destroyed, and closed if it is active.  main()
\* does not look at what AddSocket returns.
AddServer ==
    /\ pc = "addserver"
    /\ \/ /\ m_socketFd # Unset
          /\ registered' = registered \cup {m_socketFd}
          /\ UNCHANGED <<files, m_socketFd, unseen>>
       \/ /\ m_socketFd # Unset /\ Fails("epoll_ctl")
          /\ files' = [files EXCEPT ![m_socketFd] = Unset]
          /\ m_socketFd' = Unset
          /\ unseen' = unseen \cup {"epoll_ctl"}
          /\ UNCHANGED registered
       \/ /\ m_socketFd = Unset
          /\ UNCHANGED <<files, m_socketFd, registered, unseen>>
    /\ pc' = "addcommand"
    /\ UNCHANGED <<config, log, m_epollFd, boundPort, m_pipeFds, ignored>>

\* GetFd() of the CommandSocket creates the AsyncMessenger and its pipe.
NoPipe == pc = "addcommand" /\ Fails("pipe") /\ Exit("error")

AddCommand ==
    /\ pc = "addcommand"
    /\ LET r == FreeFd
           w == Min({d \in Fd \ {r} : files[d] = Unset})
       IN  /\ m_pipeFds' = {r, w}
           /\ files' = [files EXCEPT ![r] = "pipe", ![w] = "pipe"]
           /\ \/ registered' = registered \cup {r} /\ UNCHANGED unseen
              \/ Fails("epoll_ctl") /\ unseen' = unseen \cup {"epoll_ctl"} /\ UNCHANGED registered
    /\ pc' = "sigpipe"
    /\ UNCHANGED <<config, log, m_epollFd, m_socketFd, boundPort, ignored>>

IgnoreSigpipe ==
    /\ pc = "sigpipe"
    /\ \/ Fails("sigaction") /\ Exit("error")
       \/ /\ ignored' = ignored \cup {"SIGPIPE"}
          /\ pc' = "loop"
          /\ UNCHANGED <<config, files, log, sockets, unseen>>

\* The loop, or the process that has ended.
Started == pc \in {"loop", "exited", "crashed"} /\ UNCHANGED vars

Next ==
    \/ NoConfigFile \/ ConfigFileThere \/ LoadData \/ DaemonMode \/ DaemonizeExits \/ Daemonize
    \/ LogOptions \/ ServerOptions \/ PortThrows \/ ReadSection \/ DoConfigReturns
    \/ InitializeManager \/ NoSocket \/ InitializeServerFails \/ InitializeServer
    \/ AddServer \/ NoPipe \/ AddCommand \/ IgnoreSigpipe \/ Started

Spec == Init /\ [][Next]_vars

-----------------------------------------------------------------------------
(* Correctness. *)

Holds(fd, what) == fd # Unset => files[fd] = what

\* Every descriptor that a part of the program holds or has registered is still
\* open on what that part opened, and no other part's is left: Daemonize, which
\* closes every descriptor, comes before the first of them, the log file
\* included, and a socket that cannot be registered is closed and forgotten.
\* ("files" has no place for what LoadData opens and closes in one call, nor for
\* the socket of a server whose process ends because it cannot listen.)
DescriptorsHeld ==
    /\ Holds(logFile, "log") /\ Holds(m_epollFd, "epoll")
    /\ Holds(m_socketFd, "listen")
    /\ \A d \in m_pipeFds : files[d] = "pipe"
    /\ registered \subseteq {m_socketFd} \cup m_pipeFds
    /\ {d \in Fd : files[d] # Unset} =
            0 .. 2 \cup ({logFile, m_epollFd, m_socketFd} \ {Unset}) \cup m_pipeFds

\* What the file says of a general option, empty if it says nothing, whether it
\* has been read or not.
Said(key) ==
    LET values == Config!Written(document, Config!ItemsThatCount, Proxy, <<key>>)
    IN  IF values = <<>> THEN <<>> ELSE Head(values)

ConfiguredPort == IF Said("port") = <<>> THEN 10080 ELSE Number[Said("port")]

\* Every line of the file that counts has been read.
FileRead == unseen \cap {"fopen", "getline"} = {}

\* When the loop begins a broken pipe does not end the process.  If no failure
\* has gone unseen the server listens where the file says (if it says a port that
\* exists) and the pipe of the workers is registered.  If the file could be read,
\* users have to authenticate just if it says so, and a daemon does not hang up
\* or hold a terminal, whatever else has failed.  A file that is there but cannot
\* be opened says nothing to main(): the port is 10080, and nobody has to
\* authenticate.  A failing call has ended the process, but for those whose
\* failure main() does not see: fopen(), getline(), socket() and epoll_ctl().
ReadyToServe ==
    pc = "loop" =>
        /\ "SIGPIPE" \in ignored
        /\ unseen = {} =>
            /\ ConfiguredPort \in 1 .. PortWidth - 1 =>
                m_socketFd \in registered /\ boundPort = ConfiguredPort
            /\ registered \cap m_pipeFds # {}
        /\ FileRead =>
            /\ g_authEnabled = (Said("auth") = <<"enabled">>)
            /\ Said("daemon_mode") = <<"enabled">> =>
                "SIGHUP" \in ignored /\ \A d \in Fd : files[d] # "terminal"
        /\ "fopen" \in unseen => g_serverPort = 10080 /\ ~ g_authEnabled
        /\ unseen \subseteq {"fopen", "getline", "socket", "epoll_ctl"}

\* The property of ConfigFile, in its place in the program.
LoadedAsWritten == Config!LoadedAsWritten

=============================================================================
