---------------------------- MODULE ProxyRequest ----------------------------
(***************************************************************************)
(* One session from the request of its client to the bytes that reach the  *)
(* server: asyncDetector reads the request and finds the host, the port    *)
(* and the mode in it, asyncConnector answers the client or passes the     *)
(* request on, and HandleClientSocketRead relays what comes after it.      *)
(*                                                                         *)
(* A request is a sequence of pieces, each a run of bytes that no parser   *)
(* looks into.  Admission puts authentication between the two threads; who *)
(* may use the proxy, and which hosts, is AccessControl.                   *)
(***************************************************************************)
EXTENDS Text, FiniteSets

CONSTANTS
    Requests,   \* [method, host, port, headers, body] of clients; see Header
    BufferSize  \* how many pieces fill the 4096 bytes of buf

Blank == " "
LineEnd == "EOL"
Blanks == {Blank, LineEnd}
NUL == "NUL"
Garbage == "garbage"  \* what is behind a buffer
NoPort == "none"

\* What "%d" makes of a piece.
Number == [x \in {"443", "8080", "70000"} |->
            CASE x = "443" -> 443 [] x = "8080" -> 8080 [] x = "70000" -> 70000]

-----------------------------------------------------------------------------
(* The client. *)

Scheme == <<"http", ":", "/", "/">>

Url(r) ==
    LET port == IF r.port = NoPort THEN <<>> ELSE <<":", r.port>>
    IN  IF r.method = "CONNECT" THEN <<r.host>> \o port
        ELSE Scheme \o <<r.host>> \o port \o <<"/", "path">>

RequestLine(r) == <<r.method, Blank>> \o Url(r) \o <<Blank, "HTTP/1.1", LineEnd>>
Header(r) == RequestLine(r) \o r.headers \o <<LineEnd>>

\* What the client has to say.
Message(r) == Header(r) \o r.body
Tunnels(r) == r.method = "CONNECT"

VARIABLES
    req,         \* what the client wants
    sent,        \* how many pieces of its message it has sent
    unread,      \* the pieces in the socket of the session
    pc,          \* "detecting", "connecting", "relaying" and "ended", or "failed"
    m_host, m_port, m_transparent, m_request,  \* the Session
    answered,    \* the client has been told that it is connected
    pending,     \* what the relay has read and has yet to write
    m_isActive,  \* of the client's socket: no error has been seen
    toServer,    \* the pieces that have reached the server
    firstRead,   \* history: what asyncDetector has read
    unsent       \* history: how much of m_request asyncConnector failed to pass on

session == <<m_host, m_port, m_transparent, m_request>>
relay == <<pending, m_isActive, toServer, unsent>>
vars == <<req, sent, unread, pc, session, answered, relay, firstRead>>

Init ==
    /\ req \in Requests
    /\ sent = 0 /\ unread = <<>> /\ pc = "detecting"
    /\ m_host = <<>> /\ m_port = 0 /\ m_transparent = FALSE /\ m_request = <<>>
    /\ answered = FALSE /\ toServer = <<>>
    /\ pending = <<>> /\ m_isActive = TRUE /\ firstRead = <<>> /\ unsent = 0

\* A segment may end anywhere, also in the line that is parsed, and the next one
\* may come at any time.
ClientSends ==
    /\ \E n \in sent + 1 .. Len(Message(req)) :
        /\ unread' = unread \o SubSeq(Message(req), sent + 1, n)
        /\ sent' = n
    /\ UNCHANGED <<req, pc, session, answered, relay, firstRead>>

-----------------------------------------------------------------------------
(* asyncDetector. *)

\* What is read is a string: bytes behind a zero are not seen, and nothing ends
\* a buffer that is full.
IsString(piece) == Len(piece) < BufferSize /\ strchr(piece, NUL) = 0

\* What can be in buf after a read, as a string.
Strings(piece) ==
    LET s == Before(piece, strchr(piece, NUL))
    IN  {s} \cup (IF Len(piece) = BufferSize /\ s = piece THEN {s \o <<Garbage>>} ELSE {})

Read == SubSeq(unread, 1, IF Len(unread) < BufferSize THEN Len(unread) ELSE BufferSize)

Mode(buf) == Word(buf, Blanks)
IsTransparent(buf) == Mode(buf) \in {<<"GET">>, <<"POST">>}

\* CONNECT, and every other word: the url up to its first colon.
ConnectUrl(buf) == Word(AfterWord(buf, Blanks), Blanks)

\* "http://%s" behind the first word, empty if it does not match.
TransparentUrl(buf) ==
    LET rest == SkipBlanks(AfterWord(buf, Blanks), Blanks)
    IN  IF IsPrefix(Scheme, rest) THEN Word(After(rest, Len(Scheme)), Blanks) ELSE <<>>

\* Mutant: the url up to its last slash.
HostOfLastSlash(buf) ==
    IF IsTransparent(buf) THEN Before(TransparentUrl(buf), strrchr(TransparentUrl(buf), "/"))
    ELSE ConnectUrl(buf)

HostOf(buf) ==
    IF IsTransparent(buf) THEN Before(TransparentUrl(buf), strchr(TransparentUrl(buf), "/"))
    ELSE Before(ConnectUrl(buf), strchr(ConnectUrl(buf), ":"))

PortOf(buf) ==
    LET url == ConnectUrl(buf)
        at  == strchr(url, ":")
    IN  IF ~ IsTransparent(buf) /\ at # 0 /\ at < Len(url) /\ url[at + 1] \in DOMAIN Number
        THEN Number[url[at + 1]] ELSE 80

\* Session::SetPort takes sixteen bits.
SetPort(port) == port % 65536

\* There is one read, and what comes later is left in the socket.
Detect ==
    /\ pc = "detecting" /\ unread # <<>>
    /\ firstRead' = Read /\ unread' = After(unread, Len(Read))
    /\ \E buf \in Strings(Read) :
        \/ /\ IsTransparent(buf) /\ TransparentUrl(buf) = <<>>
           /\ pc' = "failed" /\ UNCHANGED session
        \/ /\ ~ (IsTransparent(buf) /\ TransparentUrl(buf) = <<>>)
           /\ m_host' = HostOf(buf) /\ m_port' = SetPort(PortOf(buf))
           /\ m_request' = buf /\ m_transparent' = IsTransparent(buf)
           /\ pc' = "connecting"
    /\ UNCHANGED <<req, sent, answered, relay>>

\* The client has gone, or says nothing for the ten seconds of the timeout.
DetectFails ==
    /\ pc = "detecting"
    /\ pc' = "failed"
    /\ UNCHANGED <<req, sent, unread, session, answered, relay, firstRead>>

-----------------------------------------------------------------------------
(* asyncConnector. *)

ConnectFails ==
    /\ pc = "connecting"
    /\ pc' = "failed"
    /\ UNCHANGED <<req, sent, unread, session, answered, relay, firstRead>>

\* A page is fetched with the request that was read, a tunnel is announced to the
\* client.  A write that fails is logged, and a short one is not noticed: the
\* session goes on.
Connect ==
    /\ pc = "connecting"
    /\ \/ /\ m_transparent
          /\ \E n \in 0 .. Len(m_request) :
                toServer' = SubSeq(m_request, 1, n) /\ unsent' = Len(m_request) - n
          /\ UNCHANGED answered
       \/ /\ ~ m_transparent
          /\ answered' \in BOOLEAN
          /\ UNCHANGED <<toServer, unsent>>
    /\ pc' = "relaying"
    /\ UNCHANGED <<req, sent, unread, session, pending, m_isActive, firstRead>>

-----------------------------------------------------------------------------
(* HandleClientSocketRead on the client's socket: Read, then the loop of      *)
(* Write, after which the dispatch thread may do something else.  The bytes   *)
(* are counted, so a zero is a byte.                                          *)

Idle == pc = "relaying" /\ pending = <<>>

RelayReads ==
    /\ Idle /\ m_isActive
    /\ \E n \in 1 .. Len(unread) :
        pending' = SubSeq(unread, 1, n) /\ unread' = After(unread, n)
    /\ UNCHANGED <<req, sent, pc, session, answered, m_isActive, toServer, unsent, firstRead>>

\* The client has gone, and Read calls OnError, or the read fails, which Write
\* takes for a length, and calls it.
ReadEnds ==
    /\ Idle
    /\ m_isActive' = FALSE
    /\ UNCHANGED <<req, sent, unread, pc, session, answered, pending, toServer, unsent, firstRead>>

\* One write() of the loop, which may be short.
RelayWrites ==
    /\ \E n \in 1 .. Len(pending) :
        toServer' = toServer \o SubSeq(pending, 1, n) /\ pending' = After(pending, n)
    /\ UNCHANGED <<req, sent, unread, pc, session, answered, m_isActive, unsent, firstRead>>

\* Mutant: the socket stays active.
WriteFailsUnseen ==
    /\ pending # <<>>
    /\ pending' = <<>>
    /\ UNCHANGED <<req, sent, unread, pc, session, answered, m_isActive, toServer, unsent, firstRead>>

\* One that fails: what has been read and not written is lost, OnError.
WriteFails ==
    /\ pending # <<>>
    /\ pending' = <<>> /\ m_isActive' = FALSE
    /\ UNCHANGED <<req, sent, unread, pc, session, answered, toServer, unsent, firstRead>>

\* The next event of a socket that is not active ends the session, and so does
\* the server's socket, or the pruning of the sessions, whatever is unread.
SessionEnds ==
    /\ Idle
    /\ pc' = "ended"
    /\ UNCHANGED <<req, sent, unread, session, answered, relay, firstRead>>

Relay == RelayReads \/ ReadEnds \/ RelayWrites \/ WriteFails \/ SessionEnds

\* The session is over.
Quiet == pc \in {"failed", "ended"}

-----------------------------------------------------------------------------
(* Correctness. *)

\* The port a client names, or the one its method stands for.
NamedPort(r) == IF r.port = NoPort THEN 80 ELSE Number[r.port]

Detected == pc \in {"connecting", "relaying", "ended"}

IsRelayed(r) == r.method \in {"CONNECT", "GET", "POST"}

\* The host and the port that the proxy connects to, and that the block lists
\* are asked about, are those the client has named, if its first line is in the
\* first read, however much of the rest has come with it.  A GET or POST names no
\* port.  (A line that is cut is parsed all the same, and names another host.)
HostAsNamed ==
    Detected /\ IsRelayed(req) /\ Len(firstRead) >= Len(RequestLine(req))
             /\ (Tunnels(req) \/ req.port = NoPort) =>
        /\ m_host = <<req.host>>
        /\ NamedPort(req) < 65536 => m_port = NamedPort(req)
        /\ m_transparent = ~ Tunnels(req)

\* What the server gets from asyncConnector, and all that comes behind the first
\* read, from the relay.
Resent == IF m_transparent THEN SubSeq(firstRead, 1, Len(firstRead) - unsent) ELSE <<>>
Behind == After(Message(req), Len(firstRead))

\* The server gets every byte once and in order: of a page the part that came
\* with the first read and was kept in the session, then, in both modes, the part
\* that waited in the socket while the worker was connecting, and the rest.
\* There are two ways to lose some of it, and no third: a resend that failed or
\* was short leaves a hole behind it, and after a relay that failed nothing comes
\* any more.  All else that has been sent and read has arrived.  The first read
\* of a page has to be a string.  (What of a tunnel's header comes behind the
\* first read reaches the server too, and what it says with the header does not.)
RelayedInOrder ==
    (m_transparent => IsString(firstRead)) =>
        /\ IsPrefix(toServer, Resent \o Behind)
        /\ Idle /\ m_isActive /\ unread = <<>> /\ sent = Len(Message(req)) =>
                toServer = Resent \o Behind

=============================================================================
