# A TLA+ model of nermalproxy

nermalproxy is an HTTP proxy: one dispatch thread relays data between pairs of
sockets, a pool of worker threads reads requests, resolves hosts and connects,
and a pipe carries their results back. This directory holds TLA+ modules
translated from the C++ source, TLC configurations that check them on small
instances, and TLAPS proofs for instances of any size.

## Inventory

| Part | State it keeps | Operations | Meets |
|---|---|---|---|
| `SocketManager` (dispatch thread) | `m_sockets`, the epoll set, the events of one pass | `ProcessSockets`: accept, relay, read a result, prune when idle | every other part |
| `ProxyConnector`, `asyncDetector`, `asyncConnector` | the locals of a worker: session pointer, socket | read and parse a request; check the lists; resolve and connect | sessions, pool, pipe, DNS cache |
| `ThreadPool` | list of packages, mutex, semaphore | `Dispatch`, worker loop | dispatch thread, 20 workers |
| `SessionManager` | list of sessions, next id | create, look up, end | dispatch thread and workers, by pointer, the lock covers the list only |
| `ClientSocket` | descriptor, peer's descriptor, session id, active flag | `Read`, `Write`, `OnError`, destructor closes | kernel |
| `AsyncMessenger`, `CommandSocket` | a pipe, a write lock | blocking write, one read for each event | workers write; the dispatch thread reads and, for a forbidden host, writes |
| `HostResolver`, `HostInfoCache` | list of host entries, mutex | look up, fill, clear | workers |
| `AuthManager`, `TimeMap`, `Policy`, `BlackList` | users, schedules, lists; fixed after start | decode credentials, decide a request | dispatch thread |
| `GlobalStats`, `UserStats`, `SiteStats` | byte and time counts by user and host, the number of the next log | accumulate, write and reset when idle | dispatch thread (`EndSession`, idle pass), numbered files on disk |
| `ConfigFile` | sections, keys, value lists | load line by line, read by name or position | `DoConfig` |
| `main`, `ServerSocket`, `Log` | options, descriptors and registrations, the log's level and file | start-up step by step, each call may fail | the system |
| `Timestamp` | none | the monotonic clock in milliseconds, nearly | sessions, DNS cache, audit log, `Log` |

What makes it hard: a session is used by two kinds of threads through a bare
pointer and only a protocol of hand-overs keeps them apart; descriptors are
closed and reused while numbers are kept in sessions, sockets, messages and
the event array of the pass; one thread serves everybody and can block; rare
failures (no descriptor, `epoll_ctl` refused) leave a step half done; a
`write()` may take part of a buffer before one fails, and a resend that fails
is only logged; loops erase from the list they run over; parsers write into the
text they parse and ignore what `sscanf` returns; a configuration file that
cannot be opened is taken for an empty one; a request arrives in pieces, of
which only the first is parsed; and what the audit log says passes through
counters, periods and files, and through a process that may end while it writes
one.

Correctness, part by part: a session is held in one place and the list knows
exactly the held ones; a stored client descriptor is always the session's own;
registered sockets come in pairs; an event reaches the socket it was for; the
dispatch thread never waits for itself; every session is answered and every
end of file ends its session; packages are neither lost nor run twice; the DNS
cache gives only fresh addresses of the right host and forgets what fails; the
server gets the bytes meant for it once and in order, with no hole but that of a
failed write; credentials decode to what was
encoded and name the right user; a configuration says what its file says; the
loop begins only on a proxy that is set up, but for failures that go unseen; and
the audit log is complete, of one period each file, and truthful, but for a file
that was cut off.
`PROJECT.json` lists the hazards line by line.

## Modules

**NermalProxy** — the core. `sessions`/`nextId` are `SessionManager`;
`sockets`/`nextReg` are the `ClientSocket`s of `m_sockets` in list order;
`fds` is the kernel's table, with (as history) the session each connection was
opened for; `work` and `workers` are the pool with each handler's progress;
`pipe` is the messenger; `events` the part of `epoll_wait`'s array still to be
dispatched; `main` what the dispatch thread is in the middle of. Handlers of
the event loop are one action for each path through them: `Refuse` (400, 403,
404, 407), `ConnectProxy`, `ForbidHost` then `SendErrorResponse`,
`RegisterPair`; `ReadNothing`, `CloseSession`, `RelayData`, `RelayStalls`;
`HandleServerSocketRead`, `AcceptFails`. A worker runs `TakeWork`, then
`AsyncDetector`, or `ResolveFails`, or `OpenSocket` and `DialSucceeds` or
`DialFails` and `ClearCacheForHost`. Undefined behaviour is explicit: a null
session ends the process (`CommandFault`, `AfterRelay`, `TakeWork`), a pointer
to an erased session may (`UseAfterErase`) or may go unnoticed, and the peer
read from a deleted socket may be lost (`FreedPeer`). Two rare outcomes are
switched by `Faults`: `epoll_add`, `freed_peer`.

**SessionProtocol** — what a session promises: new, detecting, connecting,
relaying, ended, in this order, one session at a time; the end of the process
ends all. `NermalProxy!Stage` is the refinement mapping: the stage of a session
is read off the place that holds it.

**ThreadPool** — `Dispatch` and the worker loop, one action for each call on
semaphore, mutex and list. **WorkQueue** is the FIFO it implements. In
NermalProxy the pool is that queue: `work` is a sequence, taken atomically.

**HostCache** — `HostInfoCache` with the iterator arithmetic of its loops (one
turn is `SweepStep`, the loop `Sweep`), and workers that look up, query, add, dial and clear. Each cache
operation is atomic (it holds the mutex); the steps between them are not. The
clear uses the right host here; that the session naming it may be gone is
`ClearHasItsSession` in NermalProxy.

**AccessControl** — `DoConfig` file by file and user by user, and the decision
of the dispatch thread on a detected request: `AuthManager`, `TimeMap`,
`UserPolicyList`, `BlacklistList`, `isAllowed`. The reference it is checked
against reads the configuration file directly. The configuration is what
`ConfigFile` makes of it: names are unique, because a repeated key adds to the
value list of the first; a user is not called `<global>`. The lists of a policy
are a set: all of them are asked, and the order tells nothing.

**Credentials** — `Base64Decode`, one `Decode` for each pass of its loop, with
the 32 bits of `tmp`, the buffer's size and its two ways to fail; then
`Authenticate`: the first colon becomes a blank, `sscanf` takes two words.
`Encode` is the reference, written from RFC 4648 and not from the code.

**ProxyRequest** — one session seen from its client's bytes. A request is a
sequence of pieces; the client sends it in segments that may be cut anywhere,
the request line included. `Detect` is one `read()` and the parsing of it
(`Mode`, `HostOf`, `PortOf`); `Connect` resends the kept request, in full, in
part or not at all, or answers the client; `HandleClientSocketRead` on the
client's socket is `RelayReads` and `ReadEnds`, then one `RelayWrites` or
`WriteFails` for each `write()` of the loop in `Write`. A failed write loses what
was read and not written and makes the socket inactive; `SessionEnds` is the
next event of such a socket, the server's end, or pruning, whatever is unread.
`Strings` is what a C string makes of a buffer: it
ends at a zero, and a full buffer has no end. In NermalProxy the outcome of the
detector is a free choice and bytes are not counted.

**Admission** composes the two: it EXTENDS Credentials, instantiates
ProxyRequest, and adds the part of `HandleCommandSocketRead` that stands
between them (`HasCredentials`, `Admitted`). The request goes on arriving while
its credentials are decoded and while the worker connects. In AccessControl the
credentials are already a name and a password; `ServedAsItsUser` is why that is
enough.

**AuditLog** — the recorded part of a session (`host`, `user`, `rx`, `tx`,
`start`), `EndSession`'s additions to `m_userStats`, and the `IdlePass` that
finds the period over. From there on `logging` is the place that `LogAndReset`
has come to: `OpenLogFile` (with its truncation), `WriteHeader`, one `WriteLine`
for each host, `CloseLogFile`, user by user, then `Reset`. Each of the calls may
fail, or a write be short, and `Restart`, which keeps only the files, may come
between any two of them. The bytes of a session go through `ClientToProxy` and
`ProxyToClient`: `Reads` is what `read()` returns as a `size_t`, `Taken` how much
of it the calls of `write()` take before one fails, `Write` what is returned
then. `reached` and `fetched` are history: the bytes that reached the server,
counted at the calls of `write()`, and those read from it. `tag` names run and
period, `failed` and `cutOff` the files for which a call failed or during which
the process ended, as history too. **Clock** is `Timestamp()`, in hundredths of a
second, the unit that its division leaves.

**ConfigFile** — `LoadData`: `SectionLine`, `OtherLine`, `KeyLine`, then
`NextValue` for each piece between commas, on the buffers of the code; a
`sscanf` that matches nothing leaves its buffer as it was; `GetSection` is the
enumeration of what was read. It has no specification of its own: its steps are
taken by Startup. The reference (`Written`) reads the items the file was
written from: sections, entries, comments, blank lines and lines that belong to
none of these. **Text** holds `strchr`, `strrchr` and `"%s"`, which three of the
parsers share.

**Startup** — `main()` as a sequence of steps with `pc`, a table of descriptors
and `Faults`, the calls that may fail, `fopen` and `getline` of the configuration
file among them. It instantiates ConfigFile (`Config`), so
its general options are what the parser makes of the lines of the file, and its
properties compare the running proxy with the file. `unseen` records the failed
calls whose result nobody looks at. The state with `pc = "loop"` is where
NermalProxy's `Init` begins; the lists and users that `DoConfig` reads last are
AccessControl's.

**MCNermalProxy** adds the symmetry of descriptors and workers for TLC.
**MCAuditLog**, **MCAdmission** and **MCStartup** give the sets of inputs,
**MCAccessControl** the configurations.
**SessionProofs** (for NermalProxy), **ThreadPoolProofs**, **HostCacheProofs**,
**AccessControlProofs**, **AdmissionProofs** (for Credentials and ProxyRequest
too), **AuditLogProofs** and **StartupProofs** (for ConfigFile too) hold the
proofs, and **TextProofs** what two of them need to know about texts.
Operators whose comment begins with "Mutant" are deliberate bugs, used to see
that a property would notice; no specification uses them.

## Runs

| Run | Instance | Shows |
|---|---|---|
| `sessions` | 3 sessions, 4 descriptors, 2 workers, 3 events a pass, no fault | `HeldOnce`, `LiveIffHeld`, `ClientFdIsOurs`, `NoForgottenClients`, `PairedSockets`, `PipeHasRoom`, and refinement of SessionProtocol |
| `faults` | 3 sessions, 4 descriptors, 1 worker, both faults | `RegisteredOpen` and `EventsNotStale` survive the faults (pairing does not) |
| `progress` | 2 sessions, 4 descriptors, 1 worker, fairness | `SessionProgress`, `EofEndsSession` |
| `thread_pool` | 3 workers, 5 packages, fairness | `FrontNotEmpty`, `NothingLost`, refinement of WorkQueue, `EventuallyRun` |
| `host_cache` | 2 hosts, 2 workers, 3 entries, 4 answers, clock 0..3, age 1 | `DialsFreshAddresses`, `ClearHalves`, `ExpiryHalves`, `ErasesOnlyItsOwn` |
| `access_control` | 2 lists, 2 users, 2 hosts, 2 addresses, days of 2 hours; 864 configurations | `AnswerAsConfigured`, `ServedAsRequester` |
| `admission` | 2 users, 366 encoded texts and 1093 sources of `/`, `=` and `!`; CONNECT with 4 ports, GET, POST and PUT, with and without credentials, bodies of up to 2 pieces, with zeros, every cut; a buffer that one page fills; resends and relays that fail or are short, sessions that end | `InBuffer`, `GroupsOfFour`, `DecodesText`; `ServedAsItsUser`; `HostAsNamed`, `RelayedInOrder` |
| `audit` | 2 users, 2 hosts, 2 sessions, 3 periods, 2 log numbers, failing and short calls on files, the end of the process at any moment; reads of up to 2 bytes, failing reads, writes that fail after any part, counters that begin with anything | `AuditComplete`, `FilesTruthful`, `TimeWithinASecond`, `BytesAsRelayed` |
| `startup` | all files of up to 3 lines of 10 kinds, every choice of options with 6 ports, every failure | `LoadedAsWritten`, `ReadyToServe`, `DescriptorsHeld` |

`ClearHalves` and `ExpiryHalves`, `RegisteredOpen`, `BytesAsRelayed`,
`TimeWithinASecond`, `LoadedAsWritten` and `ReadyToServe` say what is left of a
promise that the code does not keep in full: how many entries survive a clear
that skips, how far a count is off and only in which cases, what a missing
value becomes, which failures go unseen. They are as strong as the code
allows, and a change to it that makes matters worse violates them.

Runs that are expected to fail, each a disagreement between the code and what
a comment or the documentation says of it:

| Run | Violated | What happens |
|---|---|---|
| `clear_cache` | `ClearHasItsSession` | the worker reports a failed connect, the dispatch thread ends the session, the worker asks it for its host |
| `stalled_write` | `WriteEnds` | `Write` retries the `EAGAIN` that the send timeout produces |
| `daily_log` | `LogsWhenDue` | clients that keep every pass busy keep the log from being written, though `README.md:62-63` of the repository says it is dumped daily |

### Other deviations

These were met while modelling. The models contain each of them, since they
follow the code; the passing properties are worded around them.

- A connect that fails never closes its socket (`ProxyConnector.cpp:187`,
  action `DialFails`): each one costs a descriptor until `accept()` fails.
  `NoForgottenClients` therefore speaks of clients only.
- If one of the two `AddSocket` calls fails (`SocketManager.cpp:334`, fault
  `epoll_add`), one end of the pair is closed and its number reused while the
  other end still writes to it. The new owner of the number then receives the
  bytes of another session. `PairedSockets` and `ClientFdIsOurs` hold without
  this fault only.
- The loops of the DNS cache erase while they iterate (`HostInfoManager.cpp:43`
  and `:56`): a clear skips the entry after an erased one, and a lookup skips
  the fresh entry after an expired one.
- `LogAndReset` truncates a file before it writes it (`UserAuth.cpp:386`): a
  process that ends in between leaves a file without its last lines, or an empty
  one, in the place of an older record, and the users whose turn was yet to come
  without a file of the period. `FilesTruthful` names that one file (`cutOff`).
- The byte counters of a session are not initialised (`Session.cpp:42`), and a
  failed `read()` counts as 2^64 - 1 bytes (`ClientSocket.cpp:79`). A `Write`
  that fails returns 0 also if part of the bytes has gone
  (`ClientSocket.cpp:126`): these are missing from the count.
- What `Write` has read and could not write is lost (`ClientSocket.cpp:126`),
  and a resend that fails is logged (`ProxyConnector.cpp:196-199`), a short one
  not even noticed: the relay goes on behind the hole. `RelayedInOrder` allows
  these two holes and no other.
- `Timestamp` divides nanoseconds by 10^7 (`Timestamp.cpp:42`): the part below
  a second is in hundredths but added to milliseconds.
- A missing configuration value stores what is in the buffer
  (`ConfigFile.cpp:190`), and a `#` ends a line wherever it stands, inside a
  value too (`ConfigFile.cpp:152`).
- `return -1` in a `bool` function (`ServerSocket.cpp:78`) makes a failed
  `socket()` a success: the loop begins on a proxy that does not listen. What
  `AddSocket` returns is not looked at either.
- A configuration file that is there but cannot be opened (`ConfigFile.cpp:138`)
  says nothing to `main()`: the proxy runs on port 10080 and without
  authentication, whatever the file says. If `getline` fails, the rest of the
  file is missing. `ReadyToServe` names both cases.
- `log_verbosity: verbose` is refused (`main.cpp:118`), although
  `default.conf:16-17` offers it.
- A request is decided on its first segment (`ProxyConnector.cpp:239`): headers
  that come later, credentials among them, are not seen, a line that is cut names
  another host, and what comes later of the header of a CONNECT is relayed to
  the server. The first read is copied as a C
  string (`ProxyConnector.cpp:288`): a zero byte in a body that comes with the
  headers cuts off the rest, and a buffer that is filled to its end has no zero
  behind it. A port in the url of a GET stays part of the host's name
  (`ProxyConnector.cpp:279`).

### Bounds

`MaxSessions` bounds accepted connections: three let one session end, a second
reuse its descriptors and a third run beside it. Four descriptors hold two
full pairs, so that descriptors run out. `MaxEvents` (10 in the code) is 3, so
that a pass can hold events of both ends of a session and of the pipe; in the
progress run it is 6, one for every source that exists there, because a
level-triggered `epoll_wait` that can leave a ready source out of every batch
is not what the kernel does. `PruneLimit` (200) is small enough for pruning to
happen with one or two pairs. `PipeCapacity` (4096 messages of 16 bytes) is 4;
`PipeHasRoom` holds because each message belongs to a session of its own and a
session holds a client descriptor, so the number of messages is less than the
number of descriptors: what is assumed of the real system is that the
descriptor limit is below 4096. ThreadPool needs two workers between
`sem_wait` and the lock, and has three. HostCache needs three entries of one
host (`ClearHalves`), and stamps that are out of order in the list, which two
workers and a clock of four readings give. AccessControl has both users with
and without lists, address and schedule, a readable and an unreadable file,
minutes on both sides of each half hour, and two hours instead of 24 a day;
the decision compares names only, so two of each kind tell its cases apart.

A piece of a request in ProxyRequest is what no parser looks into, and a read,
a write and a cut are of whole pieces; `BufferSize` (4096 bytes) is 16 pieces,
which one request fills and the others do not. The requests of `admission` are
cut everywhere, but for the one that is tried with every source: that one comes
as a whole (the constraint `SentWhole`), since what its cuts do is seen with the
others. Texts of five
characters fill one group of four, leave one, two and three bytes in the next,
and hold a name, a colon and a password with a colon; other sources put padding
and foreign characters in every place of a group and a half. All sources are tried with
one request, all requests with right and with wrong credentials: the two do
not look at each other's data. `Modulus` of Credentials is 2^30, because TLC's
numbers end below 2^32; the proof needs at least 2^24. In AuditLog the
byte counts wrap at 5 instead of 2^64 (reads of up to two bytes, a failed read,
-1, and what is missing after a failed write of two bytes then differ). `audit`
counts bytes in every way there is for one user and one host before the clock
moves, and writes the log of sessions without bytes and of one that has sent one
byte and got two (the constraint `BytesOrLog`): the log copies counters and does
not look at them. There two log numbers stand for 31 and three ticks of the clock, each
longer than a period of a second, for the days; two sessions are one that ends
in the period it began in and one that outlasts it. Configuration files of
three lines have two parts of a section with another between them, a repeated
key, and a line behind a stray one; the files that set options are longer and
have every combination of them. Startup needs eight descriptors: three standard
ones, log, epoll, server and two ends of the pipe.

### Fairness

Weak fairness of the dispatch thread and of each worker: the scheduler runs
every thread that can run, and the blocking calls of a worker end by themselves
(receive timeout on the client, timeouts of the resolver and of TCP). `progress`
adds `WF(StalledWriteEnds)`: a remote end that is written to reads or closes.
That is an assumption about the environment, and `stalled_write` shows what
happens without it. In ThreadPool a dispatch that has begun ends; the
dispatcher need not begin one. In AuditLog `FairSpec` says that the dispatch
thread goes on from pass to pass, and no more: whether a pass finds events is up
to clients and servers, which is what `daily_log` shows. Admission assumes no
fairness.

## Proofs

All theorems hold for any sets of descriptors, workers, users, hosts and
configurations and any bounds admitted by the `ASSUME`s of the modules.
`PROJECT.json` lists them with the property each of them states.

**The core, for any number of threads, descriptors and sessions**

- `ProxyTypeOK` (SessionProofs): `Spec => []TypeOK` with all faults; one
  lemma for each group of actions.
- `ProxyHeldOnce`, `ProxyLiveIffHeld`, `ProxyClientFdIsOurs`,
  `ProxyPairedSockets` (SessionProofs), for `Faults = {}`. None is inductive
  alone: that a hand-over does not put a session in two places needs
  `LiveIffHeld` (a held session is live), that accepting opens no second use
  of a descriptor needs `ClientFdIsOurs`, that a pair is closed as a whole
  needs `PairedSockets`. `SInv` joins the four with `TypeOK` and three facts:
  a live session has a number already given out (`FreshIds`), the registered
  socket that faces the client is on the session's descriptor
  (`ClientIsListed`), and the descriptor that a dialling worker or a success
  message carries is the server connection opened for that session
  (`ServerFds`). The steps are lemmas by kind of hand-over:
  a session moves between two places (`HandOver`), leaves (`RefuseStep`,
  `DestroyStep`), enters (`AcceptStep`), becomes a pair (`RegisterStep`), or
  nothing that matters changes (`QuietStep`). With a fault the theorems are
  false, see "Other deviations".
- `ProxyNoForgottenClients` (SessionProofs, `Faults = {}`), the converse of
  `ClientFdIsOurs`: along the same kinds of steps, with `SInv`.
- `ProxyPipeHasRoom` (SessionProofs, `Faults = {}`): the sessions of the
  messages are held apart, so messages map one to one to open client
  descriptors; the session being refused is one more. The hypothesis
  `Cardinality(Fds) <= PipeCapacity` is the one of "Bounds": a pipe of 64 KiB
  holds 4096 messages, which the usual limit on descriptors is below.
- `ProxyImplementsProtocol` (SessionProofs, `Faults = {}`): the refinement of
  SessionProtocol. `StageReads` says which place of a session gives which
  stage; with `HeldOnce` a step that moves one session changes the stage of no
  other.
- `ProxyEventsNotStale`, `ProxyRegisteredOpen` (SessionProofs), with every
  fault. `SInv` is false then, and its place is taken by `DInv`, which keeps
  what faults cannot disturb: sessions on their way through queue, workers and
  pipe are apart, their descriptors are open, their own, and not registered
  (`HeldClients`, `OwnClients`, `ServersUnregistered`), and while the event of
  the pipe is pending no other event of the pass names a descriptor that the
  message at its head will register (`HeadPrepared`). The last is what makes
  `EventsNotStale` inductive.

**The pool**

- `PoolTypeOK`, `PoolFrontNotEmpty`, `PoolNothingLost`, `PoolImplementsQueue`
  (ThreadPoolProofs). The inductive invariant says that the mutex is held by
  the thread inside the critical section (`MutexHeld`), that the list is as
  long as the semaphore's value, the workers woken but not yet past
  `pop_front` and a post still due add up to (`SemCountsWork`), and where each
  package is (`ListedInOrder`, `CopyOfFront`, `TakenOnce`).

**Access**

- `AnswersFollowConfiguration`, `ConnectedAsRequester` (AccessControlProofs):
  `AnswerAsConfigured` and `ServedAsRequester` for every configuration file,
  request, moment and length of the day. `Tables` says what the tables hold at
  each part of `DoConfig`: the readable ones of the files read so far, an entry
  and a policy for each user added so far, the policy for everybody at the end.
  From it follows what each search says of the file (`ListAnswers`,
  `DomainsOf`, `TimeAnswers`, `CredentialsAnswer`, `AddressAnswers`); the
  half-hour index is arithmetic (`MapAnswers`), and the three ways through the
  handler are a lemma each.

**The DNS cache, for any hosts, workers, list length and age**

- `CacheTypeOK` and `CacheDialsFresh`: `TypeOK` and `DialsFreshAddresses`.
  `CacheInv` adds to the types what a worker keeps between two steps (`Fetched`):
  its host, and addresses of that host that had not expired when it got them,
  from the list or from the resolver.
- `CacheClearHalves`, `CacheExpiryHalves` and `CacheErasesOnlyItsOwn`:
  `ClearHalves`, `ExpiryHalves` and `ErasesOnlyItsOwn`. The loop that erases while
  it iterates is a recursive function of list and iterator; that there is one, on
  any list, is shown by counting the turns that are left (`Turns`). `Promise` is
  what a run of the loop from any of its states does to the list, and one turn
  followed by a run that keeps it is a run that keeps it.

**Credentials and requests, for any text, request and cut into segments**

- `BufferSafe` and `DecodesGroups` (AdmissionProofs): `InBuffer` and
  `GroupsOfFour` for sources of any length, with `tmp` of at least 24 bits.
  `GroupsOfFour` speaks of finished groups only; `DecodeInv` adds what `tmp`
  holds after one, two and three characters of a group (`GroupSoFar`) and that
  three bytes are written for each four characters read.
- `DecodesEncodedText`: `DecodesText`. A number of 24 bits is its four digits of
  six bits and its three of eight (`SixBits`, `EightBits`); so each group of the
  encoding gives three bytes back, and what the padding added is behind the end
  of the text.
- `ServedByName`: `ServedAsItsUser`. `KnowsUser` says that the name found in a
  text is that of a user who could have sent it, and that one is found if there
  is such a user; `AdmitInv` says at which stages the request has been decided
  and admitted.
- `NothingLostBetweenThreads`: `RelayedInOrder`. `RelayInv` is the inductive
  part. Until the connection is made, the first read and what is in the socket
  are together what the client has sent (`Waits`). From then on (`Flows`) what
  reached the server, what the relay has read and not written and what is in the
  socket are, one behind the other, what `asyncConnector` passed on and all that
  was sent behind the first read, as long as no relay has failed; and after that
  what reached the server is a beginning of it (`Carried`). Each of a send, a
  read, a short, a full and a failed write has its lemma (`CarrySends`,
  `CarryReads`, `CarryWrites`).
- `ConnectsToTheHostNamed`: `HostAsNamed`. A first read with the whole line in
  it begins with the line of the request (`BeginsWithLine`, from `RelayInv`); on
  such a text the parser finds the method
  (`DetectsMode`), and from there the host and the port of a tunnel
  (`DetectsTunnel`) or of a page (`DetectsPage`).

**The audit log, for any number of users, hosts, sessions, periods and restarts**

- `TimeCorrect`: `TimeWithinASecond`. The inductive `SessionsInv` says that
  sessions are well typed and began no later than now; the rest is arithmetic
  on the two parts of a reading of the clock.
- `BytesCorrect`: `BytesAsRelayed`, for counters of any width and buffers of any
  length. It is kept by the running sessions too (`Counted`), because a socket
  whose write or read has failed is not active any more (`Agrees`): a second
  failure would add to the first. The arithmetic is that of counters that wrap
  (`ModAdds`, `CountedBehind`).
- `AuditTypeCorrect`: `TypeOK`, with the statistics and the files on disk.
- `AuditIsComplete`, `LogFilesTruthful`. `AuditInv` has four parts: a line in
  memory is the tally of the sessions of this period (`Memory`); a file has
  lines of the tally of its user and period, all of them if no call for it
  failed, it is not open and it was not cut off (`Disk`); each of the last
  `m_logPersistence + 1` periods still has its file, in the slot that counting
  back from `s_logNumber` gives, or this period has taken the place of the
  oldest (`Kept`); and while the log is being written, the users before the one
  in turn have their files, and his is open with as many lines as calls have been
  made (`LogInv`). `HistoryInv` adds that no session ended in a period to come.
  `Calls` is what the five calls of `LogAndReset` have in common, so each part
  of the invariant is shown for them once. A tally is a sum over a set; that
  adding a session adds its bytes (`SumAdds`) is an induction over the size of
  the set. The induction theorems of the library cannot be used, so the module
  derives its own from the least number of a set (`LeastNat`, `InductionOnNat`),
  with a set in the place of the predicate.

**Start-up**

- `StartupHoldsDescriptors` (StartupProofs): `DescriptorsHeld`, whatever the
  file says and whichever calls fail. `StageInv` says which parts hold a
  descriptor at which step; hence at most seven are open when one is opened,
  and a table of eight has a free one (`SomeFree`).
- `StartupLoadsWhatIsWritten`: `LoadedAsWritten`, for files of any number of
  lines, and lines of any number of values. It has three parts. A line of each
  kind is read as what it was written from (`SectionLineIs`, `EntryLine`,
  `StrayLine`, `BlankLine`), and so is the rest of a line of values behind the
  first `c` of them (`ValueStep`). `AddSection` and `AddValue` change one list of
  values at its end and no other (`AddValueIs`), and keep names apart. `FileInv`
  puts the two side by side: between two lines the lists hold what the lines say
  (`Faithful`), within a line what it says up to its next value (`FaithfulIn`);
  every entry has its attribute (`Complete`), every attribute has an entry
  (`Known`), and they come in the same order (`Ordered`), which is what makes
  "once and in order" inductive.
- `StartupReadyToServe`: `ReadyToServe`. `OptionIs` takes from `FileInv` that an
  option is what the lines that were read say; `ReadInv` that these are all that
  count, unless `fopen` or `getline` failed (`Whole`), and none if it was
  `fopen`; `ServeInv` says what has been done at each step of `main()` on the way
  to the loop, and each step has its lemma.

Assumptions that only the proofs need, beside types and bounds: the value that
stands for "nothing" is no file of the log (`NoneAssumption`) and no descriptor
(`UnsetAssumption`), and the empty name is not `<global>` (`NamesAssumption`).
Texts that are encoded consist of bytes other than zero, which ends a string
(`TextsAssumption`). The host in a request has no blank, zero, colon or slash in it and
its port is a number (`RequestsAssumption`); headers and body are any pieces,
of any number. What is written in a
configuration file has no character in it that would end it there: no blank or
`#` in a name, key or value, no colon in a key, no comma in a value, no `[` in a
key or value
(`DocumentsAssumption`; the values of `startup` have colons). The three options
of `ReadyToServe` have a value where they are mentioned: the first value of a
line, if it is missing, is read from a buffer that nobody has written, and
`LoadedAsWritten` leaves open what it is.

Only model-checked:

- Liveness under fairness, which is out of the prover's reach:
  `SessionProgress`, `EofEndsSession`, `EventuallyRun`.

Every invariant and every other property of the runs that must hold is a theorem.
Where a definition is recursive over data (the values of a line, the lines of a
file, a tally), the proofs do without the induction theorems of the library,
which take an operator as a parameter: a set takes its place (`InductionOnNat`),
and that a recursive function exists is shown where it is needed (`Recursion`,
`Turns`).

## Not modelled, and the plan

Left out: the wording and layout of log messages and responses; texts that are
longer than the fixed buffers of `sscanf` and `sprintf` (the inputs of the
models are shorter); the keep-alive options of sockets; `EAGAIN` and `EINTR` of
`epoll_wait`, which are passes that do nothing; functions that nobody calls
(`DumpUserStats`, `SiteStats::Print`, `ServerSocket::OnError`). The access
rules, the request and the counters are free choices in NermalProxy, so its
properties hold whatever the other modules decide.

Two compositions are modules: Admission (ProxyRequest, Credentials) and Startup
(ConfigFile). The others meet in fixed places: `Startup`'s loop is
`NermalProxy`'s `Init`; `ConfigFile`'s sections are the configuration that
`AccessControl` takes; `ProxyRequest` is what `AsyncDetector`, `DialSucceeds`
and `RelayData` do to the bytes; `AuditLog` is what `EndSession` and
`EpollTimeout` do to the statistics; `Admission` with `AccessControl` is what
`Refuse` and `ConnectProxy` choose between.

What is left: `Log`'s null pointer when `logs.txt` cannot be opened
(`Log.cpp:80`) is a step of Startup (`"crashed"`), and no property speaks of it.
