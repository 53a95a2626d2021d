------------------------------ MODULE HostCache ------------------------------
(***************************************************************************)
(* The DNS cache (HostInfoCache) and the worker threads that look hosts    *)
(* up in it, fill it from getaddrinfo() and clear it when no address       *)
(* answers (HostResolver, asyncConnector).  Each operation of the cache    *)
(* holds its mutex from end to end and is one step; a lookup, the query it *)
(* leads to and the filling of the cache are three, and other threads come *)
(* in between.                                                             *)
(*                                                                         *)
(* A clock reading stands for Timestamp(); a lookup reads the clock once,  *)
(* where the code reads it again at every entry.                           *)
(***************************************************************************)
EXTENDS Integers, Sequences, FiniteSets, SequencesExt

CONSTANTS
    Hosts,         \* the host names that are asked for
    Workers,       \* the threads of the pool
    maxCacheSize,  \* entries the list holds
    maxAge,        \* age up to which an entry counts
    MaxAnswers,    \* bound: answers of getaddrinfo() in one behaviour
    MaxClock,      \* bound: the last clock reading
    None           \* no host

ASSUME BoundsAssumption ==
    /\ maxCacheSize \in Nat \ {0}
    /\ {maxAge, MaxAnswers, MaxClock} \subseteq Nat

\* An address is the number of the answer it came with.
HostInfo == [url : Hosts, address : 1 .. MaxAnswers, Timestamp : 0 .. MaxClock]

VARIABLES
    m_hostInfo,  \* the list of the cache
    clock,       \* the clock behind Timestamp()
    answers,     \* number of answers getaddrinfo() has given
    connector    \* what each thread is doing: the host it is to reach, the
                 \* addresses it has for it and when it got them

vars == <<m_hostInfo, clock, answers, connector>>

Idle == [pc |-> "idle", host |-> None, hostAddresses |-> <<>>, at |-> 0]

Init ==
    /\ m_hostInfo = <<>>
    /\ clock = 0
    /\ answers = 0
    /\ connector = [w \in Workers |-> Idle]

Goto(w, pc, h, addresses) ==
    connector' = [connector EXCEPT ![w] =
        [pc |-> pc, host |-> h, hostAddresses |-> addresses, at |-> clock]]

-----------------------------------------------------------------------------
(* The list and the loops over it. *)

\* One turn of the loop "for (it = begin(); it != end(); it++)" that erases with
\* "erase(it++)": past an erased entry the iterator is advanced twice.  When
\* the last entry is erased the second advance starts from end(), which in the
\* circular lists of libstdc++ and libc++ leads back to begin().  The entries
\* of take that are met are collected.
SweepStep(s, erase, take) ==
    LET rest == RemoveAt(s.list, s.it)
    IN  IF s.list[s.it] \in erase
        THEN [list |-> rest, it |-> IF s.it > Len(rest) THEN 1 ELSE s.it + 1, results |-> s.results]
        ELSE [list |-> s.list, it |-> s.it + 1,
              results |-> IF s.list[s.it] \in take THEN Append(s.results, s.list[s.it]) ELSE s.results]

Sweep(list, erase, take) ==
    LET loop[s \in [list : Seq(HostInfo), it : Nat \ {0}, results : Seq(HostInfo)]] ==
            IF s.it > Len(s.list) THEN s ELSE loop[SweepStep(s, erase, take)]
    IN  loop[[list |-> list, it |-> 1, results |-> <<>>]]

Expired(e) == clock - e.Timestamp > maxAge

Cached == Range(m_hostInfo)
CachedFor(h) == {e \in Cached : e.url = h}

\* Mutant: the age of an entry is not looked at when it is a hit.
LookupHitsFirst(h) == Sweep(m_hostInfo, {e \in Cached : Expired(e) /\ e.url # h}, CachedFor(h))

\* Mutant: the loop ends at the first entry that is not expired.
LookupStops(h) ==
    LET old == SelectInSeq(m_hostInfo, LAMBDA e : ~ Expired(e))
    IN  IF old = 0 THEN Sweep(m_hostInfo, Cached, {})
        ELSE [list |-> SubSeq(m_hostInfo, old, Len(m_hostInfo)),
              results |-> SelectSeq(SubSeq(m_hostInfo, old, Len(m_hostInfo)),
                                    LAMBDA e : e.url = h /\ ~ Expired(e))]

Lookup(h) == Sweep(m_hostInfo, {e \in Cached : Expired(e)}, CachedFor(h))

\* Mutant: one entry of the host is erased.
PurgeOne(h) ==
    LET i == SelectInSeq(m_hostInfo, LAMBDA e : e.url = h)
    IN  IF i = 0 THEN m_hostInfo ELSE RemoveAt(m_hostInfo, i)

\* Mutant: the entry after the one of the host is erased.
PurgeNext(h) ==
    LET i == SelectInSeq(m_hostInfo, LAMBDA e : e.url = h)
    IN  IF i \in {0, Len(m_hostInfo)} THEN m_hostInfo ELSE RemoveAt(m_hostInfo, i + 1)

Purge(h) == Sweep(m_hostInfo, CachedFor(h), {}).list

\* Mutant: the list is cut one entry too late.
PushBoundedLate(e) ==
    IF Len(m_hostInfo) > maxCacheSize THEN Append(Tail(m_hostInfo), e) ELSE Append(m_hostInfo, e)

PushBounded(e) ==
    LET list == Append(m_hostInfo, e)
    IN  IF Len(list) > maxCacheSize THEN Tail(list) ELSE list

-----------------------------------------------------------------------------
(* A worker connects a session to its host. *)

\* A hit is used as it is; a miss leads to a query.
GetCachedResults(w) ==
    /\ connector[w] = Idle
    /\ \E h \in Hosts :
        LET found == Lookup(h).results
        IN  /\ m_hostInfo' = Lookup(h).list
            /\ Goto(w, IF found = <<>> THEN "query" ELSE "dial", h, found)
    /\ UNCHANGED <<clock, answers>>

\* The host is unknown, or has no IPv4 address.
GetAddrInfoFails(w) ==
    /\ connector[w].pc = "query"
    /\ connector' = [connector EXCEPT ![w] = Idle]
    /\ UNCHANGED <<m_hostInfo, clock, answers>>

\* The first IPv4 address is taken and stamped.
GetAddrInfo(w) ==
    /\ connector[w].pc = "query" /\ answers < MaxAnswers
    /\ answers' = answers + 1
    /\ Goto(w, "add", connector[w].host,
            <<[url |-> connector[w].host, address |-> answers + 1, Timestamp |-> clock]>>)
    /\ UNCHANGED <<m_hostInfo, clock>>

AddResult(w) ==
    /\ connector[w].pc = "add"
    /\ m_hostInfo' = PushBounded(connector[w].hostAddresses[1])
    /\ connector' = [connector EXCEPT ![w].pc = "dial"]
    /\ UNCHANGED <<clock, answers>>

\* An address answers, or there is no descriptor for a socket.
Connect(w) ==
    /\ connector[w].pc = "dial"
    /\ connector' = [connector EXCEPT ![w] = Idle]
    /\ UNCHANGED <<m_hostInfo, clock, answers>>

\* No address answers.
ConnectFails(w) ==
    /\ connector[w].pc = "dial"
    /\ connector' = [connector EXCEPT ![w].pc = "clear"]
    /\ UNCHANGED <<m_hostInfo, clock, answers>>

ClearCacheForHost(w) ==
    /\ connector[w].pc = "clear"
    /\ m_hostInfo' = Purge(connector[w].host)
    /\ connector' = [connector EXCEPT ![w] = Idle]
    /\ UNCHANGED <<clock, answers>>

Tick ==
    /\ clock < MaxClock
    /\ clock' = clock + 1
    /\ UNCHANGED <<m_hostInfo, answers, connector>>

WorkerStep(w) ==
    \/ GetCachedResults(w) \/ GetAddrInfoFails(w) \/ GetAddrInfo(w) \/ AddResult(w)
    \/ Connect(w) \/ ConnectFails(w) \/ ClearCacheForHost(w)

Next == Tick \/ \E w \in Workers : WorkerStep(w)

Spec == Init /\ [][Next]_vars

\* The operating system runs every thread.
FairSpec == Spec /\ \A w \in Workers : WF_vars(WorkerStep(w))

-----------------------------------------------------------------------------
(* Correctness. *)

\* Every variable has its type; the list never holds more than maxCacheSize
\* entries, whichever threads fill it.
TypeOK ==
    /\ m_hostInfo \in Seq(HostInfo)
    /\ Len(m_hostInfo) <= maxCacheSize
    /\ clock \in 0 .. MaxClock
    /\ answers \in 0 .. MaxAnswers
    /\ connector \in [Workers -> [pc : {"idle", "query", "add", "dial", "clear"},
                                  host : Hosts \cup {None},
                                  hostAddresses : Seq(HostInfo), at : 0 .. MaxClock]]

\* A worker dials only addresses of the host it is to reach, and none that was
\* older than maxAge when the worker got it, although a lookup skips entries
\* and may run over the list twice.
DialsFreshAddresses ==
    \A w \in Workers : connector[w].pc = "dial" =>
        \A e \in Range(connector[w].hostAddresses) :
            e.url = connector[w].host /\ connector[w].at - e.Timestamp <= maxAge

EntriesOf(h) == {e \in HostInfo : e.url = h}
ExpiredEntries == {e \in HostInfo : Expired(e)}
Count(list, S) == Cardinality({i \in 1 .. Len(list) : list[i] \in S})

\* What is left of a list when some entries of S are taken out: at gives the
\* place where each entry was.
LeftOf(after, before, S) ==
    \E at \in [1 .. Len(after) -> 1 .. Len(before)] :
        /\ \A i, j \in 1 .. Len(after) : i < j => at[i] < at[j]
        /\ \A i \in 1 .. Len(after) : after[i] = before[at[i]]
        /\ \A k \in 1 .. Len(before) : before[k] \in S \/ \E i \in 1 .. Len(after) : at[i] = k

Clears(w) == connector[w].pc = "clear" /\ connector'[w].pc = "idle"
LooksUp(w) == connector[w].pc = "idle" /\ connector'[w].pc # "idle"

\* Each call of ClearCacheForHost removes at least half of the entries the host
\* has, so that repeated failures do get rid of an address that does not answer.
\* (HostInfoManager.hpp:62 has it "purge cache for a host that failed to connect";
\* the loop passes over the entry behind each one that it erases.)
ClearHalves ==
    [][\A w \in Workers : Clears(w) =>
        LET ours == EntriesOf(connector[w].host)
        IN  2 * Count(m_hostInfo', ours) <= Count(m_hostInfo, ours)]_vars

\* Each lookup removes at least half of the expired entries, of whatever host.
ExpiryHalves ==
    [][\A w \in Workers : LooksUp(w) =>
        2 * Count(m_hostInfo', ExpiredEntries) <= Count(m_hostInfo, ExpiredEntries)]_vars

\* A loop over the list erases what it is meant to erase and nothing else: a
\* failure of one host costs no other its entries, and a lookup costs no fresh one.
ErasesOnlyItsOwn ==
    [][\A w \in Workers :
        /\ Clears(w) => LeftOf(m_hostInfo', m_hostInfo, EntriesOf(connector[w].host))
        /\ LooksUp(w) => LeftOf(m_hostInfo', m_hostInfo, ExpiredEntries)]_vars

=============================================================================
