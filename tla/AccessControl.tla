---------------------------- MODULE AccessControl ----------------------------
(***************************************************************************)
(* What nermalproxy makes of its configuration file (DoConfig) and how the *)
(* dispatch thread uses it to answer a request: authentication by          *)
(* credentials or by address, the weekly schedule, the domain lists of the *)
(* user and of everybody.  Tables are built list by list and user by user, *)
(* in the order of the code, and searched from the front.                  *)
(*                                                                         *)
(* The file is given as what ConfigFile makes of it: sections with one     *)
(* value list for each key.  Base64 is left out: credentials decode or not.*)
(***************************************************************************)
EXTENDS Integers, Sequences, FiniteSets, SequencesExt

CONSTANTS
    Configs,    \* the configuration files considered
    Requests,   \* the requests clients make
    Times,      \* moments, as the local time: [day, hour, minute]
    Blocked,    \* the hosts in each domain file, by the name of the list
    DayHours,   \* hours of a day, 24
    Global,     \* the name "<global>"
    NoName      \* the empty name

\* A configuration: [auth : BOOLEAN, files : Seq([name, readable]),
\*   users : Seq([name, password, domains, ip_list, days]), global_domains : Seq]
\* where "days" maps each day to its schedule, a sequence of "x", "X" and "-",
\* empty if there is none (and for every day if time_based_policy is off).
\* A request: [authorization : {"none", "garbled", "basic"}, user, password, ip, host].
ASSUME ConfigAssumption ==
    \A c \in Configs :
        /\ c.auth \in BOOLEAN
        /\ c.users \in Seq(Range(c.users)) /\ c.files \in Seq(Range(c.files))
        /\ \A i, j \in DOMAIN c.users : c.users[i].name = c.users[j].name => i = j
        /\ \A i, j \in DOMAIN c.files : c.files[i].name = c.files[j].name => i = j
        /\ \A i \in DOMAIN c.users : c.users[i].name \notin {Global, NoName}
        /\ \A i \in DOMAIN c.files : c.files[i].name \in DOMAIN Blocked
        /\ \A i \in DOMAIN c.users, t \in Times :
            t.day \in DOMAIN c.users[i].days /\ c.users[i].days[t.day] \in Seq({"x", "X", "-"})
ASSUME NamesAssumption == Global # NoName
ASSUME TimeAssumption ==
    /\ DayHours \in Nat
    /\ \A t \in Times : t.hour \in 0 .. DayHours - 1 /\ t.minute \in 0 .. 59

VARIABLES
    config,        \* the configuration file
    step,          \* which part of DoConfig is next, then "serve"
    idx,           \* the attribute of the section that is next
    m_blacklists,  \* BlacklistList
    m_enabled,     \* AuthManager
    m_users,
    m_policies,    \* UserPolicyList
    last           \* the session: its request, the time and the answer it got

vars == <<config, step, idx, m_blacklists, m_enabled, m_users, m_policies, last>>

Nothing == [answer |-> "nothing"]

Init ==
    /\ config \in Configs
    /\ step = "domains" /\ idx = 1
    /\ m_blacklists = <<>>
    /\ m_enabled = FALSE
    /\ m_users = <<>>
    /\ m_policies = <<>>
    /\ last = Nothing

-----------------------------------------------------------------------------
(* The tables and the searches in them. *)

Find(list, name) == SelectInSeq(list, LAMBDA e : e.name = name)

HasList(name) == Find(m_blacklists, name) # 0

IsAllowedInList(name, host) ==
    HasList(name) /\ host \notin m_blacklists[Find(m_blacklists, name)].hosts

GetUserDomains(user) ==
    IF Find(m_policies, user) = 0 THEN {} ELSE m_policies[Find(m_policies, user)].domains

isAllowed(user, host) ==
    \A d \in GetUserDomains(user) \cup GetUserDomains(Global) : IsAllowedInList(d, host)

m_intervalTime == 30
MinutesToIntervals(hours, minutes) == (hours * 60 + minutes) \div m_intervalTime
m_intervals == MinutesToIntervals(DayHours, 0)

\* A day without a schedule, or with one of the wrong length, is open.
InitFromString(string) ==
    [i \in 0 .. m_intervals - 1 |->
        Len(string) = m_intervals => string[i + 1] \notin {"x", "X"}]

PermittedAtTime(map, hour, minute) ==
    LET interval == MinutesToIntervals(hour, minute)
    IN  interval < m_intervals /\ map[interval]

AccessAllowedAtTime(user, t) ==
    /\ Find(m_users, user) # 0
    /\ PermittedAtTime(m_users[Find(m_users, user)].access[t.day], t.hour, t.minute)

Authenticate_i(user, password) ==
    \E i \in DOMAIN m_users : m_users[i].name = user /\ m_users[i].password = password

\* Mutant: the user name is kept, whatever the password.
AuthenticateAnyone(r) == [ok |-> r.authorization = "basic", username |-> r.user]

\* Credentials that decode count as good; wrong ones yield the empty name.
Authenticate(r) ==
    [ok |-> r.authorization = "basic",
     username |-> IF r.authorization = "basic" /\ Authenticate_i(r.user, r.password)
                  THEN r.user ELSE NoName]

AuthenticateIp(ip) == SelectInSeq(m_users, LAMBDA u : \E i \in DOMAIN u.ipList : u.ipList[i] = ip)

-----------------------------------------------------------------------------
(* DoConfig. *)

\* One file of the section DomainFiles; a file that cannot be read adds no list.
LoadFromFile ==
    /\ step = "domains"
    /\ IF idx > Len(config.files)
       THEN /\ step' = IF config.auth THEN "users" ELSE "global"
            /\ idx' = 1
            /\ m_enabled' = config.auth
            /\ UNCHANGED m_blacklists
       ELSE LET file == config.files[idx]
            IN  /\ m_blacklists' = IF file.readable
                    THEN Append(m_blacklists, [name |-> file.name, hosts |-> Blocked[file.name]])
                    ELSE m_blacklists
                /\ idx' = idx + 1
                /\ UNCHANGED <<step, m_enabled>>
    /\ UNCHANGED <<config, m_users, m_policies, last>>

SetWeeklyAccess(days) == [d \in DOMAIN days |-> InitFromString(days[d])]

NewUser(user) ==
    [name |-> user.name, password |-> user.password, ipList |-> user.ip_list,
     access |-> SetWeeklyAccess(user.days)]

\* Mutant: the lists a user names are kept, whether they are there or not.
NewPolicyUnchecked(user) == [name |-> user.name, domains |-> Range(user.domains)]

\* The policy of a user leaves out the lists that are not there.  All lists of a
\* policy are looked at: a set is enough.
NewPolicy(user) == [name |-> user.name, domains |-> {d \in Range(user.domains) : HasList(d)}]

\* One user of the section UserAuth.
AddUser ==
    /\ step = "users"
    /\ IF idx > Len(config.users)
       THEN /\ step' = "global" /\ idx' = 1
            /\ UNCHANGED <<m_users, m_policies>>
       ELSE LET user == config.users[idx]
            IN  /\ m_users' = Append(m_users, NewUser(user))
                /\ m_policies' = Append(m_policies, NewPolicy(user))
                /\ idx' = idx + 1
                /\ UNCHANGED step
    /\ UNCHANGED <<config, m_blacklists, m_enabled, last>>

\* The lists for everybody, whether they are there or not.
AddGlobalPolicy ==
    /\ step = "global"
    /\ m_policies' = Append(m_policies, [name |-> Global, domains |-> Range(config.global_domains)])
    /\ step' = "serve"
    /\ UNCHANGED <<config, idx, m_blacklists, m_enabled, m_users, last>>

-----------------------------------------------------------------------------
(* HandleCommandSocketRead and ConnectProxy, on a request that was detected. *)

Respond(r, t, user, answer) == last' = [request |-> r, time |-> t, user |-> user, answer |-> answer]

\* ConnectProxy for the user the session has been given: 404 if a list has the host.
Connect(r, t, user) ==
    Respond(r, t, user, IF isAllowed(user, r.host) THEN "connect" ELSE "404")

NoAuthentication(r, t) == ~ m_enabled /\ Connect(r, t, NoName)

ByCredentials(r, t) ==
    /\ m_enabled /\ r.authorization # "none"
    /\ LET auth == Authenticate(r)
       IN  IF auth.ok /\ AccessAllowedAtTime(auth.username, t)
           THEN Connect(r, t, auth.username)
           ELSE Respond(r, t, auth.username, "403")

ByAddress(r, t) ==
    /\ m_enabled /\ r.authorization = "none"
    /\ LET user == AuthenticateIp(r.ip)
       IN  IF user = 0 THEN Respond(r, t, NoName, "407")
           ELSE IF AccessAllowedAtTime(m_users[user].name, t)
                THEN Connect(r, t, m_users[user].name)
                ELSE Respond(r, t, NoName, "403")

HandleDetectResult ==
    /\ step = "serve" /\ last = Nothing
    /\ \E r \in Requests, t \in Times :
        NoAuthentication(r, t) \/ ByCredentials(r, t) \/ ByAddress(r, t)
    /\ UNCHANGED <<config, step, idx, m_blacklists, m_enabled, m_users, m_policies>>

\* Sessions share none of the tables' state; one at a time is enough.
SessionEnds ==
    /\ last # Nothing
    /\ last' = Nothing
    /\ UNCHANGED <<config, step, idx, m_blacklists, m_enabled, m_users, m_policies>>

Next == LoadFromFile \/ AddUser \/ AddGlobalPolicy \/ HandleDetectResult \/ SessionEnds

Spec == Init /\ [][Next]_vars

-----------------------------------------------------------------------------
(* Correctness: the answer as a function of the configuration file alone. *)

Readable == {config.files[i].name : i \in {j \in DOMAIN config.files : config.files[j].readable}}

\* Whose request it is: the user with these credentials or, without any, the
\* first user the address is listed for.
Requesters(r) ==
    IF r.authorization = "none"
    THEN {config.users[i] : i \in {j \in DOMAIN config.users :
            /\ r.ip \in Range(config.users[j].ip_list)
            /\ \A k \in 1 .. j - 1 : r.ip \notin Range(config.users[k].ip_list)}}
    ELSE {u \in Range(config.users) :
            r.authorization = "basic" /\ u.name = r.user /\ u.password = r.password}

\* No mark of the day's schedule closes the half hour that the minute lies in.
Open(schedule, t) ==
    Len(schedule) = 2 * DayHours =>
        \A i \in DOMAIN schedule :
            t.hour * 60 + t.minute \in 30 * (i - 1) .. 30 * i - 1 => schedule[i] \notin {"x", "X"}

OnList(host, lists) == \E d \in lists \cap Readable : host \in Blocked[d]

\* A connection is made exactly when the configuration file permits it: with
\* authentication, for a user it knows, in an open half hour, to a host on none
\* of the user's lists; in any case to a host on no list for everybody, all of
\* which can be read.  The tables DoConfig builds, the order in which it builds
\* them and the searches and early returns of the handler come to the same.
AnswerAsConfigured ==
    last # Nothing =>
        LET r == last.request IN
        (last.answer = "connect") =
            (/\ Range(config.global_domains) \subseteq Readable
             /\ ~ OnList(r.host, Range(config.global_domains))
             /\ config.auth => \E u \in Requesters(r) :
                    /\ Open(u.days[last.time.day], last.time)
                    /\ ~ OnList(r.host, Range(u.domains)))

\* A session that is connected runs under the name of the user who made the
\* request, the name its traffic is recorded under, or under none if there is
\* no authentication; credentials that decode but are wrong, which Authenticate
\* lets pass with an empty name, are never served.
ServedAsRequester ==
    last # Nothing /\ last.answer = "connect" =>
        IF config.auth THEN \E u \in Requesters(last.request) : u.name = last.user
        ELSE last.user = NoName

=============================================================================
