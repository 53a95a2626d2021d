------------------------- MODULE AccessControlProofs -------------------------
(***************************************************************************)
(* The tables of AccessControl hold what the configuration file says, and  *)
(* the handler that searches them answers as the file says, for every      *)
(* configuration, request, moment and length of the day.                   *)
(***************************************************************************)
EXTENDS AccessControl, WellFoundedInduction, TLAPS

(* Searching a table from the front. *)

LEMMA LeastOf ==
    ASSUME NEW T, T \subseteq Nat, T # {}
    PROVE  Min(T) \in T /\ \A x \in T : Min(T) <= x
<1> DEFINE R == {p \in Nat \X Nat : p[1] < p[2]}
<1>0. IsWellFoundedOn(R, Nat)
  BY NatLessThanWellFounded, Zenon DEF OpToRel
<1> HIDE DEF R
<1>1. PICK x \in T : \A y \in T : ~ (<<y, x>> \in R)
  BY <1>0, WFMin
<1>2. \A y \in T : ~ (y < x)
  BY <1>1 DEF R
<1>3. \E x1 \in T : \A y \in T : x1 <= y
  BY <1>2
<1>4. QED
  BY <1>3 DEF Min

\* Find gives a place with the name if there is one, and zero if there is none.
LEMMA NameFound ==
    ASSUME NEW S, NEW q \in Seq(S), NEW n, NEW i, i = Find(q, n)
    PROVE  /\ i = 0 => \A j \in DOMAIN q : q[j].name # n
           /\ i # 0 => i \in DOMAIN q /\ q[i].name = n
<1> DEFINE I == {j \in 1 .. Len(q) : q[j].name = n}
<1>1. i = IF I # {} THEN Min(I) ELSE 0
  BY DEF Find, SelectInSeq
<1>2. I \subseteq Nat /\ 0 \notin I /\ DOMAIN q = 1 .. Len(q)
  OBVIOUS
<1>3. I # {} => Min(I) \in I
  BY <1>2, LeastOf
<1>4. QED
  BY <1>1, <1>2, <1>3

\* AuthenticateIp gives the first user the address is listed for.
LEMMA AddressFound ==
    ASSUME NEW S, NEW q \in Seq(S), q = m_users, NEW ip, NEW i, i = AuthenticateIp(ip)
    PROVE  /\ i = 0 => \A j \in DOMAIN q : ip \notin Range(q[j].ipList)
           /\ i # 0 => /\ i \in DOMAIN q /\ ip \in Range(q[i].ipList)
                       /\ \A k \in 1 .. i - 1 : ip \notin Range(q[k].ipList)
<1> DEFINE I == {j \in 1 .. Len(q) : \E k \in DOMAIN q[j].ipList : q[j].ipList[k] = ip}
<1>1. i = IF I # {} THEN Min(I) ELSE 0
  BY DEF AuthenticateIp, SelectInSeq
<1>2. I \subseteq Nat /\ 0 \notin I /\ DOMAIN q = 1 .. Len(q)
  OBVIOUS
<1>3. I # {} => Min(I) \in I /\ \A x \in I : Min(I) <= x
  BY <1>2, LeastOf
<1>4. \A j \in 1 .. Len(q) : j \in I <=> ip \in Range(q[j].ipList)
  BY DEF Range
<1> HIDE DEF I
<1>5. CASE I = {}
  BY <1>1, <1>2, <1>4, <1>5
<1>6. CASE I # {}
  <2>1. i \in I /\ (\A x \in I : i <= x) /\ i \in 1 .. Len(q)
    BY <1>1, <1>3, <1>6 DEF I
  <2>2. \A k \in 1 .. i - 1 : k \in 1 .. Len(q) /\ k \notin I
    BY <2>1
  <2>3. QED
    BY <1>2, <1>4, <2>1, <2>2
<1>7. QED
  BY <1>5, <1>6


-----------------------------------------------------------------------------
(* The invariant: what the tables hold, part by part of DoConfig. *)

\* The lists that can be read among the first k files.
ReadIn(c, k) == {c.files[i].name : i \in {j \in 1 .. k : c.files[j].readable}}

ListEntry(n) == [name |-> n, hosts |-> Blocked[n]]
PolicyOf(c, u) == [name |-> u.name, domains |-> Range(u.domains) \cap ReadIn(c, Len(c.files))]
GlobalPolicy(c) == [name |-> Global, domains |-> Range(c.global_domains)]
Policies(c) == {PolicyOf(c, u) : u \in Range(c.users)} \cup {GlobalPolicy(c)}

\* What is in a table after k files or k users.
ListsRead(c, k, q) ==
    /\ q \in Seq({ListEntry(n) : n \in DOMAIN Blocked})
    /\ {q[i].name : i \in DOMAIN q} = ReadIn(c, k)
UsersAdded(c, k, q) ==
    /\ q \in Seq({NewUser(u) : u \in Range(c.users)}) /\ Len(q) = k
    /\ \A i \in 1 .. k : q[i] = NewUser(c.users[i])
PoliciesAdded(c, k, q) ==
    /\ q \in Seq(Policies(c)) /\ Len(q) = k
    /\ \A i \in 1 .. k : q[i] = PolicyOf(c, c.users[i])
PoliciesComplete(c, k, q) ==
    /\ q \in Seq(Policies(c)) /\ Len(q) = k + 1
    /\ \A i \in 1 .. k : q[i] = PolicyOf(c, c.users[i])
    /\ q[k + 1] = GlobalPolicy(c)

\* The users that count: none without authentication.
Known(c) == IF c.auth THEN Len(c.users) ELSE 0

InDomains ==
    /\ step = "domains" /\ idx \in 1 .. Len(config.files) + 1
    /\ ListsRead(config, idx - 1, m_blacklists)
    /\ m_users = <<>> /\ m_policies = <<>>
InUsers ==
    /\ step = "users" /\ idx \in 1 .. Len(config.users) + 1 /\ config.auth
    /\ m_enabled = config.auth
    /\ ListsRead(config, Len(config.files), m_blacklists)
    /\ UsersAdded(config, idx - 1, m_users)
    /\ PoliciesAdded(config, idx - 1, m_policies)
InGlobal ==
    /\ step = "global"
    /\ m_enabled = config.auth
    /\ ListsRead(config, Len(config.files), m_blacklists)
    /\ UsersAdded(config, Known(config), m_users)
    /\ PoliciesAdded(config, Known(config), m_policies)
Serving ==
    /\ step = "serve"
    /\ m_enabled = config.auth
    /\ ListsRead(config, Len(config.files), m_blacklists)
    /\ UsersAdded(config, Known(config), m_users)
    /\ PoliciesComplete(config, Known(config), m_policies)

Tables == config \in Configs /\ (InDomains \/ InUsers \/ InGlobal \/ Serving)

\* The configuration files are what ConfigAssumption says.
LEMMA ConfigType ==
    ASSUME NEW c \in Configs
    PROVE  /\ c.auth \in BOOLEAN
           /\ Len(c.users) \in Nat /\ DOMAIN c.users = 1 .. Len(c.users)
           /\ Len(c.files) \in Nat /\ DOMAIN c.files = 1 .. Len(c.files)
           /\ \A i \in 1 .. Len(c.users) :
                c.users[i] \in Range(c.users) /\ c.users[i].name \notin {Global, NoName}
           /\ \A i \in 1 .. Len(c.files) : c.files[i].name \in DOMAIN Blocked
           /\ \A i, j \in 1 .. Len(c.users) : c.users[i].name = c.users[j].name => i = j
           /\ Known(c) \in 0 .. Len(c.users)
<1>1. c.users \in Seq(Range(c.users)) /\ c.files \in Seq(Range(c.files)) /\ c.auth \in BOOLEAN
  BY ConfigAssumption
<1>2. /\ Len(c.users) \in Nat /\ DOMAIN c.users = 1 .. Len(c.users)
      /\ Len(c.files) \in Nat /\ DOMAIN c.files = 1 .. Len(c.files)
      /\ \A i \in 1 .. Len(c.users) : c.users[i] \in Range(c.users)
  BY <1>1
<1>3. Known(c) \in 0 .. Len(c.users)
  BY <1>2 DEF Known
<1>4. QED
  BY <1>1, <1>2, <1>3, ConfigAssumption

\* A list that is read is added, one that is not is left out.
LEMMA ListAdded ==
    ASSUME NEW c \in Configs, NEW k \in 1 .. Len(c.files), NEW q, ListsRead(c, k - 1, q),
           NEW n, n = IF c.files[k].readable THEN Append(q, ListEntry(c.files[k].name)) ELSE q
    PROVE  ListsRead(c, k, n)
<1> DEFINE E == {ListEntry(x) : x \in DOMAIN Blocked}
<1>1. q \in Seq(E) /\ c.files[k].name \in DOMAIN Blocked
  BY ConfigType DEF ListsRead
<1>2. PICK e \in E : e = ListEntry(c.files[k].name) /\ e.name = c.files[k].name
  BY <1>1 DEF ListEntry
<1>3. 1 .. k = (1 .. k - 1) \cup {k}
  BY ConfigType
<1>4. ReadIn(c, k) = ReadIn(c, k - 1) \cup (IF c.files[k].readable THEN {e.name} ELSE {})
  BY <1>2, <1>3 DEF ReadIn
<1>5. CASE c.files[k].readable
  <2> HIDE DEF E
  <2>1. n = Append(q, e)
    BY <1>2, <1>5
  <2>2. n \in Seq(E) /\ DOMAIN n = DOMAIN q \cup {Len(q) + 1} /\ n[Len(q) + 1] = e
        /\ \A i \in DOMAIN q : n[i] = q[i]
    BY <1>1, <2>1
  <2>3. {n[i].name : i \in DOMAIN n} = {q[i].name : i \in DOMAIN q} \cup {e.name}
    BY <2>2
  <2>4. QED
    BY <1>4, <1>5, <2>2, <2>3 DEF ListsRead, E
<1>6. CASE ~ c.files[k].readable
  BY <1>4, <1>6 DEF ListsRead
<1>7. QED
  BY <1>5, <1>6

\* Without a list no name is found, and with it its place is.
LEMMA ListsComplete ==
    ASSUME NEW c, NEW k, NEW q, ListsRead(c, k, q), NEW d
    PROVE  /\ Find(q, d) # 0 <=> d \in ReadIn(c, k)
           /\ Find(q, d) # 0 => q[Find(q, d)].hosts = Blocked[d]
<1> DEFINE E == {ListEntry(x) : x \in DOMAIN Blocked}
<1>1. q \in Seq(E)
  BY DEF ListsRead
<1>2. \A e \in E : e.hosts = Blocked[e.name]
  BY DEF ListEntry
<1> HIDE DEF E
<1>3. PICK i : i = Find(q, d)
  OBVIOUS
<1>4. /\ i = 0 => \A j \in DOMAIN q : q[j].name # d
      /\ i # 0 => i \in DOMAIN q /\ q[i].name = d
  BY <1>1, <1>3, NameFound
<1>5. i # 0 => q[i] \in E
  BY <1>1, <1>4
<1>6. d \in ReadIn(c, k) <=> \E j \in DOMAIN q : q[j].name = d
  BY DEF ListsRead
<1>7. QED
  BY <1>2, <1>3, <1>4, <1>5, <1>6


LEMMA UserAdded ==
    ASSUME NEW c \in Configs, NEW k \in 1 .. Len(c.users), NEW q, UsersAdded(c, k - 1, q),
           NEW n, n = Append(q, NewUser(c.users[k]))
    PROVE  UsersAdded(c, k, n)
<1> DEFINE E == {NewUser(u) : u \in Range(c.users)}
<1>1. PICK e \in E : e = NewUser(c.users[k])
  BY ConfigType
<1>2. q \in Seq(E) /\ Len(q) = k - 1 /\ \A i \in 1 .. k - 1 : q[i] = NewUser(c.users[i])
  BY DEF UsersAdded
<1> HIDE DEF E
<1>3. n = Append(q, e) /\ n \in Seq(E) /\ Len(n) = k /\ n[k] = e /\ \A i \in 1 .. k - 1 : n[i] = q[i]
  BY <1>1, <1>2, ConfigType
<1>4. \A i \in 1 .. k : n[i] = NewUser(c.users[i])
  <2>1. \A i \in 1 .. k : i = k \/ i \in 1 .. k - 1
    BY ConfigType
  <2>2. QED
    BY <1>1, <1>2, <1>3, <2>1
<1>5. QED
  BY <1>3, <1>4 DEF UsersAdded, E

LEMMA PolicyAdded ==
    ASSUME NEW c \in Configs, NEW k \in 1 .. Len(c.users), NEW q, PoliciesAdded(c, k - 1, q),
           NEW n, n = Append(q, PolicyOf(c, c.users[k]))
    PROVE  PoliciesAdded(c, k, n)
<1>1. PICK e \in Policies(c) : e = PolicyOf(c, c.users[k])
  BY ConfigType DEF Policies
<1>2. q \in Seq(Policies(c)) /\ Len(q) = k - 1 /\ \A i \in 1 .. k - 1 : q[i] = PolicyOf(c, c.users[i])
  BY DEF PoliciesAdded
<1>3. /\ n = Append(q, e) /\ n \in Seq(Policies(c)) /\ Len(n) = k /\ n[k] = e
      /\ \A i \in 1 .. k - 1 : n[i] = q[i]
  BY <1>1, <1>2, ConfigType
<1>4. \A i \in 1 .. k : n[i] = PolicyOf(c, c.users[i])
  <2>1. \A i \in 1 .. k : i = k \/ i \in 1 .. k - 1
    BY ConfigType
  <2>2. QED
    BY <1>1, <1>2, <1>3, <2>1
<1>5. QED
  BY <1>3, <1>4 DEF PoliciesAdded

LEMMA GlobalPolicyAdded ==
    ASSUME NEW c \in Configs, NEW k \in Nat, NEW q, PoliciesAdded(c, k, q),
           NEW n, n = Append(q, GlobalPolicy(c))
    PROVE  PoliciesComplete(c, k, n)
<1>1. PICK e \in Policies(c) : e = GlobalPolicy(c)
  BY DEF Policies
<1>2. q \in Seq(Policies(c)) /\ Len(q) = k /\ \A i \in 1 .. k : q[i] = PolicyOf(c, c.users[i])
  BY DEF PoliciesAdded
<1>3. /\ n = Append(q, e) /\ n \in Seq(Policies(c)) /\ Len(n) = k + 1 /\ n[k + 1] = e
      /\ \A i \in 1 .. k : n[i] = q[i]
  BY <1>1, <1>2
<1>4. QED
  BY <1>1, <1>2, <1>3 DEF PoliciesComplete

-----------------------------------------------------------------------------
(* The tables hold what the file says, at every step of DoConfig and after. *)

LEMMA InitTables == Init => Tables
<1> SUFFICES ASSUME Init PROVE config \in Configs /\ InDomains
  BY DEF Tables
<1>1. config \in Configs /\ step = "domains" /\ idx = 1 /\ m_blacklists = <<>>
      /\ m_users = <<>> /\ m_policies = <<>>
  BY DEF Init
<1>2. idx \in 1 .. Len(config.files) + 1
  BY <1>1, ConfigType
<1>3. ReadIn(config, idx - 1) = {}
  BY <1>1 DEF ReadIn
<1>4. ListsRead(config, idx - 1, m_blacklists)
  BY <1>1, <1>3 DEF ListsRead
<1>5. QED
  BY <1>1, <1>2, <1>4 DEF InDomains

LEMMA LoadFromFileTables == Tables /\ LoadFromFile => Tables'
<1> SUFFICES ASSUME Tables, LoadFromFile PROVE Tables'
  OBVIOUS
<1>1. InDomains /\ config \in Configs /\ config' = config /\ m_users' = m_users /\ m_policies' = m_policies
  BY DEF Tables, InDomains, InUsers, InGlobal, Serving, LoadFromFile
<1>2. PICK c \in Configs, k \in 1 .. Len(config.files) + 1 : c = config /\ k = idx
  BY <1>1 DEF InDomains
<1>3. k \in Int /\ Len(c.files) \in Nat /\ ListsRead(c, k - 1, m_blacklists)
      /\ m_users = <<>> /\ m_policies = <<>>
  BY <1>1, <1>2, ConfigType DEF InDomains
<1>4. CASE k > Len(c.files)
  <2>1. k - 1 = Len(c.files)
    BY <1>2, <1>3, <1>4
  <2>2. /\ step' = IF c.auth THEN "users" ELSE "global"
        /\ idx' = 1 /\ m_enabled' = c.auth /\ m_blacklists' = m_blacklists
    BY <1>2, <1>4 DEF LoadFromFile
  <2>3. ListsRead(c, Len(c.files), m_blacklists')
    BY <1>3, <2>1, <2>2
  <2>4. UsersAdded(c, 0, m_users') /\ PoliciesAdded(c, 0, m_policies')
    BY <1>1, <1>3 DEF UsersAdded, PoliciesAdded
  <2>5. CASE c.auth
    <3>1. 1 - 1 = 0 /\ idx' \in 1 .. Len(c.users) + 1
      BY <2>2, ConfigType
    <3>2. InUsers'
      BY <1>1, <1>2, <2>2, <2>3, <2>4, <2>5, <3>1 DEF InUsers
    <3>3. QED
      BY <1>1, <3>2 DEF Tables
  <2>6. CASE ~ c.auth
    <3>1. Known(c) = 0
      BY <2>6 DEF Known
    <3>2. InGlobal'
      BY <1>1, <1>2, <2>2, <2>3, <2>4, <2>6, <3>1 DEF InGlobal
    <3>3. QED
      BY <1>1, <3>2 DEF Tables
  <2>7. QED
    BY <2>5, <2>6
<1>5. CASE ~ (k > Len(c.files))
  <2>1. k \in 1 .. Len(c.files) /\ k + 1 \in 1 .. Len(c.files) + 1 /\ (k + 1) - 1 = k
    BY <1>2, <1>3, <1>5
  <2>2. /\ m_blacklists' = IF c.files[k].readable THEN Append(m_blacklists, ListEntry(c.files[k].name))
                           ELSE m_blacklists
        /\ idx' = k + 1 /\ step' = step
    BY <1>2, <1>5 DEF LoadFromFile, ListEntry
  <2>3. PICK q, n : q = m_blacklists /\ n = m_blacklists'
    OBVIOUS
  <2>4. ListsRead(c, k, n)
    BY <1>3, <2>1, <2>2, <2>3, ListAdded
  <2>5. InDomains'
    BY <1>1, <1>2, <1>3, <2>1, <2>2, <2>3, <2>4 DEF InDomains
  <2>6. QED
    BY <1>1, <2>5 DEF Tables
<1>6. QED
  BY <1>4, <1>5

LEMMA AddUserTables == Tables /\ AddUser => Tables'
<1> SUFFICES ASSUME Tables, AddUser PROVE Tables'
  OBVIOUS
<1>1. /\ InUsers /\ config \in Configs /\ config' = config
      /\ m_blacklists' = m_blacklists /\ m_enabled' = m_enabled
  BY DEF Tables, InDomains, InUsers, InGlobal, Serving, AddUser
<1>2. PICK c \in Configs, k \in 1 .. Len(config.users) + 1 : c = config /\ k = idx
  BY <1>1 DEF InUsers
<1>3. k \in Int /\ Len(c.users) \in Nat /\ c.auth /\ m_enabled = c.auth
  <2>1. k \in Int /\ Len(c.users) \in Nat
    BY <1>2, ConfigType
  <2>2. c.auth /\ m_enabled = c.auth
    BY <1>1, <1>2, Zenon DEF InUsers
  <2>3. QED
    BY <2>1, <2>2
<1>4. PICK q, p, b : q = m_users /\ p = m_policies /\ b = m_blacklists
  OBVIOUS
<1>5. UsersAdded(c, k - 1, q) /\ PoliciesAdded(c, k - 1, p) /\ ListsRead(c, Len(c.files), b)
  BY <1>1, <1>2, <1>4 DEF InUsers
<1>6. CASE k > Len(c.users)
  <2>1. k - 1 = Len(c.users) /\ Known(c) = Len(c.users)
    BY <1>2, <1>3, <1>6 DEF Known
  <2>2. step' = "global" /\ m_users' = q /\ m_policies' = p
    BY <1>2, <1>4, <1>6 DEF AddUser
  <2>3. UsersAdded(c, Known(c), m_users') /\ PoliciesAdded(c, Known(c), m_policies')
    BY <1>5, <2>1, <2>2
  <2>4. InGlobal'
    BY <1>1, <1>2, <1>3, <1>4, <1>5, <2>2, <2>3 DEF InGlobal
  <2>5. QED
    BY <1>1, <2>4 DEF Tables
<1>7. CASE ~ (k > Len(c.users))
  <2>1. k \in 1 .. Len(c.users) /\ k + 1 \in 1 .. Len(c.users) + 1 /\ (k + 1) - 1 = k
    BY <1>2, <1>3, <1>7
  <2>2. /\ m_users' = Append(q, NewUser(c.users[k]))
        /\ m_policies' = Append(p, NewPolicy(c.users[k]))
        /\ idx' = k + 1 /\ step' = step
    BY <1>2, <1>4, <1>7 DEF AddUser
  <2>3. NewPolicy(c.users[k]) = PolicyOf(c, c.users[k])
    <3>1. \A d : HasList(d) <=> d \in ReadIn(c, Len(c.files))
      BY <1>4, <1>5, ListsComplete DEF HasList
    <3>2. QED
      BY <3>1 DEF NewPolicy, PolicyOf
  <2>4. UsersAdded(c, k, m_users')
    BY <1>5, <2>1, <2>2, UserAdded
  <2>5. PoliciesAdded(c, k, m_policies')
    BY <1>5, <2>1, <2>2, <2>3, PolicyAdded
  <2>6. InUsers'
    BY <1>1, <1>2, <1>3, <1>4, <1>5, <2>1, <2>2, <2>4, <2>5 DEF InUsers
  <2>7. QED
    BY <1>1, <2>6 DEF Tables
<1>8. QED
  BY <1>6, <1>7

LEMMA AddGlobalPolicyTables == Tables /\ AddGlobalPolicy => Tables'
<1> SUFFICES ASSUME Tables, AddGlobalPolicy PROVE Tables'
  OBVIOUS
<1>1. InGlobal /\ config \in Configs
  BY DEF Tables, InDomains, InUsers, InGlobal, Serving, AddGlobalPolicy
<1>c. PICK c \in Configs : c = config
  BY <1>1
<1>2. PICK p : c = config /\ p = m_policies
  BY <1>c
<1>3. Known(c) \in Nat /\ PoliciesAdded(c, Known(c), p)
  BY <1>1, <1>2, ConfigType DEF InGlobal
<1>4. m_policies' = Append(p, GlobalPolicy(c))
  BY <1>2 DEF AddGlobalPolicy, GlobalPolicy
<1>5. PoliciesComplete(c, Known(c), m_policies')
  BY <1>3, <1>4, GlobalPolicyAdded
<1>6. Serving'
  BY <1>1, <1>2, <1>5 DEF AddGlobalPolicy, InGlobal, Serving
<1>7. QED
  BY <1>1, <1>6 DEF AddGlobalPolicy, Tables

LEMMA NextTables == Tables /\ [Next]_vars => Tables'
<1> SUFFICES ASSUME Tables, [Next]_vars PROVE Tables'
  OBVIOUS
<1> DEFINE tables == <<config, step, idx, m_blacklists, m_enabled, m_users, m_policies>>
<1>1. tables' = tables => Tables'
  BY DEF Tables, InDomains, InUsers, InGlobal, Serving
<1>2. HandleDetectResult \/ SessionEnds \/ UNCHANGED vars => tables' = tables
  BY DEF HandleDetectResult, SessionEnds, vars
<1>3. QED
  BY <1>1, <1>2, LoadFromFileTables, AddUserTables, AddGlobalPolicyTables DEF Next


-----------------------------------------------------------------------------
(* What the searches in the finished tables say of the file. *)

LEMMA ReadableIs == ASSUME config \in Configs PROVE Readable = ReadIn(config, Len(config.files))
BY ConfigType DEF Readable, ReadIn

\* A host passes a list that was read and does not have it.
LEMMA ListAnswers ==
    ASSUME Tables, Serving, NEW d, NEW h
    PROVE  IsAllowedInList(d, h) <=> d \in Readable /\ h \notin Blocked[d]
<1>1. ListsRead(config, Len(config.files), m_blacklists) /\ config \in Configs
  BY DEF Tables, Serving
<1>c. PICK c \in Configs : c = config
  BY <1>1
<1>2. PICK q : c = config /\ q = m_blacklists
  BY <1>c
<1>3. /\ Find(q, d) # 0 <=> d \in ReadIn(c, Len(c.files))
      /\ Find(q, d) # 0 => q[Find(q, d)].hosts = Blocked[d]
  BY <1>1, <1>2, ListsComplete
<1>4. QED
  BY <1>1, <1>2, <1>3, ReadableIs DEF IsAllowedInList, HasList

\* The policy found for a name: that of everybody, that of the user, or none.
LEMMA DomainsOf ==
    ASSUME Tables, Serving
    PROVE  /\ GetUserDomains(Global) = Range(config.global_domains)
           /\ GetUserDomains(NoName) = {}
           /\ \A i \in 1 .. Known(config) :
                GetUserDomains(config.users[i].name) = Range(config.users[i].domains) \cap Readable
<1>1. config \in Configs /\ PoliciesComplete(config, Known(config), m_policies)
  BY DEF Tables, Serving
<1>c. PICK c \in Configs : c = config
  BY <1>1
<1>2. PICK q, k : c = config /\ q = m_policies /\ k = Known(c)
  BY <1>c
<1>3. k \in Nat /\ k <= Len(c.users) /\ Len(c.users) \in Nat
  BY <1>2, ConfigType
<1>4. /\ q \in Seq(Policies(c)) /\ DOMAIN q = 1 .. k + 1
      /\ \A i \in 1 .. k : q[i] = PolicyOf(c, c.users[i])
      /\ q[k + 1] = GlobalPolicy(c)
  BY <1>1, <1>2, <1>3 DEF PoliciesComplete
<1>5. /\ \A i \in 1 .. k :
            /\ q[i].name = c.users[i].name /\ q[i].name \notin {Global, NoName}
            /\ q[i].domains = Range(c.users[i].domains) \cap Readable
      /\ q[k + 1].name = Global /\ q[k + 1].domains = Range(c.global_domains)
  <2>1. \A i \in 1 .. k : i \in 1 .. Len(c.users)
    BY <1>3
  <2>2. \A i \in 1 .. k : c.users[i].name \notin {Global, NoName}
    BY <2>1, ConfigType
  <2>3. ReadIn(c, Len(c.files)) = Readable
    BY <1>2, ReadableIs
  <2>4. \A u : PolicyOf(c, u).name = u.name /\ PolicyOf(c, u).domains = Range(u.domains) \cap Readable
    BY <2>3 DEF PolicyOf
  <2>5. GlobalPolicy(c).name = Global /\ GlobalPolicy(c).domains = Range(c.global_domains)
    BY DEF GlobalPolicy
  <2>6. QED
    BY <1>4, <2>2, <2>4, <2>5
<1>6. ASSUME NEW n, NEW i, i = Find(q, n)
      PROVE  /\ i = 0 => \A j \in 1 .. k + 1 : q[j].name # n
             /\ i # 0 => i \in 1 .. k + 1 /\ q[i].name = n
             /\ GetUserDomains(n) = IF i = 0 THEN {} ELSE q[i].domains
  <2>1. /\ i = 0 => \A j \in DOMAIN q : q[j].name # n
        /\ i # 0 => i \in DOMAIN q /\ q[i].name = n
    <3>1. q \in Seq(Policies(c))
      BY <1>4
    <3>2. QED
      BY <1>6, <3>1, NameFound, Zenon
  <2>2. GetUserDomains(n) = IF i = 0 THEN {} ELSE q[i].domains
    BY <1>2, <1>6 DEF GetUserDomains
  <2>3. QED
    BY <1>4, <2>1, <2>2
<1>7. \A i \in 1 .. k + 1 : i = k + 1 \/ i \in 1 .. k
  BY <1>3
<1>8. GetUserDomains(Global) = Range(c.global_domains)
  <2>1. PICK i : i = Find(q, Global)
    OBVIOUS
  <2>2. k + 1 \in 1 .. k + 1
    BY <1>3
  <2>3. QED
    BY <1>5, <1>6, <1>7, <2>1, <2>2
<1>9. GetUserDomains(NoName) = {}
  <2>1. PICK i : i = Find(q, NoName)
    OBVIOUS
  <2>2. QED
    BY <1>5, <1>6, <1>7, <2>1, NamesAssumption
<1>10. ASSUME NEW i \in 1 .. k
       PROVE  GetUserDomains(c.users[i].name) = Range(c.users[i].domains) \cap Readable
  <2>1. PICK j : j = Find(q, c.users[i].name)
    OBVIOUS
  <2>2. i \in 1 .. k + 1 /\ i \in 1 .. Len(c.users)
    BY <1>3
  <2>3. j \in 1 .. k + 1 /\ q[j].name = c.users[i].name /\ q[j].name # Global
    BY <1>5, <1>6, <2>1, <2>2
  <2>4. j \in 1 .. k /\ j \in 1 .. Len(c.users) /\ c.users[j].name = c.users[i].name
    BY <1>3, <1>5, <1>7, <2>3
  <2>5. j = i
    BY <2>2, <2>4, ConfigType
  <2>6. j # 0 /\ GetUserDomains(c.users[i].name) = q[i].domains
    <3>1. j # 0
      BY <1>3, <2>4
    <3>2. QED
      BY <1>6, <2>1, <2>5, <3>1
  <2>7. QED
    BY <1>5, <2>6
<1>11. QED
  BY <1>2, <1>8, <1>9, <1>10

\* A host that no list for everybody stops, and that all of them can be asked about.
Passes(h) ==
    Range(config.global_domains) \subseteq Readable /\ ~ OnList(h, Range(config.global_domains))

LEMMA AllowedAs ==
    ASSUME Tables, Serving, NEW h
    PROVE  /\ isAllowed(NoName, h) <=> Passes(h)
           /\ \A i \in 1 .. Known(config) :
                isAllowed(config.users[i].name, h) <=>
                    Passes(h) /\ ~ OnList(h, Range(config.users[i].domains))
<1>1. ASSUME NEW D
      PROVE  (\A d \in (D \cap Readable) \cup Range(config.global_domains) : IsAllowedInList(d, h))
             <=> Passes(h) /\ ~ OnList(h, D)
  BY ListAnswers DEF Passes, OnList
<1>2. (\A d \in Range(config.global_domains) : IsAllowedInList(d, h)) <=> Passes(h)
  BY ListAnswers DEF Passes, OnList
<1>3. QED
  BY <1>1, <1>2, DomainsOf DEF isAllowed

\* The map of half hours answers as the schedule says: the index is in the map,
\* and it is the one of the half hour the minute lies in.
LEMMA MapAnswers ==
    ASSUME NEW s \in Seq({"x", "X", "-"}), NEW t \in Times
    PROVE  PermittedAtTime(InitFromString(s), t.hour, t.minute) <=> Open(s, t)
<1>0. DayHours \in Nat /\ t.hour \in 0 .. DayHours - 1 /\ t.minute \in 0 .. 59
  BY TimeAssumption, Zenon
<1>1. PICK h \in Int, m \in Int, n \in Nat :
        h = t.hour /\ m = t.minute /\ n = DayHours /\ 0 <= h /\ h <= n - 1 /\ 0 <= m /\ m <= 59
  <2>1. PICK n \in Nat : n = DayHours
    BY <1>0
  <2>2. PICK h \in 0 .. n - 1 : h = t.hour
    BY <1>0, <2>1, Zenon
  <2>3. PICK m \in 0 .. 59 : m = t.minute
    BY <1>0, Zenon
  <2>4. h \in Int /\ m \in Int /\ 0 <= h /\ h <= n - 1 /\ 0 <= m /\ m <= 59
    BY <2>1
  <2>5. QED
    BY <2>1, <2>2, <2>3, <2>4, Zenon
<1>2. 0 <= h /\ h <= n - 1 /\ 0 <= m /\ m <= 59
  BY <1>1, Zenon
<1>3. PICK v \in Int : v = h * 60 + m
  BY <1>1
<1>4. PICK i \in Int : i = v \div 30
  BY <1>3
<1>5. 30 * i <= v /\ v <= 30 * i + 29 /\ i >= 0 /\ i < 2 * n
  BY <1>2, <1>3, <1>4
<1>6. m_intervals = 2 * n
  <2>1. PICK w \in Int : w = n * 60 + 0
    OBVIOUS
  <2>2. w \div 30 = 2 * n
    BY <2>1
  <2>3. QED
    BY <1>1, <2>1, <2>2 DEF m_intervals, MinutesToIntervals, m_intervalTime
<1>7. MinutesToIntervals(t.hour, t.minute) = i
  BY <1>1, <1>3, <1>4 DEF MinutesToIntervals, m_intervalTime
<1>8. PermittedAtTime(InitFromString(s), t.hour, t.minute) <=>
        (Len(s) = 2 * n => s[i + 1] \notin {"x", "X"})
  <2>1. i \in 0 .. 2 * n - 1 /\ i < 2 * n
    BY <1>1, <1>5
  <2>2. PermittedAtTime(InitFromString(s), t.hour, t.minute) <=> i < 2 * n /\ InitFromString(s)[i]
    BY <1>6, <1>7 DEF PermittedAtTime
  <2>3. InitFromString(s)[i] = (Len(s) = 2 * n => s[i + 1] \notin {"x", "X"})
    BY <1>6, <2>1 DEF InitFromString
  <2>4. QED
    BY <2>1, <2>2, <2>3
<1>9. Open(s, t) <=> (Len(s) = 2 * n => s[i + 1] \notin {"x", "X"})
  <2>1. CASE Len(s) = 2 * n
    <3>1. i + 1 \in DOMAIN s
      BY <1>1, <1>5, <2>1
    <3>2. \A j \in DOMAIN s : v \in 30 * (j - 1) .. 30 * j - 1 <=> j = i + 1
      <4>1. SUFFICES ASSUME NEW j \in Int PROVE v \in 30 * (j - 1) .. 30 * j - 1 <=> j = i + 1
        BY <2>1
      <4>2. QED
        BY <1>5
    <3>3. QED
      BY <1>1, <1>3, <2>1, <3>1, <3>2 DEF Open
  <2>2. CASE Len(s) # 2 * n
    BY <1>1, <2>2 DEF Open
  <2>3. QED
    BY <2>1, <2>2
<1>10. QED
  BY <1>8, <1>9


\* A user of the file is in the table, and the schedule decides.
LEMMA TimeAnswers ==
    ASSUME Tables, Serving, NEW t \in Times
    PROVE  \A i \in 1 .. Known(config) :
                AccessAllowedAtTime(config.users[i].name, t) <=> Open(config.users[i].days[t.day], t)
<1>1. config \in Configs /\ UsersAdded(config, Known(config), m_users)
  BY DEF Tables, Serving
<1>c. PICK c \in Configs : c = config
  BY <1>1
<1>2. PICK q, k : c = config /\ q = m_users /\ k = Known(c)
  BY <1>c
<1>3. k \in Nat /\ k <= Len(c.users) /\ Len(c.users) \in Nat
  BY <1>2, ConfigType
<1> DEFINE E == {NewUser(u) : u \in Range(c.users)}
<1>4. q \in Seq(E) /\ DOMAIN q = 1 .. k /\ \A i \in 1 .. k : q[i] = NewUser(c.users[i])
  BY <1>1, <1>2, <1>3 DEF UsersAdded
<1> HIDE DEF E
<1>5. SUFFICES ASSUME NEW i \in 1 .. k
               PROVE  AccessAllowedAtTime(c.users[i].name, t) <=> Open(c.users[i].days[t.day], t)
  BY <1>2
<1>6. PICK n, j : n = c.users[i].name /\ j = Find(q, n)
  OBVIOUS
<1>7. \A u : NewUser(u).name = u.name /\ NewUser(u).access = SetWeeklyAccess(u.days)
  BY DEF NewUser
<1>8. i \in DOMAIN q /\ q[i].name = n /\ i \in 1 .. Len(c.users)
  BY <1>3, <1>4, <1>6, <1>7
<1>9. j # 0 /\ j \in DOMAIN q /\ q[j].name = n
  <2>1. q \in Seq(E)
    BY <1>4
  <2>2. /\ j = 0 => \A x \in DOMAIN q : q[x].name # n
        /\ j # 0 => j \in DOMAIN q /\ q[j].name = n
    BY <1>6, <2>1, NameFound, Zenon
  <2>3. QED
    BY <1>8, <2>2
<1>10. j \in 1 .. Len(c.users) /\ c.users[j].name = c.users[i].name
  BY <1>3, <1>4, <1>6, <1>7, <1>9
<1>11. j = i
  BY <1>8, <1>10, ConfigType
<1>12. t.day \in DOMAIN c.users[i].days /\ c.users[i].days[t.day] \in Seq({"x", "X", "-"})
  <2>1. i \in DOMAIN c.users
    BY <1>8, ConfigType
  <2>2. QED
    BY <2>1, ConfigAssumption, Zenon
<1>13. q[j].access[t.day] = InitFromString(c.users[i].days[t.day])
  <2>1. q[j].access = SetWeeklyAccess(c.users[i].days)
    BY <1>4, <1>7, <1>11
  <2>2. QED
    BY <1>12, <2>1 DEF SetWeeklyAccess
<1>14. AccessAllowedAtTime(n, t) <=> PermittedAtTime(q[j].access[t.day], t.hour, t.minute)
  BY <1>2, <1>6, <1>9, Zenon DEF AccessAllowedAtTime
<1>15. PermittedAtTime(q[j].access[t.day], t.hour, t.minute) <=> Open(c.users[i].days[t.day], t)
  BY <1>12, <1>13, MapAnswers
<1>16. QED
  BY <1>6, <1>14, <1>15

\* The empty name, which wrong credentials leave, is no user's: it is refused.
LEMMA NobodyRefused == ASSUME Tables, Serving, NEW t PROVE ~ AccessAllowedAtTime(NoName, t)
<1>1. config \in Configs /\ UsersAdded(config, Known(config), m_users)
  BY DEF Tables, Serving
<1>c. PICK c \in Configs : c = config
  BY <1>1
<1>2. PICK q, k : c = config /\ q = m_users /\ k = Known(c)
  BY <1>c
<1>3. k \in Nat /\ k <= Len(c.users) /\ Len(c.users) \in Nat
  BY <1>2, ConfigType
<1> DEFINE E == {NewUser(u) : u \in Range(c.users)}
<1>4. q \in Seq(E) /\ DOMAIN q = 1 .. k /\ \A i \in 1 .. k : q[i] = NewUser(c.users[i])
  BY <1>1, <1>2, <1>3 DEF UsersAdded
<1> HIDE DEF E
<1>5. \A i \in DOMAIN q : q[i].name # NoName
  <2>1. \A i \in DOMAIN q : i \in 1 .. Len(c.users) /\ q[i].name = c.users[i].name
    BY <1>3, <1>4 DEF NewUser
  <2>2. QED
    BY <2>1, ConfigType
<1>6. Find(q, NoName) = 0
  <2>1. PICK i : i = Find(q, NoName)
    OBVIOUS
  <2>2. i # 0 => i \in DOMAIN q /\ q[i].name = NoName
    <3>1. q \in Seq(E)
      BY <1>4
    <3>2. QED
      BY <2>1, <3>1, NameFound, Zenon
  <2>3. QED
    BY <1>5, <2>1, <2>2
<1>7. QED
  BY <1>2, <1>6 DEF AccessAllowedAtTime

\* Names and passwords in the table are those of the file.
LEMMA CredentialsAnswer ==
    ASSUME Tables, Serving, NEW n, NEW p
    PROVE  Authenticate_i(n, p) <=>
                \E i \in 1 .. Known(config) : config.users[i].name = n /\ config.users[i].password = p
<1>1. config \in Configs /\ UsersAdded(config, Known(config), m_users)
  BY DEF Tables, Serving
<1>c. PICK c \in Configs : c = config
  BY <1>1
<1>2. PICK q, k : c = config /\ q = m_users /\ k = Known(c)
  BY <1>c
<1>3. DOMAIN q = 1 .. k /\ \A i \in 1 .. k : q[i] = NewUser(c.users[i])
  BY <1>1, <1>2 DEF UsersAdded
<1>4. \A i \in 1 .. k : q[i].name = c.users[i].name /\ q[i].password = c.users[i].password
  BY <1>3 DEF NewUser
<1>5. QED
  BY <1>2, <1>3, <1>4 DEF Authenticate_i

\* The address is that of the first user of the file it is listed for.
LEMMA AddressAnswers ==
    ASSUME Tables, Serving, NEW ip, NEW i, i = AuthenticateIp(ip)
    PROVE  /\ i = 0 => \A j \in 1 .. Known(config) : ip \notin Range(config.users[j].ip_list)
           /\ i # 0 => /\ i \in 1 .. Known(config) /\ m_users[i].name = config.users[i].name
                       /\ ip \in Range(config.users[i].ip_list)
                       /\ \A k \in 1 .. i - 1 : ip \notin Range(config.users[k].ip_list)
<1>1. config \in Configs /\ UsersAdded(config, Known(config), m_users)
  BY DEF Tables, Serving
<1>c. PICK c \in Configs : c = config
  BY <1>1
<1>2. PICK q, n : c = config /\ q = m_users /\ n = Known(c)
  BY <1>c
<1>3. n \in Nat
  BY <1>2, ConfigType
<1> DEFINE E == {NewUser(u) : u \in Range(c.users)}
<1>4. q \in Seq(E) /\ DOMAIN q = 1 .. n /\ \A j \in 1 .. n : q[j] = NewUser(c.users[j])
  BY <1>1, <1>2, <1>3 DEF UsersAdded
<1> HIDE DEF E
<1>5. \A j \in 1 .. n : q[j].name = c.users[j].name /\ q[j].ipList = c.users[j].ip_list
  BY <1>4 DEF NewUser
<1>6. /\ i = 0 => \A j \in DOMAIN q : ip \notin Range(q[j].ipList)
      /\ i # 0 => /\ i \in DOMAIN q /\ ip \in Range(q[i].ipList)
                  /\ \A k \in 1 .. i - 1 : ip \notin Range(q[k].ipList)
  BY <1>2, <1>4, AddressFound
<1>7. i # 0 => \A k \in 1 .. i - 1 : k \in 1 .. n
  BY <1>3, <1>4, <1>6
<1>8. QED
  BY <1>2, <1>4, <1>5, <1>6, <1>7


-----------------------------------------------------------------------------
(* The answers. *)

\* Whom the file lets through.
Entitled(r, t) ==
    /\ Passes(r.host)
    /\ config.auth => \E u \in Requesters(r) :
            Open(u.days[t.day], t) /\ ~ OnList(r.host, Range(u.domains))

AnswersWith(r, t, user, answer) ==
    /\ Respond(r, t, user, answer)
    /\ answer = "connect" <=> Entitled(r, t)
    /\ answer = "connect" =>
            IF config.auth THEN \E u \in Requesters(r) : u.name = user ELSE user = NoName

\* With authentication, for a user that is the only one to have made the request.
LEMMA AnswersUser ==
    ASSUME Tables, Serving, config.auth, NEW r, NEW t \in Times,
           NEW i \in 1 .. Known(config), Requesters(r) = {config.users[i]}
    PROVE  /\ AccessAllowedAtTime(config.users[i].name, t) /\ Connect(r, t, config.users[i].name)
                => \E answer : AnswersWith(r, t, config.users[i].name, answer)
           /\ \A user : ~ AccessAllowedAtTime(config.users[i].name, t) /\ Respond(r, t, user, "403")
                => AnswersWith(r, t, user, "403")
<1>1. PICK u : u = config.users[i]
  OBVIOUS
<1>2. Entitled(r, t) <=> Passes(r.host) /\ Open(u.days[t.day], t) /\ ~ OnList(r.host, Range(u.domains))
  BY <1>1, Zenon DEF Entitled
<1>3. AccessAllowedAtTime(u.name, t) <=> Open(u.days[t.day], t)
  BY <1>1, TimeAnswers
<1>4. isAllowed(u.name, r.host) <=> Passes(r.host) /\ ~ OnList(r.host, Range(u.domains))
  BY <1>1, AllowedAs
<1>5. \E v \in Requesters(r) : v.name = u.name
  BY <1>1
<1>6. ASSUME AccessAllowedAtTime(u.name, t), Connect(r, t, u.name)
      PROVE  \E answer : AnswersWith(r, t, u.name, answer)
  <2>1. PICK a : a = IF isAllowed(u.name, r.host) THEN "connect" ELSE "404"
    OBVIOUS
  <2>2. Respond(r, t, u.name, a)
    BY <1>6, <2>1, Zenon DEF Connect
  <2>3. a = "connect" <=> isAllowed(u.name, r.host)
    BY <2>1
  <2>4. AnswersWith(r, t, u.name, a)
    BY <1>2, <1>3, <1>4, <1>5, <1>6, <2>2, <2>3, Zenon DEF AnswersWith
  <2>5. QED
    BY <2>4
<1>7. ASSUME NEW user, ~ AccessAllowedAtTime(u.name, t), Respond(r, t, user, "403")
      PROVE  AnswersWith(r, t, user, "403")
  <2>1. "403" # "connect" /\ ~ Entitled(r, t)
    BY <1>2, <1>3, <1>7
  <2>2. QED
    BY <1>7, <2>1, Zenon DEF AnswersWith
<1>8. QED
  BY <1>1, <1>6, <1>7, Zenon

\* With authentication, if nobody in the file made the request.
LEMMA AnswersNobody ==
    ASSUME config.auth, NEW r, NEW t, Requesters(r) = {}, NEW user, NEW answer,
           answer # "connect", Respond(r, t, user, answer)
    PROVE  AnswersWith(r, t, user, answer)
<1>1. ~ Entitled(r, t)
  BY Zenon DEF Entitled
<1>2. QED
  BY <1>1, Zenon DEF AnswersWith

LEMMA NoAuthenticationAnswers ==
    ASSUME Tables, Serving, NEW r, NEW t, NoAuthentication(r, t)
    PROVE  \E user, answer : AnswersWith(r, t, user, answer)
<1>1. ~ config.auth
  BY Zenon DEF NoAuthentication, Serving
<1>2. Entitled(r, t) <=> isAllowed(NoName, r.host)
  BY <1>1, AllowedAs, Zenon DEF Entitled
<1>3. PICK a : a = IF isAllowed(NoName, r.host) THEN "connect" ELSE "404"
  OBVIOUS
<1>4. Respond(r, t, NoName, a)
  BY <1>3, Zenon DEF NoAuthentication, Connect
<1>5. a = "connect" <=> isAllowed(NoName, r.host)
  BY <1>3
<1>6. AnswersWith(r, t, NoName, a)
  BY <1>1, <1>2, <1>4, <1>5, Zenon DEF AnswersWith
<1>7. QED
  BY <1>6

LEMMA ByCredentialsAnswers ==
    ASSUME Tables, Serving, NEW r, NEW t \in Times, ByCredentials(r, t)
    PROVE  \E user, answer : AnswersWith(r, t, user, answer)
<1>1. config \in Configs /\ r.authorization # "none"
  BY DEF Tables, ByCredentials
<1>2. config.auth
  BY Zenon DEF ByCredentials, Serving
<1>3. PICK n : n = Known(config) /\ n = Len(config.users) /\ n \in Nat /\ DOMAIN config.users = 1 .. n
  BY <1>1, <1>2, ConfigType DEF Known
<1>4. Requesters(r) = {u \in Range(config.users) :
            r.authorization = "basic" /\ u.name = r.user /\ u.password = r.password}
  BY <1>1 DEF Requesters
<1>5. Range(config.users) = {config.users[i] : i \in 1 .. n}
  BY <1>3 DEF Range
<1>6. PICK ok, name : ok = Authenticate(r).ok /\ name = Authenticate(r).username
  OBVIOUS
<1>7. /\ ok = (r.authorization = "basic")
      /\ name = IF r.authorization = "basic" /\ Authenticate_i(r.user, r.password) THEN r.user ELSE NoName
  BY <1>6 DEF Authenticate
<1>8. IF ok /\ AccessAllowedAtTime(name, t) THEN Connect(r, t, name) ELSE Respond(r, t, name, "403")
  BY <1>6, Zenon DEF ByCredentials
<1>9. CASE r.authorization = "basic" /\ Authenticate_i(r.user, r.password)
  <2>1. PICK i \in 1 .. n : config.users[i].name = r.user /\ config.users[i].password = r.password
    BY <1>3, <1>9, CredentialsAnswer
  <2>2. \A j \in 1 .. n : config.users[j].name = r.user => j = i
    BY <1>1, <1>3, <2>1, ConfigType
  <2>3. Requesters(r) = {config.users[i]}
    BY <1>4, <1>5, <1>9, <2>1, <2>2
  <2>4. i \in 1 .. Known(config)
    BY <1>3
  <2>5. ok /\ name = config.users[i].name
    BY <1>7, <1>9, <2>1
  <2>6. CASE AccessAllowedAtTime(name, t)
    BY <1>2, <1>8, <2>3, <2>4, <2>5, <2>6, AnswersUser, Zenon
  <2>7. CASE ~ AccessAllowedAtTime(name, t)
    BY <1>2, <1>8, <2>3, <2>4, <2>5, <2>7, AnswersUser, Zenon
  <2>8. QED
    BY <2>6, <2>7
<1>10. CASE ~ (r.authorization = "basic" /\ Authenticate_i(r.user, r.password))
  <2>1. Requesters(r) = {}
    <3>1. r.authorization = "basic" =>
            ~ \E i \in 1 .. n : config.users[i].name = r.user /\ config.users[i].password = r.password
      BY <1>3, <1>10, CredentialsAnswer
    <3>2. QED
      BY <1>4, <1>5, <3>1
  <2>2. name = NoName /\ ~ AccessAllowedAtTime(name, t)
    BY <1>7, <1>10, NobodyRefused
  <2>3. Respond(r, t, name, "403")
    BY <1>8, <2>2, Zenon
  <2>4. "403" # "connect"
    OBVIOUS
  <2>5. QED
    BY <1>2, <2>1, <2>3, <2>4, AnswersNobody, Zenon
<1>11. QED
  BY <1>9, <1>10

LEMMA ByAddressAnswers ==
    ASSUME Tables, Serving, NEW r, NEW t \in Times, ByAddress(r, t)
    PROVE  \E user, answer : AnswersWith(r, t, user, answer)
<1>1. config \in Configs /\ r.authorization = "none"
  BY DEF Tables, ByAddress
<1>2. config.auth
  BY Zenon DEF ByAddress, Serving
<1>3. PICK n : n = Known(config) /\ n = Len(config.users) /\ n \in Nat /\ DOMAIN config.users = 1 .. n
  BY <1>1, <1>2, ConfigType DEF Known
<1>4. Requesters(r) = {config.users[i] : i \in {j \in 1 .. n :
            /\ r.ip \in Range(config.users[j].ip_list)
            /\ \A k \in 1 .. j - 1 : r.ip \notin Range(config.users[k].ip_list)}}
  BY <1>1, <1>3, Zenon DEF Requesters
<1>5. PICK i : i = AuthenticateIp(r.ip)
  OBVIOUS
<1>6. /\ i = 0 => \A j \in 1 .. n : r.ip \notin Range(config.users[j].ip_list)
      /\ i # 0 => /\ i \in 1 .. n /\ m_users[i].name = config.users[i].name
                  /\ r.ip \in Range(config.users[i].ip_list)
                  /\ \A k \in 1 .. i - 1 : r.ip \notin Range(config.users[k].ip_list)
  <2>1. Known(config) = n
    BY <1>3
  <2>2. /\ i = 0 => \A j \in 1 .. Known(config) : r.ip \notin Range(config.users[j].ip_list)
        /\ i # 0 => /\ i \in 1 .. Known(config) /\ m_users[i].name = config.users[i].name
                    /\ r.ip \in Range(config.users[i].ip_list)
                    /\ \A k \in 1 .. i - 1 : r.ip \notin Range(config.users[k].ip_list)
    BY <1>5, AddressAnswers
  <2>3. QED
    BY <2>1, <2>2
<1>7. CASE i = 0
  <2>1. Requesters(r) = {}
    BY <1>4, <1>6, <1>7
  <2>2. Respond(r, t, NoName, "407") /\ "407" # "connect"
    BY <1>5, <1>7 DEF ByAddress
  <2>3. QED
    BY <1>2, <2>1, <2>2, AnswersNobody, Zenon
<1>8. CASE i # 0
  <2>1. i \in 1 .. n /\ i \in 1 .. Known(config)
    BY <1>3, <1>6, <1>8
  <2>2. \A j \in 1 .. n : j = i \/ j \in 1 .. i - 1 \/ i \in 1 .. j - 1
    BY <1>3, <2>1
  <2>3. Requesters(r) = {config.users[i]}
    BY <1>4, <1>6, <1>8, <2>1, <2>2
  <2>4. PICK name : name = config.users[i].name /\ name = m_users[i].name
    BY <1>6, <1>8
  <2>5. IF AccessAllowedAtTime(name, t) THEN Connect(r, t, name) ELSE Respond(r, t, NoName, "403")
    BY <1>5, <1>8, <2>4, Zenon DEF ByAddress
  <2>6. CASE AccessAllowedAtTime(name, t)
    BY <1>2, <2>1, <2>3, <2>4, <2>5, <2>6, AnswersUser, Zenon
  <2>7. CASE ~ AccessAllowedAtTime(name, t)
    BY <1>2, <2>1, <2>3, <2>4, <2>5, <2>7, AnswersUser, Zenon
  <2>8. QED
    BY <2>6, <2>7
<1>9. QED
  BY <1>7, <1>8


-----------------------------------------------------------------------------
(* The theorems. *)

AccessInv == Tables /\ AnswerAsConfigured /\ ServedAsRequester

\* The properties speak of config and last only, and Readable of config.
LEMMA AnswersStay ==
    ASSUME AnswerAsConfigured, ServedAsRequester, config' = config, last' = last
    PROVE  AnswerAsConfigured' /\ ServedAsRequester'
<1>1. PICK l : l = last
  OBVIOUS
<1>2. Readable' = Readable
  BY DEF Readable
<1>3. /\ Requesters(l.request)' = Requesters(l.request)
      /\ \A h, D : OnList(h, D)' = OnList(h, D)
  BY <1>2 DEF Requesters, OnList
<1>4. QED
  BY <1>1, <1>2, <1>3, Zenon DEF AnswerAsConfigured, ServedAsRequester

LEMMA NoAnswer == ASSUME last = Nothing PROVE AnswerAsConfigured /\ ServedAsRequester
BY DEF AnswerAsConfigured, ServedAsRequester

LEMMA HandledAsConfigured ==
    ASSUME Tables, HandleDetectResult
    PROVE  AnswerAsConfigured' /\ ServedAsRequester'
<1>1. Serving /\ config' = config
  BY DEF HandleDetectResult, Tables, InDomains, InUsers, InGlobal
<1>2. PICK r \in Requests, t \in Times : NoAuthentication(r, t) \/ ByCredentials(r, t) \/ ByAddress(r, t)
  BY Zenon DEF HandleDetectResult
<1>3. PICK user, answer : AnswersWith(r, t, user, answer)
  BY <1>1, <1>2, NoAuthenticationAnswers, ByCredentialsAnswers, ByAddressAnswers, Zenon
<1>4. last' = [request |-> r, time |-> t, user |-> user, answer |-> answer]
  BY <1>3 DEF AnswersWith, Respond
<1>5. PICK l : l = last' /\ l.request = r /\ l.time = t /\ l.user = user /\ l.answer = answer
  BY <1>4
<1>6. Readable' = Readable
  BY <1>1 DEF Readable
<1>7. (answer = "connect") = Entitled(r, t)
  <2>1. (answer = "connect") \in BOOLEAN /\ Entitled(r, t) \in BOOLEAN
    BY DEF Entitled
  <2>2. answer = "connect" <=> Entitled(r, t)
    BY <1>3 DEF AnswersWith
  <2>3. QED
    BY <2>1, <2>2
<1>8. AnswerAsConfigured'
  <2>1. /\ Requesters(l.request)' = Requesters(r)
        /\ \A D : OnList(l.request.host, D)' = OnList(r.host, D)
    BY <1>1, <1>5, <1>6 DEF Requesters, OnList
  <2>2. QED
    BY <1>1, <1>5, <1>6, <1>7, <2>1, Zenon DEF AnswerAsConfigured, Entitled, Passes
<1>9. ServedAsRequester'
  <2>1. Requesters(r)' = Requesters(r)
    BY <1>1 DEF Requesters
  <2>2. QED
    BY <1>1, <1>3, <1>5, <2>1, Zenon DEF ServedAsRequester, AnswersWith
<1>10. QED
  BY <1>8, <1>9

LEMMA AccessInductive == AccessInv /\ [Next]_vars => AccessInv'
<1> SUFFICES ASSUME AccessInv, [Next]_vars PROVE AccessInv'
  OBVIOUS
<1>1. Tables'
  BY NextTables DEF AccessInv
<1>2. CASE LoadFromFile \/ AddUser \/ AddGlobalPolicy \/ UNCHANGED vars
  <2>1. config' = config /\ last' = last
    BY <1>2 DEF LoadFromFile, AddUser, AddGlobalPolicy, vars
  <2>2. QED
    BY <1>1, <2>1, AnswersStay DEF AccessInv
<1>3. CASE HandleDetectResult
  BY <1>1, <1>3, HandledAsConfigured DEF AccessInv
<1>4. CASE SessionEnds
  <2>1. last' = Nothing
    BY <1>4 DEF SessionEnds
  <2>2. AnswerAsConfigured' /\ ServedAsRequester'
    BY <2>1 DEF AnswerAsConfigured, ServedAsRequester, Nothing
  <2>3. QED
    BY <1>1, <2>2 DEF AccessInv
<1>5. QED
  BY <1>2, <1>3, <1>4 DEF Next

LEMMA AccessInvariant == Spec => []AccessInv
<1>1. Init => AccessInv
  BY InitTables, NoAnswer DEF Init, AccessInv
<1>2. QED
  BY <1>1, AccessInductive, PTL DEF Spec

\* For every configuration file, request and moment, a connection is made exactly
\* when the file permits it: the tables DoConfig builds and the searches, early
\* returns and half-hour index of the handler come to what the file says.
THEOREM AnswersFollowConfiguration == Spec => []AnswerAsConfigured
BY AccessInvariant, PTL DEF AccessInv

\* For every configuration file, whoever is connected runs under the name of the
\* user who made the request, and wrong credentials are never served.
THEOREM ConnectedAsRequester == Spec => []ServedAsRequester
BY AccessInvariant, PTL DEF AccessInv

=============================================================================
