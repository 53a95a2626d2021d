--------------------------- MODULE AuditLogProofs ---------------------------
(***************************************************************************)
(* Proofs about AuditLog, for any clock, users, hosts, sessions and faults:*)
(* the types, the times, the bytes, and that the log files are the record  *)
(* of what the audited sessions did.                                       *)
(***************************************************************************)
EXTENDS AuditLog, WellFoundedInduction, FiniteSetTheorems, TLAPS

-----------------------------------------------------------------------------
(* Natural numbers and sums.  The library's induction theorems take a        *)
(* predicate; here the set of the numbers that satisfy it takes its place.   *)

LEMMA LeastNat ==
    ASSUME NEW T, T \subseteq Nat, T # {}
    PROVE  \E x \in T : \A y \in T : x <= y
<1> DEFINE R == {p \in Nat \X Nat : p[1] < p[2]}
<1>0. IsWellFoundedOn(R, Nat)
  BY NatLessThanWellFounded, Zenon DEF OpToRel
<1> HIDE DEF R
<1>1. PICK x \in T : \A y \in T : ~ (<<y, x>> \in R)
  BY <1>0, WFMin
<1>2. \A y \in T : ~ (y < x)
  BY <1>1 DEF R
<1>3. QED
  BY <1>2

LEMMA InductionOnNat ==
    ASSUME NEW B, 0 \in B, \A n \in Nat : n \in B => n + 1 \in B
    PROVE  Nat \subseteq B
<1> SUFFICES ASSUME Nat \ B # {} PROVE FALSE
  OBVIOUS
<1>1. PICK x \in Nat \ B : \A y \in Nat \ B : x <= y
  BY LeastNat
<1>2. x - 1 \in Nat /\ x - 1 < x /\ (x - 1) + 1 = x
  BY <1>1
<1>3. x - 1 \in B
  BY <1>1, <1>2
<1>4. QED
  BY <1>1, <1>2, <1>3

\* The recursion by which MapThenSumSet adds up the field of the elements: one
\* after the other is picked from what is left of the set.
Pick(s) == CHOOSE x \in s : TRUE
Iter(k, S) ==
    CHOOSE g : g = [s \in SUBSET S |-> IF s = {} THEN 0 ELSE Pick(s)[k] + g[s \ {Pick(s)}]]
Measured(k, S) == IsFiniteSet(S) /\ \A x \in S : x[k] \in Nat

LEMMA SumIsIter == \A k, S : SumOf(k, S) = Iter(k, S)[S]
BY DEF SumOf, MapThenSumSet, MapThenFoldSet, Iter, Pick

LEMMA PickIn == \A s : s # {} => Pick(s) \in s
BY DEF Pick

LEMMA Smaller ==
    ASSUME NEW s, IsFiniteSet(s), NEW x \in s
    PROVE  /\ IsFiniteSet(s \ {x}) /\ Cardinality(s) \in Nat /\ Cardinality(s \ {x}) \in Nat
           /\ Cardinality(s) = Cardinality(s \ {x}) + 1
<1>1. IsFiniteSet(s \ {x}) /\ Cardinality(s \ {x}) = Cardinality(s) - 1
  BY FS_RemoveElement
<1>2. Cardinality(s) \in Nat /\ Cardinality(s \ {x}) \in Nat
  BY <1>1, FS_CardinalityType
<1>3. QED
  BY <1>1, <1>2

\* There is such a function: one for the sets of up to n elements, for every n.
LEMMA IterExists ==
    ASSUME NEW k, NEW S, Measured(k, S)
    PROVE  \E g \in [SUBSET S -> Nat] :
             g = [s \in SUBSET S |-> IF s = {} THEN 0 ELSE Pick(s)[k] + g[s \ {Pick(s)}]]
<1> DEFINE Upto(n) == {s \in SUBSET S : Cardinality(s) <= n}
           Defines(g, n) ==
             \A s \in Upto(n) : g[s] = IF s = {} THEN 0 ELSE Pick(s)[k] + g[s \ {Pick(s)}]
           B == {n \in Nat : \E g \in [Upto(n) -> Nat] : Defines(g, n)}
<1>1. \A s \in SUBSET S : IsFiniteSet(s) /\ Cardinality(s) \in Nat
  BY FS_Subset, FS_CardinalityType DEF Measured
<1>2. \A s \in SUBSET S : s # {} => /\ Pick(s) \in s /\ Pick(s)[k] \in Nat
                                    /\ s \ {Pick(s)} \in SUBSET S
                                    /\ Cardinality(s) = Cardinality(s \ {Pick(s)}) + 1
  BY <1>1, PickIn, Smaller DEF Measured
<1>3. 0 \in B
  <2>1. \A s \in Upto(0) : s = {}
    BY <1>1, FS_EmptySet
  <2> DEFINE g == [s \in Upto(0) |-> 0]
  <2>2. g \in [Upto(0) -> Nat] /\ Defines(g, 0)
    BY <2>1
  <2>3. QED
    BY <2>2
<1>4. ASSUME NEW n \in Nat, n \in B PROVE n + 1 \in B
  <2>1. PICK g \in [Upto(n) -> Nat] : Defines(g, n)
    BY <1>4
  <2> DEFINE h == [s \in Upto(n + 1) |-> IF s = {} THEN 0 ELSE Pick(s)[k] + g[s \ {Pick(s)}]]
  <2>2. \A s \in Upto(n + 1) : s # {} => s \ {Pick(s)} \in Upto(n) /\ Pick(s)[k] \in Nat
    BY <1>1, <1>2
  <2>3. h \in [Upto(n + 1) -> Nat]
    BY <2>1, <2>2
  <2>4. \A s \in Upto(n) : s \in Upto(n + 1) /\ h[s] = g[s]
    BY <1>1, <2>1
  <2>5. Defines(h, n + 1)
    BY <2>2, <2>4
  <2> HIDE DEF h, Upto, Defines
  <2>6. QED
    BY <2>3, <2>5
<1>5. Cardinality(S) \in B
  <2> HIDE DEF B
  <2>1. Nat \subseteq B
    BY <1>3, <1>4, InductionOnNat
  <2>2. QED
    BY <1>1, <2>1
<1>6. Upto(Cardinality(S)) = SUBSET S
  BY <1>1, FS_Subset DEF Measured
<1>7. PICK g \in [SUBSET S -> Nat] : Defines(g, Cardinality(S))
  BY <1>5, <1>6
<1>8. g = [s \in SUBSET S |-> IF s = {} THEN 0 ELSE Pick(s)[k] + g[s \ {Pick(s)}]]
  BY <1>6, <1>7
<1>9. QED
  BY <1>8

LEMMA IterUnfolds ==
    ASSUME NEW k, NEW S, Measured(k, S)
    PROVE  /\ Iter(k, S)[{}] = 0
           /\ \A s \in SUBSET S : s # {} => Iter(k, S)[s] = Pick(s)[k] + Iter(k, S)[s \ {Pick(s)}]
<1> DEFINE Unfolds(g) ==
             g = [s \in SUBSET S |-> IF s = {} THEN 0 ELSE Pick(s)[k] + g[s \ {Pick(s)}]]
<1>1. \E g : Unfolds(g)
  <2>1. PICK g \in [SUBSET S -> Nat] : Unfolds(g)
    BY IterExists
  <2> HIDE DEF Unfolds
  <2>2. QED
    BY <2>1
<1>2. Iter(k, S) = CHOOSE g : Unfolds(g)
  BY DEF Iter
<1> HIDE DEF Unfolds
<1>3. Unfolds(Iter(k, S))
  BY <1>1, <1>2
<1>4. PICK g : g = Iter(k, S)
  OBVIOUS
<1>5. g = [s \in SUBSET S |-> IF s = {} THEN 0 ELSE Pick(s)[k] + g[s \ {Pick(s)}]]
  BY <1>3, <1>4 DEF Unfolds
<1>6. g[{}] = 0 /\ \A s \in SUBSET S : s # {} => g[s] = Pick(s)[k] + g[s \ {Pick(s)}]
  BY <1>5
<1>7. QED
  BY <1>4, <1>6

\* The sum of a part does not depend on the set it is a part of.
LEMMA IterAgrees ==
    ASSUME NEW k, NEW S, Measured(k, S), NEW T \in SUBSET S
    PROVE  /\ Measured(k, T)
           /\ \A s \in SUBSET T : Iter(k, T)[s] \in Nat /\ Iter(k, S)[s] = Iter(k, T)[s]
<1>0. Measured(k, T)
  BY FS_Subset DEF Measured
<1> DEFINE Agree(s) == Iter(k, T)[s] \in Nat /\ Iter(k, S)[s] = Iter(k, T)[s]
           B == {n \in Nat : \A s \in SUBSET T : Cardinality(s) = n => Agree(s)}
<1>1. \A s \in SUBSET T : IsFiniteSet(s) /\ Cardinality(s) \in Nat
  BY <1>0, FS_Subset, FS_CardinalityType DEF Measured
<1>2. 0 \in B
  BY <1>0, <1>1, IterUnfolds, FS_EmptySet
<1>3. ASSUME NEW n \in Nat, n \in B PROVE n + 1 \in B
  <2> SUFFICES ASSUME NEW s \in SUBSET T, Cardinality(s) = n + 1 PROVE Agree(s)
    OBVIOUS
  <2>1. s # {}
    BY FS_EmptySet
  <2>2. PICK x \in s : x = Pick(s)
    BY <2>1, PickIn
  <2>3. s \ {x} \in SUBSET T /\ Cardinality(s \ {x}) = n
    BY <1>1, Smaller
  <2>4. Agree(s \ {x})
    BY <1>3, <2>3
  <2>5. x[k] \in Nat
    BY <1>0 DEF Measured
  <2>6. Iter(k, T)[s] = x[k] + Iter(k, T)[s \ {x}]
    BY <1>0, <2>1, <2>2, IterUnfolds
  <2>7. Iter(k, S)[s] = x[k] + Iter(k, S)[s \ {x}]
    BY <2>1, <2>2, IterUnfolds
  <2>8. QED
    BY <2>4, <2>5, <2>6, <2>7
<1>4. Nat \subseteq B
  <2> HIDE DEF B
  <2>1. QED
    BY <1>2, <1>3, InductionOnNat
<1>5. QED
  BY <1>0, <1>1, <1>4

LEMMA SumEmpty == \A k : SumOf(k, {}) = 0
BY SumIsIter, IterUnfolds, FS_EmptySet DEF Measured

LEMMA SumPicked ==
    ASSUME NEW k, NEW S, Measured(k, S), S # {}
    PROVE  SumOf(k, S) = Pick(S)[k] + SumOf(k, S \ {Pick(S)})
<1>1. PICK T \in SUBSET S : T = S \ {Pick(S)}
  OBVIOUS
<1>2. SumOf(k, S) = Pick(S)[k] + Iter(k, S)[T]
  <2>1. Iter(k, S)[S] = Pick(S)[k] + Iter(k, S)[S \ {Pick(S)}]
    BY IterUnfolds
  <2>2. QED
    BY <1>1, <2>1, SumIsIter
<1>3. Iter(k, S)[T] = Iter(k, T)[T]
  BY IterAgrees
<1>4. QED
  BY <1>1, <1>2, <1>3, SumIsIter

LEMMA SumNat ==
    ASSUME NEW k, NEW S, Measured(k, S)
    PROVE  SumOf(k, S) \in Nat
BY SumIsIter, IterAgrees

\* Whichever element is taken out first.
LEMMA SumTaken ==
    ASSUME NEW k, NEW S, Measured(k, S), NEW x \in S
    PROVE  SumOf(k, S) = x[k] + SumOf(k, S \ {x})
<1> DEFINE AnyFirst(T) == \A y \in T : SumOf(k, T) = y[k] + SumOf(k, T \ {y})
           B == {n \in Nat : \A T \in SUBSET S : Cardinality(T) = n => AnyFirst(T)}
<1>1. \A T \in SUBSET S : Measured(k, T) /\ IsFiniteSet(T) /\ Cardinality(T) \in Nat /\ SumOf(k, T) \in Nat
  BY IterAgrees, SumNat, FS_CardinalityType DEF Measured
<1>2. 0 \in B
  BY <1>1, FS_EmptySet
<1>3. ASSUME NEW n \in Nat, n \in B PROVE n + 1 \in B
  <2> SUFFICES ASSUME NEW T \in SUBSET S, Cardinality(T) = n + 1, NEW y \in T
               PROVE  SumOf(k, T) = y[k] + SumOf(k, T \ {y})
    OBVIOUS
  <2>1. PICK p \in T : p = Pick(T)
    BY PickIn
  <2>2. SumOf(k, T) = p[k] + SumOf(k, T \ {p})
    BY <1>1, <2>1, SumPicked
  <2>3. \A z \in T : T \ {z} \in SUBSET S /\ Cardinality(T \ {z}) = n
    BY <1>1, Smaller
  <2>4. CASE p = y
    BY <2>2, <2>4
  <2>5. CASE p # y
    <3>1. PICK R \in SUBSET S : R = (T \ {p}) \ {y} /\ R = (T \ {y}) \ {p}
      OBVIOUS
    <3>2. SumOf(k, T \ {p}) = y[k] + SumOf(k, R)
      BY <1>3, <2>3, <2>5, <3>1
    <3>3. SumOf(k, T \ {y}) = p[k] + SumOf(k, R)
      BY <1>3, <2>3, <2>5, <3>1
    <3>4. p[k] \in Nat /\ y[k] \in Nat /\ SumOf(k, R) \in Nat
      BY <1>1 DEF Measured
    <3>5. QED
      BY <2>2, <3>2, <3>3, <3>4
  <2>6. QED
    BY <2>4, <2>5
<1>4. Nat \subseteq B
  <2> HIDE DEF B
  <2>1. QED
    BY <1>2, <1>3, InductionOnNat
<1>5. QED
  BY <1>1, <1>4

LEMMA SumAdds ==
    ASSUME NEW k, NEW S, Measured(k, S), NEW x, x \notin S, x[k] \in Nat
    PROVE  SumOf(k, S \cup {x}) = SumOf(k, S) + x[k]
<1>1. Measured(k, S \cup {x}) /\ (S \cup {x}) \ {x} = S
  BY FS_AddElement DEF Measured
<1>2. SumOf(k, S \cup {x}) = x[k] + SumOf(k, S)
  BY <1>1, SumTaken
<1>3. QED
  BY <1>2, SumNat
-----------------------------------------------------------------------------
(* Counters that wrap. *)

LEMMA ModulusNat ==
    MaxRead \in Nat /\ Modulus \in Nat /\ Modulus > 1 /\ Modulus > 0 /\ Modulus - 1 > MaxRead
BY NumbersAssumption

LEMMA Multiples == \A d \in Nat : Modulus * d \in Nat /\ (d >= 1 => Modulus * d >= Modulus)
BY ModulusNat

LEMMA ModCongruent ==
    ASSUME NEW a \in Int
    PROVE  a % Modulus \in Counter /\ \E k \in Int : a % Modulus = a + Modulus * k
<1>1. a = Modulus * (a \div Modulus) + (a % Modulus) /\ a \div Modulus \in Int /\ a % Modulus \in Int
  BY ModulusNat, SMT
<1>2. PICK q \in Int : q = a \div Modulus
  BY <1>1
<1>3. -q \in Int /\ a % Modulus = a + Modulus * (-q)
  BY <1>1, <1>2, ModulusNat, SMT
<1>4. a % Modulus \in Counter
  BY ModulusNat, SMT DEF Counter
<1>5. QED
  BY <1>3, <1>4

LEMMA ModUnique ==
    ASSUME NEW a \in Int, NEW x \in Counter, NEW k \in Int, x = a + Modulus * k
    PROVE  x = a % Modulus
<1>1. PICK r \in Counter, j \in Int : r = a % Modulus /\ r = a + Modulus * j
  BY ModCongruent
<1>2. x - r = Modulus * (k - j)
  BY <1>1, ModulusNat DEF Counter
<1>3. PICK d \in Int : d = k - j
  OBVIOUS
<1>4. CASE d >= 1
  BY <1>1, <1>2, <1>3, <1>4, Multiples, ModulusNat DEF Counter
<1>5. CASE d <= -1
  <2>1. r - x = Modulus * (-d)
    BY <1>1, <1>2, <1>3, ModulusNat DEF Counter
  <2>2. -d \in Nat /\ -d >= 1
    BY <1>5
  <2>3. Modulus * (-d) >= Modulus
    BY <2>2, Multiples
  <2>4. QED
    BY <1>1, <2>1, <2>3, ModulusNat DEF Counter
<1>6. CASE d = 0
  BY <1>1, <1>2, <1>3, <1>6, ModulusNat DEF Counter
<1>7. QED
  BY <1>1, <1>4, <1>5, <1>6

\* Adding to a counter that has wrapped is adding before it wraps.
LEMMA ModAdds ==
    ASSUME NEW a \in Int, NEW b \in Int
    PROVE  ((a % Modulus) + b) % Modulus = (a + b) % Modulus
<1>1. PICK r \in Counter, k \in Int : r = a % Modulus /\ r = a + Modulus * k
  BY ModCongruent
<1>2. r + b \in Int
  BY ModulusNat DEF Counter
<1>3. PICK x \in Counter, j \in Int : x = (r + b) % Modulus /\ x = (r + b) + Modulus * j
  BY <1>2, ModCongruent
<1>4. x = (a + b) + Modulus * (k + j)
  BY <1>1, <1>3, ModulusNat DEF Counter
<1>5. x = (a + b) % Modulus
  BY <1>4, ModUnique
<1>6. QED
  BY <1>1, <1>3, <1>5

-----------------------------------------------------------------------------
(* The clock. *)

LEMMA TimestampNat == \A t \in Nat : Timestamp(t) \in Nat
BY SMT DEF Timestamp

\* The readings of the clock never go back, and the hundredths of a second that
\* Timestamp() counts by ones instead of tens are all it can be wrong by.
LEMMA TimestampClose ==
    \A a, b \in Nat : a <= b =>
        /\ Timestamp(a) <= Timestamp(b)
        /\ Timestamp(b) - Timestamp(a) <= 10 * (b - a) + 999
        /\ 10 * (b - a) <= (Timestamp(b) - Timestamp(a)) + 999
<1> SUFFICES ASSUME NEW a \in Nat, NEW b \in Nat, a <= b
             PROVE  /\ Timestamp(a) <= Timestamp(b)
                    /\ Timestamp(b) - Timestamp(a) <= 10 * (b - a) + 999
                    /\ 10 * (b - a) <= (Timestamp(b) - Timestamp(a)) + 999
  OBVIOUS
<1> DEFINE qa == a \div 100
           ra == a % 100
           qb == b \div 100
           rb == b % 100
<1>1. qa \in Nat /\ ra \in 0 .. 99 /\ a = 100 * qa + ra
  BY SMT
<1>2. qb \in Nat /\ rb \in 0 .. 99 /\ b = 100 * qb + rb
  BY SMT
<1>3. Timestamp(a) = 1000 * qa + ra /\ Timestamp(b) = 1000 * qb + rb
  BY DEF Timestamp
<1> HIDE DEF qa, ra, qb, rb
<1>4. qa <= qb
  BY <1>1, <1>2, SMT
<1> QED
  BY <1>1, <1>2, <1>3, <1>4, SMT

-----------------------------------------------------------------------------
(* What the events of a pass do to the sessions: one begins or goes on, or   *)
(* one ends.                                                                 *)

SessionsInv ==
    /\ now \in 0 .. MaxClock
    /\ sessions \in [SessionId -> Session \cup {None}]
    /\ nextId \in 1 .. MaxSessions + 1
    /\ \A s \in SessionId : sessions[s] # None => s < nextId /\ sessions[s].start <= now

\* The counters of a session agree with the bytes it has relayed.
Counted(x) ==
    /\ IF x.writeFailed THEN (x.reached - x.rx) % Modulus \in 0 .. MaxRead - 1 ELSE x.rx = x.reached
    /\ IF x.readFailed THEN (x.fetched - x.tx) % Modulus = 1 ELSE x.tx = x.fetched

\* A failure ends its socket, so that it is the only one.
Agrees(x) ==
    /\ x.writeFailed => x.stage = "relaying" /\ "client" \notin x.active
    /\ x.readFailed => x.stage = "relaying" /\ "server" \notin x.active

Sound(x) == Counted(x) /\ Agrees(x)

Begins(s, r) ==
    /\ s = nextId /\ nextId' = nextId + 1
    /\ Sound(r)

GoesOn(s, r) ==
    /\ sessions[s] # None /\ nextId' = nextId
    /\ Sound(sessions[s]) => Sound(r)

Puts(s, r) ==
    /\ r.start <= now
    /\ sessions' = [sessions EXCEPT ![s] = r]
    /\ Begins(s, r) \/ GoesOn(s, r)
    /\ UNCHANGED <<now, stats, ended>>

Ends(s, x) ==
    /\ logging = None
    /\ x.start <= now
    /\ sessions[s] # None
    /\ Sound(sessions[s]) => Sound(x)
    /\ EndSession(s, x)

LEMMA CounterNat == Counter \subseteq Nat /\ \A a \in Counter : a % Modulus = a
<1>1. Counter \subseteq Nat
  BY ModulusNat DEF Counter
<1>2. ASSUME NEW a \in Counter PROVE a % Modulus = a
  <2>1. a \in Int /\ a = a + Modulus * 0
    BY <1>1, ModulusNat
  <2>2. QED
    BY <2>1, ModUnique
<1>3. QED
  BY <1>1, <1>2

\* What is left out of a counter is what the other one has more.
LEMMA CountedBehind ==
    ASSUME NEW c \in Counter, NEW k \in Counter
    PROVE  /\ (((c + k) % Modulus) - c) % Modulus = k
           /\ (c - ((c + (Modulus - 1)) % Modulus)) % Modulus = 1
<1>1. c \in Int /\ k \in Int /\ Modulus \in Int
  BY CounterNat, ModulusNat
<1>2. (((c + k) % Modulus) - c) % Modulus = k
  <2>1. PICK m \in Int : m = -c
    BY <1>1
  <2>2. PICK a \in Int : a = c + k
    BY <1>1
  <2>3. ((a % Modulus) + m) % Modulus = (a + m) % Modulus
    BY ModAdds
  <2>4. PICK r \in Counter : r = a % Modulus
    BY ModCongruent
  <2>5. r - c = r + m /\ a + m = k
    BY <1>1, <2>1, <2>2, <2>4, CounterNat
  <2>6. k % Modulus = k
    BY CounterNat
  <2>7. QED
    BY <2>2, <2>3, <2>4, <2>5, <2>6
<1>3. (c - ((c + (Modulus - 1)) % Modulus)) % Modulus = 1
  <2>1. PICK a \in Int : a = c + (Modulus - 1)
    BY <1>1
  <2>2. PICK r \in Counter, j \in Int : r = a % Modulus /\ r = a + Modulus * j
    BY ModCongruent
  <2>3. PICK b \in Int : b = c - r
    BY <1>1, <2>2, CounterNat
  <2>4. b = 1 - Modulus * (j + 1)
    BY <1>1, <2>1, <2>2, <2>3, CounterNat
  <2>5. 1 = b + Modulus * (j + 1) /\ j + 1 \in Int
    BY <1>1, <2>4
  <2>6. 1 \in Counter
    BY ModulusNat DEF Counter
  <2>7. 1 = b % Modulus
    BY <2>5, <2>6, ModUnique
  <2>8. QED
    BY <2>1, <2>2, <2>3, <2>7
<1>4. QED
  BY <1>2, <1>3

\* The session x with new values of the fields that a transfer changes.
Received(x, a, b, c, d) == [x EXCEPT !.rx = a, !.active = b, !.reached = c, !.writeFailed = d]
Sent(x, a, b, c, d) == [x EXCEPT !.tx = a, !.active = b, !.fetched = c, !.readFailed = d]

LEMMA ReceivedFields ==
    ASSUME NEW x \in Session, NEW a \in Counter, NEW b \in SUBSET {"client", "server"},
           NEW c \in Counter, NEW d \in BOOLEAN, NEW r, r = Received(x, a, b, c, d)
    PROVE  /\ r \in Session /\ r.start = x.start /\ r.stage = x.stage /\ r.rx = a /\ r.tx = x.tx
           /\ r.active = b /\ r.reached = c /\ r.fetched = x.fetched
           /\ r.writeFailed = d /\ r.readFailed = x.readFailed
BY DEF Received, Session

LEMMA SentFields ==
    ASSUME NEW x \in Session, NEW a \in Counter, NEW b \in SUBSET {"client", "server"},
           NEW c \in Counter, NEW d \in BOOLEAN, NEW r, r = Sent(x, a, b, c, d)
    PROVE  /\ r \in Session /\ r.start = x.start /\ r.stage = x.stage /\ r.rx = x.rx /\ r.tx = a
           /\ r.active = b /\ r.reached = x.reached /\ r.fetched = c
           /\ r.writeFailed = x.writeFailed /\ r.readFailed = d
BY DEF Sent, Session

\* What a read and the write of its bytes come to.
Outcome(n, taken) ==
    /\ n \in Int /\ taken \in Int /\ taken \in Counter /\ Write(n, taken) \in Int
    /\ \/ n <= MaxRead /\ taken = n /\ Write(n, taken) = n
       \/ n <= MaxRead /\ taken # n /\ taken \in 0 .. MaxRead - 1 /\ Write(n, taken) = 0
       \/ n > MaxRead /\ n = Modulus - 1 /\ n # 0 /\ taken = 0 /\ taken # n /\ Write(n, taken) = 0

LEMMA TransferCases ==
    ASSUME NEW n \in Reads, NEW taken \in Taken(n)
    PROVE  Outcome(n, taken)
<1>1. n \in Nat /\ (n <= MaxRead \/ n = Modulus - 1)
  BY ModulusNat DEF Reads
<1>2. /\ n > MaxRead => taken = 0
      /\ n <= MaxRead => taken \in 0 .. n
  BY <1>1, ModulusNat DEF Taken
<1>3. taken \in Nat /\ taken <= MaxRead
  BY <1>1, <1>2, ModulusNat
<1>4. QED
  BY <1>1, <1>2, <1>3, ModulusNat DEF Outcome, Write, Counter

LEMMA ToServerSound ==
    ASSUME NEW x \in Session, NEW n \in Reads, NEW taken \in Taken(n), "client" \in x.active,
           x.stage = "relaying", NEW r, r = ToServer(x, n, taken)
    PROVE  r \in Session /\ r.start = x.start /\ (Sound(x) => Sound(r))
<1>o. Outcome(n, taken)
  BY TransferCases
<1>t. x.rx \in Counter /\ x.reached \in Counter /\ x.active \in SUBSET {"client", "server"}
  BY DEF Session
<1>0. x.rx \in Int /\ x.reached \in Int
  BY <1>t, CounterNat
<1>w. PICK w \in Int : w = Write(n, taken)
  BY <1>o DEF Outcome
<1>1. PICK a \in Counter, c \in Counter : a = (x.rx + w) % Modulus /\ c = (x.reached + taken) % Modulus
  <2>1. PICK i \in Int, j \in Int : i = x.rx + w /\ j = x.reached + taken
    BY <1>0, <1>o DEF Outcome
  <2>2. i % Modulus \in Counter /\ j % Modulus \in Counter
    BY ModCongruent
  <2>3. QED
    BY <2>1, <2>2
<1>2. PICK b \in SUBSET {"client", "server"} : b = ActiveAfter(x.active, "client", n, taken)
  BY <1>t DEF ActiveAfter
<1>3. PICK d \in BOOLEAN : d = (n <= MaxRead /\ taken # n)
  OBVIOUS
<1>4. r = Received(x, a, b, c, d)
  BY <1>1, <1>2, <1>3, <1>w, Zenon DEF ToServer, Received
<1>5. /\ r \in Session /\ r.start = x.start /\ r.stage = x.stage /\ r.rx = a /\ r.tx = x.tx
      /\ r.active = b /\ r.reached = c /\ r.fetched = x.fetched
      /\ r.writeFailed = d /\ r.readFailed = x.readFailed
  BY <1>4, ReceivedFields
<1>6. ASSUME Sound(x) PROVE Sound(r)
  <2>1. x.rx = x.reached
    BY <1>6 DEF Sound, Counted, Agrees, Session
  <2>2. d => "client" \notin b
    BY <1>2, <1>3 DEF ActiveAfter
  <2>3. "server" \notin x.active => "server" \notin b
    BY <1>2 DEF ActiveAfter
  <2>4. CASE w = taken /\ ~ d
    <3>1. a = c
      BY <1>1, <2>1, <2>4
    <3>2. QED
      BY <1>5, <1>6, <2>3, <2>4, <3>1 DEF Sound, Counted, Agrees
  <2>5. CASE w = 0 /\ d /\ taken \in 0 .. MaxRead - 1
    <3>1. PICK v \in Counter, k \in Counter : v = x.rx /\ k = taken
      BY <1>t, <1>o DEF Outcome
    <3>2. v \in Int /\ v + 0 = v /\ v % Modulus = v
      BY CounterNat
    <3>3. a = v /\ c = (v + k) % Modulus
      BY <1>1, <2>1, <2>5, <3>1, <3>2
    <3>4. (c - a) % Modulus = k
      <4>1. (((v + k) % Modulus) - v) % Modulus = k
        BY CountedBehind
      <4>2. QED
        BY <3>3, <4>1
    <3>5. (r.reached - r.rx) % Modulus \in 0 .. MaxRead - 1
      BY <1>5, <2>5, <3>1, <3>4
    <3>6. QED
      BY <1>5, <1>6, <2>2, <2>3, <2>5, <3>5 DEF Sound, Counted, Agrees
  <2>6. (w = taken /\ ~ d) \/ (w = 0 /\ d /\ taken \in 0 .. MaxRead - 1)
    <3>1. \/ w = taken /\ ~ (n <= MaxRead /\ taken # n)
          \/ w = 0 /\ (n <= MaxRead /\ taken # n) /\ taken \in 0 .. MaxRead - 1
      BY <1>o, <1>w, ModulusNat DEF Outcome
    <3>2. QED
      BY <1>3, <3>1, Zenon
  <2>7. QED
    BY <2>4, <2>5, <2>6
<1>7. QED
  BY <1>5, <1>6

LEMMA ToClientSound ==
    ASSUME NEW x \in Session, NEW n \in Reads, NEW taken \in Taken(n), "server" \in x.active,
           x.stage = "relaying", NEW r, r = ToClient(x, n, taken)
    PROVE  r \in Session /\ r.start = x.start /\ (Sound(x) => Sound(r))
<1>o. Outcome(n, taken)
  BY TransferCases
<1>t. x.tx \in Counter /\ x.fetched \in Counter /\ x.active \in SUBSET {"client", "server"}
  BY DEF Session
<1>0. x.tx \in Int /\ x.fetched \in Int
  BY <1>t, CounterNat
<1>w. PICK got \in Int : got = IF n > MaxRead THEN 0 ELSE n
  BY <1>o DEF Outcome
<1>1. PICK a \in Counter, c \in Counter : a = (x.tx + n) % Modulus /\ c = (x.fetched + got) % Modulus
  <2>1. PICK i \in Int, j \in Int : i = x.tx + n /\ j = x.fetched + got
    BY <1>0, <1>o DEF Outcome
  <2>2. i % Modulus \in Counter /\ j % Modulus \in Counter
    BY ModCongruent
  <2>3. QED
    BY <2>1, <2>2
<1>2. PICK b \in SUBSET {"client", "server"} : b = ActiveAfter(x.active, "server", n, taken)
  BY <1>t DEF ActiveAfter
<1>d. (n > MaxRead) \in BOOLEAN
  BY <1>o, ModulusNat DEF Outcome
<1>3. PICK d \in BOOLEAN : d = (n > MaxRead)
  BY <1>d, Zenon
<1>4. r = Sent(x, a, b, c, d)
  BY <1>1, <1>2, <1>3, <1>w, Zenon DEF ToClient, Sent
<1>5. /\ r \in Session /\ r.start = x.start /\ r.stage = x.stage /\ r.rx = x.rx /\ r.tx = a
      /\ r.active = b /\ r.reached = x.reached /\ r.fetched = c
      /\ r.writeFailed = x.writeFailed /\ r.readFailed = d
  BY <1>4, SentFields
<1>6. ASSUME Sound(x) PROVE Sound(r)
  <2>1. x.tx = x.fetched
    BY <1>6 DEF Sound, Counted, Agrees, Session
  <2>2. d => "server" \notin b
    <3>1. n > MaxRead => taken # n
      BY <1>o, ModulusNat DEF Outcome
    <3>2. QED
      BY <1>2, <1>3, <3>1 DEF ActiveAfter
  <2>3. "client" \notin x.active => "client" \notin b
    BY <1>2 DEF ActiveAfter
  <2>4. CASE got = n /\ ~ d
    <3>1. a = c
      BY <1>1, <2>1, <2>4
    <3>2. QED
      BY <1>5, <1>6, <2>3, <2>4, <3>1 DEF Sound, Counted, Agrees
  <2>5. CASE got = 0 /\ d /\ n = Modulus - 1
    <3>1. PICK v \in Counter : v = x.tx
      BY <1>t
    <3>2. v \in Int /\ v + 0 = v /\ v % Modulus = v
      BY CounterNat
    <3>3. c = v /\ a = (v + (Modulus - 1)) % Modulus
      BY <1>1, <2>1, <2>5, <3>1, <3>2
    <3>4. (c - a) % Modulus = 1
      <4>1. (v - ((v + (Modulus - 1)) % Modulus)) % Modulus = 1
        BY CountedBehind
      <4>2. QED
        BY <3>3, <4>1
    <3>5. QED
      BY <1>5, <1>6, <2>2, <2>3, <2>5, <3>4 DEF Sound, Counted, Agrees
  <2>6. (got = n /\ ~ d) \/ (got = 0 /\ d /\ n = Modulus - 1)
    <3>1. (got = n /\ ~ (n > MaxRead)) \/ (got = 0 /\ n > MaxRead /\ n = Modulus - 1)
      BY <1>o, <1>w, ModulusNat DEF Outcome
    <3>2. QED
      BY <1>3, <3>1, Zenon
  <2>7. QED
    BY <2>4, <2>5, <2>6
<1>7. QED
  BY <1>5, <1>6

LEMMA BusyPassPutsOrEnds ==
    ASSUME SessionsInv, BusyPass
    PROVE  \E s \in SessionId, r \in Session : Puts(s, r) \/ Ends(s, r)
<1>0. /\ now \in 0 .. MaxClock /\ now \in Nat /\ logging = None
      /\ sessions \in [SessionId -> Session \cup {None}]
      /\ nextId \in Nat /\ 1 <= nextId
  BY NumbersAssumption DEF SessionsInv, BusyPass
<1>1. CASE CreateSession
  <2>1. PICK n \in SessionId, c \in 0 .. MaxClock : n = nextId /\ c = now
    BY <1>0, <1>1, NumbersAssumption DEF CreateSession, SessionId
  <2>2. PICK rx \in Garbage, tx \in Garbage :
          sessions' = [sessions EXCEPT ![n] =
            [stage |-> "detecting", host |-> NoName, user |-> NoName, rx |-> rx, tx |-> tx,
             start |-> c, active |-> {}, reached |-> rx, fetched |-> tx,
             writeFailed |-> FALSE, readFailed |-> FALSE]]
    BY <1>1, <2>1 DEF CreateSession
  <2> DEFINE r == [stage |-> "detecting", host |-> NoName, user |-> NoName, rx |-> rx, tx |-> tx,
                   start |-> c, active |-> {}, reached |-> rx, fetched |-> tx,
                   writeFailed |-> FALSE, readFailed |-> FALSE]
  <2>3. rx \in Counter /\ tx \in Counter /\ 0 \in Counter
    BY NumbersAssumption, ModulusNat DEF Counter
  <2>4. r \in Session
    BY <2>3 DEF Session
  <2>5. Sound(r)
    BY DEF Sound, Counted, Agrees
  <2>6. r.start <= now /\ sessions' = [sessions EXCEPT ![n] = r]
    BY <1>0, <2>1, <2>2
  <2>7. n = nextId /\ nextId' = nextId + 1 /\ UNCHANGED <<now, stats, ended>>
    BY <1>1, <2>1 DEF CreateSession
  <2> HIDE DEF r
  <2>8. Puts(n, r)
    BY <2>5, <2>6, <2>7 DEF Puts, Begins
  <2>9. QED
    BY <2>4, <2>8
<1>2. ASSUME NEW s \in SessionId, sessions[s] # None
      PROVE  /\ sessions[s] \in Session /\ sessions[s].start <= now
  BY <1>2 DEF SessionsInv, Session
<1>3. ASSUME NEW s \in SessionId, DetectFails(s) \/ ConnectFails(s) \/ Close(s)
      PROVE  \E r \in Session : Ends(s, r)
  <2>1. PICK x : x = sessions[s]
    OBVIOUS
  <2>2. sessions[s] # None /\ EndSession(s, x)
    BY <1>3, <2>1 DEF DetectFails, ConnectFails, Close, At
  <2>3. x \in Session /\ x.start <= now
    BY <1>2, <2>1, <2>2
  <2>4. QED
    BY <1>0, <2>1, <2>2, <2>3 DEF Ends
<1>4. ASSUME NEW s \in SessionId, NEW h \in Hosts \cup {NoName}, NEW u \in Users \cup {NoName},
             sessions[s] # None, NEW r, r = Detected(s, h, u)
      PROVE  /\ r \in Session /\ r.start <= now /\ r.stage = sessions[s].stage
             /\ Sound(sessions[s]) => Sound(r)
  <2>1. sessions[s] \in Session /\ sessions[s].start <= now
    BY <1>2, <1>4
  <2>2. PICK x \in Session : x = sessions[s]
    BY <2>1
  <2>3. /\ r \in Session /\ r.start = x.start /\ r.stage = x.stage /\ r.active = x.active
        /\ r.rx = x.rx /\ r.tx = x.tx /\ r.reached = x.reached /\ r.fetched = x.fetched
        /\ r.writeFailed = x.writeFailed /\ r.readFailed = x.readFailed
    BY <1>4, <2>2 DEF Detected, Session
  <2>4. QED
    BY <2>1, <2>2, <2>3 DEF Sound, Counted, Agrees
<1>5. ASSUME NEW s \in SessionId, Refuse(s) PROVE \E r \in Session : Ends(s, r)
  <2>1. PICK h \in Hosts \cup {NoName}, u \in Users \cup {NoName} : EndSession(s, Detected(s, h, u))
    BY <1>5 DEF Refuse
  <2>2. PICK x : x = Detected(s, h, u)
    OBVIOUS
  <2>3. sessions[s] # None
    BY <1>5 DEF Refuse, At
  <2>4. QED
    BY <1>0, <1>4, <2>1, <2>2, <2>3 DEF Ends
<1>6. ASSUME NEW s \in SessionId, NEW r \in Session, sessions[s] # None, r.start = sessions[s].start,
             sessions' = [sessions EXCEPT ![s] = r], Sound(sessions[s]) => Sound(r),
             UNCHANGED <<now, nextId, stats, ended>>
      PROVE  \E x \in Session : Puts(s, x)
  <2>1. r.start <= now
    BY <1>2, <1>6
  <2>2. Puts(s, r)
    BY <1>6, <2>1 DEF Puts, GoesOn
  <2>3. QED
    BY <2>2
<1>7. ASSUME NEW s \in SessionId, Authenticated(s) PROVE \E r \in Session : Puts(s, r)
  <2>1. PICK h \in Hosts \cup {NoName}, u \in Users \cup {NoName} :
          sessions' = [sessions EXCEPT ![s] = [Detected(s, h, u) EXCEPT !.stage = "connecting"]]
    BY <1>7 DEF Authenticated
  <2>2. PICK x : x = Detected(s, h, u)
    OBVIOUS
  <2>3. sessions[s] # None /\ sessions[s].stage = "detecting" /\ UNCHANGED <<now, nextId, stats, ended>>
    BY <1>7 DEF Authenticated, At
  <2>4. x \in Session /\ x.start = sessions[s].start /\ (Sound(sessions[s]) => Sound(x))
        /\ x.stage = "detecting"
    <3>1. x \in Session /\ x.stage = sessions[s].stage /\ (Sound(sessions[s]) => Sound(x))
      BY <1>4, <2>2, <2>3
    <3>2. sessions[s] \in Session
      BY <1>2, <2>3
    <3>3. QED
      BY <2>2, <2>3, <3>1, <3>2 DEF Detected, Session
  <2>5. PICK r : r = [x EXCEPT !.stage = "connecting"]
    OBVIOUS
  <2>6. /\ r \in Session /\ r.start = x.start /\ r.active = x.active
        /\ r.rx = x.rx /\ r.tx = x.tx /\ r.reached = x.reached /\ r.fetched = x.fetched
        /\ r.writeFailed = x.writeFailed /\ r.readFailed = x.readFailed
    BY <2>4, <2>5 DEF Session
  <2>7. Sound(x) => Sound(r)
    BY <2>4, <2>6 DEF Sound, Counted, Agrees
  <2>8. sessions' = [sessions EXCEPT ![s] = r]
    BY <2>1, <2>2, <2>5
  <2>9. QED
    BY <1>6, <2>3, <2>4, <2>6, <2>7, <2>8
<1>8. ASSUME NEW s \in SessionId, Connected(s) PROVE \E r \in Session : Puts(s, r)
  <2>1. sessions[s] # None /\ sessions[s].stage = "connecting" /\ UNCHANGED <<now, nextId, stats, ended>>
    BY <1>8 DEF Connected, At
  <2>2. PICK x \in Session : x = sessions[s]
    BY <1>2, <2>1
  <2>3. PICK r : r = [x EXCEPT !.stage = "relaying", !.active = {"client", "server"}]
    OBVIOUS
  <2>4. /\ r \in Session /\ r.start = x.start
        /\ r.rx = x.rx /\ r.tx = x.tx /\ r.reached = x.reached /\ r.fetched = x.fetched
        /\ r.writeFailed = x.writeFailed /\ r.readFailed = x.readFailed
    BY <2>3 DEF Session
  <2>5. Sound(x) => Sound(r)
    BY <2>1, <2>2, <2>4 DEF Sound, Counted, Agrees
  <2>6. sessions' = [sessions EXCEPT ![s] = r]
    BY <1>0, <1>8, <2>2, <2>3 DEF Connected
  <2>7. QED
    BY <1>6, <2>1, <2>2, <2>4, <2>5, <2>6
<1>9. ASSUME NEW s \in SessionId, ClientToProxy(s) PROVE \E r \in Session : Puts(s, r)
  <2>1. PICK n \in Reads : \E taken \in Taken(n) : sessions' = [sessions EXCEPT ![s] = ToServer(@, n, taken)]
    BY <1>9 DEF ClientToProxy
  <2>2. PICK taken \in Taken(n) : sessions' = [sessions EXCEPT ![s] = ToServer(@, n, taken)]
    BY <2>1
  <2>3. /\ sessions[s] # None /\ sessions[s].stage = "relaying" /\ "client" \in sessions[s].active
        /\ UNCHANGED <<now, nextId, stats, ended>>
    BY <1>9 DEF ClientToProxy, At
  <2>4. PICK x \in Session : x = sessions[s]
    BY <1>2, <2>3
  <2>5. PICK r : r = ToServer(x, n, taken)
    OBVIOUS
  <2>6. r \in Session /\ r.start = x.start /\ (Sound(x) => Sound(r))
    BY <2>3, <2>4, <2>5, ToServerSound
  <2>7. sessions' = [sessions EXCEPT ![s] = r]
    BY <1>0, <2>2, <2>4, <2>5
  <2>8. QED
    BY <1>6, <2>3, <2>4, <2>6, <2>7
<1>10. ASSUME NEW s \in SessionId, ProxyToClient(s) PROVE \E r \in Session : Puts(s, r)
  <2>1. PICK n \in Reads : \E taken \in Taken(n) : sessions' = [sessions EXCEPT ![s] = ToClient(@, n, taken)]
    BY <1>10 DEF ProxyToClient
  <2>2. PICK taken \in Taken(n) : sessions' = [sessions EXCEPT ![s] = ToClient(@, n, taken)]
    BY <2>1
  <2>3. /\ sessions[s] # None /\ sessions[s].stage = "relaying" /\ "server" \in sessions[s].active
        /\ UNCHANGED <<now, nextId, stats, ended>>
    BY <1>10 DEF ProxyToClient, At
  <2>4. PICK x \in Session : x = sessions[s]
    BY <1>2, <2>3
  <2>5. PICK r : r = ToClient(x, n, taken)
    OBVIOUS
  <2>6. r \in Session /\ r.start = x.start /\ (Sound(x) => Sound(r))
    BY <2>3, <2>4, <2>5, ToClientSound
  <2>7. sessions' = [sessions EXCEPT ![s] = r]
    BY <1>0, <2>2, <2>4, <2>5
  <2>8. QED
    BY <1>6, <2>3, <2>4, <2>6, <2>7
<1>11. QED
  BY <1>1, <1>3, <1>5, <1>7, <1>8, <1>9, <1>10 DEF BusyPass

LEMMA LogKeepsSessions == LogAndReset => UNCHANGED <<now, sessions, nextId, ended>>
BY DEF LogAndReset, OpenLogFile, WriteHeader, WriteLine, CloseLogFile, Reset, GoesOnWith

LEMMA SessionsInvNext == SessionsInv /\ [Next]_vars => SessionsInv'
<1> SUFFICES ASSUME SessionsInv, [Next]_vars PROVE SessionsInv'
  OBVIOUS
<1>0. /\ now \in 0 .. MaxClock /\ MaxClock \in Nat /\ MaxSessions \in Nat
      /\ sessions \in [SessionId -> Session \cup {None}]
      /\ nextId \in 1 .. MaxSessions + 1
      /\ \A s \in SessionId : sessions[s] # None => s < nextId /\ sessions[s].start <= now
  BY NumbersAssumption DEF SessionsInv
<1>1. ASSUME NEW s \in SessionId, NEW r \in Session, Puts(s, r) PROVE SessionsInv'
  <2>1. /\ now' = now /\ sessions' = [sessions EXCEPT ![s] = r] /\ r.start <= now
        /\ \/ s = nextId /\ nextId' = nextId + 1
           \/ s < nextId /\ nextId' = nextId
    BY <1>0, <1>1 DEF Puts, Begins, GoesOn
  <2>2. nextId' \in 1 .. MaxSessions + 1 /\ s < nextId' /\ nextId <= nextId'
    BY <1>0, <2>1 DEF SessionId
  <2>3. sessions' \in [SessionId -> Session \cup {None}]
    BY <1>0, <2>1
  <2>4. ASSUME NEW q \in SessionId, sessions'[q] # None
        PROVE  q < nextId' /\ sessions'[q].start <= now
    <3>1. CASE q = s
      BY <1>0, <2>1, <2>2, <3>1
    <3>2. CASE q # s
      <4>1. sessions'[q] = sessions[q] /\ q < nextId
        BY <1>0, <2>1, <2>4, <3>2
      <4>2. QED
        BY <1>0, <2>2, <2>4, <4>1 DEF SessionId
    <3>3. QED
      BY <3>1, <3>2
  <2>5. QED
    BY <1>0, <2>1, <2>2, <2>3, <2>4 DEF SessionsInv
<1>2. ASSUME NEW s \in SessionId, NEW x \in Session, Ends(s, x) PROVE SessionsInv'
  BY <1>0, <1>2 DEF Ends, EndSession, SessionsInv
<1>3. CASE BusyPass
  BY <1>1, <1>2, <1>3, BusyPassPutsOrEnds
<1>4. CASE IdlePass \/ LogAndReset \/ UNCHANGED vars
  <2>1. UNCHANGED <<now, sessions, nextId>>
    BY <1>4, LogKeepsSessions DEF IdlePass, vars
  <2>2. QED
    BY <2>1 DEF SessionsInv
<1>5. CASE Tick
  <2>1. now' \in 0 .. MaxClock /\ now <= now' /\ UNCHANGED <<sessions, nextId>>
    BY <1>0, <1>5, NumbersAssumption DEF Tick
  <2>2. ASSUME NEW s \in SessionId, sessions[s] # None PROVE sessions[s].start <= now'
    <3>1. sessions[s].start \in 0 .. MaxClock /\ sessions[s].start <= now
      BY <1>0, <2>2 DEF Session
    <3>2. QED
      BY <1>0, <2>1, <3>1
  <2>3. QED
    BY <1>0, <2>1, <2>2 DEF SessionsInv
<1>6. CASE Restart
  <2>1. sessions' = [s \in SessionId |-> None] /\ UNCHANGED <<now, nextId>>
    BY <1>6 DEF Restart
  <2>2. QED
    BY <1>0, <2>1 DEF SessionsInv
<1>7. QED
  BY <1>3, <1>4, <1>5, <1>6 DEF Next, DispatchThread

LEMMA SessionsInvariance == Spec => []SessionsInv
<1>1. Init => SessionsInv
  BY NumbersAssumption DEF Init, SessionsInv
<1>2. QED
  BY <1>1, SessionsInvNext, PTL DEF Spec

-----------------------------------------------------------------------------
(* The history of the sessions that have ended. *)

Past(s, x) ==
    [sid |-> s, tag |-> tag, elapsed |-> now - x.start, time |-> Timestamp(now) - Timestamp(x.start),
     host |-> x.host, user |-> x.user, rx |-> x.rx, tx |-> x.tx,
     reached |-> x.reached, fetched |-> x.fetched,
     writeFailed |-> x.writeFailed, readFailed |-> x.readFailed]

LEMMA EndsRecords ==
    ASSUME NEW s, NEW x, Ends(s, x)
    PROVE  /\ ended' = ended \cup {Past(s, x)}
           /\ sessions' = [sessions EXCEPT ![s] = None]
           /\ UNCHANGED <<now, nextId, s_logNumber, logging, tag, files, failed, cutOff>>
BY DEF Ends, EndSession, Past, disk

\* Only the end of a session changes the history.
LEMMA OthersKeepHistory ==
    ASSUME SessionsInv, [Next]_vars, ~ \E s \in SessionId, x \in Session : Ends(s, x)
    PROVE  ended' = ended
<1>1. CASE BusyPass
  BY <1>1, BusyPassPutsOrEnds DEF Puts
<1>2. QED
  BY <1>1, LogKeepsSessions DEF Next, DispatchThread, IdlePass, Tick, Restart, vars

LEMMA TimeInvNext == SessionsInv /\ TimeWithinASecond /\ [Next]_vars => TimeWithinASecond'
<1> SUFFICES ASSUME SessionsInv, TimeWithinASecond, [Next]_vars PROVE TimeWithinASecond'
  OBVIOUS
<1>1. ASSUME NEW s \in SessionId, NEW x \in Session, Ends(s, x) PROVE TimeWithinASecond'
  <2>1. PICK a \in Nat, b \in Nat : a = x.start /\ b = now /\ a <= b
    BY <1>1, NumbersAssumption DEF Ends, SessionsInv, Session
  <2>2. PICK ta \in Nat, tb \in Nat : ta = Timestamp(a) /\ tb = Timestamp(b)
    BY TimestampNat
  <2>3. ta <= tb /\ tb - ta <= 10 * (b - a) + 999 /\ 10 * (b - a) <= (tb - ta) + 999
    <3>1. a <= b
      BY <2>1
    <3>2. QED
      BY <2>2, <3>1, TimestampClose
  <2>4. PICK d \in Nat, n \in Int : d = tb - ta /\ n = b - a
    BY <2>3
  <2>5. d - 10 * n \in -999 .. 999
    BY <2>3, <2>4
  <2>6. PICK e : e = Past(s, x)
    OBVIOUS
  <2>7. e.time = d /\ e.elapsed = n
    BY <2>1, <2>2, <2>4, <2>6 DEF Past
  <2> DEFINE IsClose(f) == f.time >= 0 /\ f.time - 10 * f.elapsed \in -999 .. 999
  <2>8. IsClose(e)
    BY <2>5, <2>7
  <2>9. \A f \in ended : IsClose(f)
    BY DEF TimeWithinASecond
  <2> HIDE DEF IsClose
  <2>10. \A f \in ended' : IsClose(f)
    BY <1>1, <2>6, <2>8, <2>9, EndsRecords
  <2>11. QED
    BY <2>10 DEF TimeWithinASecond, IsClose
<1>2. CASE ended' = ended
  BY <1>2 DEF TimeWithinASecond
<1>3. QED
  BY <1>1, <1>2, OthersKeepHistory

\* The time that the audit log records for a session is less than a second off,
\* and never negative, however long the proxy has run and whatever has failed.
THEOREM TimeCorrect == Spec => []TimeWithinASecond
<1>1. Init => TimeWithinASecond
  BY DEF Init, TimeWithinASecond
<1>2. QED
  BY <1>1, SessionsInvariance, TimeInvNext, PTL DEF Spec

CountedInv ==
    /\ \A s \in SessionId : sessions[s] # None => Sound(sessions[s])
    /\ \A e \in ended : Counted(e)

LEMMA CountedInvNext == SessionsInv /\ CountedInv /\ [Next]_vars => CountedInv'
<1> SUFFICES ASSUME SessionsInv, CountedInv, [Next]_vars PROVE CountedInv'
  OBVIOUS
<1>0. sessions \in [SessionId -> Session \cup {None}]
  BY DEF SessionsInv
<1>1. ASSUME NEW s \in SessionId, NEW r \in Session, Puts(s, r) PROVE CountedInv'
  <2>1. Sound(r) /\ ended' = ended /\ sessions' = [sessions EXCEPT ![s] = r]
    BY <1>1 DEF Puts, Begins, GoesOn, CountedInv
  <2>2. \A q \in SessionId : sessions'[q] = IF q = s THEN r ELSE sessions[q]
    BY <1>0, <2>1
  <2>3. QED
    BY <2>1, <2>2 DEF CountedInv
<1>2. ASSUME NEW s \in SessionId, NEW x \in Session, Ends(s, x) PROVE CountedInv'
  <2>1. Counted(x)
    BY <1>2 DEF Ends, CountedInv, Sound
  <2>2. PICK e : e = Past(s, x)
    OBVIOUS
  <2>3. /\ e.rx = x.rx /\ e.tx = x.tx /\ e.reached = x.reached /\ e.fetched = x.fetched
        /\ e.writeFailed = x.writeFailed /\ e.readFailed = x.readFailed
    BY <2>2 DEF Past
  <2>4. Counted(e)
    BY <2>1, <2>3 DEF Counted
  <2>5. ended' = ended \cup {e} /\ sessions' = [sessions EXCEPT ![s] = None]
    BY <1>2, <2>2, EndsRecords
  <2>6. \A q \in SessionId : sessions'[q] # None => sessions'[q] = sessions[q]
    BY <1>0, <2>5
  <2>7. QED
    BY <2>4, <2>5, <2>6 DEF CountedInv
<1>3. CASE BusyPass
  BY <1>1, <1>2, <1>3, BusyPassPutsOrEnds
<1>4. CASE IdlePass \/ LogAndReset \/ Tick \/ UNCHANGED vars
  <2>1. UNCHANGED <<sessions, ended>>
    BY <1>4, LogKeepsSessions DEF IdlePass, Tick, vars
  <2>2. QED
    BY <2>1 DEF CountedInv
<1>5. CASE Restart
  <2>1. sessions' = [s \in SessionId |-> None] /\ ended' = ended
    BY <1>5 DEF Restart
  <2>2. QED
    BY <2>1 DEF CountedInv
<1>6. QED
  BY <1>3, <1>4, <1>5 DEF Next, DispatchThread

\* The types of the counters of the sessions that have ended.
EndedInv == \A e \in ended : e.rx \in Counter /\ e.tx \in Counter

LEMMA EndedInvNext == SessionsInv /\ EndedInv /\ [Next]_vars => EndedInv'
<1> SUFFICES ASSUME SessionsInv, EndedInv, [Next]_vars PROVE EndedInv'
  OBVIOUS
<1>1. ASSUME NEW s \in SessionId, NEW x \in Session, Ends(s, x) PROVE EndedInv'
  <2>1. PICK e : e = Past(s, x)
    OBVIOUS
  <2>2. e.rx \in Counter /\ e.tx \in Counter
    BY <2>1 DEF Past, Session
  <2>3. ended' = ended \cup {e}
    BY <1>1, <2>1, EndsRecords
  <2>4. QED
    BY <2>2, <2>3 DEF EndedInv
<1>2. CASE ended' = ended
  BY <1>2 DEF EndedInv
<1>3. QED
  BY <1>1, <1>2, OthersKeepHistory

\* The bytes recorded for a session: exactly those that reached the server, but for
\* less than one buffer if a write failed, and those read from it, but for one if
\* a read failed; counted from whatever the counters began with, at any width.
THEOREM BytesCorrect == Spec => []BytesAsRelayed
<1>1. Init => CountedInv /\ EndedInv
  BY DEF Init, CountedInv, EndedInv
<1>2. CountedInv /\ EndedInv => BytesAsRelayed
  <2> SUFFICES ASSUME CountedInv, EndedInv, NEW e \in ended
               PROVE  /\ (e.reached - e.rx) % Modulus \in IF e.writeFailed THEN 0 .. MaxRead - 1 ELSE {0}
                      /\ (e.fetched - e.tx) % Modulus = IF e.readFailed THEN 1 ELSE 0
    BY DEF BytesAsRelayed
  <2>1. Counted(e)
    BY DEF CountedInv
  <2>2. \A a \in Counter : (a - a) % Modulus = 0
    <3>1. 0 % Modulus = 0
      <4>1. 0 \in Counter
        BY ModulusNat DEF Counter
      <4>2. QED
        BY <4>1, CounterNat
    <3>2. \A a \in Counter : a - a = 0
      BY CounterNat
    <3>3. QED
      BY <3>1, <3>2
  <2>3. e.rx \in Counter /\ e.tx \in Counter
    BY DEF EndedInv
  <2>4. QED
    BY <2>1, <2>2, <2>3 DEF Counted
<1>3. QED
  BY <1>1, <1>2, SessionsInvariance, CountedInvNext, EndedInvNext, PTL DEF Spec

-----------------------------------------------------------------------------
(* The lists of the statistics. *)

LEMMA LeastOf == ASSUME NEW T, T \subseteq Nat, T # {} PROVE Min(T) \in T
BY LeastNat DEF Min

\* The place of a host and of a user in a list, or zero.
HostAt(q, h) == SelectInSeq(q, LAMBDA x : x.host = h)
UserAt(q, u) == SelectInSeq(q, LAMBDA x : x.user = u)

LEMMA HostFound ==
    ASSUME NEW S, NEW q \in Seq(S), NEW h, NEW i, i = HostAt(q, h)
    PROVE  /\ i = 0 => \A j \in DOMAIN q : q[j].host # h
           /\ i # 0 => i \in DOMAIN q /\ q[i].host = h
<1> DEFINE I == {j \in 1 .. Len(q) : q[j].host = h}
<1>1. i = IF I # {} THEN Min(I) ELSE 0
  BY DEF HostAt, SelectInSeq
<1>2. I \subseteq Nat /\ 0 \notin I /\ DOMAIN q = 1 .. Len(q)
  OBVIOUS
<1>3. I # {} => Min(I) \in I
  BY <1>2, LeastOf
<1>4. QED
  BY <1>1, <1>2, <1>3

LEMMA UserFound ==
    ASSUME NEW S, NEW q \in Seq(S), NEW u, NEW i, i = UserAt(q, u)
    PROVE  /\ i = 0 => \A j \in DOMAIN q : q[j].user # u
           /\ i # 0 => i \in DOMAIN q /\ q[i].user = u
<1> DEFINE I == {j \in 1 .. Len(q) : q[j].user = u}
<1>1. i = IF I # {} THEN Min(I) ELSE 0
  BY DEF UserAt, SelectInSeq
<1>2. I \subseteq Nat /\ 0 \notin I /\ DOMAIN q = 1 .. Len(q)
  OBVIOUS
<1>3. I # {} => Min(I) \in I
  BY <1>2, LeastOf
<1>4. QED
  BY <1>1, <1>2, <1>3

\* What the list q has for user u; LinesOf(u) is Lines(m_userStats, u).
Lines(q, u) == IF UserAt(q, u) = 0 THEN <<>> ELSE q[UserAt(q, u)].stats

LEMMA GrownType ==
    ASSUME NEW x \in SiteStats, NEW rx \in Nat, NEW tx \in Nat, NEW time \in Nat
    PROVE  Grown(x, rx, tx, time) \in SiteStats /\ Grown(x, rx, tx, time).host = x.host
<1>0. x.rx \in Nat /\ x.tx \in Nat
  BY CounterNat DEF SiteStats
<1>1. PICK a \in Int, b \in Int : a = x.rx + rx /\ b = x.tx + tx
  BY <1>0
<1>2. a % Modulus \in Counter /\ b % Modulus \in Counter
  BY ModCongruent
<1>3. x.totalTime + time \in Nat /\ x.connections + 1 \in Nat /\ x.host \in Hosts
  BY DEF SiteStats
<1>4. QED
  BY <1>1, <1>2, <1>3 DEF Grown, SiteStats

\* One line grows, one that was there or one that is new, and the others stay.
LineGrows(q, n, i, old, h, rx, tx, time) ==
    /\ n \in Seq(SiteStats) /\ i \in DOMAIN n
    /\ old \in SiteStats /\ old.host = h
    /\ \/ i \in DOMAIN q /\ q[i] = old /\ DOMAIN n = DOMAIN q
       \/ /\ i \notin DOMAIN q /\ old = NewSiteStats(h) /\ DOMAIN n = DOMAIN q \cup {i}
          /\ \A j \in DOMAIN q : q[j].host # h
    /\ n[i] = Grown(old, rx, tx, time)
    /\ \A j \in DOMAIN q : j # i => n[j] = q[j]

LEMMA NewSiteStatsType == \A h \in Hosts : NewSiteStats(h) \in SiteStats /\ NewSiteStats(h).host = h
<1>1. 0 \in Counter
  BY ModulusNat DEF Counter
<1>2. QED
  BY <1>1 DEF NewSiteStats, SiteStats

LEMMA AddSessionGrows ==
    ASSUME NEW q \in Seq(SiteStats), NEW h \in Hosts, NEW rx \in Nat, NEW tx \in Nat, NEW time \in Nat
    PROVE  \E i, old : LineGrows(q, AddSession(q, h, rx, tx, time), i, old, h, rx, tx, time)
<1>1. PICK i : i = HostAt(q, h)
  OBVIOUS
<1>2. PICK list, at : list = GetStats(q, h).list /\ at = GetStats(q, h).at
  OBVIOUS
<1>3. PICK n : n = [list EXCEPT ![at] = Grown(list[at], rx, tx, time)]
  OBVIOUS
<1>4. AddSession(q, h, rx, tx, time) = n
  BY <1>2, <1>3 DEF AddSession
<1>5. CASE i # 0
  <2>1. i \in DOMAIN q /\ q[i].host = h
    BY <1>1, <1>5, HostFound
  <2>2. list = q /\ at = i
    BY <1>1, <1>2, <1>5 DEF GetStats, HostAt
  <2>3. PICK old \in SiteStats, new \in SiteStats : old = q[i] /\ new = Grown(old, rx, tx, time)
    BY <2>1, GrownType
  <2>4. n = [q EXCEPT ![i] = new]
    BY <1>3, <2>2, <2>3
  <2>5. n \in Seq(SiteStats) /\ DOMAIN n = DOMAIN q /\ n[i] = new /\ \A j \in DOMAIN q : j # i => n[j] = q[j]
    BY <2>1, <2>4
  <2>6. LineGrows(q, n, i, old, h, rx, tx, time)
    BY <2>1, <2>3, <2>5 DEF LineGrows
  <2>7. QED
    BY <1>4, <2>6
<1>6. CASE i = 0
  <2>1. \A j \in DOMAIN q : q[j].host # h
    BY <1>1, <1>6, HostFound
  <2>2. list = Append(q, NewSiteStats(h)) /\ at = Len(q) + 1
    BY <1>1, <1>2, <1>6 DEF GetStats, HostAt
  <2>3. PICK old \in SiteStats, new \in SiteStats :
          old = NewSiteStats(h) /\ old.host = h /\ new = Grown(old, rx, tx, time)
    BY NewSiteStatsType, GrownType
  <2>4. list \in Seq(SiteStats) /\ at \in DOMAIN list /\ list[at] = old
        /\ DOMAIN list = DOMAIN q \cup {at} /\ at \notin DOMAIN q
        /\ \A j \in DOMAIN q : list[j] = q[j]
    BY <2>2, <2>3
  <2>5. n = [list EXCEPT ![at] = new]
    BY <1>3, <2>3, <2>4
  <2>6. n \in Seq(SiteStats) /\ DOMAIN n = DOMAIN list /\ n[at] = new
        /\ \A j \in DOMAIN q : j # at => n[j] = q[j]
    BY <2>4, <2>5
  <2>7. LineGrows(q, n, at, old, h, rx, tx, time)
    BY <2>1, <2>3, <2>4, <2>6 DEF LineGrows
  <2>8. QED
    BY <1>4, <2>7
<1>7. QED
  BY <1>5, <1>6

UserStats == [user : Audited, stats : Seq(SiteStats)]
OneForEach(q) == \A i, j \in DOMAIN q : q[i].user = q[j].user => i = j

LEMMA LinesAt ==
    ASSUME NEW q \in Seq(UserStats), OneForEach(q), NEW u
    PROVE  /\ \A j \in DOMAIN q : q[j].user = u => Lines(q, u) = q[j].stats
           /\ (\A j \in DOMAIN q : q[j].user # u) => Lines(q, u) = <<>>
           /\ Lines(q, u) \in Seq(SiteStats)
<1>1. PICK i : i = UserAt(q, u)
  OBVIOUS
<1>2. Lines(q, u) = IF i = 0 THEN <<>> ELSE q[i].stats
  BY <1>1 DEF Lines
<1>3. (i = 0 => \A j \in DOMAIN q : q[j].user # u) /\ (i # 0 => i \in DOMAIN q /\ q[i].user = u)
  BY <1>1, UserFound
<1>4. i # 0 => q[i].stats \in Seq(SiteStats)
  <2>1. i # 0 => q[i] \in UserStats
    BY <1>3
  <2>2. QED
    BY <2>1 DEF UserStats
<1>5. QED
  BY <1>2, <1>3, <1>4 DEF OneForEach

LEMMA NoLines == <<>> \in Seq(UserStats) /\ OneForEach(<<>>) /\ \A u : Lines(<<>>, u) = <<>>
<1>1. <<>> \in Seq(UserStats) /\ OneForEach(<<>>)
  BY DEF OneForEach
<1>2. PICK q : q = <<>> /\ DOMAIN q = {}
  OBVIOUS
<1>3. \A u : Lines(q, u) = <<>>
  BY <1>1, <1>2, LinesAt
<1>4. QED
  BY <1>1, <1>2, <1>3

LEMMA NewStats == \A x \in UserStats : \A new : [x EXCEPT !.stats = new] = [user |-> x.user, stats |-> new]
BY DEF UserStats

LEMMA AddsToLines ==
    ASSUME NEW q \in Seq(UserStats), OneForEach(q), q = m_userStats,
           NEW u \in Audited, NEW h \in Hosts, NEW rx \in Nat, NEW tx \in Nat, NEW time \in Nat,
           NEW n, n = AddUserSession(u, h, rx, tx, time)
    PROVE  /\ n \in Seq(UserStats) /\ OneForEach(n)
           /\ Lines(n, u) = AddSession(Lines(q, u), h, rx, tx, time)
           /\ \A v : v # u => Lines(n, v) = Lines(q, v)
<1>0. PICK old, new : old = Lines(q, u) /\ new = AddSession(old, h, rx, tx, time)
  OBVIOUS
<1>1. old \in Seq(SiteStats) /\ new \in Seq(SiteStats)
  BY <1>0, LinesAt, AddSessionGrows DEF LineGrows
<1>2. PICK i : i = UserAt(q, u)
  OBVIOUS
<1>3. CASE i # 0
  <2>1. i \in DOMAIN q /\ q[i].user = u /\ q[i].stats = old
    BY <1>0, <1>2, <1>3, UserFound, LinesAt
  <2>2. n = [q EXCEPT ![i] = [user |-> u, stats |-> new]]
    <3>1. n = [q EXCEPT ![i].stats = new]
      BY <1>0, <1>2, <1>3, <2>1 DEF AddUserSession, UserAt
    <3>2. PICK x \in UserStats : x = q[i]
      BY <2>1
    <3>3. [x EXCEPT !.stats = new] = [user |-> u, stats |-> new]
      BY <2>1, <3>2, NewStats
    <3>4. QED
      BY <2>1, <3>1, <3>2, <3>3
  <2>3. PICK e \in UserStats : e.user = u /\ e.stats = new /\ n = [q EXCEPT ![i] = e]
    BY <1>1, <2>2 DEF UserStats
  <2>4. n \in Seq(UserStats) /\ DOMAIN n = DOMAIN q /\ n[i] = e /\ \A j \in DOMAIN q : j # i => n[j] = q[j]
    BY <2>1, <2>3
  <2>5. \A j \in DOMAIN q : n[j].user = q[j].user
    BY <2>1, <2>3, <2>4
  <2>6. OneForEach(n)
    BY <2>4, <2>5 DEF OneForEach
  <2>7. Lines(n, u) = new
    <3>1. i \in DOMAIN n /\ n[i].user = u /\ n[i].stats = new
      BY <2>1, <2>3, <2>4
    <3>2. QED
      BY <2>4, <2>6, <3>1, LinesAt
  <2>8. ASSUME NEW v, v # u PROVE Lines(n, v) = Lines(q, v)
    <3>1. CASE \E j \in DOMAIN q : q[j].user = v
      <4>1. PICK j \in DOMAIN q : q[j].user = v
        BY <3>1
      <4>2. n[j] = q[j]
        BY <2>1, <2>4, <2>8, <4>1
      <4>3. QED
        BY <2>4, <2>6, <4>1, <4>2, LinesAt
    <3>2. CASE \A j \in DOMAIN q : q[j].user # v
      BY <2>4, <2>5, <2>6, <3>2, LinesAt
    <3>3. QED
      BY <3>1, <3>2
  <2>9. QED
    BY <1>0, <2>4, <2>6, <2>7, <2>8
<1>4. CASE i = 0
  <2>1. \A j \in DOMAIN q : q[j].user # u
    BY <1>2, <1>4, UserFound
  <2>2. old = <<>>
    BY <1>0, <2>1, LinesAt
  <2>3. PICK e \in UserStats : e.user = u /\ e.stats = new /\ n = Append(q, e)
    <3>1. n = Append(q, [user |-> u, stats |-> new])
      BY <1>0, <1>2, <1>4, <2>2 DEF AddUserSession, UserAt
    <3>2. [user |-> u, stats |-> new] \in UserStats
      BY <1>1 DEF UserStats
    <3>3. QED
      BY <3>1, <3>2
  <2>4. PICK k : k = Len(q) + 1
    OBVIOUS
  <2>5. /\ n \in Seq(UserStats) /\ DOMAIN n = DOMAIN q \cup {k} /\ k \notin DOMAIN q
        /\ n[k] = e /\ \A j \in DOMAIN q : n[j] = q[j]
    BY <2>3, <2>4
  <2>6. OneForEach(n)
    BY <2>1, <2>3, <2>5 DEF OneForEach
  <2>7. Lines(n, u) = new
    <3>1. n \in Seq(UserStats) /\ k \in DOMAIN n /\ n[k].user = u /\ n[k].stats = new
      BY <2>3, <2>5
    <3>2. n \in Seq(UserStats)
      BY <3>1
    <3>3. \A j \in DOMAIN n : n[j].user = u => Lines(n, u) = n[j].stats
      BY <2>6, <3>2, LinesAt
    <3>4. QED
      BY <3>1, <3>3
  <2>8. ASSUME NEW v, v # u PROVE Lines(n, v) = Lines(q, v)
    <3>1. CASE \E j \in DOMAIN q : q[j].user = v
      <4>1. PICK j \in DOMAIN q : q[j].user = v
        BY <3>1
      <4>2. j \in DOMAIN n /\ n[j] = q[j]
        BY <2>5, <4>1
      <4>3. QED
        BY <2>5, <2>6, <4>1, <4>2, LinesAt
    <3>2. CASE \A j \in DOMAIN q : q[j].user # v
      <4>1. \A j \in DOMAIN n : n[j].user # v
        BY <2>3, <2>5, <2>8, <3>2
      <4>2. Lines(n, v) = <<>>
        BY <2>5, <2>6, <4>1, LinesAt
      <4>3. Lines(q, v) = <<>>
        BY <3>2, LinesAt
      <4>4. QED
        BY <4>2, <4>3
    <3>3. QED
      BY <3>1, <3>2
  <2>9. QED
    BY <1>0, <2>5, <2>6, <2>7, <2>8
<1>5. QED
  BY <1>3, <1>4

\* The sessions E of a user, by host, and the line a host comes to: Expected(u, t)
\* is the set of the lines of Recorded(u, t).
OfHost(E, h) == {e \in E : e.host = h}
Line(h, E) == [host |-> h, rx |-> SumOf("rx", E) % Modulus, tx |-> SumOf("tx", E) % Modulus,
               totalTime |-> SumOf("time", E), connections |-> Cardinality(E)]
HostsOf(E) == {e.host : e \in E}
Entry(e) == e.rx \in Nat /\ e.tx \in Nat /\ e.time \in Nat /\ e.host \in Hosts
Entries(E) == IsFiniteSet(E) /\ \A e \in E : Entry(e)

\* The list q has one line for each host of E, and it is the line of the host.
Tally(q, E) ==
    /\ q \in Seq(SiteStats)
    /\ \A i \in DOMAIN q : q[i].host \in HostsOf(E) /\ q[i] = Line(q[i].host, OfHost(E, q[i].host))
    /\ \A h \in HostsOf(E) : \E i \in DOMAIN q : q[i].host = h
    /\ \A i, j \in DOMAIN q : q[i].host = q[j].host => i = j

LEMMA LineEmpty == \A h : NewSiteStats(h) = Line(h, {})
<1>1. 0 % Modulus = 0
  <2>1. 0 \in Counter
    BY ModulusNat DEF Counter
  <2>2. QED
    BY <2>1, CounterNat
<1>2. QED
  BY <1>1, SumEmpty, FS_EmptySet DEF Line, NewSiteStats

LEMMA LineGrown ==
    ASSUME NEW h, NEW F, Entries(F), NEW e, Entry(e), e \notin F
    PROVE  Grown(Line(h, F), e.rx, e.tx, e.time) = Line(h, F \cup {e})
<1>1. Measured("rx", F) /\ Measured("tx", F) /\ Measured("time", F)
  BY DEF Entries, Entry, Measured
<1>2. e["rx"] \in Nat /\ e["tx"] \in Nat /\ e["time"] \in Nat
  BY DEF Entry
<1>3. PICK a \in Nat, b \in Nat, c \in Nat, n \in Nat :
        /\ a = SumOf("rx", F) /\ b = SumOf("tx", F) /\ c = SumOf("time", F) /\ n = Cardinality(F)
  BY <1>1, SumNat, FS_CardinalityType DEF Measured
<1>4. /\ SumOf("rx", F \cup {e}) = a + e.rx
      /\ SumOf("tx", F \cup {e}) = b + e.tx
      /\ SumOf("time", F \cup {e}) = c + e.time
  BY <1>1, <1>2, <1>3, SumAdds
<1>5. Cardinality(F \cup {e}) = n + 1
  BY <1>3, FS_AddElement DEF Entries
<1>6. /\ ((a % Modulus) + e.rx) % Modulus = (a + e.rx) % Modulus
      /\ ((b % Modulus) + e.tx) % Modulus = (b + e.tx) % Modulus
  <2>1. PICK k \in Int, l \in Int : k = e.rx /\ l = e.tx
    BY <1>2
  <2>2. ((a % Modulus) + k) % Modulus = (a + k) % Modulus
    BY ModAdds
  <2>3. ((b % Modulus) + l) % Modulus = (b + l) % Modulus
    BY ModAdds
  <2>4. QED
    BY <2>1, <2>2, <2>3
<1>7. PICK x : x = Line(h, F)
  OBVIOUS
<1>8. x.host = h /\ x.rx = a % Modulus /\ x.tx = b % Modulus /\ x.totalTime = c /\ x.connections = n
  BY <1>3, <1>7 DEF Line
<1>9. QED
  BY <1>4, <1>5, <1>6, <1>7, <1>8 DEF Grown, Line

LEMMA TallyAdds ==
    ASSUME NEW q, NEW E, Tally(q, E), Entries(E), NEW e, Entry(e), e \notin E
    PROVE  Tally(AddSession(q, e.host, e.rx, e.tx, e.time), E \cup {e})
<1>0. PICK h, F, n : h = e.host /\ F = E \cup {e} /\ n = AddSession(q, e.host, e.rx, e.tx, e.time)
  OBVIOUS
<1>1. PICK i, old : LineGrows(q, n, i, old, h, e.rx, e.tx, e.time)
  BY <1>0, AddSessionGrows DEF Tally, Entry
<1>2. OfHost(F, h) = OfHost(E, h) \cup {e} /\ \A g : g # h => OfHost(F, g) = OfHost(E, g)
  BY <1>0 DEF OfHost
<1>3. HostsOf(F) = HostsOf(E) \cup {h}
  BY <1>0 DEF HostsOf
<1>4. Entries(OfHost(E, h)) /\ e \notin OfHost(E, h)
  BY FS_Subset DEF OfHost, Entries
<1>5. old = Line(h, OfHost(E, h))
  <2>1. CASE i \in DOMAIN q /\ q[i] = old
    BY <1>1, <2>1 DEF LineGrows, Tally
  <2>2. CASE old = NewSiteStats(h) /\ \A j \in DOMAIN q : q[j].host # h
    <3>1. h \notin HostsOf(E)
      BY <2>2 DEF Tally
    <3>2. OfHost(E, h) = {}
      BY <3>1 DEF HostsOf, OfHost
    <3>3. QED
      BY <2>2, <3>2, LineEmpty
  <2>3. QED
    BY <1>1, <2>1, <2>2 DEF LineGrows
<1>6. n[i] = Line(h, OfHost(F, h)) /\ n[i].host = h
  <2>1. n[i] = Grown(old, e.rx, e.tx, e.time) /\ n[i] = Line(h, OfHost(F, h))
    BY <1>1, <1>2, <1>4, <1>5, LineGrown DEF LineGrows
  <2>2. Line(h, OfHost(F, h)).host = h
    BY DEF Line
  <2>3. QED
    BY <2>1, <2>2
<1>7. /\ n \in Seq(SiteStats) /\ DOMAIN n = DOMAIN q \cup {i} /\ i \in DOMAIN n
      /\ \A j \in DOMAIN q : j # i => n[j] = q[j]
  BY <1>1 DEF LineGrows
<1>8. \A j \in DOMAIN q : j # i <=> q[j].host # h
  BY <1>1 DEF LineGrows, Tally
<1>9. ASSUME NEW j \in DOMAIN n
      PROVE  n[j].host \in HostsOf(F) /\ n[j] = Line(n[j].host, OfHost(F, n[j].host))
  <2>1. CASE j = i
    BY <1>3, <1>6, <2>1
  <2>2. CASE j # i
    <3>1. PICK g : g = q[j].host
      OBVIOUS
    <3>2. j \in DOMAIN q /\ n[j] = q[j] /\ g # h
      BY <1>7, <1>8, <2>2, <3>1
    <3>3. g \in HostsOf(E) /\ q[j] = Line(g, OfHost(E, g))
      BY <3>1, <3>2 DEF Tally
    <3>4. OfHost(F, g) = OfHost(E, g)
      BY <1>2, <3>2
    <3>5. QED
      BY <1>3, <3>1, <3>2, <3>3, <3>4
  <2>3. QED
    BY <2>1, <2>2
<1>10. ASSUME NEW g \in HostsOf(F) PROVE \E j \in DOMAIN n : n[j].host = g
  <2>1. CASE g = h
    BY <1>6, <1>7, <2>1
  <2>2. CASE g # h
    <3>1. PICK j \in DOMAIN q : q[j].host = g
      BY <1>3, <2>2 DEF Tally
    <3>2. QED
      BY <1>7, <1>8, <2>2, <3>1
  <2>3. QED
    BY <2>1, <2>2
<1>11. ASSUME NEW j \in DOMAIN n, NEW k \in DOMAIN n, n[j].host = n[k].host PROVE j = k
  <2>1. CASE j = i \/ k = i
    BY <1>6, <1>7, <1>8, <1>11, <2>1
  <2>2. CASE j # i /\ k # i
    BY <1>7, <1>11, <2>2 DEF Tally
  <2>3. QED
    BY <2>1, <2>2
<1>12. Tally(n, F)
  BY <1>7, <1>9, <1>10, <1>11 DEF Tally
<1>13. QED
  BY <1>0, <1>12

LEMMA TallyEmpty == Tally(<<>>, {})
BY DEF Tally, HostsOf

LEMMA TallyMatches ==
    ASSUME NEW q, NEW u, NEW t, Tally(q, Recorded(u, t))
    PROVE  Matches(q, Expected(u, t))
<1>0. PICK E, X : E = Recorded(u, t) /\ X = Expected(u, t)
  OBVIOUS
<1>1. X = {Line(h, OfHost(E, h)) : h \in HostsOf(E)}
  BY <1>0 DEF Expected, Line, OfHost, HostsOf
<1>2. /\ q \in Seq(SiteStats)
      /\ \A i \in DOMAIN q : q[i].host \in HostsOf(E) /\ q[i] = Line(q[i].host, OfHost(E, q[i].host))
      /\ \A h \in HostsOf(E) : \E i \in DOMAIN q : q[i].host = h
      /\ \A i, j \in DOMAIN q : q[i].host = q[j].host => i = j
  BY <1>0 DEF Tally
<1>3. \A i \in DOMAIN q : q[i] \in X
  BY <1>1, <1>2
<1>4. ASSUME NEW x \in X PROVE \E i \in DOMAIN q : q[i] = x
  BY <1>1, <1>2
<1>5. ToSet(q) = X
  BY <1>3, <1>4 DEF ToSet
<1>6. q \in Bijection(DOMAIN q, X)
  BY <1>2, <1>3, <1>4 DEF Bijection, Injection, Surjection, IsInjective
<1>7. DOMAIN q = 1 .. Len(q) /\ Len(q) \in Nat
  BY <1>2
<1>8. Len(q) = Cardinality(X)
  <2>1. IsFiniteSet(1 .. Len(q)) /\ Cardinality(1 .. Len(q)) = Len(q)
    <3>1. PICK m \in Nat : m = Len(q)
      BY <1>7, Zenon
    <3>2. IsFiniteSet(1 .. m) /\ Cardinality(1 .. m) = IF 1 > m THEN 0 ELSE m - 1 + 1
      BY FS_Interval
    <3>3. QED
      BY <3>1, <3>2
  <2>2. ExistsBijection(1 .. Len(q), X)
    BY <1>6, <1>7 DEF ExistsBijection
  <2>3. QED
    BY <2>1, <2>2, FS_Bijection
<1>9. QED
  BY <1>0, <1>5, <1>8 DEF Matches

-----------------------------------------------------------------------------
(* The types, and the sessions that have ended: each once, and none later     *)
(* than now.                                                                 *)

StatsInv ==
    /\ m_userStats \in Seq(UserStats) /\ OneForEach(m_userStats)
    /\ m_lastLogTime \in Nat \cup {None}
    /\ s_logNumber \in LogNumber
    /\ logging # None => logging \in [user : 1 .. Len(m_userStats) + 1, next : Nat]
    /\ files \in [Users \X LogNumber -> LogFile \cup {None}]
    /\ tag \in Tag

Earlier(a, b) == a.run < b.run \/ (a.run = b.run /\ a.period < b.period)

HistoryInv ==
    /\ IsFiniteSet(ended)
    /\ \A e \in ended :
        /\ e.sid \in SessionId /\ e.sid < nextId /\ sessions[e.sid] = None
        /\ e.rx \in Nat /\ e.tx \in Nat /\ e.time \in Nat /\ e.host \in Hosts \cup {NoName}
        /\ e.tag \in Tag /\ (e.tag = tag \/ Earlier(e.tag, tag))

LEMMA LinesOfIs == \A u : LinesOf(u) = Lines(m_userStats, u)
BY DEF LinesOf, Lines, UserAt

LEMMA LinesOfIsNext == \A u : LinesOf(u)' = Lines(m_userStats', u)
BY DEF LinesOf, Lines, UserAt, SelectInSeq

LEMMA LastLogTimeNat ==
    ASSUME SessionsInv, StatsInv
    PROVE  LastLogTime \in Nat /\ Timestamp(now) \in Nat
<1>1. now \in Nat
  BY NumbersAssumption DEF SessionsInv
<1>2. QED
  BY <1>1, TimestampNat DEF LastLogTime, StatsInv

LEMMA PastFields ==
    ASSUME SessionsInv, StatsInv, NEW s, NEW x \in Session, x.start <= now, NEW e, e = Past(s, x)
    PROVE  /\ e.sid = s /\ e.tag = tag /\ e.host = x.host /\ e.user = x.user
           /\ e.rx = x.rx /\ e.tx = x.tx /\ e.time = Timestamp(now) - Timestamp(x.start)
           /\ e.rx \in Nat /\ e.tx \in Nat /\ e.time \in Nat /\ e.host \in Hosts \cup {NoName}
<1>1. /\ e.sid = s /\ e.tag = tag /\ e.host = x.host /\ e.user = x.user
      /\ e.rx = x.rx /\ e.tx = x.tx /\ e.time = Timestamp(now) - Timestamp(x.start)
  BY DEF Past
<1>2. x.rx \in Nat /\ x.tx \in Nat /\ x.host \in Hosts \cup {NoName}
  BY CounterNat DEF Session
<1>3. Timestamp(now) - Timestamp(x.start) \in Nat
  <2>1. PICK a \in Nat, b \in Nat : a = x.start /\ b = now /\ a <= b
    BY NumbersAssumption DEF Session, SessionsInv
  <2>2. Timestamp(a) \in Nat /\ Timestamp(b) \in Nat /\ Timestamp(a) <= Timestamp(b)
    <3>1. a <= b
      BY <2>1
    <3>2. QED
      BY <3>1, TimestampNat, TimestampClose
  <2>3. QED
    BY <2>1, <2>2
<1>4. QED
  BY <1>1, <1>2, <1>3

\* What an ended session adds to the lists.
Audits(e) == e.host # NoName /\ AuthEnabled /\ IsAuditEnabled(e.user)

LEMMA EndsAdds ==
    ASSUME SessionsInv, StatsInv, NEW s \in SessionId, NEW x \in Session, Ends(s, x),
           NEW e, e = Past(s, x)
    PROVE  /\ StatsInv'
           /\ IF Audits(e)
              THEN /\ LinesOf(e.user)' = AddSession(LinesOf(e.user), e.host, e.rx, e.tx, e.time)
                   /\ \A v : v # e.user => LinesOf(v)' = LinesOf(v)
              ELSE \A v : LinesOf(v)' = LinesOf(v)
<1>0. /\ e.host = x.host /\ e.user = x.user /\ e.rx = x.rx /\ e.tx = x.tx
      /\ e.time = Timestamp(now) - Timestamp(x.start)
      /\ e.rx \in Nat /\ e.tx \in Nat /\ e.time \in Nat /\ e.host \in Hosts \cup {NoName}
  BY PastFields DEF Ends
<1>1. UNCHANGED <<s_logNumber, logging, files, tag>> /\ logging = None
  BY EndsRecords DEF Ends
<1>2. PICK q : q = m_userStats
  OBVIOUS
<1>3. q \in Seq(UserStats) /\ OneForEach(q)
  BY <1>2 DEF StatsInv
<1>4. CASE Audits(e)
  <2>1. m_userStats' = AddUserSession(e.user, e.host, e.rx, e.tx, e.time) /\ m_lastLogTime' = LastLogTime
    BY <1>0, <1>4 DEF Ends, EndSession, Audits
  <2>2. e.user \in Audited /\ e.host \in Hosts
    BY <1>0, <1>4 DEF Audits, IsAuditEnabled
  <2>3. PICK n : n = AddUserSession(e.user, e.host, e.rx, e.tx, e.time)
    OBVIOUS
  <2>4. /\ n \in Seq(UserStats) /\ OneForEach(n)
        /\ Lines(n, e.user) = AddSession(Lines(q, e.user), e.host, e.rx, e.tx, e.time)
        /\ \A v : v # e.user => Lines(n, v) = Lines(q, v)
    <3>1. PICK u \in Audited, h \in Hosts, rx \in Nat, tx \in Nat, time \in Nat :
            u = e.user /\ h = e.host /\ rx = e.rx /\ tx = e.tx /\ time = e.time
      BY <1>0, <2>2
    <3>2. n = AddUserSession(u, h, rx, tx, time)
      BY <2>3, <3>1
    <3>3. /\ n \in Seq(UserStats) /\ OneForEach(n)
          /\ Lines(n, u) = AddSession(Lines(q, u), h, rx, tx, time)
          /\ \A v : v # u => Lines(n, v) = Lines(q, v)
      BY <1>2, <1>3, <3>2, AddsToLines
    <3>4. QED
      BY <3>1, <3>3
  <2>5. m_userStats' = n
    BY <2>1, <2>3
  <2>6. StatsInv'
    BY <1>1, <2>1, <2>4, <2>5, LastLogTimeNat DEF StatsInv
  <2>7. \A v : LinesOf(v)' = Lines(n, v) /\ LinesOf(v) = Lines(q, v)
    BY <1>2, <2>5, LinesOfIs, LinesOfIsNext
  <2>8. QED
    BY <1>4, <2>4, <2>6, <2>7
<1>5. CASE ~ Audits(e)
  <2>1. UNCHANGED <<m_userStats, m_lastLogTime>>
    BY <1>0, <1>5 DEF Ends, EndSession, Audits
  <2>2. StatsInv'
    BY <1>1, <2>1 DEF StatsInv
  <2>3. \A v : LinesOf(v)' = LinesOf(v)
    BY <2>1, LinesOfIs, LinesOfIsNext
  <2>4. QED
    BY <1>5, <2>2, <2>3
<1>6. QED
  BY <1>4, <1>5

-----------------------------------------------------------------------------
(* The record: the lists in memory are that of the period, and the files      *)
(* those of the periods before it.                                           *)

\* The number of the file that was written d periods ago, and its tag.
Slot(n, d) == IF d <= n THEN n - d ELSE n - d + (m_logPersistence + 1)
Ago(t, d) == [run |-> t.run, period |-> t.period - d]

\* Recorded(u, t) is Among(ended, u, t).
Among(E, u, t) ==
    {e \in E : e.user = u /\ e.tag = t /\ e.host # NoName /\ AuthEnabled /\ u \in Audited}

Memory == \A u \in Users : Tally(LinesOf(u), Among(ended, u, tag))

\* The lines are some of the list q, none of them twice.
Part(lines, q) ==
    \A a \in DOMAIN lines : lines[a] # Cut =>
        /\ \E b \in DOMAIN q : lines[a] = q[b]
        /\ \A b \in DOMAIN lines : lines[b] = lines[a] => a = b

Done(file, q) == file.header /\ file.lines = q

\* A file is of an earlier period, or it is the one of this period that has taken
\* its place.
Disk ==
    \A f \in Users \X LogNumber : files[f] # None =>
        /\ \/ Earlier(files[f].tag, tag)
           \/ files[f].tag = tag /\ logging # None /\ f[2] = s_logNumber
        /\ \E q : /\ Tally(q, Among(ended, f[1], files[f].tag)) /\ Part(files[f].lines, q)
                  /\ \/ <<f[1], files[f].tag>> \in failed \cup cutOff
                     \/ IsOpen(f)
                     \/ Done(files[f], q)

Kept ==
    \A u \in Users, d \in 1 .. m_logPersistence + 1 :
        d <= tag.period /\ <<u, Ago(tag, d)>> \notin failed /\ Among(ended, u, Ago(tag, d)) # {} =>
            /\ files[<<u, Slot(s_logNumber, d)>>] # None
            /\ \/ files[<<u, Slot(s_logNumber, d)>>].tag = Ago(tag, d)
               \/ d = m_logPersistence + 1 /\ files[<<u, Slot(s_logNumber, d)>>].tag = tag

\* While the list q is written: the file, when it is the turn of call k, has none
\* but lines that have had their turn, and all of them if no call has failed.
Begun(file, q, k, t) ==
    /\ file # None /\ file.tag = t
    /\ \A a \in DOMAIN file.lines : file.lines[a] # Cut =>
        /\ \E b \in DOMAIN q : b < k - 1 /\ file.lines[a] = q[b]
        /\ \A b \in DOMAIN file.lines : file.lines[b] = file.lines[a] => a = b

Whole(file, q, k) ==
    /\ k > 1 => file.header
    /\ Len(file.lines) = IF k > 1 THEN k - 2 ELSE 0
    /\ \A a \in DOMAIN file.lines : a \in DOMAIN q /\ file.lines[a] = q[a]

Written(u) ==
    \/ <<u, tag>> \in failed
    \/ files[<<u, s_logNumber>>] # None /\ files[<<u, s_logNumber>>].tag = tag

LogInv ==
    logging # None =>
        /\ \A i \in DOMAIN m_userStats : i < logging.user => Written(m_userStats[i].user)
        /\ IsLogging /\ logging.next > 0 =>
            /\ Begun(files[LoggedFile], LoggedStats, logging.next, tag)
            /\ <<LoggedUser, tag>> \in failed \/ Whole(files[LoggedFile], LoggedStats, logging.next)

AuditInv == Memory /\ Disk /\ Kept /\ LogInv

-----------------------------------------------------------------------------
(* The calls of LogToFile. *)

\* Where the log has come to.
Place(i, u, q, f) ==
    /\ logging # None /\ i = logging.user /\ i \in DOMAIN m_userStats /\ i \in Nat /\ logging.next \in Nat
    /\ u = m_userStats[i].user /\ u \in Users
    /\ q = m_userStats[i].stats /\ q \in Seq(SiteStats) /\ q = LinesOf(u)
    /\ \A a, b \in DOMAIN q : q[a] = q[b] => a = b
    /\ f = <<u, s_logNumber>> /\ f \in Users \X LogNumber
    /\ LoggedUser = u /\ LoggedStats = q /\ LoggedFile = f

LEMMA Places ==
    ASSUME StatsInv, AuditInv, IsLogging
    PROVE  \E i, u, q, f : Place(i, u, q, f)
<1>1. PICK i, u, q, f : /\ i = logging.user /\ u = m_userStats[i].user /\ q = m_userStats[i].stats
                        /\ f = <<u, s_logNumber>>
  OBVIOUS
<1>2. /\ logging # None /\ i <= Len(m_userStats) /\ i \in 1 .. Len(m_userStats) + 1
      /\ logging.next \in Nat
  BY <1>1 DEF IsLogging, StatsInv
<1>3. i \in DOMAIN m_userStats /\ i \in Nat
  <2>1. m_userStats \in Seq(UserStats)
    BY DEF StatsInv
  <2>2. QED
    BY <1>2, <2>1
<1>4. u \in Audited /\ q \in Seq(SiteStats)
  <2>1. m_userStats[i] \in UserStats
    BY <1>3 DEF StatsInv
  <2>2. QED
    BY <1>1, <2>1 DEF UserStats
<1>5. u \in Users /\ f \in Users \X LogNumber
  BY <1>1, <1>4, NamesAssumption DEF StatsInv
<1>6. q = LinesOf(u)
  <2>1. Lines(m_userStats, u) = q
    BY <1>1, <1>3, LinesAt DEF StatsInv
  <2>2. QED
    BY <2>1, LinesOfIs
<1>7. \A a, b \in DOMAIN q : q[a] = q[b] => a = b
  <2>1. Tally(q, Among(ended, u, tag))
    BY <1>5, <1>6 DEF AuditInv, Memory
  <2>2. QED
    BY <2>1 DEF Tally
<1>8. QED
  BY <1>1, <1>2, <1>3, <1>4, <1>5, <1>6, <1>7 DEF Place, LoggedUser, LoggedStats, LoggedFile

\* What a call does: the file of the user is y, and then either the next call is
\* k, or it is the turn of the next user.
Stores(f, y) ==
    /\ files' \in [Users \X LogNumber -> LogFile \cup {None}]
    /\ files'[f] = y
    /\ \A g \in Users \X LogNumber : g # f => files'[g] = files[g]

Calls(i, u, q, f, y, k) ==
    /\ Stores(f, y)
    /\ failed \subseteq failed' /\ failed' \subseteq failed \cup {<<u, tag>>}
    /\ logging' = [user |-> IF k = 0 THEN i + 1 ELSE i, next |-> k]
    /\ k \in Nat
    /\ \/ k > 0 /\ Begun(y, q, k, tag) /\ (<<u, tag>> \in failed' \/ Whole(y, q, k))
       \/ k = 0 /\ y = files[f] /\ <<u, tag>> \in failed'
       \/ k = 0 /\ y = files[f] /\ y # None /\ y.tag = tag /\ Done(y, q)
    /\ UNCHANGED <<now, sessions, nextId, m_userStats, m_lastLogTime, s_logNumber, tag, ended, cutOff>>

LEMMA PutsFile ==
    ASSUME StatsInv, NEW f \in Users \X LogNumber, NEW y \in LogFile \cup {None},
           files' = [files EXCEPT ![f] = y]
    PROVE  Stores(f, y)
BY DEF StatsInv, Stores

LEMMA KeepsFile ==
    ASSUME StatsInv, NEW f \in Users \X LogNumber, files' = files
    PROVE  Stores(f, files[f])
BY DEF StatsInv, Stores

LEMMA OpenCalls ==
    ASSUME StatsInv, AuditInv, OpenLogFile, NEW i, NEW u, NEW q, NEW f, Place(i, u, q, f)
    PROVE  \E y, k : Calls(i, u, q, f, y, k)
<1>0. /\ i \in Nat /\ f \in Users \X LogNumber /\ i = logging.user
      /\ LoggedUser = u /\ LoggedFile = f /\ q \in Seq(SiteStats)
  BY DEF Place
<1>1. CASE files' = [files EXCEPT ![LoggedFile] = Opened(@)] /\ UNCHANGED failed /\ GoesOnWith(logging.user, 1)
  <2>1. PICK y : y = [tag |-> tag, header |-> FALSE, lines |-> <<>>]
    OBVIOUS
  <2>2. y \in LogFile /\ y # None /\ y.tag = tag /\ y.lines = <<>>
    <3>1. tag \in Tag /\ <<>> \in Seq(SiteStats \cup {Cut})
      BY DEF StatsInv
    <3>2. y \in LogFile /\ y.tag = tag /\ y.lines = <<>>
      BY <2>1, <3>1 DEF LogFile
    <3>3. QED
      BY <3>2, NoneAssumption
  <2>3. files' = [files EXCEPT ![f] = y]
    BY <1>0, <1>1, <2>1 DEF Opened
  <2>4. Stores(f, y)
    BY <1>0, <2>2, <2>3, PutsFile
  <2>5. Begun(y, q, 1, tag) /\ Whole(y, q, 1)
    BY <2>2 DEF Begun, Whole
  <2>6. Calls(i, u, q, f, y, 1)
    BY <1>0, <1>1, <2>4, <2>5 DEF Calls, GoesOnWith
  <2>7. QED
    BY <2>6
<1>2. CASE Fails /\ UNCHANGED files /\ GoesOnWith(logging.user + 1, 0)
  <2>1. Stores(f, files[f])
    BY <1>0, <1>2, KeepsFile
  <2>2. Calls(i, u, q, f, files[f], 0)
    BY <1>0, <1>2, <2>1 DEF Calls, GoesOnWith, Fails
  <2>3. QED
    BY <2>2
<1>3. QED
  BY <1>1, <1>2 DEF OpenLogFile

\* The file that is open, x, as far as it has been written.
LEMMA FileIsOpen ==
    ASSUME StatsInv, AuditInv, NEW i, NEW u, NEW q, NEW f, Place(i, u, q, f), logging.next > 0,
           NEW x, x = files[f]
    PROVE  /\ x \in LogFile /\ x.lines \in Seq(SiteStats \cup {Cut})
           /\ Begun(x, q, logging.next, tag)
           /\ <<u, tag>> \in failed \/ Whole(x, q, logging.next)
<1>1. IsLogging
  <2>1. i \in DOMAIN m_userStats /\ m_userStats \in Seq(UserStats) /\ i = logging.user /\ logging # None
    BY DEF Place, StatsInv
  <2>2. i <= Len(m_userStats)
    BY <2>1
  <2>3. QED
    BY <2>1, <2>2 DEF IsLogging
<1>2. Begun(x, q, logging.next, tag) /\ (<<u, tag>> \in failed \/ Whole(x, q, logging.next))
  BY <1>1 DEF AuditInv, LogInv, Place
<1>3. x \in LogFile
  BY <1>2 DEF Place, StatsInv, Begun
<1>4. QED
  BY <1>2, <1>3 DEF LogFile

LEMMA BegunOn ==
    ASSUME NEW q \in Seq(SiteStats), NEW x, Begun(x, q, 1, tag), NEW y, y # None, y.tag = x.tag, y.lines = x.lines
    PROVE  Begun(y, q, 2, tag)
<1>1. \A b \in DOMAIN q : b < 1 - 1 => b < 2 - 1
  <2>1. DOMAIN q \subseteq Int
    OBVIOUS
  <2>2. QED
    BY <2>1
<1>2. ASSUME NEW a \in DOMAIN y.lines, y.lines[a] # Cut
      PROVE  /\ \E b \in DOMAIN q : b < 2 - 1 /\ y.lines[a] = q[b]
             /\ \A b \in DOMAIN y.lines : y.lines[b] = y.lines[a] => a = b
  <2>1. /\ \E b \in DOMAIN q : b < 1 - 1 /\ y.lines[a] = q[b]
        /\ \A b \in DOMAIN y.lines : y.lines[b] = y.lines[a] => a = b
    BY <1>2, Zenon DEF Begun
  <2>2. QED
    BY <1>1, <2>1, Zenon
<1>3. y.tag = tag
  BY DEF Begun
<1>4. QED
  BY <1>2, <1>3, Zenon DEF Begun

LEMMA HeaderCalls ==
    ASSUME StatsInv, AuditInv, WriteHeader, NEW i, NEW u, NEW q, NEW f, Place(i, u, q, f)
    PROVE  \E y, k : Calls(i, u, q, f, y, k)
<1>0. /\ i \in Nat /\ f \in Users \X LogNumber /\ i = logging.user /\ q \in Seq(SiteStats)
      /\ LoggedUser = u /\ LoggedFile = f /\ logging.next = 1
  BY DEF Place, WriteHeader, Logging
<1>1. PICK x : x = files[f]
  OBVIOUS
<1>2. /\ x \in LogFile /\ Begun(x, q, 1, tag) /\ (<<u, tag>> \in failed \/ Whole(x, q, 1))
  BY <1>0, <1>1, FileIsOpen
<1>3. CASE files' = [files EXCEPT ![LoggedFile].header = TRUE] /\ UNCHANGED failed /\ GoesOnWith(logging.user, 2)
  <2>1. PICK y : y = [x EXCEPT !.header = TRUE]
    OBVIOUS
  <2>2. y \in LogFile /\ y.tag = x.tag /\ y.lines = x.lines /\ y.header
    BY <1>2, <2>1 DEF LogFile
  <2>3. files' = [files EXCEPT ![f] = y]
    BY <1>0, <1>1, <1>3, <2>1 DEF StatsInv
  <2>4. Stores(f, y)
    BY <1>0, <2>2, <2>3, PutsFile
  <2>5. Begun(y, q, 2, tag)
    BY <1>0, <1>2, <2>2, NoneAssumption, BegunOn
  <2>6. <<u, tag>> \in failed \/ Whole(y, q, 2)
    BY <1>2, <2>2 DEF Whole
  <2>7. Calls(i, u, q, f, y, 2)
    BY <1>0, <1>3, <2>4, <2>5, <2>6 DEF Calls, GoesOnWith
  <2>8. QED
    BY <2>7
<1>4. CASE Fails /\ UNCHANGED files /\ GoesOnWith(logging.user + 1, 0)
  <2>1. Stores(f, files[f])
    BY <1>0, <1>4, KeepsFile
  <2>2. Calls(i, u, q, f, files[f], 0)
    BY <1>0, <1>4, <2>1 DEF Calls, GoesOnWith, Fails
  <2>3. QED
    BY <2>2
<1>5. CASE Fails /\ UNCHANGED files /\ GoesOnWith(logging.user, 2)
  <2>1. Stores(f, x)
    BY <1>0, <1>1, <1>5, KeepsFile
  <2>2. Begun(x, q, 2, tag)
    BY <1>0, <1>2, NoneAssumption, BegunOn
  <2>3. Calls(i, u, q, f, x, 2)
    BY <1>0, <1>5, <2>1, <2>2 DEF Calls, GoesOnWith, Fails
  <2>4. QED
    BY <2>3
<1>6. QED
  BY <1>3, <1>4, <1>5 DEF WriteHeader

\* A line more.
LEMMA LongerLines ==
    ASSUME NEW lines \in Seq(SiteStats \cup {Cut}), NEW e \in SiteStats \cup {Cut},
           NEW new, new = Append(lines, e), NEW n, n = Len(lines) + 1
    PROVE  /\ new \in Seq(SiteStats \cup {Cut}) /\ Len(new) = n
           /\ DOMAIN new = DOMAIN lines \cup {n} /\ n \notin DOMAIN lines
           /\ new[n] = e /\ \A a \in DOMAIN lines : new[a] = lines[a]
OBVIOUS

Longer(x, y, e) == y = [x EXCEPT !.lines = Append(@, e)]

LEMMA LongerFile ==
    ASSUME NEW x \in LogFile, NEW e \in SiteStats \cup {Cut}, NEW y, Longer(x, y, e)
    PROVE  y \in LogFile /\ y.tag = x.tag /\ y.header = x.header /\ y.lines = Append(x.lines, e)
<1>0. PICK lines \in Seq(SiteStats \cup {Cut}) : lines = x.lines
  BY DEF LogFile
<1>1. PICK new \in Seq(SiteStats \cup {Cut}) : new = Append(x.lines, e)
  BY <1>0, LongerLines
<1>2. y = [x EXCEPT !.lines = new]
  BY <1>1 DEF Longer
<1>3. y \in LogFile /\ y.tag = x.tag /\ y.header = x.header /\ y.lines = new
  BY <1>2 DEF LogFile
<1>4. QED
  BY <1>1, <1>3

\* The turn of line m of q, which is written, or cut off, or not written at all.
LEMMA LineBegun ==
    ASSUME NEW q \in Seq(SiteStats), \A a, b \in DOMAIN q : q[a] = q[b] => a = b,
           NEW m \in DOMAIN q, NEW k, k = m + 1,
           NEW x \in LogFile, Begun(x, q, k, tag), NEW e, e = q[m] \/ e = Cut, NEW y, Longer(x, y, e)
    PROVE  /\ y \in LogFile
           /\ Begun(y, q, k + 1, tag)
           /\ e = q[m] /\ Whole(x, q, k) => Whole(y, q, k + 1)
<1>0. /\ m \in Nat /\ m >= 1 /\ q[m] \in SiteStats /\ e \in SiteStats \cup {Cut} /\ DOMAIN q \subseteq Nat
      /\ k - 1 = m /\ (k + 1) - 1 = m + 1 /\ k > 1 /\ k + 1 > 1 /\ k - 2 = m - 1 /\ (k + 1) - 2 = m
  <2>1. m \in Nat /\ m >= 1 /\ q[m] \in SiteStats /\ DOMAIN q \subseteq Nat
    OBVIOUS
  <2>2. QED
    BY <2>1
<1>1. PICK lines \in Seq(SiteStats \cup {Cut}) : lines = x.lines
  BY DEF LogFile
<1>2. PICK new, n : new = Append(lines, e) /\ n = Len(lines) + 1
  OBVIOUS
<1>3. y \in LogFile /\ y.tag = x.tag /\ y.header = x.header /\ y.lines = new
  BY <1>0, <1>1, <1>2, LongerFile
<1>4. /\ new \in Seq(SiteStats \cup {Cut}) /\ Len(new) = n
      /\ DOMAIN new = DOMAIN lines \cup {n} /\ n \notin DOMAIN lines
      /\ new[n] = e /\ \A a \in DOMAIN lines : new[a] = lines[a]
  BY <1>0, <1>2, LongerLines
<1>5. /\ x.tag = tag
      /\ \A a \in DOMAIN lines : lines[a] # Cut =>
          /\ \E b \in DOMAIN q : b < m /\ lines[a] = q[b]
          /\ \A b \in DOMAIN lines : lines[b] = lines[a] => a = b
  BY <1>0, <1>1 DEF Begun
<1>6. \A a \in DOMAIN lines : lines[a] # q[m]
  <2>1. q[m] # Cut
    BY <1>0, NoneAssumption
  <2>2. ASSUME NEW a \in DOMAIN lines, lines[a] = q[m] PROVE FALSE
    <3>1. PICK b \in DOMAIN q : b < m /\ lines[a] = q[b]
      BY <1>5, <2>1, <2>2
    <3>2. b = m
      BY <2>2, <3>1
    <3>3. QED
      BY <1>0, <3>1, <3>2
  <2>3. QED
    BY <2>2
<1>7. Begun(y, q, k + 1, tag)
  <2>1. ASSUME NEW a \in DOMAIN new, new[a] # Cut
        PROVE  /\ \E b \in DOMAIN q : b < m + 1 /\ new[a] = q[b]
               /\ \A b \in DOMAIN new : new[b] = new[a] => a = b
    <3>1. CASE a = n
      <4>1. e = q[m] /\ new[a] = q[m]
        BY <1>4, <2>1, <3>1
      <4>2. ASSUME NEW b \in DOMAIN new, new[b] = new[a] PROVE a = b
        BY <1>4, <1>6, <3>1, <4>1, <4>2
      <4>3. m < m + 1
        BY <1>0
      <4>4. QED
        BY <4>1, <4>2, <4>3
    <3>2. CASE a # n
      <4>1. a \in DOMAIN lines /\ new[a] = lines[a]
        BY <1>4, <2>1, <3>2
      <4>2. PICK b \in DOMAIN q : b < m /\ lines[a] = q[b]
        BY <1>5, <2>1, <4>1
      <4>3. b < m + 1
        BY <1>0, <4>2
      <4>4. ASSUME NEW c \in DOMAIN new, new[c] = new[a] PROVE a = c
        <5>1. CASE c = n
          BY <1>4, <1>6, <2>1, <4>1, <4>4, <5>1
        <5>2. CASE c # n
          BY <1>4, <1>5, <2>1, <4>1, <4>4, <5>2
        <5>3. QED
          BY <5>1, <5>2
      <4>5. QED
        BY <4>1, <4>2, <4>3, <4>4
    <3>3. QED
      BY <3>1, <3>2
  <2>2. \A a \in DOMAIN new : new[a] # Cut =>
          /\ \E b \in DOMAIN q : b < (k + 1) - 1 /\ new[a] = q[b]
          /\ \A b \in DOMAIN new : new[b] = new[a] => a = b
    BY <1>0, <2>1, Zenon
  <2>3. y # None /\ y.tag = tag /\ y.lines = new
    BY <1>3, <1>5, NoneAssumption
  <2>4. QED
    BY <2>2, <2>3, Zenon DEF Begun
<1>8. ASSUME e = q[m], Whole(x, q, k) PROVE Whole(y, q, k + 1)
  <2>1. x.header /\ Len(lines) = m - 1 /\ \A a \in DOMAIN lines : a \in DOMAIN q /\ lines[a] = q[a]
    BY <1>0, <1>1, <1>8 DEF Whole
  <2>2. n = m
    BY <1>0, <1>2, <2>1
  <2>3. \A a \in DOMAIN new : a \in DOMAIN q /\ new[a] = q[a]
    BY <1>4, <1>8, <2>1, <2>2
  <2>4. QED
    BY <1>0, <1>3, <1>4, <2>1, <2>2, <2>3 DEF Whole
<1>9. QED
  BY <1>3, <1>7, <1>8

LEMMA LineCalls ==
    ASSUME StatsInv, AuditInv, WriteLine, NEW i, NEW u, NEW q, NEW f, Place(i, u, q, f)
    PROVE  \E y, k : Calls(i, u, q, f, y, k)
<1>0. /\ i \in Nat /\ f \in Users \X LogNumber /\ i = logging.user /\ q \in Seq(SiteStats)
      /\ LoggedUser = u /\ LoggedFile = f /\ LoggedStats = q
      /\ \A a, b \in DOMAIN q : q[a] = q[b] => a = b
  BY DEF Place
<1>1. PICK m \in DOMAIN q :
        /\ logging.next = m + 1
        /\ \/ /\ files' = [files EXCEPT ![LoggedFile].lines = Append(@, LoggedStats[m])]
              /\ UNCHANGED failed
           \/ /\ Fails
              /\ files' = [files EXCEPT ![LoggedFile].lines = Append(@, Cut)] \/ UNCHANGED files
        /\ GoesOnWith(logging.user, m + 2)
  BY <1>0 DEF WriteLine
<1>2. PICK k : k = m + 1
  OBVIOUS
<1>3. k = logging.next /\ logging.next > 0 /\ k + 1 = m + 2 /\ k + 1 \in Nat /\ k + 1 > 0
  <2>1. m \in Nat
    BY <1>0
  <2>2. QED
    BY <1>1, <1>2, <2>1
<1>4. PICK x : x = files[f]
  OBVIOUS
<1>5. x \in LogFile /\ Begun(x, q, k, tag) /\ (<<u, tag>> \in failed \/ Whole(x, q, k))
  BY <1>3, <1>4, FileIsOpen
<1>6. ASSUME NEW e, e = q[m] \/ e = Cut, files' = [files EXCEPT ![f].lines = Append(@, e)],
             (e = q[m] /\ UNCHANGED failed) \/ Fails
      PROVE  \E y : Calls(i, u, q, f, y, k + 1)
  <2>1. PICK y : y = [x EXCEPT !.lines = Append(@, e)]
    OBVIOUS
  <2>2. Longer(x, y, e)
    BY <2>1 DEF Longer
  <2>3. y \in LogFile /\ Begun(y, q, k + 1, tag) /\ (e = q[m] /\ Whole(x, q, k) => Whole(y, q, k + 1))
    BY <1>0, <1>2, <1>5, <1>6, <2>2, LineBegun
  <2>4. files' = [files EXCEPT ![f] = y]
    BY <1>4, <1>6, <2>1, Zenon
  <2>5. Stores(f, y)
    BY <1>0, <2>3, <2>4, PutsFile
  <2>6. /\ failed \subseteq failed' /\ failed' \subseteq failed \cup {<<u, tag>>}
        /\ <<u, tag>> \in failed' \/ Whole(y, q, k + 1)
    BY <1>0, <1>5, <1>6, <2>3 DEF Fails
  <2>7. Calls(i, u, q, f, y, k + 1)
    BY <1>0, <1>1, <1>3, <2>3, <2>5, <2>6 DEF Calls, GoesOnWith
  <2>8. QED
    BY <2>7
<1>7. CASE Fails /\ UNCHANGED files
  <2>1. Stores(f, x)
    BY <1>0, <1>4, <1>7, KeepsFile
  <2>2. Begun(x, q, k + 1, tag)
    <3>1. \A b \in DOMAIN q : b < k - 1 => b < (k + 1) - 1
      <4>1. DOMAIN q \subseteq Int /\ k \in Int
        BY <1>0, <1>2
      <4>2. QED
        BY <4>1
    <3>2. QED
      BY <1>5, <3>1, Zenon DEF Begun
  <2>3. Calls(i, u, q, f, x, k + 1)
    BY <1>0, <1>1, <1>3, <1>7, <2>1, <2>2 DEF Calls, GoesOnWith, Fails
  <2>4. QED
    BY <2>3
<1>8. QED
  BY <1>0, <1>1, <1>6, <1>7

LEMMA CloseCalls ==
    ASSUME StatsInv, AuditInv, CloseLogFile, NEW i, NEW u, NEW q, NEW f, Place(i, u, q, f)
    PROVE  \E y, k : Calls(i, u, q, f, y, k)
<1>0. /\ i \in Nat /\ f \in Users \X LogNumber /\ i = logging.user /\ q \in Seq(SiteStats)
      /\ LoggedUser = u /\ LoggedFile = f /\ LoggedStats = q
      /\ logging.next = Len(q) + 2 /\ UNCHANGED <<files, failed>> /\ GoesOnWith(i + 1, 0)
  BY DEF Place, CloseLogFile, Logging
<1>1. PICK x, k : x = files[f] /\ k = logging.next
  OBVIOUS
<1>2. k > 1 /\ k > 0 /\ k - 2 = Len(q)
  <2>1. Len(q) \in Nat
    BY <1>0
  <2>2. QED
    BY <1>0, <1>1, <2>1
<1>3. /\ x.lines \in Seq(SiteStats \cup {Cut}) /\ Begun(x, q, k, tag)
      /\ <<u, tag>> \in failed \/ Whole(x, q, k)
  BY <1>1, <1>2, FileIsOpen
<1>4. ASSUME Whole(x, q, k) PROVE Done(x, q)
  <2>1. x.header /\ Len(x.lines) = Len(q) /\ \A a \in DOMAIN x.lines : x.lines[a] = q[a]
    BY <1>2, <1>4 DEF Whole
  <2>2. PICK lines \in Seq(SiteStats \cup {Cut}) : lines = x.lines
    BY <1>3
  <2>3. lines = q
    BY <1>0, <2>1, <2>2
  <2>4. QED
    BY <2>1, <2>2, <2>3 DEF Done
<1>5. Stores(f, x)
  BY <1>0, <1>1, KeepsFile
<1>6. x # None /\ x.tag = tag
  BY <1>3 DEF Begun
<1>7. Calls(i, u, q, f, x, 0)
  BY <1>0, <1>1, <1>3, <1>4, <1>5, <1>6 DEF Calls, GoesOnWith
<1>8. QED
  BY <1>7

\* The steps that leave the statistics, the files and the history alone.
Quiet ==
    /\ UNCHANGED <<m_userStats, s_logNumber, logging, files, tag, failed, cutOff, ended>>
    /\ m_lastLogTime' \in Nat \cup {None}
    /\ nextId <= nextId'
    /\ \A s \in SessionId : s < nextId /\ sessions[s] = None => sessions'[s] = None

BeginsLog ==
    /\ logging = None
    /\ logging' = [user |-> 1, next |-> 0]
    /\ m_lastLogTime' \in Nat
    /\ UNCHANGED <<now, sessions, nextId, m_userStats, s_logNumber, files, tag, failed, cutOff, ended>>

CallsFor(i, u, q, f, y, k) == Place(i, u, q, f) /\ Calls(i, u, q, f, y, k)

LEMMA Steps ==
    ASSUME SessionsInv, StatsInv, AuditInv, [Next]_vars
    PROVE  \/ Quiet \/ BeginsLog \/ Reset \/ Restart
           \/ \E i, u, q, f, y, k : CallsFor(i, u, q, f, y, k)
           \/ \E s \in SessionId, x \in Session : Ends(s, x)
<1>0. nextId \in Nat /\ m_lastLogTime \in Nat \cup {None} /\ sessions \in [SessionId -> Session \cup {None}]
  BY NumbersAssumption DEF SessionsInv, StatsInv
<1>1. CASE BusyPass
  <2>1. SUFFICES ASSUME NEW s \in SessionId, NEW r \in Session, Puts(s, r) PROVE Quiet
    BY <1>1, BusyPassPutsOrEnds
  <2>2. /\ UNCHANGED <<m_userStats, m_lastLogTime, s_logNumber, logging, files, tag, failed, cutOff, ended>>
        /\ sessions' = [sessions EXCEPT ![s] = r]
    BY <2>1 DEF Puts, stats, disk
  <2>3. \/ s = nextId /\ nextId' = nextId + 1
        \/ sessions[s] # None /\ nextId' = nextId
    BY <2>1 DEF Puts, Begins, GoesOn
  <2>4. nextId <= nextId'
    BY <1>0, <2>3
  <2>5. ASSUME NEW q \in SessionId, q < nextId, sessions[q] = None PROVE sessions'[q] = None
    BY <1>0, <2>2, <2>3, <2>5
  <2>6. QED
    BY <1>0, <2>2, <2>4, <2>5 DEF Quiet
<1>2. CASE IdlePass
  <2>1. /\ logging = None /\ LastLogTime \in Nat /\ Timestamp(now) \in Nat /\ nextId <= nextId
        /\ UNCHANGED <<now, sessions, nextId, m_userStats, s_logNumber, files, tag, failed, cutOff, ended>>
    BY <1>0, <1>2, LastLogTimeNat DEF IdlePass, disk
  <2>2. CASE m_lastLogTime' = Timestamp(now) /\ logging' = [user |-> 1, next |-> 0]
    BY <2>1, <2>2 DEF BeginsLog
  <2>3. CASE m_lastLogTime' = LastLogTime /\ UNCHANGED logging
    BY <2>1, <2>3 DEF Quiet
  <2>4. QED
    BY <1>2, <2>2, <2>3 DEF IdlePass
<1>3. CASE Tick \/ UNCHANGED vars
  BY <1>0, <1>3 DEF Tick, Quiet, stats, disk, vars
<1>4. CASE OpenLogFile \/ WriteHeader \/ WriteLine \/ CloseLogFile
  <2>1. IsLogging
    BY <1>4 DEF OpenLogFile, WriteHeader, WriteLine, CloseLogFile, Logging
  <2>2. PICK i, u, q, f : Place(i, u, q, f)
    BY <2>1, Places
  <2>3. \E y, k : Calls(i, u, q, f, y, k)
    BY <1>4, <2>2, OpenCalls, HeaderCalls, LineCalls, CloseCalls
  <2>4. QED
    BY <2>2, <2>3 DEF CallsFor
<1>5. QED
  BY <1>1, <1>2, <1>3, <1>4 DEF Next, DispatchThread, LogAndReset

-----------------------------------------------------------------------------
(* The types. *)

LEMMA ResetForgets ==
    ASSUME StatsInv, Reset
    PROVE  /\ StatsInv'
           /\ \A u : LinesOf(u)' = <<>>
           /\ tag' = [run |-> tag.run, period |-> tag.period + 1]
           /\ s_logNumber' = NextLogNumber(s_logNumber) /\ logging' = None
           /\ UNCHANGED <<now, sessions, nextId, files, failed, cutOff, ended>>
<1>1. /\ m_userStats' = <<>> /\ s_logNumber' = NextLogNumber(s_logNumber) /\ logging' = None
      /\ UNCHANGED <<now, sessions, nextId, m_lastLogTime, files, failed, cutOff, ended>>
  BY DEF Reset, disk
<1>2. tag' = [run |-> tag.run, period |-> tag.period + 1] /\ tag' \in Tag
  <2>1. tag' = [tag EXCEPT !.period = @ + 1]
    BY DEF Reset
  <2>2. QED
    BY <2>1 DEF StatsInv, Tag
<1>3. s_logNumber' \in LogNumber
  BY <1>1, NumbersAssumption DEF NextLogNumber, LogNumber, StatsInv
<1>4. m_userStats' \in Seq(UserStats) /\ OneForEach(m_userStats') /\ \A u : LinesOf(u)' = <<>>
  BY <1>1, NoLines, LinesOfIsNext
<1>5. QED
  BY <1>1, <1>2, <1>3, <1>4 DEF StatsInv

LEMMA RestartForgets ==
    ASSUME StatsInv, Restart
    PROVE  /\ StatsInv'
           /\ \A u : LinesOf(u)' = <<>>
           /\ tag' = [run |-> tag.run + 1, period |-> 0]
<1>1. /\ m_userStats' = <<>> /\ m_lastLogTime' = None /\ s_logNumber' = 0 /\ files' = files
      /\ tag' = [run |-> tag.run + 1, period |-> 0] /\ tag.run < MaxRuns /\ logging' = None
  BY DEF Restart
<1>2. tag' \in Tag /\ 0 \in LogNumber
  BY <1>1, NumbersAssumption DEF StatsInv, Tag, LogNumber
<1>3. QED
  BY <1>1, <1>2, NoLines, LinesOfIsNext DEF StatsInv

LEMMA StatsInvNext == SessionsInv /\ StatsInv /\ AuditInv /\ [Next]_vars => StatsInv'
<1> SUFFICES ASSUME SessionsInv, StatsInv, AuditInv, [Next]_vars PROVE StatsInv'
  OBVIOUS
<1>1. CASE Quiet
  BY <1>1 DEF Quiet, StatsInv
<1>2. CASE BeginsLog
  <2>1. 1 \in 1 .. Len(m_userStats) + 1
    BY DEF StatsInv
  <2>2. [user |-> 1, next |-> 0] \in [user : 1 .. Len(m_userStats) + 1, next : Nat]
    BY <2>1
  <2>3. QED
    BY <1>2, <2>2 DEF BeginsLog, StatsInv
<1>3. ASSUME NEW i, NEW u, NEW q, NEW f, NEW y, NEW k, CallsFor(i, u, q, f, y, k) PROVE StatsInv'
  <2>1. /\ i \in DOMAIN m_userStats /\ k \in Nat
        /\ UNCHANGED <<m_userStats, m_lastLogTime, s_logNumber, tag>>
        /\ files' \in [Users \X LogNumber -> LogFile \cup {None}]
        /\ logging' = [user |-> IF k = 0 THEN i + 1 ELSE i, next |-> k]
    BY <1>3 DEF CallsFor, Place, Calls, Stores
  <2>2. i \in 1 .. Len(m_userStats) + 1 /\ i + 1 \in 1 .. Len(m_userStats) + 1
    BY <2>1 DEF StatsInv
  <2>3. PICK j \in 1 .. Len(m_userStats) + 1 : j = IF k = 0 THEN i + 1 ELSE i
    BY <2>2
  <2>4. [user |-> j, next |-> k] \in [user : 1 .. Len(m_userStats) + 1, next : Nat]
    BY <2>1
  <2>5. logging' # None => logging' \in [user : 1 .. Len(m_userStats) + 1, next : Nat]
    BY <2>1, <2>3, <2>4
  <2>6. QED
    BY <2>1, <2>5 DEF StatsInv
<1>4. QED
  BY <1>1, <1>2, <1>3, Steps, EndsAdds, ResetForgets, RestartForgets

-----------------------------------------------------------------------------
(* How the record and the files come to agree. *)

LEMMA Later ==
    ASSUME NEW a \in Tag, NEW b \in Tag, NEW c \in Tag, Earlier(b, c), a = b \/ Earlier(a, b)
    PROVE  Earlier(a, c) /\ a # c
BY NumbersAssumption DEF Earlier, Tag

LEMMA NotEarlier == \A a \in Tag : ~ Earlier(a, a)
BY NumbersAssumption DEF Earlier, Tag

LEMMA SlotNext ==
    ASSUME NEW n \in LogNumber
    PROVE  /\ Slot(NextLogNumber(n), 1) = n /\ Slot(n, m_logPersistence + 1) = n
           /\ \A d \in 1 .. m_logPersistence :
                /\ Slot(NextLogNumber(n), d + 1) = Slot(n, d)
                /\ Slot(n, d) # n /\ Slot(n, d) \in LogNumber
<1>1. PICK P \in Nat : P = m_logPersistence /\ n \in 0 .. P
  BY NumbersAssumption DEF LogNumber
<1>2. Slot(NextLogNumber(n), 1) = n /\ Slot(n, P + 1) = n
  BY <1>1 DEF Slot, NextLogNumber
<1>3. ASSUME NEW d \in 1 .. P
      PROVE  /\ Slot(NextLogNumber(n), d + 1) = Slot(n, d)
             /\ Slot(n, d) # n /\ Slot(n, d) \in 0 .. P
  BY <1>1 DEF Slot, NextLogNumber
<1>4. QED
  BY <1>1, <1>2, <1>3 DEF LogNumber

LEMMA LogMovesOn ==
    ASSUME StatsInv, tag' \in Tag,
           \/ tag' = [run |-> tag.run, period |-> tag.period + 1]
           \/ tag' = [run |-> tag.run + 1, period |-> 0]
    PROVE  Earlier(tag, tag')
BY NumbersAssumption DEF StatsInv, Earlier, Tag

LEMMA HistoryInvNext == SessionsInv /\ StatsInv /\ AuditInv /\ HistoryInv /\ [Next]_vars => HistoryInv'
<1> SUFFICES ASSUME SessionsInv, StatsInv, AuditInv, HistoryInv, [Next]_vars PROVE HistoryInv'
  OBVIOUS
<1>0. /\ sessions \in [SessionId -> Session \cup {None}]
      /\ nextId \in Nat /\ nextId' \in Nat /\ SessionId \subseteq Nat
      /\ tag \in Tag /\ tag' \in Tag
  <2>1. SessionsInv' /\ StatsInv'
    BY SessionsInvNext, StatsInvNext
  <2>2. QED
    BY <2>1, NumbersAssumption DEF SessionsInv, StatsInv, SessionId
<1>1. CASE Quiet
  <2>1. ended' = ended /\ tag' = tag
    BY <1>1 DEF Quiet
  <2>2. ASSUME NEW e \in ended PROVE e.sid < nextId' /\ sessions'[e.sid] = None
    <3>1. PICK s \in SessionId : s = e.sid /\ s < nextId /\ sessions[s] = None
      BY DEF HistoryInv
    <3>2. s \in Nat /\ nextId <= nextId' /\ sessions'[s] = None
      BY <1>0, <1>1, <3>1 DEF Quiet
    <3>3. QED
      BY <1>0, <3>1, <3>2
  <2>3. QED
    BY <2>1, <2>2 DEF HistoryInv
<1>2. ASSUME NEW s \in SessionId, NEW x \in Session, Ends(s, x) PROVE HistoryInv'
  <2>1. PICK e : e = Past(s, x)
    OBVIOUS
  <2>2. /\ e.sid = s /\ e.tag = tag
        /\ e.rx \in Nat /\ e.tx \in Nat /\ e.time \in Nat /\ e.host \in Hosts \cup {NoName}
    BY <1>2, <2>1, PastFields DEF Ends
  <2>3. ended' = ended \cup {e} /\ sessions' = [sessions EXCEPT ![s] = None] /\ nextId' = nextId /\ tag' = tag
    BY <1>2, <2>1, EndsRecords
  <2>4. IsFiniteSet(ended')
    BY <2>3, FS_AddElement DEF HistoryInv
  <2>5. s < nextId /\ sessions'[s] = None
    BY <1>0, <1>2, <2>3 DEF Ends, SessionsInv
  <2>6. \A q \in SessionId : sessions[q] = None => sessions'[q] = None
    BY <1>0, <2>3
  <2>7. \A g \in ended' : g \in ended \/ g = e
    BY <2>3
  <2>8. QED
    BY <1>0, <2>2, <2>3, <2>4, <2>5, <2>6, <2>7 DEF HistoryInv
<1>3. CASE Reset \/ Restart
  <2>1. Earlier(tag, tag')
    BY <1>0, <1>3, ResetForgets, RestartForgets, LogMovesOn
  <2>2. ended' = ended /\ nextId' = nextId
    BY <1>3 DEF Reset, Restart
  <2>3. \A q \in SessionId : sessions[q] = None => sessions'[q] = None
    BY <1>3 DEF Reset, Restart
  <2>4. \A e \in ended : Earlier(e.tag, tag')
    BY <1>0, <2>1, Later DEF HistoryInv
  <2>5. QED
    BY <2>2, <2>3, <2>4 DEF HistoryInv
<1>4. CASE UNCHANGED <<sessions, nextId, tag, ended>>
  BY <1>4 DEF HistoryInv
<1>5. CASE BeginsLog
  BY <1>4, <1>5 DEF BeginsLog
<1>6. ASSUME NEW i, NEW u, NEW q, NEW f, NEW y, NEW k, CallsFor(i, u, q, f, y, k) PROVE HistoryInv'
  BY <1>4, <1>6 DEF CallsFor, Calls
<1>7. QED
  BY <1>1, <1>2, <1>3, <1>5, <1>6, Steps

LEMMA AmongEntries ==
    ASSUME HistoryInv, NEW u, NEW t
    PROVE  Entries(Among(ended, u, t))
<1>1. Among(ended, u, t) \subseteq ended
  BY DEF Among
<1>2. IsFiniteSet(Among(ended, u, t))
  BY <1>1, FS_Subset DEF HistoryInv
<1>3. ASSUME NEW e \in Among(ended, u, t) PROVE Entry(e)
  BY <1>1 DEF HistoryInv, Among, Entry
<1>4. QED
  BY <1>1, <1>2, <1>3 DEF Entries

LEMMA NoneLater ==
    ASSUME StatsInv, HistoryInv, NEW u, NEW t \in Tag, Earlier(tag, t)
    PROVE  Among(ended, u, t) = {}
<1>1. ASSUME NEW e \in ended PROVE e.tag # t
  BY Later DEF HistoryInv, StatsInv
<1>2. QED
  BY <1>1 DEF Among

LEMMA TallyNotEmpty ==
    ASSUME NEW q, NEW E, Tally(q, E), E # {}
    PROVE  q # <<>>
<1>1. PICK e \in E : e.host \in HostsOf(E)
  BY DEF HostsOf
<1>2. DOMAIN q # {}
  BY <1>1 DEF Tally
<1>3. QED
  BY <1>2

LEMMA EndsAuditInv ==
    ASSUME SessionsInv, StatsInv, HistoryInv, AuditInv,
           NEW s \in SessionId, NEW x \in Session, Ends(s, x)
    PROVE  AuditInv'
<1>0. PICK t \in Tag : t = tag
  BY DEF StatsInv
<1>1. PICK e, E, F : e = Past(s, x) /\ E = ended /\ F = ended'
  OBVIOUS
<1>2. /\ F = E \cup {e} /\ tag' = t /\ UNCHANGED <<s_logNumber, logging, files, failed, cutOff>>
      /\ logging = None /\ logging' = None
  BY <1>0, <1>1, EndsRecords DEF Ends
<1>3. /\ e.sid = s /\ e.tag = t
      /\ e.rx \in Nat /\ e.tx \in Nat /\ e.time \in Nat /\ e.host \in Hosts \cup {NoName}
  BY <1>0, <1>1, PastFields DEF Ends
<1>4. e \notin E
  BY <1>1, <1>3 DEF Ends, HistoryInv
<1>5. \A u, r : r # t => Among(F, u, r) = Among(E, u, r)
  BY <1>2, <1>3 DEF Among
<1>6. \A u : Among(F, u, t) = IF Audits(e) /\ u = e.user THEN Among(E, u, t) \cup {e} ELSE Among(E, u, t)
  BY <1>2, <1>3 DEF Among, Audits, IsAuditEnabled
<1>7. IF Audits(e)
      THEN /\ LinesOf(e.user)' = AddSession(LinesOf(e.user), e.host, e.rx, e.tx, e.time)
           /\ \A v : v # e.user => LinesOf(v)' = LinesOf(v)
      ELSE \A v : LinesOf(v)' = LinesOf(v)
  BY <1>1, EndsAdds
<1>8. Memory'
  <2>1. ASSUME NEW u \in Users PROVE Tally(LinesOf(u)', Among(F, u, t))
    <3>1. PICK q, R : q = LinesOf(u) /\ R = Among(E, u, t)
      OBVIOUS
    <3>2. Tally(q, R) /\ Entries(R) /\ R \subseteq E
      <4>1. Tally(q, R)
        BY <1>0, <1>1, <3>1 DEF AuditInv, Memory
      <4>2. Entries(R)
        BY <1>1, <3>1, AmongEntries
      <4>3. QED
        BY <3>1, <4>1, <4>2 DEF Among
    <3>3. CASE Audits(e) /\ u = e.user
      <4>1. Entry(e) /\ e \notin R
        BY <1>3, <1>4, <3>2, <3>3 DEF Entry, Audits
      <4>2. Tally(AddSession(q, e.host, e.rx, e.tx, e.time), R \cup {e})
        BY <3>2, <4>1, TallyAdds
      <4>3. QED
        BY <1>6, <1>7, <3>1, <3>3, <4>2
    <3>4. CASE ~ (Audits(e) /\ u = e.user)
      BY <1>6, <1>7, <3>1, <3>2, <3>4
    <3>5. QED
      BY <3>3, <3>4
  <2>2. QED
    BY <1>1, <1>2, <2>1 DEF Memory
<1>9. Disk'
  <2>1. ASSUME NEW f \in Users \X LogNumber, NEW y, y = files[f], y # None
        PROVE  /\ Earlier(y.tag, t)
               /\ \E q : /\ Tally(q, Among(F, f[1], y.tag)) /\ Part(y.lines, q)
                         /\ <<f[1], y.tag>> \in failed \cup cutOff \/ Done(y, q)
    <3>1. PICK q : /\ Earlier(y.tag, t)
                   /\ Tally(q, Among(E, f[1], y.tag)) /\ Part(y.lines, q)
                   /\ <<f[1], y.tag>> \in failed \cup cutOff \/ Done(y, q)
      BY <1>0, <1>1, <1>2, <2>1 DEF AuditInv, Disk, IsOpen, IsLogging
    <3>2. y.tag # t
      BY <3>1, NotEarlier
    <3>3. QED
      BY <1>5, <3>1, <3>2
  <2>2. QED
    BY <1>1, <1>2, <2>1 DEF Disk
<1>10. Kept'
  <2>1. \A d \in 1 .. m_logPersistence + 1 : Ago(t, d) # t
    <3>1. t.period \in Int
      BY DEF Tag
    <3>2. \A d \in 1 .. m_logPersistence + 1 : t.period - d # t.period
      BY <3>1, NumbersAssumption
    <3>3. QED
      BY <3>2 DEF Ago
  <2>2. \A u \in Users, d \in 1 .. m_logPersistence + 1 : Among(F, u, Ago(t, d)) = Among(E, u, Ago(t, d))
    BY <1>5, <2>1
  <2>3. QED
    BY <1>0, <1>1, <1>2, <2>2 DEF AuditInv, Kept
<1>11. LogInv'
  BY <1>2 DEF LogInv
<1>12. QED
  BY <1>8, <1>9, <1>10, <1>11 DEF AuditInv

\* What a call leaves as it is.
LEMMA CallsKeep ==
    ASSUME NEW i, NEW u, NEW q, NEW f, NEW y, NEW k, CallsFor(i, u, q, f, y, k)
    PROVE  /\ UNCHANGED <<m_userStats, s_logNumber, tag, ended, cutOff>> /\ failed \subseteq failed'
           /\ \A v : LinesOf(v)' = LinesOf(v)
           /\ \A g \in Users \X LogNumber : files'[g] = IF g = f THEN y ELSE files[g]
<1>1. UNCHANGED <<m_userStats, s_logNumber, tag, ended, cutOff>> /\ failed \subseteq failed'
  BY DEF CallsFor, Calls
<1>2. \A v : LinesOf(v)' = LinesOf(v)
  BY <1>1, LinesOfIs, LinesOfIsNext
<1>3. \A g \in Users \X LogNumber : files'[g] = IF g = f THEN y ELSE files[g]
  BY DEF CallsFor, Calls, Stores
<1>4. QED
  BY <1>1, <1>2, <1>3

\* Which file is open, before a call and after it.
LEMMA CallsOpen ==
    ASSUME StatsInv, NEW i, NEW u, NEW q, NEW f, NEW y, NEW k, CallsFor(i, u, q, f, y, k)
    PROVE  /\ logging' # None
           /\ \A g : IsOpen(g) => g = f /\ logging.next > 0
           /\ \A g : IsOpen(g)' => g = f /\ k > 0
           /\ k > 0 => /\ IsOpen(f)' /\ LoggedFile' = f /\ LoggedStats' = q /\ LoggedUser' = u
                       /\ logging'.user = i /\ logging'.next = k
           /\ k = 0 => logging'.user = i + 1 /\ logging'.next = 0
<1>1. /\ i \in Nat /\ k \in Nat /\ logging' = [user |-> IF k = 0 THEN i + 1 ELSE i, next |-> k]
      /\ i \in DOMAIN m_userStats /\ u = m_userStats[i].user /\ q = m_userStats[i].stats
      /\ f = <<u, s_logNumber>> /\ LoggedFile = f
      /\ UNCHANGED <<m_userStats, s_logNumber>>
  BY DEF CallsFor, Place, Calls
<1>2. logging' # None /\ logging'.next = k /\ logging'.user = IF k = 0 THEN i + 1 ELSE i
  <2>1. PICK j \in Nat : j = IF k = 0 THEN i + 1 ELSE i
    BY <1>1
  <2>2. logging' = [user |-> j, next |-> k] /\ logging' \in [user : Nat, next : Nat]
    BY <1>1, <2>1
  <2>3. QED
    BY <2>1, <2>2, NoneAssumption
<1>3. \A g : IsOpen(g) => g = f /\ logging.next > 0
  BY <1>1 DEF IsOpen
<1>4. \A g : IsOpen(g)' => g = LoggedFile' /\ k > 0
  BY <1>2 DEF IsOpen
<1>5. k > 0 => logging'.user = i
  BY <1>1, <1>2
<1>6. k > 0 => LoggedFile' = f /\ LoggedStats' = q /\ LoggedUser' = u
  BY <1>1, <1>5 DEF LoggedFile, LoggedStats, LoggedUser
<1>7. i <= Len(m_userStats)
  BY <1>1 DEF StatsInv
<1>8. k > 0 => IsOpen(f)'
  BY <1>1, <1>2, <1>5, <1>6, <1>7 DEF IsOpen, IsLogging
<1>9. QED
  BY <1>1, <1>2, <1>3, <1>4, <1>5, <1>6, <1>8

LEMMA CallsDisk ==
    ASSUME StatsInv, AuditInv, NEW i, NEW u, NEW q, NEW f, NEW y, NEW k, CallsFor(i, u, q, f, y, k)
    PROVE  Disk'
<1> DEFINE After(g, x) ==
        /\ Earlier(x.tag, tag) \/ (x.tag = tag /\ g[2] = s_logNumber)
        /\ \E l : /\ Tally(l, Among(ended, g[1], x.tag)) /\ Part(x.lines, l)
                  /\ <<g[1], x.tag>> \in failed' \cup cutOff \/ IsOpen(g)' \/ Done(x, l)
<1>1. ASSUME NEW g \in Users \X LogNumber, g # f, NEW x, x = files[g], x # None PROVE After(g, x)
  <2>1. ~ IsOpen(g)
    BY <1>1, CallsOpen
  <2>2. PICK l : /\ Earlier(x.tag, tag) \/ (x.tag = tag /\ g[2] = s_logNumber)
                 /\ Tally(l, Among(ended, g[1], x.tag)) /\ Part(x.lines, l)
                 /\ <<g[1], x.tag>> \in failed \cup cutOff \/ Done(x, l)
    BY <1>1, <2>1 DEF AuditInv, Disk
  <2>3. failed \subseteq failed'
    BY CallsKeep
  <2>4. QED
    BY <2>2, <2>3
<1>2. /\ f \in Users \X LogNumber /\ f[1] = u /\ f[2] = s_logNumber /\ u \in Users
      /\ \A a, b \in DOMAIN q : q[a] = q[b] => a = b
  BY DEF CallsFor, Place
<1>3. Tally(q, Among(ended, u, tag))
  BY DEF CallsFor, Place, AuditInv, Memory
<1>4. ASSUME y # None PROVE After(f, y)
  <2>1. CASE k > 0 /\ Begun(y, q, k, tag)
    <3>1. y.tag = tag /\ Part(y.lines, q)
      BY <2>1, Zenon DEF Begun, Part
    <3>2. IsOpen(f)'
      BY <2>1, CallsOpen
    <3>3. QED
      BY <1>2, <1>3, <3>1, <3>2
  <2>2. CASE y = files[f] /\ <<u, tag>> \in failed'
    <3>1. PICK l : /\ Earlier(y.tag, tag) \/ (y.tag = tag /\ f[2] = s_logNumber)
                   /\ Tally(l, Among(ended, u, y.tag)) /\ Part(y.lines, l)
                   /\ <<u, y.tag>> \in failed \cup cutOff \/ IsOpen(f) \/ Done(y, l)
      BY <1>2, <1>4, <2>2 DEF AuditInv, Disk
    <3>2. failed \subseteq failed'
      BY CallsKeep
    <3>3. CASE IsOpen(f)
      <4>1. logging.next > 0 /\ Place(i, u, q, f)
        BY <3>3, CallsOpen DEF CallsFor
      <4>2. Begun(y, q, logging.next, tag)
        BY <2>2, <4>1, FileIsOpen
      <4>3. y.tag = tag
        BY <4>2 DEF Begun
      <4>4. QED
        BY <1>2, <2>2, <3>1, <4>3
    <3>4. CASE <<u, y.tag>> \in failed \cup cutOff \/ Done(y, l)
      BY <1>2, <3>1, <3>2, <3>4
    <3>5. QED
      BY <3>1, <3>3, <3>4
  <2>3. CASE y.tag = tag /\ Done(y, q)
    <3>1. Part(q, q)
      BY <1>2 DEF Part
    <3>2. Part(y.lines, q)
      BY <2>3, <3>1 DEF Done
    <3>3. QED
      BY <1>2, <1>3, <2>3, <3>2
  <2>4. QED
    BY <2>1, <2>2, <2>3 DEF CallsFor, Calls
<1>5. \A g \in Users \X LogNumber : files'[g] # None => After(g, files'[g])
  <2> HIDE DEF After
  <2>1. QED
    BY <1>1, <1>4, CallsKeep
<1>6. logging' # None /\ UNCHANGED <<tag, s_logNumber, ended, cutOff>>
  BY CallsOpen, CallsKeep
<1>7. QED
  BY <1>5, <1>6 DEF Disk

LEMMA CallsKept ==
    ASSUME StatsInv, AuditInv, NEW i, NEW u, NEW q, NEW f, NEW y, NEW k, CallsFor(i, u, q, f, y, k)
    PROVE  Kept'
<1> DEFINE In(v, d, x) == x # None /\ (x.tag = Ago(tag, d) \/ (d = m_logPersistence + 1 /\ x.tag = tag))
           Owed(v, d, bad) ==
             d <= tag.period /\ <<v, Ago(tag, d)>> \notin bad /\ Among(ended, v, Ago(tag, d)) # {}
<1>0. /\ s_logNumber \in LogNumber /\ m_logPersistence \in Nat /\ m_logPersistence + 1 \in Nat
      /\ f = <<u, s_logNumber>> /\ failed \subseteq failed'
      /\ UNCHANGED <<tag, s_logNumber, ended>>
  <2>1. failed \subseteq failed' /\ UNCHANGED <<tag, s_logNumber, ended>>
    BY CallsKeep
  <2>2. m_logPersistence \in Nat /\ m_logPersistence + 1 \in Nat
    BY NumbersAssumption
  <2>3. QED
    BY <2>1, <2>2 DEF StatsInv, CallsFor, Place
<1>1. ASSUME NEW v \in Users, NEW d \in 1 .. m_logPersistence + 1, Owed(v, d, failed'),
             NEW g, g = <<v, Slot(s_logNumber, d)>>
      PROVE  In(v, d, files'[g])
  <2>1. Owed(v, d, failed) /\ In(v, d, files[g])
    BY <1>0, <1>1 DEF AuditInv, Kept
  <2>2. d = m_logPersistence + 1 \/ d \in 1 .. m_logPersistence
    BY <1>0
  <2>3. Slot(s_logNumber, d) \in LogNumber /\ (d # m_logPersistence + 1 => Slot(s_logNumber, d) # s_logNumber)
    BY <1>0, <2>2, SlotNext
  <2>4. g \in Users \X LogNumber /\ files'[g] = IF g = f THEN y ELSE files[g]
    BY <1>1, <2>3, CallsKeep
  <2>5. CASE g # f
    BY <2>1, <2>4, <2>5
  <2>6. CASE g = f
    <3>1. d = m_logPersistence + 1
      BY <1>0, <1>1, <2>3, <2>6
    <3>2. y = files[f] \/ (y # None /\ y.tag = tag)
      BY DEF CallsFor, Calls, Begun
    <3>3. QED
      BY <2>1, <2>4, <2>6, <3>1, <3>2
  <2>7. QED
    BY <2>5, <2>6
<1>2. QED
  BY <1>0, <1>1 DEF Kept

LEMMA CallsLogInv ==
    ASSUME StatsInv, AuditInv, NEW i, NEW u, NEW q, NEW f, NEW y, NEW k, CallsFor(i, u, q, f, y, k)
    PROVE  LogInv'
<1>0. /\ i \in Nat /\ i = logging.user /\ i \in DOMAIN m_userStats /\ u = m_userStats[i].user
      /\ f = <<u, s_logNumber>> /\ f \in Users \X LogNumber /\ logging # None
      /\ s_logNumber \in LogNumber /\ DOMAIN m_userStats \subseteq Nat /\ k \in Nat
  BY DEF CallsFor, Place, StatsInv, Calls
<1>1. /\ UNCHANGED <<m_userStats, s_logNumber, tag>> /\ failed \subseteq failed'
      /\ \A g \in Users \X LogNumber : files'[g] = IF g = f THEN y ELSE files[g]
  BY CallsKeep
<1>2. ASSUME NEW a \in DOMAIN m_userStats, a < i PROVE Written(m_userStats[a].user)'
  <2>1. PICK v : v = m_userStats[a].user
    OBVIOUS
  <2>2. v # u
    BY <1>0, <1>2, <2>1 DEF StatsInv, OneForEach
  <2>3. v \in Users
    <3>1. m_userStats[a] \in UserStats
      BY DEF StatsInv
    <3>2. QED
      BY <2>1, <3>1, NamesAssumption DEF UserStats
  <2>4. <<v, s_logNumber>> \in Users \X LogNumber /\ <<v, s_logNumber>> # f
    BY <1>0, <2>2, <2>3
  <2>5. Written(v)
    BY <1>0, <1>2, <2>1 DEF AuditInv, LogInv
  <2>6. QED
    BY <1>1, <2>1, <2>4, <2>5 DEF Written
<1>3. CASE k > 0
  <2>1. Begun(y, q, k, tag) /\ (<<u, tag>> \in failed' \/ Whole(y, q, k))
    BY <1>3 DEF CallsFor, Calls
  <2>2. /\ LoggedFile' = f /\ LoggedStats' = q /\ LoggedUser' = u
        /\ logging'.user = i /\ logging'.next = k
    BY <1>3, CallsOpen
  <2>3. files'[f] = y
    BY <1>0, <1>1
  <2>4. QED
    BY <1>1, <1>2, <2>1, <2>2, <2>3 DEF LogInv
<1>4. CASE k = 0
  <2>1. logging'.user = i + 1 /\ logging'.next = 0
    BY <1>4, CallsOpen
  <2>2. Written(u)'
    <3>1. <<u, tag>> \in failed' \/ (y # None /\ y.tag = tag)
      BY <1>4 DEF CallsFor, Calls
    <3>2. QED
      BY <1>0, <1>1, <3>1 DEF Written
  <2>3. ASSUME NEW a \in DOMAIN m_userStats, a < i + 1 PROVE Written(m_userStats[a].user)'
    <3>1. a < i \/ a = i
      BY <1>0, <2>3
    <3>2. CASE a < i
      BY <1>2, <3>2
    <3>3. CASE a = i
      <4>1. m_userStats'[a].user = u
        BY <1>0, <1>1, <3>3
      <4>2. QED
        BY <2>2, <4>1 DEF Written
    <3>4. QED
      BY <3>1, <3>2, <3>3
  <2>4. QED
    BY <1>1, <2>1, <2>3 DEF LogInv
<1>5. QED
  BY <1>0, <1>3, <1>4

LEMMA CallsAuditInv ==
    ASSUME StatsInv, AuditInv, NEW i, NEW u, NEW q, NEW f, NEW y, NEW k, CallsFor(i, u, q, f, y, k)
    PROVE  AuditInv'
<1>1. UNCHANGED <<tag, ended>> /\ \A v : LinesOf(v)' = LinesOf(v)
  BY CallsKeep
<1>2. Memory'
  BY <1>1 DEF AuditInv, Memory
<1>3. Disk' /\ Kept' /\ LogInv'
  BY CallsDisk, CallsKept, CallsLogInv
<1>4. QED
  BY <1>2, <1>3 DEF AuditInv

\* The period is over: what was in memory is in the files.
LEMMA ResetAuditInv ==
    ASSUME StatsInv, HistoryInv, AuditInv, Reset
    PROVE  AuditInv'
<1> PICK E : E = ended
  OBVIOUS
<1>0. PICK t \in Tag, n \in LogNumber, fs \in [Users \X LogNumber -> LogFile \cup {None}] :
        t = tag /\ n = s_logNumber /\ E = ended /\ fs = files
  BY DEF StatsInv
<1>1. PICK t1 \in Tag : t1 = tag' /\ t1 = [run |-> t.run, period |-> t.period + 1] /\ Earlier(t, t1)
  BY <1>0, ResetForgets, LogMovesOn DEF StatsInv
<1>2. /\ ended' = E /\ s_logNumber' = NextLogNumber(n) /\ logging' = None
      /\ files' = fs /\ UNCHANGED <<failed, cutOff>>
      /\ \A u : LinesOf(u)' = <<>>
  BY <1>0, ResetForgets
<1>3. logging # None /\ logging.user > Len(m_userStats) /\ \A f : ~ IsOpen(f)
  <2>1. logging # None /\ logging.user > Len(m_userStats)
    BY DEF Reset
  <2>2. logging.user \in Nat /\ Len(m_userStats) \in Nat
    BY <2>1 DEF StatsInv
  <2>3. QED
    BY <2>1, <2>2 DEF IsOpen, IsLogging
<1>4. Memory'
  <2>1. \A u : Among(E, u, t1) = {}
    BY <1>0, <1>1, NoneLater
  <2>2. QED
    BY <1>1, <1>2, <2>1, TallyEmpty DEF Memory
<1>5. Disk'
  <2>1. ASSUME NEW f \in Users \X LogNumber, NEW y, y = fs[f], y # None
        PROVE  /\ Earlier(y.tag, t1)
               /\ \E q : /\ Tally(q, Among(E, f[1], y.tag)) /\ Part(y.lines, q)
                         /\ <<f[1], y.tag>> \in failed \cup cutOff \/ Done(y, q)
    <3>1. PICK q : /\ Earlier(y.tag, t) \/ y.tag = t
                   /\ Tally(q, Among(E, f[1], y.tag)) /\ Part(y.lines, q)
                   /\ <<f[1], y.tag>> \in failed \cup cutOff \/ Done(y, q)
      BY <1>0, <1>3, <2>1 DEF AuditInv, Disk
    <3>2. y.tag \in Tag
      BY <2>1 DEF LogFile
    <3>3. Earlier(y.tag, t1)
      BY <1>1, <3>1, <3>2, Later
    <3>4. QED
      BY <3>1, <3>3
  <2>2. QED
    BY <1>1, <1>2, <2>1 DEF Disk
<1>6. Kept'
  <2>1. ASSUME NEW u \in Users, NEW d \in 1 .. m_logPersistence + 1, d <= t1.period,
               <<u, Ago(t1, d)>> \notin failed, Among(E, u, Ago(t1, d)) # {},
               NEW f, f = <<u, Slot(NextLogNumber(n), d)>>
        PROVE  fs[f] # None /\ fs[f].tag = Ago(t1, d)
    <3>0. t.period \in Nat /\ t1.period = t.period + 1 /\ t1.run = t.run /\ m_logPersistence \in Nat
      BY <1>1, NumbersAssumption DEF Tag
    <3>1. CASE d = 1
      <4>1. Ago(t1, d) = t
        BY <3>0, <3>1 DEF Ago, Tag
      <4>2. f = <<u, n>>
        BY <2>1, <3>1, SlotNext
      <4>3. Lines(m_userStats, u) # <<>>
        <5>1. Tally(LinesOf(u), Among(E, u, t))
          BY <1>0 DEF AuditInv, Memory
        <5>2. LinesOf(u) # <<>>
          BY <2>1, <4>1, <5>1, TallyNotEmpty
        <5>3. QED
          BY <5>2, LinesOfIs
      <4>4. PICK a \in DOMAIN m_userStats : m_userStats[a].user = u
        BY <4>3, LinesAt DEF StatsInv
      <4>5. a < logging.user
        <5>1. a \in 1 .. Len(m_userStats) /\ logging.user \in Nat /\ Len(m_userStats) \in Nat
          BY <1>3 DEF StatsInv
        <5>2. QED
          BY <1>3, <5>1
      <4>6. Written(u)
        BY <1>3, <4>4, <4>5 DEF AuditInv, LogInv
      <4>7. QED
        BY <1>0, <2>1, <4>1, <4>2, <4>6 DEF Written
    <3>2. CASE d # 1
      <4>1. PICK c \in 1 .. m_logPersistence : c = d - 1 /\ c + 1 = d /\ c <= t.period
        BY <2>1, <3>0, <3>2
      <4>2. Ago(t1, d) = Ago(t, c)
        BY <3>0, <4>1 DEF Ago
      <4>3. f = <<u, Slot(n, c)>>
        BY <2>1, <4>1, SlotNext
      <4>5. c \in 1 .. m_logPersistence + 1 /\ c # m_logPersistence + 1
        BY <3>0, <4>1
      <4>6. <<u, Ago(t, c)>> \notin failed /\ Among(E, u, Ago(t, c)) # {}
        BY <2>1, <4>2
      <4>7. fs[f] # None /\ fs[f].tag = Ago(t, c)
        BY <1>0, <4>1, <4>3, <4>5, <4>6 DEF AuditInv, Kept
      <4>8. QED
        BY <4>2, <4>7
    <3>3. QED
      BY <3>1, <3>2
  <2>2. QED
    BY <1>1, <1>2, <2>1 DEF Kept
<1>7. LogInv'
  BY <1>2 DEF LogInv
<1>8. QED
  BY <1>4, <1>5, <1>6, <1>7 DEF AuditInv

LEMMA RestartAuditInv ==
    ASSUME StatsInv, HistoryInv, AuditInv, Restart
    PROVE  AuditInv'
<1>1. tag' \in Tag /\ tag' = [run |-> tag.run + 1, period |-> 0] /\ \A u : LinesOf(u)' = <<>>
  BY RestartForgets DEF StatsInv
<1>2. PICK t \in Tag, t1 \in Tag : t = tag /\ t1 = tag' /\ t1.period = 0 /\ Earlier(t, t1)
  BY <1>1, LogMovesOn DEF StatsInv
<1>3. /\ UNCHANGED <<files, ended, failed>> /\ logging' = None
      /\ cutOff' = cutOff \cup {<<f[1], tag>> : f \in {g \in DOMAIN files : IsOpen(g)}}
  BY DEF Restart
<1>4. Memory'
  <2>1. \A u : Among(ended, u, t1) = {}
    BY <1>2, NoneLater
  <2>2. QED
    BY <1>1, <1>2, <1>3, <2>1, TallyEmpty DEF Memory
<1>5. Disk'
  <2>1. ASSUME NEW f \in Users \X LogNumber, NEW y, y = files[f], y # None
        PROVE  /\ Earlier(y.tag, t1)
               /\ \E q : /\ Tally(q, Among(ended, f[1], y.tag)) /\ Part(y.lines, q)
                         /\ <<f[1], y.tag>> \in failed \cup cutOff' \/ Done(y, q)
    <3>1. PICK q : /\ Earlier(y.tag, t) \/ y.tag = t
                   /\ Tally(q, Among(ended, f[1], y.tag)) /\ Part(y.lines, q)
                   /\ <<f[1], y.tag>> \in failed \cup cutOff \/ IsOpen(f) \/ Done(y, q)
      BY <1>2, <2>1 DEF AuditInv, Disk
    <3>2. y.tag \in Tag
      BY <2>1 DEF LogFile, StatsInv
    <3>3. Earlier(y.tag, t1)
      BY <1>2, <3>1, <3>2, Later
    <3>4. ASSUME IsOpen(f) PROVE <<f[1], y.tag>> \in cutOff'
      <4>1. IsLogging /\ logging.next > 0 /\ f = LoggedFile
        BY <3>4 DEF IsOpen
      <4>2. logging # None
        BY <4>1 DEF IsLogging
      <4>3. Begun(y, LoggedStats, logging.next, tag)
        BY <2>1, <4>1, <4>2 DEF AuditInv, LogInv
      <4>4. y.tag = tag
        BY <4>3 DEF Begun
      <4>5. f \in DOMAIN files
        BY DEF StatsInv
      <4>6. QED
        BY <1>3, <3>4, <4>4, <4>5
    <3>5. cutOff \subseteq cutOff'
      BY <1>3
    <3>6. QED
      BY <3>1, <3>3, <3>4, <3>5
  <2>2. QED
    BY <1>2, <1>3, <2>1 DEF Disk
<1>6. Kept'
  <2>1. \A d \in 1 .. m_logPersistence + 1 : ~ (d <= t1.period)
    BY <1>2, NumbersAssumption
  <2>2. QED
    BY <1>2, <2>1 DEF Kept
<1>7. LogInv'
  BY <1>3 DEF LogInv
<1>8. QED
  BY <1>4, <1>5, <1>6, <1>7 DEF AuditInv

LEMMA AuditInvNext == SessionsInv /\ StatsInv /\ HistoryInv /\ AuditInv /\ [Next]_vars => AuditInv'
<1> SUFFICES ASSUME SessionsInv, StatsInv, HistoryInv, AuditInv, [Next]_vars PROVE AuditInv'
  OBVIOUS
<1>1. CASE Quiet
  <2>1. UNCHANGED <<m_userStats, s_logNumber, logging, files, tag, failed, cutOff, ended>>
    BY <1>1 DEF Quiet
  <2>2. \A u : LinesOf(u)' = LinesOf(u)
    BY <2>1, LinesOfIs, LinesOfIsNext
  <2>3. Memory'
    BY <2>1, <2>2 DEF AuditInv, Memory
  <2>4. \A f : IsOpen(f)' = IsOpen(f)
    BY <2>1 DEF IsOpen, IsLogging, LoggedFile, LoggedUser
  <2>5. Disk'
    BY <2>1, <2>4 DEF AuditInv, Disk
  <2>6. Kept'
    BY <2>1 DEF AuditInv, Kept
  <2>7. LogInv'
    BY <2>1 DEF AuditInv, LogInv, Written, IsLogging, LoggedFile, LoggedUser, LoggedStats
  <2>8. QED
    BY <2>3, <2>5, <2>6, <2>7 DEF AuditInv
<1>2. CASE BeginsLog
  <2>1. /\ UNCHANGED <<m_userStats, s_logNumber, files, tag, failed, cutOff, ended>>
        /\ logging = None /\ logging' = [user |-> 1, next |-> 0]
    BY <1>2 DEF BeginsLog
  <2>2. logging' # None
    <3>1. [user |-> 1, next |-> 0] \in [user : Nat, next : Nat]
      OBVIOUS
    <3>2. QED
      BY <2>1, <3>1, NoneAssumption
  <2>3. \A u : LinesOf(u)' = LinesOf(u)
    BY <2>1, LinesOfIs, LinesOfIsNext
  <2>4. Memory'
    BY <2>1, <2>3 DEF AuditInv, Memory
  <2>5. \A f : ~ IsOpen(f)
    BY <2>1 DEF IsOpen, IsLogging
  <2>6. Disk'
    BY <2>1, <2>2, <2>5 DEF AuditInv, Disk
  <2>7. Kept'
    BY <2>1 DEF AuditInv, Kept
  <2>8. LogInv'
    <3>1. logging'.user = 1 /\ logging'.next = 0
      BY <2>1
    <3>2. \A i \in DOMAIN m_userStats : ~ (i < 1)
      BY DEF StatsInv
    <3>3. QED
      BY <2>1, <3>1, <3>2 DEF LogInv
  <2>9. QED
    BY <2>4, <2>6, <2>7, <2>8 DEF AuditInv
<1>3. QED
  BY <1>1, <1>2, Steps, EndsAuditInv, CallsAuditInv, ResetAuditInv, RestartAuditInv

LEMMA AuditInvariance == Spec => [](StatsInv /\ HistoryInv /\ AuditInv)
<1>1. Init => StatsInv /\ HistoryInv /\ AuditInv
  <2> SUFFICES ASSUME Init PROVE StatsInv /\ HistoryInv /\ AuditInv
    OBVIOUS
  <2>1. HistoryInv
    BY FS_EmptySet DEF Init, HistoryInv
  <2>2. \A u : LinesOf(u) = <<>>
    BY NoLines, LinesOfIs DEF Init
  <2>3. \A u, t : Among(ended, u, t) = {}
    BY DEF Init, Among
  <2>4. Memory
    BY <2>2, <2>3, TallyEmpty DEF Memory
  <2>5. Disk
    BY DEF Init, Disk
  <2>6. Kept
    BY <2>3 DEF Kept
  <2>7. LogInv
    BY DEF Init, LogInv
  <2>8. StatsInv
    <3>1. tag \in Tag /\ s_logNumber \in LogNumber
      BY NumbersAssumption DEF Init, Tag, LogNumber
    <3>2. m_userStats \in Seq(UserStats) /\ OneForEach(m_userStats)
      BY NoLines DEF Init
    <3>3. QED
      BY <3>1, <3>2 DEF Init, StatsInv
  <2>9. QED
    BY <2>1, <2>4, <2>5, <2>6, <2>7, <2>8 DEF AuditInv
<1>2. QED
  BY <1>1, SessionsInvariance, StatsInvNext, HistoryInvNext, AuditInvNext, PTL DEF Spec

-----------------------------------------------------------------------------
(* The theorems. *)

\* Every variable keeps its type, the lines on disk included: no counter leaves
\* its width, and the numbers of the log files stay below m_logPersistence + 1.
THEOREM AuditTypeCorrect == Spec => []TypeOK
<1>1. SessionsInv /\ StatsInv => TypeOK
  <2> SUFFICES ASSUME SessionsInv, StatsInv PROVE TypeOK
    OBVIOUS
  <2>1. ASSUME NEW i \in DOMAIN m_userStats
        PROVE  m_userStats[i].user \in Audited /\ m_userStats[i].stats \in Seq(SiteStats)
    <3>1. m_userStats[i] \in UserStats
      BY DEF StatsInv
    <3>2. QED
      BY <3>1 DEF UserStats
  <2>2. QED
    BY <2>1 DEF SessionsInv, StatsInv, TypeOK
<1>2. QED
  BY <1>1, SessionsInvariance, AuditInvariance, PTL

LEMMA RecordedIs == \A u, t : Recorded(u, t) = Among(ended, u, t)
BY DEF Recorded, Among

\* Nothing that an audited session did is lost while the process runs: it is in
\* memory, in the line of its host, until the period is over, and then in a file
\* for as many periods as there are numbers, until the file is opened again, unless
\* a call for that very file has failed.
THEOREM AuditIsComplete == Spec => []AuditComplete
<1>1. StatsInv /\ AuditInv => AuditComplete
  <2> SUFFICES ASSUME StatsInv, AuditInv, NEW u \in Users
               PROVE  /\ Matches(LinesOf(u), Expected(u, tag))
                      /\ \A p \in 0 .. tag.period - 1 :
                          LET t == [tag EXCEPT !.period = p]
                          IN  p >= tag.period - (m_logPersistence + 1) /\ <<u, t>> \notin failed
                                 /\ Expected(u, t) # {}
                              => \/ FileOf(u, t) # {}
                                 \/ p = tag.period - (m_logPersistence + 1) /\ FileOf(u, tag) # {}
    BY Zenon DEF AuditComplete
  <2>1. Matches(LinesOf(u), Expected(u, tag))
    BY TallyMatches, RecordedIs DEF AuditInv, Memory
  <2>2. ASSUME NEW p \in 0 .. tag.period - 1, NEW t, t = [tag EXCEPT !.period = p],
               p >= tag.period - (m_logPersistence + 1), <<u, t>> \notin failed, Expected(u, t) # {}
        PROVE  \/ FileOf(u, t) # {}
               \/ p = tag.period - (m_logPersistence + 1) /\ FileOf(u, tag) # {}
    <3>1. tag.period \in Nat /\ m_logPersistence \in Nat /\ tag \in Tag
      BY NumbersAssumption DEF StatsInv, Tag
    <3>2. PICK d \in 1 .. m_logPersistence + 1 : d = tag.period - p /\ p = tag.period - d /\ d <= tag.period
      <4>1. PICK P \in Nat, m \in Nat : P = m_logPersistence /\ m = tag.period
        BY <3>1
      <4>2. p \in 0 .. m - 1 /\ p >= m - (P + 1)
        BY <2>2, <4>1
      <4>3. m - p \in 1 .. P + 1 /\ p = m - (m - p) /\ m - p <= m
        BY <4>2
      <4>4. QED
        BY <4>1, <4>3
    <3>3. t = Ago(tag, d)
      BY <2>2, <3>1, <3>2 DEF Ago, Tag
    <3>4. Among(ended, u, t) # {}
      BY <2>2, RecordedIs DEF Expected
    <3>5. PICK f : f = <<u, Slot(s_logNumber, d)>>
      OBVIOUS
    <3>6. files[f] # None /\ (files[f].tag = t \/ (d = m_logPersistence + 1 /\ files[f].tag = tag))
      BY <2>2, <3>2, <3>3, <3>4, <3>5 DEF AuditInv, Kept
    <3>7. Slot(s_logNumber, d) \in LogNumber
      <4>1. PICK P \in Nat, n \in Nat : P = m_logPersistence /\ n = s_logNumber /\ n <= P
        BY <3>1 DEF StatsInv, LogNumber
      <4>2. d \in 1 .. P + 1
        BY <4>1
      <4>3. (IF d <= n THEN n - d ELSE n - d + (P + 1)) \in 0 .. P
        BY <4>1, <4>2
      <4>4. QED
        BY <4>1, <4>3 DEF Slot, LogNumber
    <3>8. f \in DOMAIN files /\ f[1] = u
      BY <3>5, <3>7 DEF StatsInv
    <3>9. CASE files[f].tag = t
      BY <3>6, <3>8, <3>9 DEF FileOf
    <3>10. CASE d = m_logPersistence + 1 /\ files[f].tag = tag
      <4>1. FileOf(u, tag) # {}
        BY <3>6, <3>8, <3>10 DEF FileOf
      <4>2. QED
        BY <3>2, <3>10, <4>1
    <3>11. QED
      BY <3>6, <3>9, <3>10
  <2>3. QED
    BY <2>1, <2>2
<1>2. QED
  BY <1>1, AuditInvariance, PTL

\* Whichever run of the process wrote it, over whatever was there before and
\* wherever that run ended, a file holds lines of the record of one user in one
\* period, none twice, and nothing else; it holds all of them, behind the header,
\* unless one of its own calls failed, or it is open, or was when the run ended.
THEOREM LogFilesTruthful == Spec => []FilesTruthful
<1>1. StatsInv /\ AuditInv => FilesTruthful
  <2>1. ASSUME StatsInv, AuditInv, NEW f \in DOMAIN files, files[f] # None,
               NEW file, file = files[f], NEW expected, expected = Expected(f[1], file.tag)
        PROVE  /\ PartOf(file.lines, expected)
               /\ \/ <<f[1], file.tag>> \in failed \cup cutOff
                  \/ IsOpen(f)
                  \/ file.header /\ Matches(file.lines, expected)
    <3>1. PICK q : /\ Tally(q, Among(ended, f[1], file.tag)) /\ Part(file.lines, q)
                   /\ <<f[1], file.tag>> \in failed \cup cutOff \/ IsOpen(f) \/ Done(file, q)
      BY <2>1 DEF StatsInv, AuditInv, Disk
    <3>2. Matches(q, expected)
      BY <2>1, <3>1, RecordedIs, TallyMatches
    <3>3. \A b \in DOMAIN q : q[b] \in expected
      BY <3>2 DEF Matches, ToSet
    <3>4. PartOf(file.lines, expected)
      BY <3>1, <3>3, Zenon DEF Part, PartOf
    <3>5. Done(file, q) => file.header /\ Matches(file.lines, expected)
      BY <3>2 DEF Done
    <3>6. QED
      BY <3>1, <3>4, <3>5
  <2>2. QED
    BY <2>1, Zenon DEF FilesTruthful
<1>2. QED
  BY <1>1, AuditInvariance, PTL

=============================================================================
