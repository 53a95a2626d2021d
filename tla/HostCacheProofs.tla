--------------------------- MODULE HostCacheProofs ---------------------------
(***************************************************************************)
(* Proofs about HostCache, for any hosts, threads, list size and age: what *)
(* the erase-while-iterating loop makes of any list, and from that what a  *)
(* lookup and a clear do whichever threads run.                            *)
(***************************************************************************)
EXTENDS HostCache, WellFoundedInduction, FiniteSetTheorems, TLAPS

-----------------------------------------------------------------------------
(* The loop is a recursive function.  That there is one is shown by counting *)
(* the turns it may take: none at the end of the list, and otherwise fewer   *)
(* after each turn, whether it erases or goes on.                            *)

\* The set of the numbers that satisfy a predicate stands for the predicate.
LEMMA InductionOnNat ==
    ASSUME NEW B, 0 \in B, \A n \in Nat : n \in B => n + 1 \in B
    PROVE  Nat \subseteq B
<1> SUFFICES ASSUME Nat \ B # {} PROVE FALSE
  OBVIOUS
<1> DEFINE R == {p \in Nat \X Nat : p[1] < p[2]}
<1>1. IsWellFoundedOn(R, Nat)
  BY NatLessThanWellFounded, Zenon DEF OpToRel
<1> HIDE DEF R
<1>2. PICK x \in Nat \ B : \A y \in Nat \ B : ~ (<<y, x>> \in R)
  BY <1>1, WFMin
<1>3. x # 0 /\ x - 1 \in Nat /\ (x - 1) + 1 = x /\ <<x - 1, x>> \in R
  BY <1>2 DEF R
<1>4. x - 1 \in B
  BY <1>2, <1>3
<1>5. QED
  BY <1>2, <1>3, <1>4

States == [list : Seq(HostInfo), it : Nat \ {0}, results : Seq(HostInfo)]
Turns(s) == IF s.it > Len(s.list) THEN 0 ELSE (Len(s.list) + 1) * (Len(s.list) + 1) - s.it
Loop(erase, take) ==
    CHOOSE loop : loop = [s \in States |->
        IF s.it > Len(s.list) THEN s ELSE loop[SweepStep(s, erase, take)]]

LEMMA SweepIsLoop ==
    \A list, erase, take : Sweep(list, erase, take)
        = Loop(erase, take)[[list |-> list, it |-> 1, results |-> <<>>]]
BY Zenon DEF Sweep, Loop, States

LEMMA RemoveAtFacts ==
    ASSUME NEW S, NEW l \in Seq(S), NEW k \in 1 .. Len(l)
    PROVE  /\ RemoveAt(l, k) \in Seq(S)
           /\ Len(RemoveAt(l, k)) = Len(l) - 1
           /\ \A i \in 1 .. Len(l) - 1 : RemoveAt(l, k)[i] = IF i < k THEN l[i] ELSE l[i + 1]
<1> DEFINE u == SubSeq(l, 1, k - 1)
           v == SubSeq(l, k + 1, Len(l))
<1>1. u \in Seq(S) /\ Len(u) = k - 1 /\ \A i \in 1 .. k - 1 : u[i] = l[i]
  OBVIOUS
<1>2. v \in Seq(S) /\ Len(v) = Len(l) - k /\ \A i \in 1 .. Len(l) - k : v[i] = l[k + i]
  OBVIOUS
<1>3. RemoveAt(l, k) = u \o v
  BY DEF RemoveAt
<1> HIDE DEF u, v
<1>4. u \o v \in Seq(S) /\ Len(u \o v) = Len(u) + Len(v)
  <2>1. u \in Seq(S) /\ v \in Seq(S)
    BY <1>1, <1>2
  <2>2. QED
    BY <2>1
<1>5. \A i \in 1 .. Len(u) + Len(v) : (u \o v)[i] = IF i <= Len(u) THEN u[i] ELSE v[i - Len(u)]
  BY <1>1, <1>2
<1>6. ASSUME NEW i \in 1 .. Len(l) - 1 PROVE RemoveAt(l, k)[i] = IF i < k THEN l[i] ELSE l[i + 1]
  <2>1. RemoveAt(l, k)[i] = IF i <= k - 1 THEN u[i] ELSE v[i - (k - 1)]
    BY <1>1, <1>2, <1>3, <1>5
  <2>2. CASE i < k
    BY <1>1, <2>1, <2>2
  <2>3. CASE ~ (i < k)
    <3>1. i - (k - 1) \in 1 .. Len(l) - k /\ k + (i - (k - 1)) = i + 1
      BY <2>3
    <3>2. QED
      BY <1>2, <2>1, <2>3, <3>1
  <2>4. QED
    BY <2>2, <2>3
<1>7. QED
  BY <1>1, <1>2, <1>3, <1>4, <1>6

LEMMA Squares ==
    ASSUME NEW n \in Nat, NEW i \in Nat, i <= n
    PROVE  /\ (n + 1) * (n + 1) - i \in Nat
           /\ n * n < (n + 1) * (n + 1) - i
           /\ 0 < (n + 1) * (n + 1) - i
<1>1. (n + 1) * (n + 1) - i = n * n + 1 + n + (n - i)
  OBVIOUS
<1>2. PICK q \in Nat : q = n * n
  OBVIOUS
<1>3. QED
  BY <1>1, <1>2

LEMMA TurnsNat == \A s \in States : Turns(s) \in Nat
<1> SUFFICES ASSUME NEW s \in States PROVE Turns(s) \in Nat
  OBVIOUS
<1>1. PICK n \in Nat, i \in Nat : n = Len(s.list) /\ i = s.it
  BY DEF States
<1>2. CASE i <= n
  BY <1>1, <1>2, Squares DEF Turns
<1>3. QED
  BY <1>1, <1>2 DEF Turns

LEMMA TurnsFall ==
    ASSUME NEW erase, NEW take, NEW s \in States, ~ (s.it > Len(s.list))
    PROVE  /\ SweepStep(s, erase, take) \in States
           /\ Turns(SweepStep(s, erase, take)) \in Nat
           /\ Turns(s) \in Nat
           /\ Turns(SweepStep(s, erase, take)) < Turns(s)
<1> DEFINE n == Len(s.list)
           t == SweepStep(s, erase, take)
<1>1. s.list \in Seq(HostInfo) /\ s.it \in 1 .. n /\ s.results \in Seq(HostInfo) /\ n \in Nat
  BY DEF States
<1>2. s.list[s.it] \in HostInfo
  BY <1>1
<1>3. RemoveAt(s.list, s.it) \in Seq(HostInfo) /\ Len(RemoveAt(s.list, s.it)) = n - 1
  BY <1>1, RemoveAtFacts
<1>4. t \in States
  BY <1>1, <1>2, <1>3 DEF States, SweepStep
<1>5. PICK c \in Nat, i \in Nat : c = n /\ i = s.it /\ 1 <= i /\ i <= c
  BY <1>1
<1>6. PICK t1 \in Nat : t1 = t.it
  BY <1>4 DEF States
<1>7. Turns(s) = (c + 1) * (c + 1) - i /\ 0 < Turns(s)
  BY <1>5, Squares DEF Turns
<1>8. CASE t1 > Len(t.list)
  BY <1>4, <1>6, <1>7, <1>8, TurnsNat DEF Turns
<1>9. CASE s.list[s.it] \in erase /\ ~ (t1 > Len(t.list))
  <2>1. Len(t.list) = c - 1
    BY <1>3, <1>5, <1>9 DEF SweepStep
  <2>2. Turns(t) = c * c - t1 /\ t1 <= c
    BY <1>5, <1>6, <1>9, <2>1 DEF Turns
  <2>3. PICK q \in Nat : q = c * c /\ q < (c + 1) * (c + 1) - i
    BY <1>5, Squares
  <2>4. q - t1 <= q
    OBVIOUS
  <2>5. Turns(t) \in Nat /\ Turns(s) \in Nat
    BY <1>4, TurnsNat
  <2>6. QED
    BY <1>4, <1>7, <2>2, <2>3, <2>4, <2>5
<1>10. CASE s.list[s.it] \notin erase /\ ~ (t1 > Len(t.list))
  <2>1. t.list = s.list /\ t1 = i + 1
    BY <1>5, <1>6, <1>10 DEF SweepStep
  <2>2. Turns(t) = (c + 1) * (c + 1) - t1
    BY <1>5, <1>6, <1>10, <2>1 DEF Turns
  <2>3. PICK q \in Nat : q = (c + 1) * (c + 1)
    BY <1>5
  <2>4. q - (i + 1) < q - i
    OBVIOUS
  <2>5. Turns(t) \in Nat /\ Turns(s) \in Nat
    BY <1>4, TurnsNat
  <2>6. QED
    BY <1>4, <1>7, <2>1, <2>2, <2>3, <2>4, <2>5
<1>11. QED
  BY <1>8, <1>9, <1>10

LEMMA LoopExists ==
    ASSUME NEW erase, NEW take
    PROVE  \E g \in [States -> States] :
             g = [s \in States |-> IF s.it > Len(s.list) THEN s ELSE g[SweepStep(s, erase, take)]]
<1> DEFINE Upto(n) == {s \in States : Turns(s) <= n}
           After(s) == SweepStep(s, erase, take)
           Ended(s) == s.it > Len(s.list)
           Unfolds(g, s) == g[s] = IF Ended(s) THEN s ELSE g[After(s)]
           Loops(n) == {g \in [Upto(n) -> States] : \A s \in Upto(n) : Unfolds(g, s)}
           B == {n \in Nat : Loops(n) # {}}
           C == {n \in Nat : \A a \in Nat, b \in Nat : \A g \in Loops(a), h \in Loops(b) :
                                \A s \in Upto(n) : Turns(s) <= a /\ Turns(s) <= b => g[s] = h[s]}
<1>0. \A s \in States : Turns(s) \in Nat
  BY TurnsNat
<1>1. \A s \in States : ~ Ended(s) => After(s) \in States /\ Turns(After(s)) < Turns(s)
  BY TurnsFall
<1>2. \A s \in States : Turns(s) = 0 => Ended(s)
  BY <1>0, <1>1
<1> HIDE DEF After, Ended
\* There is a function for the states from which up to n turns are left, ...
<1>3. 0 \in B
  <2> DEFINE g == [s \in Upto(0) |-> s]
  <2>1. g \in Loops(0)
    BY <1>0, <1>2
  <2>2. QED
    BY <2>1
<1>4. ASSUME NEW n \in Nat, n \in B PROVE n + 1 \in B
  <2>1. PICK g : g \in Loops(n)
    BY <1>4
  <2> DEFINE h == [s \in Upto(n + 1) |-> IF Ended(s) THEN s ELSE g[After(s)]]
  <2>2. \A s \in Upto(n + 1) : ~ Ended(s) => After(s) \in Upto(n)
    BY <1>0, <1>1
  <2>3. h \in [Upto(n + 1) -> States]
    BY <2>1, <2>2
  <2>4. \A s \in Upto(n) : s \in Upto(n + 1) /\ h[s] = g[s]
    BY <1>0, <2>1
  <2>5. \A s \in Upto(n + 1) : Unfolds(h, s)
    BY <2>2, <2>4
  <2> HIDE DEF h, Upto, Unfolds
  <2>6. h \in Loops(n + 1)
    BY <2>3, <2>5
  <2>7. QED
    BY <2>6
\* ... and two of them agree where both are defined.
<1>5. 0 \in C
  BY <1>0, <1>2
<1>6. ASSUME NEW n \in Nat, n \in C PROVE n + 1 \in C
  <2> SUFFICES ASSUME NEW a \in Nat, NEW b \in Nat, NEW g \in Loops(a), NEW h \in Loops(b),
                      NEW s \in Upto(n + 1), Turns(s) <= a, Turns(s) <= b
               PROVE  g[s] = h[s]
    OBVIOUS
  <2>1. s \in States /\ s \in Upto(a) /\ s \in Upto(b) /\ Turns(s) \in Nat
    BY <1>0
  <2>2. Unfolds(g, s) /\ Unfolds(h, s)
    BY <2>1
  <2>3. CASE Ended(s)
    BY <2>2, <2>3
  <2>4. CASE ~ Ended(s)
    <3>1. After(s) \in States /\ Turns(After(s)) \in Nat /\ Turns(After(s)) < Turns(s)
      BY <1>0, <1>1, <2>1, <2>4
    <3>2. After(s) \in Upto(n) /\ Turns(After(s)) <= a /\ Turns(After(s)) <= b
      BY <2>1, <3>1
    <3>3. g[After(s)] = h[After(s)]
      <4> HIDE DEF Loops, Upto
      <4>1. QED
        BY <1>6, <3>2
    <3>4. QED
      BY <2>2, <2>4, <3>3
  <2>5. QED
    BY <2>3, <2>4
<1>7. Nat \subseteq B /\ Nat \subseteq C
  <2> HIDE DEF B, C
  <2>1. QED
    BY <1>3, <1>4, <1>5, <1>6, InductionOnNat
\* The value at a state is the one that the function for its turns gives it.
<1> DEFINE G == [n \in Nat |-> CHOOSE g : g \in Loops(n)]
           f == [s \in States |-> G[Turns(s)][s]]
<1>8. \A n \in Nat : G[n] \in Loops(n)
  <2> HIDE DEF Loops
  <2>1. QED
    BY <1>7
<1>9. f \in [States -> States]
  <2>1. ASSUME NEW s \in States PROVE G[Turns(s)][s] \in States
    <3>1. Turns(s) \in Nat /\ s \in Upto(Turns(s))
      BY <1>0
    <3>2. G[Turns(s)] \in [Upto(Turns(s)) -> States]
      BY <1>8, <3>1
    <3> HIDE DEF G, Upto
    <3>3. QED
      BY <3>1, <3>2
  <2> HIDE DEF G
  <2>2. QED
    BY <2>1
<1>10. ASSUME NEW s \in States PROVE f[s] = IF Ended(s) THEN s ELSE f[After(s)]
  <2>1. Turns(s) \in Nat /\ s \in Upto(Turns(s)) /\ f[s] = G[Turns(s)][s]
    BY <1>0
  <2>2. Unfolds(G[Turns(s)], s)
    BY <1>8, <2>1
  <2>3. CASE Ended(s)
    BY <2>1, <2>2, <2>3
  <2>4. CASE ~ Ended(s)
    <3>1. After(s) \in States /\ Turns(After(s)) \in Nat /\ Turns(After(s)) < Turns(s)
      BY <1>0, <1>1, <2>4
    <3>2. After(s) \in Upto(Turns(After(s))) /\ Turns(After(s)) <= Turns(After(s))
                                             /\ Turns(After(s)) <= Turns(s)
      BY <2>1, <3>1
    <3>3. PICK g, h : g = G[Turns(s)] /\ h = G[Turns(After(s))]
      OBVIOUS
    <3>4. g \in Loops(Turns(s)) /\ h \in Loops(Turns(After(s)))
      BY <1>8, <2>1, <3>1, <3>3
    <3>5. g[After(s)] = h[After(s)]
      <4>1. Turns(After(s)) \in C
        BY <1>7, <3>1
      <4> HIDE DEF Loops, Upto
      <4>2. QED
        BY <2>1, <3>1, <3>2, <3>4, <4>1
    <3>6. f[After(s)] = h[After(s)]
      <4> HIDE DEF G
      <4>1. QED
        BY <3>1, <3>3
    <3>7. QED
      BY <2>1, <2>2, <2>4, <3>3, <3>5, <3>6
  <2>5. QED
    BY <2>3, <2>4
<1> HIDE DEF f
<1>11. PICK ff : ff = f
  OBVIOUS
<1>12. ff \in [States -> States] /\ \A s \in States : ff[s] = IF Ended(s) THEN s ELSE ff[After(s)]
  BY <1>9, <1>10, <1>11
<1>13. ff = [s \in States |-> IF Ended(s) THEN s ELSE ff[After(s)]]
  BY <1>12
<1>14. QED
  BY <1>12, <1>13 DEF Ended, After

LEMMA LoopUnfolds ==
    ASSUME NEW erase, NEW take, NEW s \in States
    PROVE  Loop(erase, take)[s]
             = IF s.it > Len(s.list) THEN s ELSE Loop(erase, take)[SweepStep(s, erase, take)]
<1> DEFINE Unfolds(g) ==
             g = [x \in States |-> IF x.it > Len(x.list) THEN x ELSE g[SweepStep(x, erase, take)]]
<1>1. \E g : Unfolds(g)
  <2>1. PICK g \in [States -> States] : Unfolds(g)
    BY LoopExists
  <2> HIDE DEF Unfolds
  <2>2. QED
    BY <2>1
<1>2. Loop(erase, take) = CHOOSE g : Unfolds(g)
  BY DEF Loop
<1> HIDE DEF Unfolds
<1>3. Unfolds(Loop(erase, take))
  BY <1>1, <1>2
<1>4. PICK g : g = Loop(erase, take)
  OBVIOUS
<1>5. g = [x \in States |-> IF x.it > Len(x.list) THEN x ELSE g[SweepStep(x, erase, take)]]
  BY <1>3, <1>4 DEF Unfolds
<1>6. g[s] = IF s.it > Len(s.list) THEN s ELSE g[SweepStep(s, erase, take)]
  BY <1>5
<1>7. QED
  BY <1>4, <1>6

-----------------------------------------------------------------------------
(* What one turn does, and what the turns do together. *)

LEMMA LeftOfItself ==
    ASSUME NEW E, NEW l \in Seq(E), NEW S
    PROVE  LeftOf(l, l, S)
<1> DEFINE at == [i \in 1 .. Len(l) |-> i]
<1>1. at \in [1 .. Len(l) -> 1 .. Len(l)]
  OBVIOUS
<1>2. QED
  BY <1>1 DEF LeftOf

LEMMA LeftOfTransitive ==
    ASSUME NEW E, NEW a \in Seq(E), NEW b \in Seq(E), NEW c \in Seq(E), NEW S,
           LeftOf(b, a, S), LeftOf(c, b, S)
    PROVE  LeftOf(c, a, S)
<1>1. PICK f \in [1 .. Len(b) -> 1 .. Len(a)] :
        /\ \A i, j \in 1 .. Len(b) : i < j => f[i] < f[j]
        /\ \A i \in 1 .. Len(b) : b[i] = a[f[i]]
        /\ \A k \in 1 .. Len(a) : a[k] \in S \/ \E i \in 1 .. Len(b) : f[i] = k
  BY DEF LeftOf
<1>2. PICK g \in [1 .. Len(c) -> 1 .. Len(b)] :
        /\ \A i, j \in 1 .. Len(c) : i < j => g[i] < g[j]
        /\ \A i \in 1 .. Len(c) : c[i] = b[g[i]]
        /\ \A k \in 1 .. Len(b) : b[k] \in S \/ \E i \in 1 .. Len(c) : g[i] = k
  BY DEF LeftOf
<1> DEFINE at == [i \in 1 .. Len(c) |-> f[g[i]]]
<1>3. at \in [1 .. Len(c) -> 1 .. Len(a)]
  BY <1>1, <1>2
<1>4. \A i, j \in 1 .. Len(c) : i < j => at[i] < at[j]
  BY <1>1, <1>2
<1>5. \A i \in 1 .. Len(c) : c[i] = a[at[i]]
  BY <1>1, <1>2
<1>6. ASSUME NEW k \in 1 .. Len(a), a[k] \notin S PROVE \E i \in 1 .. Len(c) : at[i] = k
  <2>1. PICK j \in 1 .. Len(b) : f[j] = k
    BY <1>1, <1>6
  <2>2. b[j] \notin S
    BY <1>1, <1>6, <2>1
  <2>3. PICK i \in 1 .. Len(c) : g[i] = j
    BY <1>2, <2>2
  <2>4. QED
    BY <2>1, <2>3
<1> HIDE DEF at
<1>7. QED
  BY <1>3, <1>4, <1>5, <1>6 DEF LeftOf

LEMMA LeftOfRemoveAt ==
    ASSUME NEW E, NEW l \in Seq(E), NEW k \in 1 .. Len(l), NEW S, l[k] \in S
    PROVE  LeftOf(RemoveAt(l, k), l, S)
<1> DEFINE at == [i \in 1 .. Len(l) - 1 |-> IF i < k THEN i ELSE i + 1]
<1>1. Len(RemoveAt(l, k)) = Len(l) - 1
      /\ \A i \in 1 .. Len(l) - 1 : RemoveAt(l, k)[i] = IF i < k THEN l[i] ELSE l[i + 1]
  BY RemoveAtFacts
<1>2. at \in [1 .. Len(l) - 1 -> 1 .. Len(l)]
  OBVIOUS
<1>3. \A i, j \in 1 .. Len(l) - 1 : i < j => at[i] < at[j]
  OBVIOUS
<1>4. \A i \in 1 .. Len(l) - 1 : RemoveAt(l, k)[i] = l[at[i]]
  BY <1>1
<1>5. ASSUME NEW j \in 1 .. Len(l), l[j] \notin S PROVE \E i \in 1 .. Len(l) - 1 : at[i] = j
  <2>1. j # k
    BY <1>5
  <2>2. CASE j < k
    <3>1. j \in 1 .. Len(l) - 1 /\ at[j] = j
      BY <2>2
    <3>2. QED
      BY <3>1
  <2>3. CASE j > k
    <3>1. j - 1 \in 1 .. Len(l) - 1 /\ at[j - 1] = j
      BY <2>3
    <3>2. QED
      BY <3>1
  <2>4. QED
    BY <2>1, <2>2, <2>3
<1> HIDE DEF at
<1>6. PICK r, n : r = RemoveAt(l, k) /\ n = Len(r) /\ n = Len(l) - 1
  BY <1>1
<1>7. /\ at \in [1 .. n -> 1 .. Len(l)]
      /\ \A i, j \in 1 .. n : i < j => at[i] < at[j]
      /\ \A i \in 1 .. n : r[i] = l[at[i]]
      /\ \A j \in 1 .. Len(l) : l[j] \in S \/ \E i \in 1 .. n : at[i] = j
  BY <1>2, <1>3, <1>4, <1>5, <1>6
<1>8. LeftOf(r, l, S)
  BY <1>6, <1>7 DEF LeftOf
<1>9. QED
  BY <1>6, <1>8

\* The places of the entries of S, and of those before the iterator.
Places(l, S) == {i \in 1 .. Len(l) : l[i] \in S}
Passed(s, S) == {i \in Places(s.list, S) : i < s.it}

LEMMA PlacesFinite ==
    ASSUME NEW E, NEW l \in Seq(E), NEW S
    PROVE  \A T \in SUBSET Places(l, S) : IsFiniteSet(T) /\ Cardinality(T) \in Nat
<1>1. IsFiniteSet(1 .. Len(l))
  BY FS_Interval
<1>2. \A T \in SUBSET Places(l, S) : IsFiniteSet(T)
  BY <1>1, FS_Subset DEF Places
<1>3. QED
  BY <1>2, FS_CardinalityType

LEMMA CountIsPlaces == \A l, S : Count(l, S) = Cardinality(Places(l, S))
BY DEF Count, Places

LEMMA ErasingCounts ==
    ASSUME NEW E, NEW l \in Seq(E), NEW k \in 1 .. Len(l), NEW S, l[k] \in S
    PROVE  Count(RemoveAt(l, k), S) = Count(l, S) - 1
<1> DEFINE r == RemoveAt(l, k)
           f == [i \in Places(r, S) |-> IF i < k THEN i ELSE i + 1]
<1>1. Len(r) = Len(l) - 1 /\ \A i \in 1 .. Len(l) - 1 : r[i] = IF i < k THEN l[i] ELSE l[i + 1]
  BY RemoveAtFacts
<1>2. f \in [Places(r, S) -> Places(l, S) \ {k}]
  <2>1. ASSUME NEW i \in Places(r, S) PROVE (IF i < k THEN i ELSE i + 1) \in Places(l, S) \ {k}
    <3>1. i \in 1 .. Len(l) - 1 /\ r[i] \in S
      BY <1>1 DEF Places
    <3>2. CASE i < k
      BY <1>1, <3>1, <3>2 DEF Places
    <3>3. CASE ~ (i < k)
      <4>1. l[i + 1] \in S /\ i + 1 \in 1 .. Len(l) /\ i + 1 # k
        BY <1>1, <3>1, <3>3
      <4>2. QED
        BY <3>3, <4>1 DEF Places
    <3>4. QED
      BY <3>2, <3>3
  <2>2. QED
    BY <2>1
<1>3. \A i, j \in Places(r, S) : f[i] = f[j] => i = j
  BY DEF Places
<1>4. ASSUME NEW j \in Places(l, S) \ {k} PROVE \E i \in Places(r, S) : f[i] = j
  <2>1. CASE j < k
    <3>1. j \in Places(r, S) /\ f[j] = j
      BY <1>1, <2>1 DEF Places
    <3>2. QED
      BY <3>1
  <2>2. CASE j > k
    <3>1. j - 1 \in 1 .. Len(l) - 1 /\ ~ (j - 1 < k) /\ (j - 1) + 1 = j
      BY <2>2 DEF Places
    <3>2. j - 1 \in Places(r, S) /\ f[j - 1] = j
      BY <1>1, <3>1 DEF Places
    <3>3. QED
      BY <3>2
  <2>3. QED
    BY <2>1, <2>2 DEF Places
<1> HIDE DEF f
<1>5. f \in Bijection(Places(r, S), Places(l, S) \ {k})
  BY <1>2, <1>3, <1>4 DEF Bijection, Injection, Surjection, IsInjective
<1>6. IsFiniteSet(Places(l, S)) /\ k \in Places(l, S) /\ Cardinality(Places(l, S)) \in Nat
  BY PlacesFinite DEF Places
<1>7. r \in Seq(E)
  BY RemoveAtFacts
<1>8. IsFiniteSet(Places(r, S))
  BY <1>7, PlacesFinite
<1>9. Cardinality(Places(l, S) \ {k}) = Cardinality(Places(r, S))
  BY <1>5, <1>8, FS_Bijection DEF ExistsBijection
<1>10. Cardinality(Places(l, S) \ {k}) = Cardinality(Places(l, S)) - 1
  BY <1>6, FS_RemoveElement
<1>11. QED
  BY <1>9, <1>10, CountIsPlaces

\* What is promised of the state at the end of the loop, seen from any turn.
Taken(s, erase, take) == \A i \in 1 .. Len(s.results) : s.results[i] \in take \ erase
Promise(s, out, erase, take) ==
    /\ out \in States
    /\ LeftOf(out.list, s.list, erase)
    /\ Len(out.list) <= Len(s.list)
    /\ 2 * Count(out.list, erase) <= Cardinality(Passed(s, erase)) + Count(s.list, erase)
    /\ Taken(s, erase, take) => Taken(out, erase, take)

LEMMA PromiseAtEnd ==
    ASSUME NEW erase, NEW take, NEW s \in States, s.it > Len(s.list)
    PROVE  Promise(s, s, erase, take)
<1>1. s.list \in Seq(HostInfo) /\ s.it \in Nat
  BY DEF States
<1>2. Passed(s, erase) = Places(s.list, erase)
  BY <1>1 DEF Passed, Places
<1>3. Count(s.list, erase) \in Nat
  BY <1>1, PlacesFinite, CountIsPlaces
<1>4. LeftOf(s.list, s.list, erase)
  BY <1>1, LeftOfItself
<1>5. QED
  BY <1>1, <1>2, <1>3, <1>4, CountIsPlaces DEF Promise

LEMMA PromiseOfTurn ==
    ASSUME NEW erase, NEW take, NEW s \in States, ~ (s.it > Len(s.list))
    PROVE  LET t == SweepStep(s, erase, take)
           IN  /\ LeftOf(t.list, s.list, erase)
               /\ Len(t.list) <= Len(s.list)
               /\ Cardinality(Passed(t, erase)) + Count(t.list, erase)
                    <= Cardinality(Passed(s, erase)) + Count(s.list, erase)
               /\ Taken(s, erase, take) => Taken(t, erase, take)
<1> DEFINE t == SweepStep(s, erase, take)
<1>1. PICK l \in Seq(HostInfo), k \in Nat : l = s.list /\ k = s.it /\ k \in 1 .. Len(l)
  BY DEF States
<1>2. s.results \in Seq(HostInfo) /\ l[k] \in HostInfo
  BY <1>1 DEF States
<1>3. IsFiniteSet(Passed(s, erase)) /\ Cardinality(Passed(s, erase)) \in Nat
      /\ Count(l, erase) \in Nat
  BY <1>1, PlacesFinite, CountIsPlaces DEF Passed
<1>4. CASE l[k] \in erase
  <2>1. t.list = RemoveAt(l, k) /\ t.results = s.results
        /\ t.it = IF k > Len(RemoveAt(l, k)) THEN 1 ELSE k + 1
    BY <1>1, <1>4 DEF SweepStep
  <2>2. RemoveAt(l, k) \in Seq(HostInfo) /\ Len(RemoveAt(l, k)) = Len(l) - 1
        /\ \A i \in 1 .. Len(l) - 1 : RemoveAt(l, k)[i] = IF i < k THEN l[i] ELSE l[i + 1]
    BY RemoveAtFacts, <1>1
  <2>3. LeftOf(t.list, s.list, erase)
    BY <1>1, <1>4, <2>1, LeftOfRemoveAt
  <2>4. Count(t.list, erase) = Count(l, erase) - 1
    BY <1>1, <1>4, <2>1, ErasingCounts
  <2>5. Passed(t, erase) \subseteq Passed(s, erase) \cup {k}
    <3> SUFFICES ASSUME NEW i \in Passed(t, erase), i # k PROVE i \in Passed(s, erase)
      OBVIOUS
    <3>1. i \in 1 .. Len(l) - 1 /\ RemoveAt(l, k)[i] \in erase /\ i < t.it
      BY <2>1, <2>2 DEF Passed, Places
    <3>2. i < k
      BY <1>1, <2>1, <3>1
    <3>3. i \in 1 .. Len(l) /\ l[i] \in erase
      BY <2>2, <3>1, <3>2
    <3>4. QED
      BY <1>1, <3>2, <3>3 DEF Passed, Places
  <2>6. IsFiniteSet(Passed(s, erase) \cup {k})
        /\ Cardinality(Passed(s, erase) \cup {k}) <= Cardinality(Passed(s, erase)) + 1
    <3>1. PICK P : P = Passed(s, erase)
      OBVIOUS
    <3>2. IsFiniteSet(P) /\ Cardinality(P) \in Nat
      BY <1>3, <3>1
    <3>3. /\ IsFiniteSet(P \cup {k})
          /\ Cardinality(P \cup {k}) = IF k \in P THEN Cardinality(P) ELSE Cardinality(P) + 1
      BY <3>2, FS_AddElement
    <3>4. QED
      BY <3>1, <3>2, <3>3
  <2>7. Cardinality(Passed(t, erase)) <= Cardinality(Passed(s, erase) \cup {k})
    BY <2>5, <2>6, FS_Subset
  <2>8. Cardinality(Passed(t, erase)) \in Nat /\ Cardinality(Passed(s, erase) \cup {k}) \in Nat
    BY <2>5, <2>6, FS_Subset, FS_CardinalityType
  <2>9. Taken(s, erase, take) => Taken(t, erase, take)
    BY <2>1 DEF Taken
  <2>10. QED
    BY <1>1, <1>3, <2>1, <2>2, <2>3, <2>4, <2>6, <2>7, <2>8, <2>9
<1>5. CASE l[k] \notin erase
  <2>1. t.list = l /\ t.it = k + 1
        /\ t.results = IF l[k] \in take THEN Append(s.results, l[k]) ELSE s.results
    BY <1>1, <1>5 DEF SweepStep
  <2>2. Passed(t, erase) = Passed(s, erase)
    BY <1>1, <1>5, <2>1 DEF Passed, Places
  <2>3. LeftOf(t.list, s.list, erase)
    BY <1>1, <2>1, LeftOfItself
  <2>4. Taken(s, erase, take) => Taken(t, erase, take)
    BY <1>2, <1>5, <2>1 DEF Taken
  <2>5. QED
    BY <1>1, <1>3, <2>1, <2>2, <2>3, <2>4
<1>6. QED
  BY <1>4, <1>5

LEMMA LoopKeepsPromise ==
    ASSUME NEW erase, NEW take
    PROVE  \A s \in States : Promise(s, Loop(erase, take)[s], erase, take)
<1> DEFINE out(s) == Loop(erase, take)[s]
           B == {n \in Nat : \A s \in States : Turns(s) <= n => Promise(s, out(s), erase, take)}
<1>1. \A s \in States : out(s) = IF s.it > Len(s.list) THEN s ELSE out(SweepStep(s, erase, take))
  BY LoopUnfolds
<1> HIDE DEF out
<1>2. \A s \in States : s.it > Len(s.list) => Promise(s, out(s), erase, take)
  BY <1>1, PromiseAtEnd
<1>3. \A s \in States : Turns(s) <= 0 => s.it > Len(s.list)
  <2> SUFFICES ASSUME NEW s \in States, Turns(s) <= 0, ~ (s.it > Len(s.list)) PROVE FALSE
    OBVIOUS
  <2>1. Turns(SweepStep(s, erase, take)) \in Nat /\ Turns(SweepStep(s, erase, take)) < Turns(s)
        /\ Turns(s) \in Nat
    BY TurnsFall
  <2>2. QED
    BY <2>1
<1>4. 0 \in B
  BY <1>2, <1>3
<1>5. ASSUME NEW n \in Nat, n \in B PROVE n + 1 \in B
  <2> SUFFICES ASSUME NEW s \in States, Turns(s) <= n + 1, ~ (s.it > Len(s.list))
               PROVE  Promise(s, out(s), erase, take)
    BY <1>2
  <2>1. PICK t \in States : t = SweepStep(s, erase, take) /\ out(s) = out(t) /\ Turns(t) <= n
    <3>1. SweepStep(s, erase, take) \in States /\ Turns(SweepStep(s, erase, take)) < Turns(s)
          /\ Turns(SweepStep(s, erase, take)) \in Nat /\ Turns(s) \in Nat
      BY TurnsFall
    <3>2. QED
      BY <1>1, <3>1
  <2>2. Promise(t, out(t), erase, take)
    BY <1>5, <2>1
  <2>3. /\ LeftOf(t.list, s.list, erase)
        /\ Len(t.list) <= Len(s.list)
        /\ Cardinality(Passed(t, erase)) + Count(t.list, erase)
                    <= Cardinality(Passed(s, erase)) + Count(s.list, erase)
        /\ Taken(s, erase, take) => Taken(t, erase, take)
    BY <2>1, PromiseOfTurn
  <2>4. /\ s.list \in Seq(HostInfo) /\ t.list \in Seq(HostInfo)
        /\ out(t) \in States /\ out(t).list \in Seq(HostInfo)
    BY <2>2 DEF Promise, States
  <2>5. LeftOf(out(t).list, s.list, erase)
    BY <2>2, <2>3, <2>4, LeftOfTransitive DEF Promise
  <2>6. Len(out(t).list) <= Len(s.list)
    BY <2>2, <2>3, <2>4 DEF Promise
  <2>7. /\ Cardinality(Passed(s, erase)) \in Nat /\ Count(s.list, erase) \in Nat
        /\ Cardinality(Passed(t, erase)) \in Nat /\ Count(t.list, erase) \in Nat
        /\ Count(out(t).list, erase) \in Nat
    BY <2>4, PlacesFinite, CountIsPlaces DEF Passed
  <2>8. 2 * Count(out(t).list, erase) <= Cardinality(Passed(s, erase)) + Count(s.list, erase)
    <3>1. PICK o \in Nat, a \in Nat, b \in Nat, c \in Nat, d \in Nat :
            /\ o = Count(out(t).list, erase) /\ a = Cardinality(Passed(s, erase))
            /\ b = Count(s.list, erase) /\ c = Cardinality(Passed(t, erase))
            /\ d = Count(t.list, erase)
      BY <2>7
    <3>2. 2 * o <= c + d /\ c + d <= a + b
      BY <2>2, <2>3, <3>1 DEF Promise
    <3>3. 2 * o <= a + b
      BY <3>2
    <3>4. QED
      BY <3>1, <3>3
  <2>9. Taken(s, erase, take) => Taken(out(t), erase, take)
    BY <2>2, <2>3 DEF Promise
  <2>10. QED
    BY <2>1, <2>4, <2>5, <2>6, <2>8, <2>9 DEF Promise
<1>6. Nat \subseteq B
  <2> HIDE DEF B
  <2>1. QED
    BY <1>4, <1>5, InductionOnNat
<1>7. ASSUME NEW s \in States PROVE Promise(s, out(s), erase, take)
  <2>1. Turns(s) \in B /\ Turns(s) \in Nat
    BY <1>6, TurnsNat
  <2>2. QED
    BY <2>1
<1>8. QED
  BY <1>7 DEF out

\* The loop over any list ends; what is left is the list without some entries
\* of erase, of which at least half are gone, and the results are entries of
\* take that are not to be erased.
LEMMA SweepKeepsPromise ==
    ASSUME NEW l \in Seq(HostInfo), NEW erase, NEW take
    PROVE  /\ Sweep(l, erase, take).list \in Seq(HostInfo)
           /\ Sweep(l, erase, take).results \in Seq(HostInfo)
           /\ Len(Sweep(l, erase, take).list) <= Len(l)
           /\ LeftOf(Sweep(l, erase, take).list, l, erase)
           /\ 2 * Count(Sweep(l, erase, take).list, erase) <= Count(l, erase)
           /\ Taken(Sweep(l, erase, take), erase, take)
<1>0. <<>> \in Seq(HostInfo) /\ 1 \in Nat \ {0}
  OBVIOUS
<1>1. PICK s \in States : s = [list |-> l, it |-> 1, results |-> <<>>]
  BY <1>0 DEF States
<1>2. PICK out : out = Sweep(l, erase, take) /\ Promise(s, out, erase, take)
  BY <1>1, SweepIsLoop, LoopKeepsPromise
<1>3. Passed(s, erase) = {}
  BY <1>1 DEF Passed, Places
<1>4. Cardinality(Passed(s, erase)) = 0
  BY <1>3, FS_EmptySet
<1>5. Count(l, erase) \in Nat
  BY PlacesFinite, CountIsPlaces
<1>6. Taken(s, erase, take)
  BY <1>1 DEF Taken
<1>7. /\ out \in States /\ LeftOf(out.list, l, erase) /\ Len(out.list) <= Len(l)
      /\ 2 * Count(out.list, erase) <= Count(l, erase) /\ Taken(out, erase, take)
  BY <1>1, <1>2, <1>4, <1>5, <1>6 DEF Promise
<1>8. out.list \in Seq(HostInfo) /\ out.results \in Seq(HostInfo)
  BY <1>7 DEF States
<1>9. QED
  BY <1>2, <1>7, <1>8

-----------------------------------------------------------------------------
(* The cache and its workers. *)

\* What a worker keeps between its steps: the host it was given and, once it has
\* addresses, addresses of that host that were fresh when it got them.
Fetched ==
    \A w \in Workers :
        /\ connector[w].pc # "idle" => connector[w].host \in Hosts
        /\ connector[w].pc = "add" => Len(connector[w].hostAddresses) = 1
        /\ connector[w].pc \in {"add", "dial"} =>
             \A i \in 1 .. Len(connector[w].hostAddresses) :
                /\ connector[w].hostAddresses[i].url = connector[w].host
                /\ connector[w].at - connector[w].hostAddresses[i].Timestamp <= maxAge

CacheInv == TypeOK /\ Fetched

LEMMA RangeOfList ==
    ASSUME NEW E, NEW l \in Seq(E), NEW e
    PROVE  e \in Range(l) <=> \E i \in 1 .. Len(l) : e = l[i]
<1>1. DOMAIN l = 1 .. Len(l)
  OBVIOUS
<1>2. e \in Range(l) <=> \E i \in DOMAIN l : e = l[i]
  BY DEF Range
<1>3. QED
  BY <1>1, <1>2

\* What a lookup and a clear do to any list.
LEMMA LookupFacts ==
    ASSUME TypeOK, NEW h \in Hosts
    PROVE  /\ Lookup(h).list \in Seq(HostInfo) /\ Len(Lookup(h).list) <= maxCacheSize
           /\ Lookup(h).results \in Seq(HostInfo)
           /\ \A i \in 1 .. Len(Lookup(h).results) :
                /\ Lookup(h).results[i].url = h
                /\ clock - Lookup(h).results[i].Timestamp <= maxAge
<1>1. m_hostInfo \in Seq(HostInfo) /\ Len(m_hostInfo) <= maxCacheSize /\ clock \in 0 .. MaxClock
  BY DEF TypeOK
<1>2. PICK out, erase, take : /\ out = Lookup(h) /\ out = Sweep(m_hostInfo, erase, take)
                              /\ erase = {e \in Cached : Expired(e)} /\ take = CachedFor(h)
  BY DEF Lookup
<1>3. /\ out.list \in Seq(HostInfo) /\ out.results \in Seq(HostInfo)
      /\ Len(out.list) <= Len(m_hostInfo) /\ Taken(out, erase, take)
  BY <1>1, <1>2, SweepKeepsPromise
<1>4. Len(out.list) <= maxCacheSize
  BY <1>1, <1>3, BoundsAssumption
<1>5. ASSUME NEW i \in 1 .. Len(out.results)
      PROVE  out.results[i].url = h /\ clock - out.results[i].Timestamp <= maxAge
  <2>0. PICK e \in HostInfo : e = out.results[i]
    BY <1>3
  <2>1. e \in CachedFor(h) /\ ~ Expired(e)
    <3>1. e \in take /\ e \notin erase
      BY <1>3, <2>0 DEF Taken
    <3>2. QED
      BY <1>2, <3>1 DEF CachedFor
  <2>2. e.Timestamp \in Int /\ clock \in Int /\ maxAge \in Int
    BY <1>1, <2>1, BoundsAssumption DEF HostInfo
  <2>3. e.url = h /\ clock - e.Timestamp <= maxAge
    BY <2>1, <2>2 DEF CachedFor, Expired
  <2>4. QED
    BY <2>0, <2>3
<1>6. QED
  BY <1>2, <1>3, <1>4, <1>5

LEMMA PurgeFacts ==
    ASSUME TypeOK, NEW h
    PROVE  Purge(h) \in Seq(HostInfo) /\ Len(Purge(h)) <= maxCacheSize
<1>1. m_hostInfo \in Seq(HostInfo) /\ Len(m_hostInfo) <= maxCacheSize
  BY DEF TypeOK
<1>2. PICK out : out = Purge(h) /\ out \in Seq(HostInfo) /\ Len(out) <= Len(m_hostInfo)
  BY <1>1, SweepKeepsPromise DEF Purge
<1>3. QED
  BY <1>1, <1>2, BoundsAssumption

LEMMA PushFacts ==
    ASSUME TypeOK, NEW e \in HostInfo
    PROVE  PushBounded(e) \in Seq(HostInfo) /\ Len(PushBounded(e)) <= maxCacheSize
<1>1. m_hostInfo \in Seq(HostInfo) /\ Len(m_hostInfo) <= maxCacheSize /\ maxCacheSize \in Nat
  BY BoundsAssumption DEF TypeOK
<1>2. PICK l \in Seq(HostInfo) : l = Append(m_hostInfo, e) /\ Len(l) = Len(m_hostInfo) + 1
  <2>1. Append(m_hostInfo, e) \in Seq(HostInfo) /\ Len(Append(m_hostInfo, e)) = Len(m_hostInfo) + 1
    BY <1>1
  <2>2. QED
    BY <2>1
<1>3. CASE Len(l) > maxCacheSize
  <2>1. l # <<>>
    BY <1>1, <1>2
  <2>2. Tail(l) \in Seq(HostInfo) /\ Len(Tail(l)) = Len(l) - 1
    BY <1>2, <2>1
  <2>3. PushBounded(e) = Tail(l)
    BY <1>2, <1>3 DEF PushBounded
  <2>4. QED
    BY <1>1, <1>2, <2>2, <2>3
<1>4. CASE ~ (Len(l) > maxCacheSize)
  BY <1>1, <1>2, <1>4 DEF PushBounded
<1>5. QED
  BY <1>3, <1>4

LEMMA InitCache == Init => CacheInv
<1> SUFFICES ASSUME Init PROVE CacheInv
  OBVIOUS
<1>1. <<>> \in Seq(HostInfo) /\ 0 \in 0 .. MaxClock /\ 0 \in 0 .. MaxAnswers
      /\ Len(<<>>) <= maxCacheSize
  BY BoundsAssumption
<1>2. Idle \in [pc : {"idle", "query", "add", "dial", "clear"}, host : Hosts \cup {None},
                hostAddresses : Seq(HostInfo), at : 0 .. MaxClock]
  BY <1>1 DEF Idle
<1>3. TypeOK
  BY <1>1, <1>2 DEF Init, TypeOK
<1>4. Fetched
  BY DEF Init, Fetched, Idle
<1>5. QED
  BY <1>3, <1>4 DEF CacheInv

Connectors == [pc : {"idle", "query", "add", "dial", "clear"}, host : Hosts \cup {None},
               hostAddresses : Seq(HostInfo), at : 0 .. MaxClock]

\* What has to be shown of the worker that takes a step.
FetchedBy(c) ==
    /\ c \in Connectors
    /\ c.pc # "idle" => c.host \in Hosts
    /\ c.pc = "add" => Len(c.hostAddresses) = 1
    /\ c.pc \in {"add", "dial"} =>
         \A i \in 1 .. Len(c.hostAddresses) :
            c.hostAddresses[i].url = c.host /\ c.at - c.hostAddresses[i].Timestamp <= maxAge

LEMMA FetchedByEach == CacheInv => \A w \in Workers : FetchedBy(connector[w])
BY DEF CacheInv, TypeOK, Fetched, FetchedBy, Connectors

LEMMA IdleFetched == FetchedBy(Idle)
<1>1. <<>> \in Seq(HostInfo) /\ 0 \in 0 .. MaxClock
  BY BoundsAssumption
<1>2. QED
  BY <1>1 DEF Idle, FetchedBy, Connectors

LEMMA OneMoves ==
    ASSUME CacheInv, NEW w \in Workers, NEW c, FetchedBy(c),
           connector' = [connector EXCEPT ![w] = c],
           m_hostInfo' \in Seq(HostInfo), Len(m_hostInfo') <= maxCacheSize,
           clock' = clock, answers' \in 0 .. MaxAnswers
    PROVE  CacheInv'
<1>1. connector \in [Workers -> Connectors] /\ clock \in 0 .. MaxClock
  BY DEF CacheInv, TypeOK, Connectors
<1>2. c \in Connectors
  BY DEF FetchedBy
<1>3. connector' \in [Workers -> Connectors]
  BY <1>1, <1>2
<1>4. TypeOK'
  BY <1>1, <1>3 DEF TypeOK, Connectors
<1>5. \A v \in Workers : FetchedBy(connector'[v])
  <2>1. \A v \in Workers : connector'[v] = IF v = w THEN c ELSE connector[v]
    BY <1>1
  <2>2. QED
    BY <2>1, FetchedByEach
<1>6. Fetched'
  BY <1>5 DEF Fetched, FetchedBy
<1>7. QED
  BY <1>4, <1>6 DEF CacheInv

LEMMA StepCache == CacheInv /\ [Next]_vars => CacheInv'
<1> SUFFICES ASSUME CacheInv, [Next]_vars PROVE CacheInv'
  OBVIOUS
<1>0. /\ m_hostInfo \in Seq(HostInfo) /\ Len(m_hostInfo) <= maxCacheSize
      /\ clock \in 0 .. MaxClock /\ answers \in 0 .. MaxAnswers
      /\ connector \in [Workers -> Connectors] /\ TypeOK
  BY DEF CacheInv, TypeOK, Connectors
<1>1. CASE UNCHANGED vars
  BY <1>1 DEF vars, CacheInv, TypeOK, Fetched
<1>2. CASE Tick
  BY <1>2, BoundsAssumption DEF Tick, CacheInv, TypeOK, Fetched
<1>3. ASSUME NEW w \in Workers, WorkerStep(w) PROVE CacheInv'
  <2>0. FetchedBy(connector[w])
    BY FetchedByEach
  <2>1. CASE GetCachedResults(w)
    <3>1. PICK h \in Hosts :
            /\ m_hostInfo' = Lookup(h).list
            /\ Goto(w, IF Lookup(h).results = <<>> THEN "query" ELSE "dial", h, Lookup(h).results)
      BY <2>1 DEF GetCachedResults
    <3>2. PICK found : found = Lookup(h).results
      OBVIOUS
    <3>3. PICK c : c = [pc |-> IF found = <<>> THEN "query" ELSE "dial", host |-> h,
                        hostAddresses |-> found, at |-> clock]
      OBVIOUS
    <3>4. connector' = [connector EXCEPT ![w] = c]
      BY <3>1, <3>2, <3>3 DEF Goto
    <3>5. /\ m_hostInfo' \in Seq(HostInfo) /\ Len(m_hostInfo') <= maxCacheSize
          /\ found \in Seq(HostInfo)
          /\ \A i \in 1 .. Len(found) : found[i].url = h /\ clock - found[i].Timestamp <= maxAge
      BY <1>0, <3>1, <3>2, LookupFacts
    <3>6. FetchedBy(c)
      BY <1>0, <3>3, <3>5 DEF FetchedBy, Connectors
    <3>7. QED
      BY <1>0, <2>1, <3>4, <3>5, <3>6, OneMoves DEF GetCachedResults
  <2>2. CASE GetAddrInfoFails(w)
    BY <1>0, <2>2, IdleFetched, OneMoves DEF GetAddrInfoFails
  <2>3. CASE GetAddrInfo(w)
    <3>1. PICK e : e = [url |-> connector[w].host, address |-> answers + 1, Timestamp |-> clock]
      OBVIOUS
    <3>2. PICK c : c = [pc |-> "add", host |-> connector[w].host, hostAddresses |-> <<e>>,
                        at |-> clock]
      OBVIOUS
    <3>3. connector' = [connector EXCEPT ![w] = c]
      BY <2>3, <3>1, <3>2 DEF GetAddrInfo, Goto
    <3>4. connector[w].host \in Hosts /\ answers + 1 \in 1 .. MaxAnswers
      BY <1>0, <2>0, <2>3, BoundsAssumption DEF GetAddrInfo, FetchedBy
    <3>5. e \in HostInfo /\ e.url = connector[w].host /\ e.Timestamp = clock
      BY <1>0, <3>1, <3>4 DEF HostInfo
    <3>6. <<e>> \in Seq(HostInfo) /\ Len(<<e>>) = 1 /\ <<e>>[1] = e
      BY <3>5
    <3>7. clock - e.Timestamp <= maxAge
      BY <1>0, <3>5, BoundsAssumption
    <3>8. FetchedBy(c)
      BY <1>0, <3>2, <3>4, <3>5, <3>6, <3>7 DEF FetchedBy, Connectors
    <3>9. answers' \in 0 .. MaxAnswers /\ m_hostInfo' = m_hostInfo /\ clock' = clock
      BY <1>0, <2>3, BoundsAssumption DEF GetAddrInfo
    <3>10. QED
      BY <1>0, <3>3, <3>8, <3>9, OneMoves
  <2>4. CASE AddResult(w)
    <3>1. PICK c : c = [connector[w] EXCEPT !.pc = "dial"]
      OBVIOUS
    <3>2. connector[w] \in Connectors /\ Len(connector[w].hostAddresses) = 1
      BY <2>0, <2>4 DEF FetchedBy, AddResult
    <3>3. FetchedBy(c)
      BY <2>0, <2>4, <3>1, <3>2 DEF FetchedBy, Connectors, AddResult
    <3>4. connector[w].hostAddresses[1] \in HostInfo
      BY <3>2 DEF Connectors
    <3>5. m_hostInfo' \in Seq(HostInfo) /\ Len(m_hostInfo') <= maxCacheSize
      BY <1>0, <2>4, <3>4, PushFacts DEF AddResult
    <3>6. connector' = [connector EXCEPT ![w] = c]
      BY <1>0, <2>4, <3>1 DEF AddResult
    <3>7. QED
      BY <1>0, <2>4, <3>3, <3>5, <3>6, OneMoves DEF AddResult
  <2>5. CASE Connect(w)
    BY <1>0, <2>5, IdleFetched, OneMoves DEF Connect
  <2>6. CASE ConnectFails(w)
    <3>1. PICK c : c = [connector[w] EXCEPT !.pc = "clear"]
      OBVIOUS
    <3>2. FetchedBy(c)
      BY <2>0, <2>6, <3>1 DEF FetchedBy, Connectors, ConnectFails
    <3>3. connector' = [connector EXCEPT ![w] = c]
      BY <1>0, <2>6, <3>1 DEF ConnectFails
    <3>4. QED
      BY <1>0, <2>6, <3>2, <3>3, OneMoves DEF ConnectFails
  <2>7. CASE ClearCacheForHost(w)
    BY <1>0, <2>7, IdleFetched, PurgeFacts, OneMoves DEF ClearCacheForHost
  <2>8. QED
    BY <1>3, <2>1, <2>2, <2>3, <2>4, <2>5, <2>6, <2>7 DEF WorkerStep
<1>4. QED
  BY <1>1, <1>2, <1>3 DEF Next

LEMMA CacheInvariant == Spec => []CacheInv
BY InitCache, StepCache, PTL DEF Spec

\* Every variable keeps its type and the list is never longer than maxCacheSize,
\* whichever threads run AddResult, ClearCacheForHost and the lookups.
THEOREM CacheTypeOK == Spec => []TypeOK
BY CacheInvariant, PTL DEF CacheInv

\* asyncConnector dials only addresses of the host it was given that were not
\* expired when GetAddressesForHost returned them.
THEOREM CacheDialsFresh == Spec => []DialsFreshAddresses
<1>1. ASSUME CacheInv PROVE DialsFreshAddresses
  <2> SUFFICES ASSUME NEW w \in Workers, connector[w].pc = "dial",
                      NEW e \in Range(connector[w].hostAddresses)
               PROVE  e.url = connector[w].host /\ connector[w].at - e.Timestamp <= maxAge
    BY DEF DialsFreshAddresses
  <2>1. connector[w].hostAddresses \in Seq(HostInfo)
    BY <1>1, FetchedByEach DEF FetchedBy, Connectors
  <2>2. PICK i \in 1 .. Len(connector[w].hostAddresses) : e = connector[w].hostAddresses[i]
    BY <2>1, RangeOfList
  <2>3. QED
    BY <1>1, <2>2 DEF CacheInv, Fetched
<1>2. QED
  BY <1>1, CacheInvariant, PTL

\* The entries of the list that are in a set, and those of what is left of it.
LEMMA CountWithin ==
    ASSUME NEW b \in Seq(HostInfo), NEW l \in Seq(HostInfo), NEW T, NEW S, NEW C,
           LeftOf(l, b, T), \A e : e \in C <=> e \in Range(b) /\ e \in S
    PROVE  Count(l, S) = Count(l, C) /\ Count(b, S) = Count(b, C)
<1>1. \A i \in 1 .. Len(b) : b[i] \in Range(b)
  BY RangeOfList
<1>2. \A i \in 1 .. Len(l) : l[i] \in Range(b)
  BY <1>1 DEF LeftOf
<1>3. Places(l, S) = Places(l, C)
  BY <1>2 DEF Places
<1>4. Places(b, S) = Places(b, C)
  BY <1>1 DEF Places
<1>5. QED
  BY <1>3, <1>4, CountIsPlaces

LEMMA LeftOfMore ==
    ASSUME NEW a, NEW b, NEW S, NEW T, S \subseteq T, LeftOf(a, b, S)
    PROVE  LeftOf(a, b, T)
BY DEF LeftOf

\* What a loop does in terms of a set of entries, of which it is given those that
\* are in the list.
LEMMA SweepHalves ==
    ASSUME NEW b \in Seq(HostInfo), NEW l, NEW C, NEW S, NEW take, S \subseteq HostInfo,
           C = {e \in Range(b) : e \in S}, l = Sweep(b, C, take).list
    PROVE  2 * Count(l, S) <= Count(b, S) /\ LeftOf(l, b, S)
<1>1. l \in Seq(HostInfo) /\ LeftOf(l, b, C) /\ 2 * Count(l, C) <= Count(b, C)
  BY SweepKeepsPromise
<1>2. Count(l, S) = Count(l, C) /\ Count(b, S) = Count(b, C)
  BY <1>1, CountWithin
<1>3. C \subseteq S
  OBVIOUS
<1>4. QED
  BY <1>1, <1>2, <1>3, LeftOfMore

LEMMA CachedIn == TypeOK => Cached = Range(m_hostInfo) /\ Cached \subseteq HostInfo
<1> SUFFICES ASSUME TypeOK PROVE Cached \subseteq HostInfo
  BY DEF Cached
<1>1. m_hostInfo \in Seq(HostInfo)
  BY DEF TypeOK
<1>2. QED
  BY <1>1, RangeOfList DEF Cached

\* The step that ends a failed connection, and the one that begins a connection.
LEMMA ClearsIs ==
    ASSUME CacheInv, [Next]_vars, NEW w \in Workers, Clears(w)
    PROVE  ClearCacheForHost(w)
<1>0. connector \in [Workers -> Connectors]
  BY DEF CacheInv, TypeOK, Connectors
<1>1. connector'[w] # connector[w]
  BY DEF Clears
<1>2. PICK v \in Workers : WorkerStep(v)
  BY <1>1 DEF Next, Tick, vars
<1>3. v = w
  BY <1>0, <1>1, <1>2 DEF WorkerStep, GetCachedResults, GetAddrInfoFails, GetAddrInfo, AddResult,
                          Connect, ConnectFails, ClearCacheForHost, Goto
<1>4. QED
  BY <1>2, <1>3 DEF Clears, WorkerStep, GetCachedResults, GetAddrInfoFails, GetAddrInfo,
                    AddResult, Connect, ConnectFails, Idle

LEMMA LooksUpIs ==
    ASSUME CacheInv, [Next]_vars, NEW w \in Workers, LooksUp(w)
    PROVE  GetCachedResults(w)
<1>0. connector \in [Workers -> Connectors]
  BY DEF CacheInv, TypeOK, Connectors
<1>1. connector'[w] # connector[w]
  BY DEF LooksUp
<1>2. PICK v \in Workers : WorkerStep(v)
  BY <1>1 DEF Next, Tick, vars
<1>3. v = w
  BY <1>0, <1>1, <1>2 DEF WorkerStep, GetCachedResults, GetAddrInfoFails, GetAddrInfo, AddResult,
                          Connect, ConnectFails, ClearCacheForHost, Goto
<1>4. QED
  BY <1>2, <1>3 DEF LooksUp, WorkerStep, GetAddrInfoFails, GetAddrInfo, AddResult, Connect,
                    ConnectFails, ClearCacheForHost

LEMMA ClearDoes ==
    ASSUME CacheInv, [Next]_vars, NEW w \in Workers, Clears(w)
    PROVE  /\ 2 * Count(m_hostInfo', EntriesOf(connector[w].host))
                <= Count(m_hostInfo, EntriesOf(connector[w].host))
           /\ LeftOf(m_hostInfo', m_hostInfo, EntriesOf(connector[w].host))
<1>1. PICK h : h = connector[w].host
  OBVIOUS
<1>2. m_hostInfo' = Sweep(m_hostInfo, CachedFor(h), {}).list
  BY <1>1, ClearsIs DEF ClearCacheForHost, Purge
<1>3. TypeOK /\ m_hostInfo \in Seq(HostInfo)
  BY DEF CacheInv, TypeOK
<1>4. CachedFor(h) = {e \in Range(m_hostInfo) : e \in EntriesOf(h)} /\ EntriesOf(h) \subseteq HostInfo
  BY <1>3, CachedIn DEF CachedFor, EntriesOf
<1>5. QED
  BY <1>1, <1>2, <1>3, <1>4, SweepHalves

LEMMA LookupDoes ==
    ASSUME CacheInv, [Next]_vars, NEW w \in Workers, LooksUp(w)
    PROVE  /\ 2 * Count(m_hostInfo', ExpiredEntries) <= Count(m_hostInfo, ExpiredEntries)
           /\ LeftOf(m_hostInfo', m_hostInfo, ExpiredEntries)
<1>1. PICK h \in Hosts : m_hostInfo' = Lookup(h).list
  BY LooksUpIs DEF GetCachedResults
<1>2. PICK erase, take : /\ m_hostInfo' = Sweep(m_hostInfo, erase, take).list
                         /\ erase = {e \in Cached : Expired(e)}
  BY <1>1 DEF Lookup
<1>3. TypeOK /\ m_hostInfo \in Seq(HostInfo)
  BY DEF CacheInv, TypeOK
<1>4. erase = {e \in Range(m_hostInfo) : e \in ExpiredEntries} /\ ExpiredEntries \subseteq HostInfo
  BY <1>2, <1>3, CachedIn DEF ExpiredEntries
<1>5. QED
  BY <1>2, <1>3, <1>4, SweepHalves

\* ClearCacheForHost gets rid of at least half of the entries of the host that
\* failed, for every list, although its loop skips and may start over.
THEOREM CacheClearHalves == Spec => ClearHalves
<1>1. ASSUME CacheInv, [Next]_vars
      PROVE  [\A w \in Workers : Clears(w) =>
                LET ours == EntriesOf(connector[w].host)
                IN  2 * Count(m_hostInfo', ours) <= Count(m_hostInfo, ours)]_vars
  BY <1>1, ClearDoes
<1>2. QED
  BY <1>1, CacheInvariant, PTL DEF Spec, ClearHalves

\* GetCachedResults gets rid of at least half of the expired entries.
THEOREM CacheExpiryHalves == Spec => ExpiryHalves
<1>1. ASSUME CacheInv, [Next]_vars
      PROVE  [\A w \in Workers : LooksUp(w) =>
                2 * Count(m_hostInfo', ExpiredEntries) <= Count(m_hostInfo, ExpiredEntries)]_vars
  BY <1>1, LookupDoes
<1>2. QED
  BY <1>1, CacheInvariant, PTL DEF Spec, ExpiryHalves

\* Neither loop takes an entry out that it is not meant to, and both leave the
\* others in their order.
THEOREM CacheErasesOnlyItsOwn == Spec => ErasesOnlyItsOwn
<1>1. ASSUME CacheInv, [Next]_vars
      PROVE  [\A w \in Workers :
                /\ Clears(w) => LeftOf(m_hostInfo', m_hostInfo, EntriesOf(connector[w].host))
                /\ LooksUp(w) => LeftOf(m_hostInfo', m_hostInfo, ExpiredEntries)]_vars
  BY <1>1, ClearDoes, LookupDoes
<1>2. QED
  BY <1>1, CacheInvariant, PTL DEF Spec, ErasesOnlyItsOwn

=============================================================================
