----------------------------- MODULE TextProofs -----------------------------
(***************************************************************************)
(* Lemmas about Text and about pieces of sequences, for texts of any       *)
(* length and over any alphabet.                                           *)
(***************************************************************************)
EXTENDS Text, WellFoundedInduction, SequenceTheorems, TLAPS

-----------------------------------------------------------------------------
(* Sequences and their pieces. *)

LEMMA JoinTwo ==
    ASSUME NEW E, NEW a \in Seq(E), NEW b \in Seq(E), NEW t, t = a \o b
    PROVE  /\ t \in Seq(E) /\ Len(t) = Len(a) + Len(b)
           /\ \A j \in 1 .. Len(a) : t[j] = a[j]
           /\ \A j \in 1 .. Len(b) : t[Len(a) + j] = b[j]
OBVIOUS

LEMMA AssociateAny ==
    ASSUME NEW E, NEW p \in Seq(E), NEW q \in Seq(E), NEW x \in Seq(E)
    PROVE  p \o (q \o x) = (p \o q) \o x
BY ConcatAssociative

LEMMA Joined ==
    ASSUME NEW E, NEW a \in Seq(E), NEW c \in E, NEW b \in Seq(E), NEW t, t = a \o <<c>> \o b
    PROVE  /\ t \in Seq(E) /\ Len(t) = Len(a) + 1 + Len(b)
           /\ \A j \in 1 .. Len(a) : t[j] = a[j]
           /\ t[Len(a) + 1] = c
           /\ \A j \in 1 .. Len(b) : t[Len(a) + 1 + j] = b[j]
<1>1. PICK s : s = a \o <<c>>
  OBVIOUS
<1>2. <<c>> \in Seq(E) /\ Len(<<c>>) = 1 /\ <<c>>[1] = c
  OBVIOUS
<1>3. /\ s \in Seq(E) /\ Len(s) = Len(a) + 1
      /\ \A i \in 1 .. Len(a) + Len(<<c>>) : s[i] = IF i <= Len(a) THEN a[i] ELSE <<c>>[i - Len(a)]
  BY <1>1, <1>2, ConcatProperties
<1>4. (\A j \in 1 .. Len(a) : s[j] = a[j]) /\ s[Len(a) + 1] = c
  <2>1. \A j \in 1 .. Len(a) : j \in 1 .. Len(a) + Len(<<c>>) /\ j <= Len(a)
    BY <1>2
  <2>2. Len(a) + 1 \in 1 .. Len(a) + Len(<<c>>) /\ ~ (Len(a) + 1 <= Len(a)) /\ (Len(a) + 1) - Len(a) = 1
    BY <1>2
  <2>3. QED
    BY <1>2, <1>3, <2>1, <2>2, Zenon
<1>5. /\ t \in Seq(E) /\ Len(t) = Len(s) + Len(b)
      /\ \A i \in 1 .. Len(s) + Len(b) : t[i] = IF i <= Len(s) THEN s[i] ELSE b[i - Len(s)]
  BY <1>1, <1>3, ConcatProperties
<1>6. PICK n \in Nat, m \in Nat : n = Len(a) /\ m = Len(b) /\ Len(s) = n + 1
  BY <1>3
<1>7. \A j \in 1 .. n + 1 : t[j] = s[j]
  BY <1>5, <1>6
<1>8. ASSUME NEW j \in 1 .. m PROVE t[n + 1 + j] = b[j]
  <2>1. n + 1 + j \in 1 .. (n + 1) + m /\ ~ (n + 1 + j <= n + 1) /\ (n + 1 + j) - (n + 1) = j
    OBVIOUS
  <2>2. QED
    BY <1>5, <1>6, <2>1, Zenon
<1>9. \A j \in 1 .. n : j \in 1 .. n + 1
  OBVIOUS
<1>10. n + 1 \in 1 .. n + 1
  OBVIOUS
<1>11. QED
  BY <1>4, <1>5, <1>6, <1>7, <1>8, <1>9, <1>10

LEMMA Piece ==
    ASSUME NEW E, NEW s \in Seq(E), NEW a \in Nat \ {0}, NEW b \in Nat, a <= b + 1, b <= Len(s)
    PROVE  /\ SubSeq(s, a, b) \in Seq(E) /\ Len(SubSeq(s, a, b)) = b + 1 - a
           /\ \A j \in 1 .. b + 1 - a : SubSeq(s, a, b)[j] = s[a - 1 + j]
<1>1. SubSeq(s, a, b) = [j \in 1 .. b + 1 - a |-> s[a - 1 + j]]
  BY DEF SubSeq
<1>2. \A j \in 1 .. b + 1 - a : a - 1 + j \in 1 .. Len(s)
  OBVIOUS
<1>3. QED
  BY <1>1, <1>2

LEMMA PieceOfPiece ==
    ASSUME NEW E, NEW s \in Seq(E), NEW a \in Nat \ {0}, NEW b \in Nat, a <= b + 1, b <= Len(s),
           NEW c \in Nat \ {0}, NEW d \in Nat, c <= d + 1, d <= b + 1 - a
    PROVE  SubSeq(SubSeq(s, a, b), c, d) = SubSeq(s, a - 1 + c, a - 1 + d)
<1>1. PICK t \in Seq(E) : /\ t = SubSeq(s, a, b) /\ Len(t) = b + 1 - a
                          /\ \A j \in 1 .. b + 1 - a : t[j] = s[a - 1 + j]
  <2>1. /\ SubSeq(s, a, b) \in Seq(E) /\ Len(SubSeq(s, a, b)) = b + 1 - a
        /\ \A j \in 1 .. b + 1 - a : SubSeq(s, a, b)[j] = s[a - 1 + j]
    BY Piece
  <2>2. QED
    BY <2>1
<1>2. PICK p \in Nat \ {0}, q \in Nat : p = a - 1 + c /\ q = a - 1 + d
  OBVIOUS
<1>3. p <= q + 1 /\ q <= Len(s) /\ q + 1 - p = d + 1 - c
  BY <1>2
<1>4. PICK u \in Seq(E) : /\ u = SubSeq(t, c, d) /\ Len(u) = d + 1 - c
                          /\ \A j \in 1 .. d + 1 - c : u[j] = t[c - 1 + j]
  <2>0. d <= Len(t)
    BY <1>1
  <2>1. /\ SubSeq(t, c, d) \in Seq(E) /\ Len(SubSeq(t, c, d)) = d + 1 - c
        /\ \A j \in 1 .. d + 1 - c : SubSeq(t, c, d)[j] = t[c - 1 + j]
    BY <2>0, Piece
  <2>2. QED
    BY <2>1
<1>5. PICK v \in Seq(E) : /\ v = SubSeq(s, p, q) /\ Len(v) = d + 1 - c
                          /\ \A j \in 1 .. d + 1 - c : v[j] = s[p - 1 + j]
  <2>1. /\ SubSeq(s, p, q) \in Seq(E) /\ Len(SubSeq(s, p, q)) = q + 1 - p
        /\ \A j \in 1 .. q + 1 - p : SubSeq(s, p, q)[j] = s[p - 1 + j]
    BY <1>3, Piece
  <2>2. QED
    BY <1>3, <2>1
<1>6. ASSUME NEW j \in 1 .. d + 1 - c PROVE u[j] = v[j]
  <2>1. c - 1 + j \in 1 .. b + 1 - a /\ a - 1 + (c - 1 + j) = p - 1 + j
    BY <1>2
  <2>2. QED
    BY <1>1, <1>4, <1>5, <2>1
<1>7. u = v
  BY <1>4, <1>5, <1>6, SeqEqual
<1>8. QED
  BY <1>1, <1>2, <1>4, <1>5, <1>7

LEMMA SamePiece ==
    ASSUME NEW E, NEW s \in Seq(E), NEW t \in Seq(E), NEW a \in Nat \ {0}, NEW b \in Nat,
           a <= b + 1, b <= Len(s), b <= Len(t), \A j \in a .. b : s[j] = t[j]
    PROVE  SubSeq(s, a, b) = SubSeq(t, a, b)
<1>1. /\ SubSeq(s, a, b) \in Seq(E) /\ Len(SubSeq(s, a, b)) = b + 1 - a
      /\ \A j \in 1 .. b + 1 - a : SubSeq(s, a, b)[j] = s[a - 1 + j]
  BY Piece
<1>2. /\ SubSeq(t, a, b) \in Seq(E) /\ Len(SubSeq(t, a, b)) = b + 1 - a
      /\ \A j \in 1 .. b + 1 - a : SubSeq(t, a, b)[j] = t[a - 1 + j]
  BY Piece
<1>3. \A j \in 1 .. b + 1 - a : a - 1 + j \in a .. b
  OBVIOUS
<1>4. \A j \in 1 .. b + 1 - a : SubSeq(s, a, b)[j] = SubSeq(t, a, b)[j]
  BY <1>1, <1>2, <1>3
<1>5. QED
  BY <1>1, <1>2, <1>4, SeqEqual

LEMMA EmptyPiece ==
    ASSUME NEW E, NEW s \in Seq(E), NEW n \in Nat, n = Len(s)
    PROVE  SubSeq(s, n + 1, n) = <<>>
<1>1. n + 1 \in Nat \ {0} /\ n + 1 <= n + 1 /\ n <= Len(s)
  OBVIOUS
<1>2. SubSeq(s, n + 1, n) \in Seq(E) /\ Len(SubSeq(s, n + 1, n)) = n + 1 - (n + 1)
  BY <1>1, Piece
<1>3. n + 1 - (n + 1) = 0
  OBVIOUS
<1>4. QED
  BY <1>2, <1>3

LEMMA OnePiece ==
    ASSUME NEW E, NEW s \in Seq(E), NEW k \in Nat \ {0}, k <= Len(s)
    PROVE  SubSeq(s, k, k) = <<s[k]>>
<1>1. PICK w : w = SubSeq(s, k, k)
  OBVIOUS
<1>2. k \in Nat /\ k <= k + 1 /\ k \in 1 .. Len(s)
  OBVIOUS
<1>3. w \in Seq(E) /\ Len(w) = k + 1 - k /\ \A j \in 1 .. k + 1 - k : w[j] = s[k - 1 + j]
  BY <1>1, <1>2, Piece
<1>4. k + 1 - k = 1 /\ k - 1 + 1 = k
  OBVIOUS
<1>5. Len(w) = 1 /\ w[1] = s[k]
  <2>1. 1 \in 1 .. 1
    OBVIOUS
  <2>2. QED
    BY <1>3, <1>4, <2>1, Zenon
<1>6. PICK v : v = <<s[k]>>
  OBVIOUS
<1>7. v \in Seq(E) /\ Len(v) = 1 /\ v[1] = s[k]
  BY <1>2, <1>6
<1>8. w = v
  BY <1>3, <1>5, <1>7, SeqEqual
<1>9. QED
  BY <1>1, <1>6, <1>8

LEMMA HeadAt ==
    ASSUME NEW E, NEW d \in Seq(E), NEW b \in Nat, b <= Len(d), NEW v, v = SubSeq(d, 1, b)
    PROVE  v \in Seq(E) /\ Len(v) = b /\ \A j \in 1 .. b : v[j] = d[j]
<1>1. 1 \in Nat \ {0} /\ 1 <= b + 1
  OBVIOUS
<1>2. v \in Seq(E) /\ Len(v) = b + 1 - 1 /\ \A j \in 1 .. b + 1 - 1 : v[j] = d[1 - 1 + j]
  BY <1>1, Piece
<1>3. b + 1 - 1 = b /\ \A j \in 1 .. b : 1 - 1 + j = j
  OBVIOUS
<1>4. QED
  BY <1>2, <1>3, Zenon

LEMMA TailAt ==
    ASSUME NEW E, NEW s \in Seq(E), NEW i \in Nat, i <= Len(s), NEW t, t = SubSeq(s, i + 1, Len(s))
    PROVE  t \in Seq(E) /\ Len(t) = Len(s) - i /\ \A j \in 1 .. Len(s) - i : t[j] = s[i + j]
<1>1. i + 1 \in Nat \ {0} /\ Len(s) \in Nat /\ i + 1 <= Len(s) + 1 /\ Len(s) <= Len(s)
  OBVIOUS
<1>2. /\ t \in Seq(E) /\ Len(t) = Len(s) + 1 - (i + 1)
      /\ \A j \in 1 .. Len(s) + 1 - (i + 1) : t[j] = s[(i + 1) - 1 + j]
  BY <1>1, Piece
<1>3. Len(s) + 1 - (i + 1) = Len(s) - i /\ (i + 1) - 1 = i
  OBVIOUS
<1>4. QED
  BY <1>2, <1>3, Zenon

LEMMA TailOfJoin ==
    ASSUME NEW E, NEW a \in Seq(E), NEW b \in Seq(E), NEW t, t = a \o b
    PROVE  SubSeq(t, Len(a) + 1, Len(t)) = b
<1>1. /\ t \in Seq(E) /\ Len(t) = Len(a) + Len(b)
      /\ \A j \in 1 .. Len(b) : t[Len(a) + j] = b[j]
  BY JoinTwo
<1>2. PICK w : w = SubSeq(t, Len(a) + 1, Len(t))
  OBVIOUS
<1>3. /\ w \in Seq(E) /\ Len(w) = Len(t) + 1 - (Len(a) + 1)
      /\ \A j \in 1 .. Len(t) + 1 - (Len(a) + 1) : w[j] = t[(Len(a) + 1) - 1 + j]
  <2>1. Len(a) + 1 \in Nat \ {0} /\ Len(t) \in Nat /\ Len(a) + 1 <= Len(t) + 1 /\ Len(t) <= Len(t)
    BY <1>1
  <2>2. QED
    BY <1>1, <1>2, <2>1, Piece
<1>4. Len(w) = Len(b) /\ \A j \in 1 .. Len(w) : w[j] = b[j]
  BY <1>1, <1>3
<1>5. w = b
  BY <1>3, <1>4, SeqEqual
<1>6. QED
  BY <1>2, <1>5

-----------------------------------------------------------------------------
(* The string functions of Text, on any text. *)

LEMMA FirstIs ==
    ASSUME NEW I, NEW x \in I, I \subseteq Nat, \A y \in I : x <= y
    PROVE  Min(I) = x
<1>1. \E z \in I : \A y \in I : z <= y
  OBVIOUS
<1>2. Min(I) \in I /\ \A y \in I : Min(I) <= y
  BY <1>1 DEF Min
<1>3. Min(I) <= x /\ x <= Min(I) /\ Min(I) \in Nat /\ x \in Nat
  BY <1>2
<1>4. QED
  BY <1>3

LEMMA FirstExists ==
    ASSUME NEW I, I \subseteq Nat, I # {}
    PROVE  Min(I) \in I /\ \A y \in I : Min(I) <= y
<1> DEFINE R == {p \in Nat \X Nat : p[1] < p[2]}
<1>1. IsWellFoundedOn(R, Nat)
  BY NatLessThanWellFounded, Zenon DEF OpToRel
<1> HIDE DEF R
<1>2. PICK x \in I : \A y \in I : ~ (<<y, x>> \in R)
  BY <1>1, WFMin
<1>3. \A y \in I : ~ (y < x)
  BY <1>2 DEF R
<1>4. \E z \in I : \A y \in I : z <= y
  BY <1>3
<1>5. QED
  BY <1>4 DEF Min

\* strchr gives the first place of the character, or 0.
LEMMA strchrFinds ==
    ASSUME NEW E, NEW s \in Seq(E), NEW c, NEW i, i = strchr(s, c)
    PROVE  /\ i \in 0 .. Len(s)
           /\ i = 0 => \A j \in 1 .. Len(s) : s[j] # c
           /\ i # 0 => s[i] = c /\ \A j \in 1 .. i - 1 : s[j] # c
<1> DEFINE I == {j \in 1 .. Len(s) : s[j] = c}
<1>1. i = IF I # {} THEN Min(I) ELSE 0
  BY DEF strchr, SelectInSeq
<1>2. I \subseteq Nat /\ 0 \notin I
  OBVIOUS
<1>3. CASE I = {}
  BY <1>1, <1>3
<1>4. CASE I # {}
  <2>1. Min(I) \in I /\ \A y \in I : Min(I) <= y
    BY <1>2, <1>4, FirstExists
  <2>2. i \in 1 .. Len(s) /\ s[i] = c
    BY <1>1, <1>4, <2>1
  <2>3. \A j \in 1 .. Len(s) : s[j] = c => i <= j
    BY <1>1, <1>4, <2>1
  <2>4. ASSUME NEW j \in 1 .. i - 1 PROVE s[j] # c
    <3>1. j \in 1 .. Len(s) /\ ~ (i <= j)
      BY <2>2
    <3>2. QED
      BY <2>3, <3>1
  <2>5. QED
    BY <2>2, <2>4
<1>5. QED
  BY <1>3, <1>4

LEMMA strchrIs ==
    ASSUME NEW E, NEW s \in Seq(E), NEW c, NEW i \in 1 .. Len(s),
           s[i] = c, \A j \in 1 .. i - 1 : s[j] # c
    PROVE  strchr(s, c) = i
<1>1. PICK k : k = strchr(s, c)
  OBVIOUS
<1>2. /\ k \in 0 .. Len(s)
      /\ k = 0 => \A j \in 1 .. Len(s) : s[j] # c
      /\ k # 0 => s[k] = c /\ \A j \in 1 .. k - 1 : s[j] # c
  BY <1>1, strchrFinds
<1>3. k # 0
  BY <1>2
<1>4. k \in Nat /\ i \in Nat /\ s[k] = c /\ \A j \in 1 .. k - 1 : s[j] # c
  BY <1>2, <1>3
<1>5. ~ (k < i)
  BY <1>2, <1>3, <1>4
<1>6. ~ (i < k)
  BY <1>4
<1>7. k = i
  BY <1>4, <1>5, <1>6
<1>8. QED
  BY <1>1, <1>7

\* A word from a to b, with blanks before it and a blank or the end behind it.
LEMMA SkipIs ==
    ASSUME NEW E, NEW s \in Seq(E), NEW blanks, NEW a \in 1 .. Len(s),
           s[a] \notin blanks, \A j \in 1 .. a - 1 : s[j] \in blanks
    PROVE  SkipBlanks(s, blanks) = SubSeq(s, a, Len(s))
<1> DEFINE I == {j \in 1 .. Len(s) : s[j] \notin blanks}
<1>1. SkipBlanks(s, blanks) = LET i == IF I # {} THEN Min(I) ELSE 0
                              IN  IF i = 0 THEN <<>> ELSE SubSeq(s, i, Len(s))
  BY DEF SkipBlanks, SelectInSeq
<1>2. a \in I /\ I \subseteq Nat
  OBVIOUS
<1>3. \A y \in I : a <= y
  OBVIOUS
<1>4. Min(I) = a
  <2> HIDE DEF I
  <2>1. QED
    BY <1>2, <1>3, FirstIs
<1>5. I # {} /\ a # 0
  BY <1>2
<1> HIDE DEF I
<1>6. QED
  BY <1>1, <1>4, <1>5

LEMMA SkipAll ==
    ASSUME NEW E, NEW s \in Seq(E), NEW blanks, \A j \in 1 .. Len(s) : s[j] \in blanks
    PROVE  SkipBlanks(s, blanks) = <<>>
<1> DEFINE I == {j \in 1 .. Len(s) : s[j] \notin blanks}
<1>1. SkipBlanks(s, blanks) = LET i == IF I # {} THEN Min(I) ELSE 0
                              IN  IF i = 0 THEN <<>> ELSE SubSeq(s, i, Len(s))
  BY DEF SkipBlanks, SelectInSeq
<1>2. I = {}
  OBVIOUS
<1>3. QED
  BY <1>1, <1>2

LEMMA WordLengthIs ==
    ASSUME NEW E, NEW s \in Seq(E), NEW blanks, NEW n \in 0 .. Len(s),
           \A j \in 1 .. n : s[j] \notin blanks, n = Len(s) \/ s[n + 1] \in blanks
    PROVE  WordLength(s, blanks) = n
<1> DEFINE I == {j \in 1 .. Len(s) : s[j] \in blanks}
<1>1. WordLength(s, blanks) = LET i == IF I # {} THEN Min(I) ELSE 0
                              IN  IF i = 0 THEN Len(s) ELSE i - 1
  BY DEF WordLength, SelectInSeq
<1>2. CASE n = Len(s)
  <2>1. I = {}
    BY <1>2
  <2>2. QED
    BY <1>1, <1>2, <2>1
<1>3. CASE n # Len(s)
  <2>1. n + 1 \in I /\ I \subseteq Nat
    BY <1>3
  <2>2. \A y \in I : n + 1 <= y
    OBVIOUS
  <2>3. Min(I) = n + 1
    <3> HIDE DEF I
    <3>1. QED
      BY <2>1, <2>2, FirstIs
  <2>4. I # {} /\ n + 1 # 0 /\ (n + 1) - 1 = n
    BY <2>1
  <2> HIDE DEF I
  <2>5. QED
    BY <1>1, <2>3, <2>4
<1>4. QED
  BY <1>2, <1>3

LEMMA WordIs ==
    ASSUME NEW E, NEW s \in Seq(E), NEW blanks, NEW a \in Nat \ {0}, NEW b \in Nat, a <= b, b <= Len(s),
           \A j \in 1 .. a - 1 : s[j] \in blanks,
           \A j \in a .. b : s[j] \notin blanks,
           b = Len(s) \/ s[b + 1] \in blanks
    PROVE  /\ Word(s, blanks) = SubSeq(s, a, b)
           /\ AfterWord(s, blanks) = SubSeq(s, b + 1, Len(s))
<1>1. SkipBlanks(s, blanks) = SubSeq(s, a, Len(s))
  <2>1. a \in 1 .. Len(s) /\ s[a] \notin blanks
    OBVIOUS
  <2>2. QED
    BY <2>1, SkipIs
<1>2. PICK t \in Seq(E) : /\ t = SubSeq(s, a, Len(s)) /\ Len(t) = Len(s) + 1 - a
                          /\ \A j \in 1 .. Len(s) + 1 - a : t[j] = s[a - 1 + j]
  <2>0. Len(s) \in Nat /\ a <= Len(s) + 1 /\ Len(s) <= Len(s)
    OBVIOUS
  <2>1. /\ SubSeq(s, a, Len(s)) \in Seq(E) /\ Len(SubSeq(s, a, Len(s))) = Len(s) + 1 - a
        /\ \A j \in 1 .. Len(s) + 1 - a : SubSeq(s, a, Len(s))[j] = s[a - 1 + j]
    BY <2>0, Piece
  <2>2. QED
    BY <2>1
<1>3. PICK n \in Nat : n = b + 1 - a /\ n <= Len(t)
  BY <1>2
<1>4. ASSUME NEW j \in 1 .. n PROVE t[j] \notin blanks
  <2>1. j \in 1 .. Len(s) + 1 - a /\ a - 1 + j \in a .. b
    BY <1>3
  <2>2. QED
    BY <1>2, <2>1
<1>5. n = Len(t) \/ t[n + 1] \in blanks
  <2> SUFFICES ASSUME n # Len(t) PROVE t[n + 1] \in blanks
    OBVIOUS
  <2>1. n + 1 \in 1 .. Len(s) + 1 - a /\ a - 1 + (n + 1) = b + 1 /\ b # Len(s)
    BY <1>2, <1>3
  <2>2. QED
    BY <1>2, <2>1
<1>6. WordLength(t, blanks) = n
  <2>1. n \in 0 .. Len(t)
    BY <1>3
  <2>2. QED
    BY <1>4, <1>5, <2>1, WordLengthIs
<1>7. SubSeq(t, 1, n) = SubSeq(s, a - 1 + 1, a - 1 + n)
  BY <1>2, <1>3, PieceOfPiece
<1>8. SubSeq(t, n + 1, Len(t)) = SubSeq(s, a - 1 + (n + 1), a - 1 + Len(t))
  BY <1>2, <1>3, PieceOfPiece
<1>9. a - 1 + 1 = a /\ a - 1 + n = b /\ a - 1 + (n + 1) = b + 1 /\ a - 1 + Len(t) = Len(s)
  BY <1>2, <1>3
<1>10. Word(s, blanks) = SubSeq(t, 1, n) /\ AfterWord(s, blanks) = SubSeq(t, n + 1, Len(t))
  BY <1>1, <1>2, <1>6 DEF Word, AfterWord, After
<1>11. QED
  BY <1>7, <1>8, <1>9, <1>10

LEMMA NoWord ==
    ASSUME NEW E, NEW s \in Seq(E), NEW blanks, \A j \in 1 .. Len(s) : s[j] \in blanks
    PROVE  Word(s, blanks) = <<>> /\ AfterWord(s, blanks) = <<>>
<1>1. SkipBlanks(s, blanks) = <<>>
  BY SkipAll
<1>2. <<>> \in Seq(E) /\ Len(<<>>) = 0
  OBVIOUS
<1>3. WordLength(<<>>, blanks) = 0
  <2>1. 0 \in 0 .. Len(<<>>) /\ 0 = Len(<<>>) /\ \A j \in 1 .. 0 : <<>>[j] \notin blanks
    BY <1>2
  <2>2. QED
    BY <1>2, <2>1, WordLengthIs
<1>4. SubSeq(<<>>, 1, 0) = <<>> /\ SubSeq(<<>>, 0 + 1, Len(<<>>)) = <<>>
  BY <1>2, Piece
<1>5. QED
  BY <1>1, <1>3, <1>4 DEF Word, AfterWord, After

LEMMA NotInOne == ASSUME NEW E, NEW u \in Seq(E), NEW c, Len(u) = 1, u[1] # c PROVE strchr(u, c) = 0
<1>1. PICK i : i = strchr(u, c)
  OBVIOUS
<1>2. i \in 0 .. Len(u) /\ (i # 0 => u[i] = c)
  BY <1>1, strchrFinds
<1>3. i = 0 \/ i = 1
  BY <1>2
<1>4. QED
  BY <1>1, <1>2, <1>3

=============================================================================
