--------------------------- MODULE StartupProofs ---------------------------
(***************************************************************************)
(* Proofs about Startup, for any configuration file, any call that fails   *)
(* and any number of descriptors: what LoadData makes of the file, what    *)
(* each part of the program holds, and what is ready when the loop begins. *)
(***************************************************************************)
EXTENDS Startup, TextProofs

-----------------------------------------------------------------------------
(* ConfigFile has the functions of Text under names of its own. *)

LEMMA SameText ==
    /\ \A s, c : Config!strchr(s, c) = strchr(s, c)
    /\ \A s, c : Config!strrchr(s, c) = strrchr(s, c)
    /\ \A s, b : Config!Word(s, b) = Word(s, b)
    /\ \A s, i : Config!After(s, i) = After(s, i)
    /\ \A s, i : Config!Before(s, i) = Before(s, i)
    /\ \A S : Config!Max(S) = Max(S)
<1>1. \A S : Config!Min(S) = Min(S) /\ Config!Max(S) = Max(S)
  BY DEF Config!Min, Min, Config!Max, Max
<1>2. \A s, c : Config!strchr(s, c) = strchr(s, c)
  BY <1>1, Zenon DEF Config!strchr, strchr, Config!SelectInSeq, SelectInSeq
<1>3. \A s, c : Config!strrchr(s, c) = strrchr(s, c)
  BY <1>1, Zenon DEF Config!strrchr, strrchr, Config!SelectLastInSeq, SelectLastInSeq
<1>4. \A s, b : Config!WordLength(s, b) = WordLength(s, b) /\ Config!SkipBlanks(s, b) = SkipBlanks(s, b)
  BY <1>1, Zenon DEF Config!WordLength, WordLength, Config!SkipBlanks, SkipBlanks, Config!SelectInSeq, SelectInSeq
<1>5. \A s, b : Config!Word(s, b) = Word(s, b)
  BY <1>4, Zenon DEF Config!Word, Word
<1>6. \A s, i : Config!After(s, i) = After(s, i) /\ Config!Before(s, i) = Before(s, i)
  BY DEF Config!After, After, Config!Before, Before
<1>7. QED
  BY <1>1, <1>2, <1>3, <1>5, <1>6

-----------------------------------------------------------------------------
(* What may be written in a file: sequences over finitely many sets. *)

Items == UNION {Range(doc) : doc \in Documents}
Heads == {x \in Items : x.kind = "section"}
Entries == {x \in Items : x.kind = "entry"}

Texts ==
    {<<>>, Garbage, Proxy} \cup Words \cup {x.name : x \in Heads} \cup {x.key : x \in Entries}
        \cup (UNION {Range(x.values) : x \in Entries})

Chars ==
    {" ", "#", "[", "]", ":", ",", "stray", "a", "k", "v"} \cup (UNION {Range(t) : t \in Texts})
        \cup (UNION {Range(x.comment) : x \in Entries})

-----------------------------------------------------------------------------
(* What LoadData finds in the lines of each kind, over any alphabet. *)

\* The characters of a text are none of these.
Without(s, special) == \A j \in 1 .. Len(s) : s[j] \notin special

LEMMA strchrAbsent ==
    ASSUME NEW E, NEW s \in Seq(E), NEW special, Without(s, special), NEW c \in special
    PROVE  strchr(s, c) = 0
<1>1. PICK i : i = strchr(s, c)
  OBVIOUS
<1>2. i \in 0 .. Len(s) /\ (i # 0 => s[i] = c)
  BY <1>1, strchrFinds
<1>3. QED
  BY <1>1, <1>2 DEF Without

\* Kept inside definitions, so that a step sees a text only by its characters.
IsJoin(t, u, v) == t = u \o v
IsOne(u, c) == u = <<c>>

\* The same, character by character.
Joins(t, a, b) ==
    /\ t \in Seq(Chars) /\ Len(t) = Len(a) + Len(b)
    /\ \A j \in 1 .. Len(a) : t[j] = a[j]
    /\ \A j \in 1 .. Len(b) : t[Len(a) + j] = b[j]

LEMMA Join == \A a, b \in Seq(Chars) : \A t : IsJoin(t, a, b) => Joins(t, a, b)
BY JoinTwo DEF IsJoin, Joins

LEMMA One == \A c \in Chars : \A u : IsOne(u, c) => u \in Seq(Chars) /\ Len(u) = 1 /\ u[1] = c
BY DEF IsOne

LEMMA Associate ==
    \A p, q, x \in Seq(Chars) : q \o x \in Seq(Chars) /\ p \o (q \o x) = (p \o q) \o x
<1>1. \A q, x \in Seq(Chars) : q \o x \in Seq(Chars)
  OBVIOUS
<1>2. \A p, q, x \in Seq(Chars) : p \o (q \o x) = (p \o q) \o x
  BY AssociateAny
<1>3. QED
  BY <1>1, <1>2, Zenon

LEMMA Regroup ==
    \A a, b, c \in Seq(Chars) : \A ab, bc, t :
        IsJoin(ab, a, b) /\ IsJoin(bc, b, c) /\ IsJoin(t, ab, c) => IsJoin(t, a, bc)
<1> SUFFICES ASSUME NEW a \in Seq(Chars), NEW b \in Seq(Chars), NEW c \in Seq(Chars), NEW ab, NEW bc, NEW t,
                    IsJoin(ab, a, b), IsJoin(bc, b, c), IsJoin(t, ab, c)
             PROVE  IsJoin(t, a, bc)
  BY Zenon
<1>1. a \o (b \o c) = (a \o b) \o c
  BY Associate, Zenon
<1>2. a \o bc = ab \o c
  BY <1>1, Zenon DEF IsJoin
<1>3. QED
  BY <1>2, Zenon DEF IsJoin

LEMMA BeforeIs ==
    ASSUME NEW a \in Seq(Chars), NEW b \in Seq(Chars), NEW t, IsJoin(t, a, b), NEW i, i = Len(a) + 1
    PROVE  Before(t, i) = a
<1>0. Joins(t, a, b)
  BY Join, Zenon
<1>1. t \in Seq(Chars) /\ Len(t) = Len(a) + Len(b) /\ \A j \in 1 .. Len(a) : t[j] = a[j]
  BY <1>0 DEF Joins
<1>2. PICK n \in Nat : n = Len(a) /\ n <= Len(t) /\ i # 0 /\ i - 1 = n
  BY <1>1
<1>3. PICK v : v = SubSeq(t, 1, n)
  OBVIOUS
<1>4. v \in Seq(Chars) /\ Len(v) = n /\ \A j \in 1 .. n : v[j] = t[j]
  BY <1>1, <1>2, <1>3, HeadAt
<1>5. v = a
  BY <1>1, <1>2, <1>4, SeqEqual
<1>6. QED
  BY <1>2, <1>3, <1>5 DEF Before

LEMMA AfterIs ==
    ASSUME NEW a \in Seq(Chars), NEW b \in Seq(Chars), NEW t, IsJoin(t, a, b), NEW i, i = Len(a)
    PROVE  After(t, i) = b
BY TailOfJoin DEF After, IsJoin

\* A comment is cut off.
LEMMA CommentCut ==
    ASSUME NEW b \in Seq(Chars), NEW hash \in Chars, Without(b, {hash}),
           NEW comment \in Seq(Chars), comment = <<>> \/ (Len(comment) >= 1 /\ comment[1] = hash),
           NEW l, IsJoin(l, b, comment)
    PROVE  Before(l, strchr(l, hash)) = b
<1>0. Joins(l, b, comment)
  BY Join, Zenon
<1>1. /\ l \in Seq(Chars) /\ Len(l) = Len(b) + Len(comment)
      /\ \A j \in 1 .. Len(b) : l[j] = b[j]
      /\ \A j \in 1 .. Len(comment) : l[Len(b) + j] = comment[j]
  BY <1>0 DEF Joins
<1>2. CASE comment = <<>>
  <2>1. l = b
    BY <1>2 DEF IsJoin
  <2>2. strchr(l, hash) = 0
    BY <2>1, strchrAbsent
  <2>3. QED
    BY <2>1, <2>2 DEF Before
<1>3. CASE Len(comment) >= 1 /\ comment[1] = hash
  <2>1. PICK i \in 1 .. Len(l) : i = Len(b) + 1
    BY <1>1, <1>3
  <2>2. 1 \in 1 .. Len(comment)
    BY <1>3
  <2>3. l[i] = hash
    BY <1>1, <1>3, <2>1, <2>2, Zenon
  <2>4. \A j \in 1 .. i - 1 : l[j] # hash
    BY <1>1, <2>1 DEF Without
  <2>5. strchr(l, hash) = i
    BY <1>1, <2>3, <2>4, strchrIs
  <2>6. QED
    BY <2>1, <2>5, BeforeIs
<1>4. QED
  BY <1>2, <1>3

\* A word between blanks is what "%s" finds.
WordAt(t, blanks, a, b) ==
    /\ a <= b /\ b <= Len(t)
    /\ \A j \in 1 .. a - 1 : t[j] \in blanks
    /\ \A j \in a .. b : t[j] \notin blanks
    /\ b = Len(t) \/ t[b + 1] \in blanks

LEMMA WordIsAt ==
    \A t \in Seq(Chars) : \A a \in Nat \ {0} : \A b \in Nat : \A blanks :
        WordAt(t, blanks, a, b) => Word(t, blanks) = SubSeq(t, a, b)
<1> SUFFICES ASSUME NEW t \in Seq(Chars), NEW a \in Nat \ {0}, NEW b \in Nat, NEW blanks, WordAt(t, blanks, a, b)
             PROVE  Word(t, blanks) = SubSeq(t, a, b)
  BY Zenon
<1>1. /\ a <= b /\ b <= Len(t)
      /\ \A j \in 1 .. a - 1 : t[j] \in blanks
      /\ \A j \in a .. b : t[j] \notin blanks
      /\ b = Len(t) \/ t[b + 1] \in blanks
  BY DEF WordAt
<1>2. QED
  BY <1>1, WordIs, Zenon

\* The characters from a on are those of v.
PieceAt(t, a, b, v) ==
    /\ v \in Seq(Chars) /\ a <= b + 1 /\ b <= Len(t) /\ Len(v) = b + 1 - a
    /\ \A j \in 1 .. Len(v) : t[a - 1 + j] = v[j]

LEMMA PieceIs ==
    \A t \in Seq(Chars) : \A a \in Nat \ {0} : \A b \in Nat : \A v : PieceAt(t, a, b, v) => SubSeq(t, a, b) = v
<1> SUFFICES ASSUME NEW t \in Seq(Chars), NEW a \in Nat \ {0}, NEW b \in Nat, NEW v, PieceAt(t, a, b, v)
             PROVE  SubSeq(t, a, b) = v
  BY Zenon
<1>1. PICK z : z = SubSeq(t, a, b)
  OBVIOUS
<1>2. a <= b + 1 /\ b <= Len(t)
  BY DEF PieceAt
<1>3. z \in Seq(Chars) /\ Len(z) = b + 1 - a /\ \A j \in 1 .. b + 1 - a : z[j] = t[a - 1 + j]
  BY <1>1, <1>2, Piece
<1>4. v \in Seq(Chars) /\ Len(v) = Len(z) /\ \A j \in 1 .. Len(z) : z[j] = v[j]
  BY <1>3 DEF PieceAt
<1>5. z = v
  BY <1>3, <1>4, SeqEqual
<1>6. QED
  BY <1>1, <1>5

LEMMA WordBetween ==
    ASSUME NEW u \in Seq(Chars), NEW v \in Seq(Chars), NEW w \in Seq(Chars), NEW blanks,
           \A j \in 1 .. Len(u) : u[j] \in blanks, Without(v, blanks), Len(v) >= 1,
           Len(w) = 0 \/ w[1] \in blanks, NEW s, IsJoin(s, u, v), NEW t, IsJoin(t, s, w)
    PROVE  Word(t, blanks) = v
<1>1. Joins(s, u, v)
  BY Join, Zenon
<1>2. s \in Seq(Chars)
  BY <1>1 DEF Joins
<1>3. Joins(t, s, w)
  BY <1>2, Join, Zenon
<1>4. Len(u) \in Nat /\ Len(v) \in Nat /\ Len(w) \in Nat
  OBVIOUS
<1>5. PICK a : a = Len(u)
  OBVIOUS
<1>6. PICK n : n = Len(v)
  OBVIOUS
<1>7. a \in Nat /\ n \in Nat /\ n >= 1 /\ Len(s) = a + n /\ Len(t) = (a + n) + Len(w) /\ t \in Seq(Chars)
  BY <1>1, <1>3, <1>4, <1>5, <1>6 DEF Joins
<1>8. \A j \in 1 .. a : t[j] \in blanks
  <2>1. \A j \in 1 .. a : j \in 1 .. Len(s) /\ j \in 1 .. Len(u)
    BY <1>5, <1>7
  <2>2. \A j \in 1 .. a : t[j] = s[j] /\ s[j] = u[j]
    BY <1>1, <1>3, <2>1, Zenon DEF Joins
  <2>3. QED
    BY <1>5, <2>2
<1>9. \A j \in 1 .. n : t[a + j] = v[j]
  <2>1. \A j \in 1 .. n : a + j \in 1 .. Len(s)
    BY <1>7
  <2>2. \A j \in 1 .. n : s[a + j] = v[j]
    BY <1>1, <1>5, <1>6, Zenon DEF Joins
  <2>3. QED
    BY <1>3, <2>1, <2>2, Zenon DEF Joins
<1>10. ASSUME NEW j \in a + 1 .. a + n PROVE t[j] \notin blanks
  <2>1. j - a \in 1 .. n /\ a + (j - a) = j
    BY <1>7
  <2>2. t[j] = v[j - a]
    BY <1>9, <2>1, Zenon
  <2>3. v[j - a] \notin blanks
    BY <1>6, <2>1 DEF Without
  <2>4. QED
    BY <2>2, <2>3
<1>11. a + n = Len(t) \/ t[a + n + 1] \in blanks
  <2>1. CASE Len(w) = 0
    BY <1>7, <2>1
  <2>2. CASE Len(w) # 0
    <3>1. 1 \in 1 .. Len(w)
      BY <1>4, <2>2
    <3>2. t[Len(s) + 1] = w[1]
      BY <1>3, <3>1, Zenon DEF Joins
    <3>3. QED
      BY <1>7, <2>2, <3>2
  <2>3. QED
    BY <2>1, <2>2
<1>12. a + 1 \in Nat \ {0} /\ a + n \in Nat /\ (a + 1) - 1 = a
  BY <1>7
<1>13. WordAt(t, blanks, a + 1, a + n)
  <2>1. a + 1 <= a + n /\ a + n <= Len(t)
    BY <1>4, <1>7
  <2>2. QED
    BY <1>8, <1>10, <1>11, <1>12, <2>1, Zenon DEF WordAt
<1>14. PieceAt(t, a + 1, a + n, v)
  <2>1. a + 1 <= (a + n) + 1 /\ a + n <= Len(t) /\ n = (a + n) + 1 - (a + 1)
    BY <1>4, <1>7
  <2>2. QED
    BY <1>6, <1>9, <1>12, <2>1, Zenon DEF PieceAt
<1>15. QED
  <2>1. Word(t, blanks) = SubSeq(t, a + 1, a + n)
    BY <1>7, <1>12, <1>13, WordIsAt, Zenon
  <2>2. SubSeq(t, a + 1, a + n) = v
    BY <1>7, <1>12, <1>14, PieceIs, Zenon
  <2>3. QED
    BY <2>1, <2>2

\* The line of an entry, without its comment: blank, key, blank, colon and text.
EntryParts(blank, hash, open, colon, key, text, u, c, a, h, k, b) ==
    /\ blank \in Chars /\ hash \in Chars /\ open \in Chars /\ colon \in Chars
    /\ blank \notin {hash, open, colon} /\ colon \notin {hash, open}
    /\ key \in Seq(Chars) /\ Len(key) >= 1 /\ Without(key, {blank, hash, open, colon})
    /\ text \in Seq(Chars) /\ Without(text, {hash, open})
    /\ IsOne(u, blank) /\ IsOne(c, colon)
    /\ IsJoin(a, u, key) /\ IsJoin(h, a, u) /\ IsJoin(k, h, c) /\ IsJoin(b, k, text)

EntryReadAs(b, blank, hash, open, colon, key, text) ==
    /\ b \in Seq(Chars) /\ Without(b, {hash, open})
    /\ strchr(b, colon) # 0
    /\ Word(Before(b, strchr(b, colon)), {blank}) = key
    /\ After(b, strchr(b, colon)) = text

LEMMA EntryText ==
    ASSUME NEW blank, NEW hash, NEW open, NEW colon, NEW key, NEW text, NEW u, NEW c, NEW a, NEW h, NEW k, NEW b,
           EntryParts(blank, hash, open, colon, key, text, u, c, a, h, k, b)
    PROVE  EntryReadAs(b, blank, hash, open, colon, key, text)
<1> USE DEF EntryParts
<1>a. /\ blank \in Chars /\ hash \in Chars /\ open \in Chars /\ colon \in Chars
      /\ blank \notin {hash, open, colon} /\ colon \notin {hash, open}
      /\ key \in Seq(Chars) /\ Len(key) >= 1 /\ Without(key, {blank, hash, open, colon})
      /\ text \in Seq(Chars) /\ Without(text, {hash, open})
      /\ IsOne(u, blank) /\ IsOne(c, colon)
      /\ IsJoin(a, u, key) /\ IsJoin(h, a, u) /\ IsJoin(k, h, c) /\ IsJoin(b, k, text)
  BY Zenon
<1> HIDE DEF EntryParts
<1> USE <1>a
<1>1. u \in Seq(Chars) /\ Len(u) = 1 /\ u[1] = blank
  BY One, Zenon
<1>2. c \in Seq(Chars) /\ Len(c) = 1 /\ c[1] = colon
  BY One, Zenon
<1>3. PICK n \in Nat, m \in Nat : n = Len(key) /\ m = Len(text) /\ n >= 1
  OBVIOUS
<1>4. /\ a \in Seq(Chars) /\ Len(a) = n + 1 /\ a[1] = blank
      /\ \A j \in 1 .. n : a[1 + j] = key[j]
  <2>0. Joins(a, u, key)
    BY <1>1, Join, Zenon
  <2>1. /\ a \in Seq(Chars) /\ Len(a) = Len(u) + Len(key)
        /\ \A j \in 1 .. Len(u) : a[j] = u[j]
        /\ \A j \in 1 .. Len(key) : a[Len(u) + j] = key[j]
    BY <2>0 DEF Joins
  <2>2. QED
    BY <1>1, <1>3, <2>1
<1>5. /\ h \in Seq(Chars) /\ Len(h) = n + 2 /\ h[n + 2] = blank
      /\ \A j \in 1 .. n + 1 : h[j] = a[j]
  <2>0. Joins(h, a, u)
    BY <1>1, <1>4, Join, Zenon
  <2>1. /\ h \in Seq(Chars) /\ Len(h) = Len(a) + Len(u)
        /\ \A j \in 1 .. Len(a) : h[j] = a[j]
        /\ \A j \in 1 .. Len(u) : h[Len(a) + j] = u[j]
    BY <2>0 DEF Joins
  <2>2. 1 \in 1 .. Len(u) /\ Len(a) + 1 = n + 2
    BY <1>1, <1>4
  <2>3. h[Len(a) + 1] = u[1]
    BY <2>1, <2>2, Zenon
  <2>4. QED
    BY <1>1, <1>4, <2>1, <2>2, <2>3
<1>6. /\ k \in Seq(Chars) /\ Len(k) = n + 3 /\ k[n + 3] = colon
      /\ \A j \in 1 .. n + 2 : k[j] = h[j]
  <2>0. Joins(k, h, c)
    BY <1>2, <1>5, Join, Zenon
  <2>1. /\ k \in Seq(Chars) /\ Len(k) = Len(h) + Len(c)
        /\ \A j \in 1 .. Len(h) : k[j] = h[j]
        /\ \A j \in 1 .. Len(c) : k[Len(h) + j] = c[j]
    BY <2>0 DEF Joins
  <2>2. 1 \in 1 .. Len(c) /\ Len(h) + 1 = n + 3
    BY <1>2, <1>5
  <2>3. k[Len(h) + 1] = c[1]
    BY <2>1, <2>2, Zenon
  <2>4. QED
    BY <1>2, <1>5, <2>1, <2>2, <2>3
<1>7. ASSUME NEW j \in 1 .. n + 2 PROVE k[j] = h[j] /\ h[j] \notin {hash, open, colon}
  <2>1. CASE j = n + 2
    BY <1>5, <1>6, <2>1
  <2>2. CASE j = 1
    BY <1>4, <1>5, <1>6, <2>2
  <2>3. CASE j \in 2 .. n + 1
    <3>1. j - 1 \in 1 .. n /\ 1 + (j - 1) = j /\ j \in 1 .. n + 1
      BY <2>3
    <3>2. a[j] = key[j - 1]
      BY <1>4, <3>1, Zenon
    <3>3. key[j - 1] \notin {hash, open, colon}
      BY <1>3, <3>1 DEF Without
    <3>4. QED
      BY <1>5, <1>6, <3>1, <3>2, <3>3
  <2>4. QED
    BY <2>1, <2>2, <2>3
<1>8. /\ b \in Seq(Chars) /\ Len(b) = (n + 3) + m
      /\ \A j \in 1 .. n + 3 : b[j] = k[j]
      /\ \A j \in 1 .. m : b[(n + 3) + j] = text[j]
  <2>0. Joins(b, k, text)
    BY <1>6, Join, Zenon
  <2>1. /\ b \in Seq(Chars) /\ Len(b) = Len(k) + Len(text)
        /\ \A j \in 1 .. Len(k) : b[j] = k[j]
        /\ \A j \in 1 .. Len(text) : b[Len(k) + j] = text[j]
    BY <2>0 DEF Joins
  <2>2. QED
    BY <1>3, <1>6, <2>1, Zenon
<1>9. Without(b, {hash, open})
  <2> SUFFICES ASSUME NEW j \in 1 .. (n + 3) + m PROVE b[j] \notin {hash, open}
    BY <1>8 DEF Without
  <2>1. CASE j \in 1 .. n + 2
    BY <1>7, <1>8, <2>1
  <2>2. CASE j = n + 3
    BY <1>6, <1>8, <2>2
  <2>3. CASE j > n + 3
    <3>1. j - (n + 3) \in 1 .. m /\ (n + 3) + (j - (n + 3)) = j
      BY <2>3
    <3>2. b[j] = text[j - (n + 3)]
      BY <1>8, <3>1, Zenon
    <3>3. QED
      BY <1>3, <3>1, <3>2 DEF Without
  <2>4. QED
    BY <2>1, <2>2, <2>3
<1>10. PICK i \in 1 .. Len(b) : i = n + 3
  BY <1>8
<1>11. strchr(b, colon) = i
  <2>1. \A j \in 1 .. i - 1 : b[j] # colon
    <3>1. \A j \in 1 .. i - 1 : j \in 1 .. n + 3 /\ j \in 1 .. n + 2
      BY <1>10
    <3>2. QED
      BY <1>7, <1>8, <3>1
  <2>2. b[i] = colon
    BY <1>6, <1>8, <1>10
  <2>3. QED
    BY <1>8, <1>10, <2>1, <2>2, strchrIs
<1>12. Before(b, i) = h
  <2>1. PICK r : IsJoin(r, c, text)
    BY DEF IsJoin
  <2>2. r \in Seq(Chars)
    BY <1>2, <2>1, Join, Zenon DEF Joins
  <2>3. IsJoin(b, h, r)
    BY <1>2, <1>5, <2>1, Regroup, Zenon
  <2>4. i = Len(h) + 1
    BY <1>5, <1>10
  <2>5. QED
    BY <1>5, <2>2, <2>3, <2>4, BeforeIs
<1>13. After(b, i) = text
  <2>1. i = Len(k)
    BY <1>6, <1>10
  <2>2. QED
    BY <1>6, <2>1, AfterIs
<1>14. Word(h, {blank}) = key
  <2>1. Without(key, {blank}) /\ (\A j \in 1 .. Len(u) : u[j] \in {blank}) /\ u[1] \in {blank}
    BY <1>1 DEF Without
  <2>2. QED
    BY <1>1, <2>1, WordBetween
<1>15. i # 0
  BY <1>10
<1>16. QED
  BY <1>8, <1>9, <1>11, <1>12, <1>13, <1>14, <1>15, Zenon DEF EntryReadAs

-----------------------------------------------------------------------------
(* The recursive functions of ConfigFile have values.  The set of the numbers *)
(* that satisfy a predicate stands for the predicate.                         *)

LEMMA InductionOnNat ==
    ASSUME NEW B, 0 \in B, \A n \in Nat : n \in B => n + 1 \in B
    PROVE  Nat \subseteq B
<1> SUFFICES ASSUME Nat \ B # {} PROVE FALSE
  OBVIOUS
<1> DEFINE R == {p \in Nat \X Nat : p[1] < p[2]}
<1>1. IsWellFoundedOn(R, Nat)
  BY NatLessThanWellFounded, Zenon DEF OpToRel
<1> HIDE DEF R
<1>2. PICK x \in Nat \ B : \A y \in Nat \ B : ~ (<<y, x>> \in R)
  BY <1>1, WFMin
<1>3. x # 0 /\ x - 1 \in Nat /\ (x - 1) + 1 = x /\ <<x - 1, x>> \in R
  BY <1>2 DEF R
<1>4. x - 1 \in B
  BY <1>2, <1>3
<1>5. QED
  BY <1>2, <1>3, <1>4

\* Values for 0 .. n, each from the one before it.
Runs(f, V, b, F, n) == f \in [0 .. n -> V] /\ f[0] = b /\ \A i \in 0 .. n - 1 : f[i + 1] = F[<<i, f[i]>>]

LEMMA Recursion ==
    ASSUME NEW V, NEW b \in V, NEW F \in [Nat \X V -> V]
    PROVE  \A n \in Nat : \E f : Runs(f, V, b, F, n)
<1> DEFINE B == {n \in Nat : \E f : Runs(f, V, b, F, n)}
<1>1. 0 \in B
  <2>1. Runs([i \in 0 .. 0 |-> b], V, b, F, 0)
    BY DEF Runs
  <2>2. QED
    BY <2>1, Zenon
<1>2. ASSUME NEW n \in Nat, n \in B PROVE n + 1 \in B
  <2>1. PICK f : Runs(f, V, b, F, n)
    BY <1>2, Zenon
  <2>2. f \in [0 .. n -> V] /\ f[0] = b /\ \A i \in 0 .. n - 1 : f[i + 1] = F[<<i, f[i]>>]
    BY <2>1 DEF Runs
  <2>3. PICK v \in V : v = F[<<n, f[n]>>]
    BY <2>2
  <2>4. PICK g : g = [i \in 0 .. n + 1 |-> IF i = n + 1 THEN v ELSE f[i]]
    OBVIOUS
  <2>5. g \in [0 .. n + 1 -> V]
    BY <2>2, <2>4
  <2>6. g[0] = b
    BY <2>2, <2>4
  <2>7. ASSUME NEW i \in 0 .. (n + 1) - 1 PROVE g[i + 1] = F[<<i, g[i]>>]
    <3>1. g[i] = f[i] /\ i \in 0 .. n
      BY <2>4
    <3>2. CASE i = n
      <4>1. g[i + 1] = v
        BY <2>4, <3>2
      <4>2. QED
        BY <2>3, <3>1, <3>2, <4>1
    <3>3. CASE i # n
      <4>1. i \in 0 .. n - 1 /\ g[i + 1] = f[i + 1]
        BY <2>4, <3>1, <3>3
      <4>2. QED
        BY <2>2, <3>1, <4>1
    <3>4. QED
      BY <3>2, <3>3
  <2>8. Runs(g, V, b, F, n + 1)
    BY <2>5, <2>6, <2>7, Zenon DEF Runs
  <2>9. n + 1 \in Nat
    OBVIOUS
  <2>10. QED
    BY <2>8, <2>9, Zenon
<1> HIDE DEF B
<1>3. Nat \subseteq B
  BY <1>1, <1>2, InductionOnNat
<1>4. QED
  BY <1>3, Zenon DEF B

-----------------------------------------------------------------------------
(* The values of a line, and what is left of it from each of them on. *)

\* Texts that do not begin a comment or a section.
Clean == {t \in Seq(Chars) : Without(t, {"#", "["})}

LEMMA WithoutJoin ==
    ASSUME NEW u \in Seq(Chars), NEW v \in Seq(Chars), NEW S, Without(u, S), Without(v, S), NEW t, IsJoin(t, u, v)
    PROVE  Without(t, S)
<1>1. Joins(t, u, v)
  BY Join, Zenon
<1>2. Len(u) \in Nat /\ Len(v) \in Nat
  OBVIOUS
<1>3. ASSUME NEW j \in 1 .. Len(t) PROVE t[j] \notin S
  <2>1. CASE j \in 1 .. Len(u)
    BY <1>1, <2>1 DEF Joins, Without
  <2>2. CASE j \notin 1 .. Len(u)
    <3>1. j - Len(u) \in 1 .. Len(v) /\ Len(u) + (j - Len(u)) = j
      BY <1>1, <1>2, <2>2 DEF Joins
    <3>2. t[j] = v[j - Len(u)]
      BY <1>1, <3>1, Zenon DEF Joins
    <3>3. QED
      BY <3>1, <3>2 DEF Without
  <2>3. QED
    BY <2>1, <2>2
<1>4. QED
  BY <1>3 DEF Without

LEMMA CleanJoin == \A u, v \in Clean : u \o v \in Clean
<1> SUFFICES ASSUME NEW u \in Clean, NEW v \in Clean PROVE u \o v \in Clean
  BY Zenon
<1>1. PICK t : t = u \o v
  OBVIOUS
<1>2. PICK S : S = {"#", "["}
  BY Zenon
<1>3. u \in Seq(Chars) /\ v \in Seq(Chars) /\ Without(u, S) /\ Without(v, S)
  BY <1>2, Zenon DEF Clean
<1>4. IsJoin(t, u, v)
  BY <1>1 DEF IsJoin
<1>5. t \in Seq(Chars)
  BY <1>3, <1>4, Join, Zenon DEF Joins
<1>6. Without(t, S)
  BY <1>3, <1>4, WithoutJoin, Zenon
<1>7. QED
  BY <1>1, <1>2, <1>5, <1>6, Zenon DEF Clean

\* JoinedBy(comma, values) from each value on.
From(comma, values) ==
    CHOOSE from : from = [i \in 1 .. Len(values) |->
        IF i = Len(values) THEN values[i] ELSE values[i] \o comma \o from[i + 1]]

LEMMA FromIs ==
    ASSUME NEW comma \in Clean, NEW values \in Seq(Clean), Len(values) >= 1
    PROVE  /\ \A i \in 1 .. Len(values) : From(comma, values)[i] \in Clean
           /\ From(comma, values)[Len(values)] = values[Len(values)]
           /\ \A i \in 1 .. Len(values) - 1 :
                From(comma, values)[i] = values[i] \o comma \o From(comma, values)[i + 1]
<1>1. PICK n : n = Len(values)
  OBVIOUS
<1>2. n \in Nat /\ n >= 1 /\ n - 1 \in Nat /\ \A i \in 1 .. n : values[i] \in Clean
  BY <1>1
<1> DEFINE F == [p \in Nat \X Clean |->
                    IF p[1] + 1 < n THEN values[n - (p[1] + 1)] \o comma \o p[2] ELSE p[2]]
<1>3. F \in [Nat \X Clean -> Clean]
  <2> SUFFICES ASSUME NEW p \in Nat \X Clean
               PROVE  (IF p[1] + 1 < n THEN values[n - (p[1] + 1)] \o comma \o p[2] ELSE p[2]) \in Clean
    BY Zenon
  <2>1. p[1] \in Nat /\ p[2] \in Clean
    OBVIOUS
  <2>2. CASE p[1] + 1 < n
    <3>1. n - (p[1] + 1) \in 1 .. n
      BY <1>2, <2>1, <2>2
    <3>2. QED
      BY <1>2, <2>1, <2>2, <3>1, CleanJoin, Zenon
  <2>3. QED
    BY <2>1, <2>2, Zenon
<1>4. values[n] \in Clean
  BY <1>2
<1>5. \A i \in Nat : \A t \in Clean :
        F[<<i, t>>] = IF i + 1 < n THEN values[n - (i + 1)] \o comma \o t ELSE t
  <2> SUFFICES ASSUME NEW i \in Nat, NEW t \in Clean
               PROVE  F[<<i, t>>] = IF i + 1 < n THEN values[n - (i + 1)] \o comma \o t ELSE t
    BY Zenon
  <2>1. <<i, t>> \in Nat \X Clean /\ <<i, t>>[1] = i /\ <<i, t>>[2] = t
    OBVIOUS
  <2>2. QED
    BY <2>1, Zenon
<1> HIDE DEF F
<1>6. PICK f : Runs(f, Clean, values[n], F, n - 1)
  BY <1>2, <1>3, <1>4, Recursion
<1>7. f \in [0 .. n - 1 -> Clean] /\ f[0] = values[n]
  BY <1>6 DEF Runs
<1>8. ASSUME NEW i \in 1 .. n - 1 PROVE f[n - i] = values[i] \o comma \o f[n - (i + 1)]
  <2>1. PICK j \in Nat : j = n - (i + 1) /\ j \in 0 .. (n - 1) - 1 /\ j + 1 = n - i /\ j + 1 < n /\ n - (j + 1) = i
    BY <1>2
  <2>2. j \in 0 .. n - 1
    BY <1>2, <2>1
  <2>3. f[j] \in Clean /\ f[j + 1] = F[<<j, f[j]>>]
    BY <1>6, <1>7, <2>1, <2>2, Zenon DEF Runs
  <2>4. QED
    BY <1>5, <2>1, <2>3, Zenon
<1>9. PICK g : g = [i \in 1 .. n |-> f[n - i]]
  OBVIOUS
<1>10. /\ \A i \in 1 .. n : n - i \in 0 .. n - 1
       /\ \A i \in 1 .. n : i = n => n - i = 0
       /\ \A i \in 1 .. n : i # n => i \in 1 .. n - 1 /\ i + 1 \in 1 .. n
       /\ n \in 1 .. n /\ n - n = 0
       /\ \A i \in 1 .. n - 1 : i \in 1 .. n /\ i # n
  BY <1>2
<1>11. g = [i \in 1 .. n |-> IF i = n THEN values[i] ELSE values[i] \o comma \o g[i + 1]]
  <2>1. ASSUME NEW i \in 1 .. n PROVE f[n - i] = IF i = n THEN values[i] ELSE values[i] \o comma \o g[i + 1]
    <3>1. CASE i = n
      BY <1>7, <1>10, <3>1, Zenon
    <3>2. CASE i # n
      <4>1. g[i + 1] = f[n - (i + 1)]
        BY <1>9, <1>10, <3>2, Zenon
      <4>2. QED
        BY <1>8, <1>10, <3>2, <4>1, Zenon
    <3>3. QED
      BY <3>1, <3>2, Zenon
  <2>2. QED
    BY <1>9, <2>1, Zenon
<1>12. PICK h : h = From(comma, values)
  OBVIOUS
<1>13. h = [i \in 1 .. n |-> IF i = n THEN values[i] ELSE values[i] \o comma \o h[i + 1]]
  BY <1>1, <1>11, <1>12, Zenon DEF From
<1>14. h[n] = values[n] /\ \A i \in 1 .. n - 1 : h[i] = values[i] \o comma \o h[i + 1]
  BY <1>10, <1>13, Zenon
<1>15. \A i \in 1 .. n : h[i] \in Clean
  <2> DEFINE B == {m \in Nat : m < n => h[n - m] \in Clean}
  <2>1. 0 \in B
    BY <1>2, <1>4, <1>14
  <2>2. ASSUME NEW m \in Nat, m \in B PROVE m + 1 \in B
    <3> SUFFICES ASSUME m + 1 < n PROVE h[n - (m + 1)] \in Clean
      OBVIOUS
    <3>1. PICK i \in 1 .. n - 1 : i = n - (m + 1) /\ i + 1 = n - m
      BY <1>2
    <3>2. i \in 1 .. n /\ m < n
      BY <1>2, <3>1
    <3>3. h[i + 1] \in Clean
      BY <2>2, <3>1, <3>2
    <3>4. h[i] = values[i] \o comma \o h[i + 1]
      BY <1>14, Zenon
    <3>5. h[i] \in Clean
      BY <1>2, <3>2, <3>3, <3>4, CleanJoin, Zenon
    <3>6. QED
      BY <3>1, <3>5, Zenon
  <2> HIDE DEF B
  <2>3. Nat \subseteq B
    BY <2>1, <2>2, InductionOnNat
  <2>4. ASSUME NEW i \in 1 .. n PROVE h[i] \in Clean
    <3>1. n - i \in Nat /\ n - i < n /\ n - (n - i) = i
      BY <1>2
    <3>2. QED
      BY <2>3, <3>1, Zenon DEF B
  <2>5. QED
    BY <2>4
<1>16. QED
  BY <1>1, <1>12, <1>14, <1>15, Zenon

-----------------------------------------------------------------------------
(* The items of a file. *)

LEMMA KindsDiffer ==
    /\ "section" # "entry" /\ "section" # "stray" /\ "section" # "blank" /\ "section" # "comment"
    /\ "entry" # "stray" /\ "entry" # "blank" /\ "entry" # "comment"
    /\ "stray" # "blank" /\ "stray" # "comment"
OBVIOUS

LEMMA WordText ==
    ASSUME NEW w, NEW special, IsWord(w, special), Range(w) \subseteq Chars
    PROVE  w \in Seq(Chars) /\ Without(w, special)
<1>1. w \in Seq(Range(w)) /\ Range(w) \cap special = {}
  BY DEF IsWord
<1>2. w \in Seq(Chars)
  BY <1>1
<1>3. \A j \in 1 .. Len(w) : w[j] \in Range(w)
  BY <1>1
<1>4. QED
  BY <1>1, <1>2, <1>3 DEF Without

KeyOk(key) == key \in Texts /\ key \in Seq(Chars) /\ Len(key) >= 1 /\ Without(key, {" ", "#", "[", ":"})
ValueOk(v) == v \in Texts /\ v \in Seq(Chars) /\ Without(v, {" ", "#", "[", ","})
ValuesOk(values) == values \in Seq(Texts) /\ Len(values) >= 1 /\ \A i \in 1 .. Len(values) : ValueOk(values[i])
CommentOk(comment) ==
    comment \in Seq(Chars) /\ (comment = <<>> \/ (Len(comment) >= 1 /\ comment[1] = "#"))
NameOk(n) == n \in Texts /\ n \in Seq(Chars) /\ Without(n, {" ", "#"})
Optional(item) == item.key \in {<<"daemon_mode">>, <<"port">>, <<"auth">>} => item.values[1] # <<>>

EntryOk(item) == KeyOk(item.key) /\ ValuesOk(item.values) /\ CommentOk(item.comment) /\ Optional(item)

LEMMA DocumentIs ==
    ASSUME NEW doc \in Documents
    PROVE  doc \in Seq(Items) /\ \A i \in 1 .. Len(doc) : doc[i] \in Items
<1>1. doc \in Seq(Range(doc)) /\ Range(doc) \subseteq Items
  BY Zenon, DocumentsAssumption DEF Items
<1>2. QED
  BY <1>1

LEMMA ItemIs ==
    ASSUME NEW item \in Items
    PROVE  /\ item.kind \in {"section", "entry", "stray", "blank", "comment"}
           /\ item.kind = "section" => NameOk(item.name)
           /\ item.kind = "entry" => EntryOk(item)
<1>1. PICK doc \in Documents : item \in Range(doc)
  BY Zenon DEF Items
<1>2. \/ item.kind = "section" /\ IsWord(item.name, {" ", "#"})
      \/ /\ item.kind = "entry"
         /\ IsWord(item.key, {" ", "#", "[", ":"}) /\ item.key # <<>>
         /\ item.values \in Seq(Range(item.values)) /\ item.values # <<>>
         /\ \A v \in Range(item.values) : IsWord(v, {" ", "#", "[", ","})
         /\ Optional(item)
         /\ item.comment = <<>> \/ (IsWord(item.comment, {}) /\ item.comment[1] = "#")
      \/ item.kind \in {"stray", "blank", "comment"}
  BY <1>1, DocumentsAssumption, Zenon DEF Optional
<1>3. \A t \in Texts : Range(t) \subseteq Chars
  BY Zenon DEF Chars
<1>4. CASE item.kind = "section" /\ IsWord(item.name, {" ", "#"})
  <2>1. item.name \in Texts
    BY <1>4, Zenon DEF Texts, Heads
  <2>2. NameOk(item.name)
    BY <1>3, <1>4, <2>1, WordText, Zenon DEF NameOk
  <2>3. QED
    BY <1>4, <2>2, KindsDiffer, Zenon
<1>5. CASE item.kind = "entry" /\ ~ (item.kind = "section") /\ ~ (item.kind \in {"stray", "blank", "comment"})
  <2>1. item \in Entries
    BY <1>5, Zenon DEF Entries
  <2>2. item.key \in Texts /\ Range(item.values) \subseteq Texts
    BY <2>1, Zenon DEF Texts
  <2>3. KeyOk(item.key)
    <3>1. item.key \in Seq(Chars) /\ Without(item.key, {" ", "#", "[", ":"})
      BY <1>2, <1>3, <1>5, <2>2, WordText, Zenon
    <3>2. item.key # <<>>
      BY <1>2, <1>5, Zenon
    <3>3. Len(item.key) >= 1
      <4>1. PICK key \in Seq(Chars) : key = item.key /\ key # <<>>
        BY <3>1, <3>2, Zenon
      <4>2. Len(key) >= 1
        BY <4>1
      <4>3. QED
        BY <4>1, <4>2, Zenon
    <3>4. QED
      BY <2>2, <3>1, <3>3, Zenon DEF KeyOk
  <2>4. ValuesOk(item.values)
    <3>1. PICK values, R : /\ values = item.values /\ R = Range(item.values) /\ values \in Seq(R) /\ values # <<>>
      BY <1>2, <1>5, Zenon
    <3>2. R \subseteq Texts /\ \A v \in R : ValueOk(v)
      <4>1. \A v \in R : IsWord(v, {" ", "#", "[", ","}) /\ v \in Texts
        BY <1>2, <1>5, <2>2, <3>1, Zenon
      <4>2. QED
        BY <1>3, <4>1, WordText, Zenon DEF ValueOk
    <3>3. values \in Seq(Texts) /\ Len(values) >= 1 /\ \A i \in 1 .. Len(values) : values[i] \in R
      BY <3>1, <3>2
    <3>4. QED
      BY <3>1, <3>2, <3>3, Zenon DEF ValuesOk
  <2>5. CommentOk(item.comment)
    <3>1. CASE item.comment = <<>>
      <4>1. <<>> \in Seq(Chars)
        OBVIOUS
      <4>2. QED
        BY <3>1, <4>1, Zenon DEF CommentOk
    <3>2. CASE item.comment # <<>>
      <4>1. IsWord(item.comment, {}) /\ item.comment[1] = "#"
        BY <1>2, <1>5, <3>2, Zenon
      <4>2. Range(item.comment) \subseteq Chars
        <5>1. PICK U : U = {Range(x.comment) : x \in Entries}
          OBVIOUS
        <5>2. Range(item.comment) \in U
          BY <2>1, <5>1, Zenon
        <5>3. UNION U \subseteq Chars
          BY <5>1, Zenon DEF Chars
        <5>4. QED
          BY <5>2, <5>3, Zenon
      <4>3. item.comment \in Seq(Chars)
        BY <4>1, <4>2, WordText, Zenon
      <4>4. Len(item.comment) >= 1
        <5>1. PICK c \in Seq(Chars) : c = item.comment /\ c # <<>>
          BY <3>2, <4>3, Zenon
        <5>2. Len(c) >= 1
          BY <5>1
        <5>3. QED
          BY <5>1, <5>2, Zenon
      <4>5. QED
        BY <4>1, <4>3, <4>4, Zenon DEF CommentOk
    <3>3. QED
      BY <3>1, <3>2, Zenon
  <2>6. Optional(item)
    BY <1>2, <1>5, Zenon
  <2>7. QED
    BY <1>5, <2>3, <2>4, <2>5, <2>6, KindsDiffer, Zenon DEF EntryOk
<1>6. CASE item.kind \in {"stray", "blank", "comment"}
  BY <1>6, KindsDiffer, Zenon
<1>7. QED
  BY <1>2, <1>4, <1>5, <1>6, KindsDiffer, Zenon

LEMMA EntryValues == \A item \in Items : item.kind = "entry" => item.values \in Seq(Texts) /\ Len(item.values) >= 1
BY ItemIs, Zenon DEF EntryOk, ValuesOk

-----------------------------------------------------------------------------
(* What the first items of a file say. *)

UpTo(doc, s, k) ==
    CHOOSE upto : upto = [i \in 0 .. Len(doc) |->
        IF i = 0 THEN <<>>
        ELSE IF Config!IsEntryOf(doc, i, s, k) THEN upto[i - 1] \o doc[i].values ELSE upto[i - 1]]

LEMMA TextsJoin == \A u, v \in Seq(Texts) : u \o v \in Seq(Texts)
OBVIOUS

LEMMA WrittenIs ==
    ASSUME NEW doc \in Documents, NEW s, NEW k
    PROVE  /\ \A i \in 0 .. Len(doc) : Config!Written(doc, i, s, k) \in Seq(Texts)
           /\ Config!Written(doc, 0, s, k) = <<>>
           /\ \A i \in 1 .. Len(doc) : Config!Written(doc, i, s, k) =
                IF Config!IsEntryOf(doc, i, s, k) THEN Config!Written(doc, i - 1, s, k) \o doc[i].values
                ELSE Config!Written(doc, i - 1, s, k)
<1>1. PICK n : n = Len(doc)
  OBVIOUS
<1>2. n \in Nat /\ \A i \in 1 .. n : doc[i] \in Items
  BY <1>1, DocumentIs
<1> DEFINE E(i) == i \in 1 .. n /\ Config!IsEntryOf(doc, i, s, k)
           V == Seq(Texts)
           F == [p \in Nat \X V |-> IF E(p[1] + 1) THEN p[2] \o doc[p[1] + 1].values ELSE p[2]]
<1>3. \A i : E(i) => doc[i].values \in V
  BY <1>2, EntryValues, Zenon DEF Config!IsEntryOf
<1>4. F \in [Nat \X V -> V]
  <2> SUFFICES ASSUME NEW p \in Nat \X V
               PROVE  (IF E(p[1] + 1) THEN p[2] \o doc[p[1] + 1].values ELSE p[2]) \in V
    BY Zenon
  <2> HIDE DEF E, V
  <2>1. p[1] \in Nat /\ p[2] \in V
    OBVIOUS
  <2>2. \A u, v \in V : u \o v \in V
    BY TextsJoin DEF V
  <2>3. QED
    BY <1>3, <2>1, <2>2, Zenon
<1>5. <<>> \in V
  OBVIOUS
<1>6. \A i \in Nat : \A t \in V : F[<<i, t>>] = IF E(i + 1) THEN t \o doc[i + 1].values ELSE t
  <2> SUFFICES ASSUME NEW i \in Nat, NEW t \in V
               PROVE  F[<<i, t>>] = IF E(i + 1) THEN t \o doc[i + 1].values ELSE t
    BY Zenon
  <2> HIDE DEF E, V
  <2>1. <<i, t>> \in Nat \X V /\ <<i, t>>[1] = i /\ <<i, t>>[2] = t
    OBVIOUS
  <2>2. QED
    BY <2>1, Zenon
<1> HIDE DEF F, V, E
<1>7. PICK f : Runs(f, V, <<>>, F, n)
  BY <1>2, <1>4, <1>5, Recursion
<1>8. f \in [0 .. n -> V] /\ f[0] = <<>>
  BY <1>7 DEF Runs
<1>9. /\ \A i \in 1 .. n : i - 1 \in 0 .. n - 1 /\ i - 1 \in 0 .. n /\ (i - 1) + 1 = i /\ i - 1 \in Nat
      /\ \A i \in 0 .. n : i # 0 => i \in 1 .. n
      /\ \A i \in 1 .. n : i # 0 /\ i \in 0 .. n
      /\ 0 \in 0 .. n
  BY <1>2
<1>10. ASSUME NEW i \in 1 .. n PROVE f[i] = IF E(i) THEN f[i - 1] \o doc[i].values ELSE f[i - 1]
  <2>1. f[i - 1] \in V
    BY <1>8, <1>9, Zenon
  <2>2. f[i] = F[<<i - 1, f[i - 1]>>]
    <3>1. \A j \in 0 .. n - 1 : f[j + 1] = F[<<j, f[j]>>]
      BY <1>7, Zenon DEF Runs
    <3>2. PICK j : j = i - 1
      OBVIOUS
    <3>3. j \in 0 .. n - 1 /\ j + 1 = i
      BY <1>9, <3>2, Zenon
    <3>4. QED
      BY <3>1, <3>2, <3>3, Zenon
  <2>3. PICK j \in Nat : j = i - 1 /\ j + 1 = i
    BY <1>9, Zenon
  <2>4. QED
    BY <1>6, <2>1, <2>2, <2>3, Zenon
<1>11. f = [i \in 0 .. n |->
            IF i = 0 THEN <<>>
            ELSE IF Config!IsEntryOf(doc, i, s, k) THEN f[i - 1] \o doc[i].values ELSE f[i - 1]]
  <2>1. ASSUME NEW i \in 0 .. n
        PROVE  f[i] = IF i = 0 THEN <<>>
                      ELSE IF Config!IsEntryOf(doc, i, s, k) THEN f[i - 1] \o doc[i].values ELSE f[i - 1]
    BY <1>8, <1>9, <1>10, Zenon DEF E
  <2>2. f = [i \in 0 .. n |-> f[i]]
    BY <1>8
  <2>3. QED
    BY <2>1, <2>2, Zenon
<1>12. PICK g : g = UpTo(doc, s, k)
  OBVIOUS
<1>13. g = [i \in 0 .. n |->
            IF i = 0 THEN <<>>
            ELSE IF Config!IsEntryOf(doc, i, s, k) THEN g[i - 1] \o doc[i].values ELSE g[i - 1]]
  BY <1>1, <1>11, <1>12, Zenon DEF UpTo
<1>14. \A i : Config!Written(doc, i, s, k) = g[i]
  BY <1>12, Zenon DEF Config!Written, UpTo
<1>15. g[0] = <<>>
  BY <1>9, <1>13, Zenon
<1>16. \A i \in 1 .. n : g[i] =
            IF Config!IsEntryOf(doc, i, s, k) THEN g[i - 1] \o doc[i].values ELSE g[i - 1]
  BY <1>9, <1>13, Zenon
<1>17. \A i \in 0 .. n : g[i] \in V
  <2> DEFINE B == {m \in Nat : m <= n => g[m] \in V}
  <2>1. 0 \in B
    BY <1>5, <1>15, Zenon
  <2>2. ASSUME NEW m \in Nat, m \in B PROVE m + 1 \in B
    <3> SUFFICES ASSUME m + 1 <= n PROVE g[m + 1] \in V
      OBVIOUS
    <3>1. m + 1 \in 1 .. n /\ m <= n /\ (m + 1) - 1 = m
      BY <1>2
    <3>2. g[m] \in V
      BY <2>2, <3>1, Zenon
    <3>3. \A u, v \in V : u \o v \in V
      BY TextsJoin DEF V
    <3>4. Config!IsEntryOf(doc, m + 1, s, k) => doc[m + 1].values \in V
      BY <1>3, <3>1, Zenon DEF E
    <3>5. QED
      BY <1>16, <3>1, <3>2, <3>3, <3>4, Zenon
  <2> HIDE DEF B
  <2>3. Nat \subseteq B
    BY <2>1, <2>2, InductionOnNat
  <2>4. \A i \in 0 .. n : i \in Nat /\ i <= n
    OBVIOUS
  <2>5. QED
    BY <2>3, <2>4, Zenon DEF B
<1>18. QED
  BY <1>1, <1>14, <1>15, <1>16, <1>17, Zenon DEF V

-----------------------------------------------------------------------------
(* The lists of ConfigData, over any set of names and values. *)

LEMMA FindIn ==
    ASSUME NEW R, NEW list \in Seq(R), NEW n, NEW i, i = Config!Find(list, n)
    PROVE  /\ i \in 0 .. Len(list)
           /\ i = 0 => \A j \in 1 .. Len(list) : list[j].name # n
           /\ i # 0 => i \in 1 .. Len(list) /\ list[i].name = n
<1>1. PICK I : I = {j \in 1 .. Len(list) : list[j].name = n}
  OBVIOUS
<1>2. i = IF I # {} THEN Min(I) ELSE 0
  <2>1. Config!Find(list, n) = IF {j \in 1 .. Len(list) : list[j].name = n} # {}
                               THEN Config!Min({j \in 1 .. Len(list) : list[j].name = n}) ELSE 0
    BY Zenon DEF Config!Find, Config!SelectInSeq
  <2>2. \A S : Config!Min(S) = Min(S)
    BY DEF Config!Min, Min
  <2>3. QED
    BY <1>1, <2>1, <2>2, Zenon
<1>3. CASE I = {}
  BY <1>1, <1>2, <1>3
<1>4. CASE I # {}
  <2>1. I \subseteq Nat /\ Min(I) \in I
    <3>1. I \subseteq Nat
      BY <1>1
    <3>2. QED
      BY <1>4, <3>1, FirstExists
  <2>2. i \in 1 .. Len(list) /\ list[i].name = n
    BY <1>1, <1>2, <1>4, <2>1, Zenon
  <2>3. QED
    BY <2>2
<1>5. QED
  BY <1>3, <1>4

LEMMA FindIs ==
    ASSUME NEW R, NEW list \in Seq(R), Config!IsDistinct(list), NEW j \in 1 .. Len(list), NEW n, list[j].name = n
    PROVE  Config!Find(list, n) = j
<1>1. PICK i : i = Config!Find(list, n)
  OBVIOUS
<1>2. i # 0 /\ i \in 1 .. Len(list) /\ list[i].name = n
  BY <1>1, FindIn
<1>3. i = j
  BY <1>2 DEF Config!IsDistinct
<1>4. QED
  BY <1>1, <1>3

\* The names are the same.
SameNames(a, b) == Len(a) = Len(b) /\ \A j \in 1 .. Len(a) : b[j].name = a[j].name

LEMMA FindSame ==
    ASSUME NEW R, NEW a \in Seq(R), NEW b \in Seq(R), Config!IsDistinct(a), SameNames(a, b)
    PROVE  Config!IsDistinct(b) /\ \A n : Config!Find(b, n) = Config!Find(a, n)
<1>1. DOMAIN a = 1 .. Len(a) /\ DOMAIN b = 1 .. Len(a) /\ Len(a) = Len(b) /\ \A j \in 1 .. Len(a) : b[j].name = a[j].name
  BY DEF SameNames
<1>2. Config!IsDistinct(b)
  BY <1>1 DEF Config!IsDistinct
<1>3. ASSUME NEW n PROVE Config!Find(b, n) = Config!Find(a, n)
  <2>1. PICK i : i = Config!Find(a, n)
    OBVIOUS
  <2>2. /\ i \in 0 .. Len(a)
        /\ i = 0 => \A j \in 1 .. Len(a) : a[j].name # n
        /\ i # 0 => i \in 1 .. Len(a) /\ a[i].name = n
    BY <2>1, FindIn
  <2>3. CASE i = 0
    <3>1. PICK k : k = Config!Find(b, n)
      OBVIOUS
    <3>2. k # 0 => k \in 1 .. Len(b) /\ b[k].name = n
      BY <3>1, FindIn
    <3>3. QED
      BY <1>1, <2>1, <2>2, <2>3, <3>1, <3>2
  <2>4. CASE i # 0
    <3>1. i \in 1 .. Len(b) /\ b[i].name = n
      BY <1>1, <2>2, <2>4
    <3>2. Config!Find(b, n) = i
      BY <1>2, <3>1, FindIs
    <3>3. QED
      BY <2>1, <3>2
  <2>5. QED
    BY <2>3, <2>4
<1>4. QED
  BY <1>2, <1>3

\* Kept inside a definition, so that a step sees a list only by its members.
IsAppend(b, a, x) == b = Append(a, x)

LEMMA FindAppended ==
    ASSUME NEW R, NEW a \in Seq(R), NEW x \in R, NEW n, x.name = n, Config!Find(a, n) = 0, Config!IsDistinct(a),
           NEW b, IsAppend(b, a, x)
    PROVE  /\ b \in Seq(R) /\ Config!IsDistinct(b)
           /\ Len(b) = Len(a) + 1 /\ b[Len(a) + 1] = x /\ \A j \in 1 .. Len(a) : b[j] = a[j]
           /\ Config!Find(b, n) = Len(a) + 1
           /\ \A m : m # n => Config!Find(b, m) = Config!Find(a, m)
<1>0. b \in Seq(R)
  BY DEF IsAppend
<1>1. Len(b) = Len(a) + 1 /\ b[Len(a) + 1] = x /\ \A j \in 1 .. Len(a) : b[j] = a[j]
  BY DEF IsAppend
<1>2. \A j \in 1 .. Len(a) : a[j].name # n
  BY FindIn
<1>3. DOMAIN a = 1 .. Len(a) /\ DOMAIN b = 1 .. Len(a) + 1 /\ Len(a) \in Nat
  BY <1>0, <1>1
<1>4. \A j \in 1 .. Len(a) + 1 : j \in 1 .. Len(a) \/ j = Len(a) + 1
  BY <1>3
<1>5. Config!IsDistinct(b)
  <2> SUFFICES ASSUME NEW i \in 1 .. Len(a) + 1, NEW j \in 1 .. Len(a) + 1, b[i].name = b[j].name PROVE i = j
    BY <1>3, Zenon DEF Config!IsDistinct
  <2>1. CASE i \in 1 .. Len(a) /\ j \in 1 .. Len(a)
    BY <1>1, <1>3, <2>1, Zenon DEF Config!IsDistinct
  <2>2. CASE i \in 1 .. Len(a) /\ j = Len(a) + 1
    BY <1>1, <1>2, <2>2, Zenon
  <2>3. CASE i = Len(a) + 1 /\ j \in 1 .. Len(a)
    BY <1>1, <1>2, <2>3, Zenon
  <2>4. QED
    BY <1>4, <2>1, <2>2, <2>3
<1>6. Config!Find(b, n) = Len(a) + 1
  <2>1. Len(a) + 1 \in 1 .. Len(b) /\ b[Len(a) + 1].name = n
    BY <1>1, <1>3
  <2>2. QED
    BY <1>0, <1>5, <2>1, FindIs
<1>7. ASSUME NEW m, m # n PROVE Config!Find(b, m) = Config!Find(a, m)
  <2>1. PICK i : i = Config!Find(a, m)
    OBVIOUS
  <2>2. /\ i \in 0 .. Len(a)
        /\ i = 0 => \A j \in 1 .. Len(a) : a[j].name # m
        /\ i # 0 => i \in 1 .. Len(a) /\ a[i].name = m
    BY <2>1, FindIn
  <2>3. PICK k : k = Config!Find(b, m)
    OBVIOUS
  <2>4. k \in 0 .. Len(b) /\ (k # 0 => k \in 1 .. Len(b) /\ b[k].name = m)
    BY <1>0, <2>3, FindIn
  <2>5. CASE i = 0
    <3>1. k = 0
      BY <1>1, <1>4, <1>7, <2>2, <2>4, <2>5
    <3>2. QED
      BY <2>1, <2>3, <2>5, <3>1
  <2>6. CASE i # 0
    <3>1. i \in 1 .. Len(b) /\ b[i].name = m
      BY <1>1, <1>3, <2>2, <2>6
    <3>2. Config!Find(b, m) = i
      BY <1>0, <1>5, <3>1, FindIs
    <3>3. QED
      BY <2>1, <3>2
  <2>7. QED
    BY <2>5, <2>6
<1>8. QED
  BY <1>0, <1>1, <1>5, <1>6, <1>7

IsReplaced(b, a, i, x) == b = [a EXCEPT ![i] = x]

LEMMA FindReplaced ==
    ASSUME NEW R, NEW a \in Seq(R), Config!IsDistinct(a), NEW i \in 1 .. Len(a), NEW x \in R, x.name = a[i].name,
           NEW b, IsReplaced(b, a, i, x)
    PROVE  /\ b \in Seq(R) /\ Config!IsDistinct(b) /\ SameNames(a, b)
           /\ b[i] = x /\ \A j \in 1 .. Len(a) : j # i => b[j] = a[j]
           /\ \A n : Config!Find(b, n) = Config!Find(a, n)
<1>0. b \in Seq(R)
  BY DEF IsReplaced
<1>1. Len(b) = Len(a) /\ b[i] = x /\ \A j \in 1 .. Len(a) : j # i => b[j] = a[j]
  BY DEF IsReplaced
<1>2. SameNames(a, b)
  BY <1>1 DEF SameNames
<1>3. QED
  BY <1>0, <1>1, <1>2, FindSame

-----------------------------------------------------------------------------
(* What AddValue does to the attributes of a section, and what it leaves. *)

AttributeOf(T) == [name : T, values : Seq(T)]
SectionOf(T) == [name : T, attributes : Seq(AttributeOf(T))]

ValuesIn(attributes, k) ==
    LET i == Config!Find(attributes, k) IN IF i = 0 THEN <<>> ELSE attributes[i].values

\* A list and what it becomes when there is one more name, or not.
Extended(B, A, k) ==
    /\ Len(A) <= Len(B) /\ \A j \in 1 .. Len(A) : B[j].name = A[j].name
    /\ \A j \in 1 .. Len(B) : j > Len(A) => B[j].name = k /\ \A i \in 1 .. Len(A) : A[i].name # k

\* A becomes C.
ValueAdded(C, A, T, k, v) ==
    /\ C \in Seq(AttributeOf(T)) /\ Config!IsDistinct(C)
    /\ ValuesIn(C, k) = Append(ValuesIn(A, k), v)
    /\ \A m : m # k => ValuesIn(C, m) = ValuesIn(A, m)
    /\ Extended(C, A, k)

LEMMA NewAttribute ==
    \A T : \A k \in T : \E x \in AttributeOf(T) : x = [name |-> k, values |-> <<>>] /\ x.name = k /\ x.values = <<>>
<1> SUFFICES ASSUME NEW T, NEW k \in T
             PROVE  \E x \in AttributeOf(T) : x = [name |-> k, values |-> <<>>] /\ x.name = k /\ x.values = <<>>
  BY Zenon
<1>1. PICK x : x = [name |-> k, values |-> <<>>]
  OBVIOUS
<1>2. x \in AttributeOf(T) /\ x.name = k /\ x.values = <<>>
  BY <1>1 DEF AttributeOf
<1>3. QED
  BY <1>1, <1>2, Zenon

\* The attribute at j has v behind its values.
IsUpdated(C, B, j, v) == C = [B EXCEPT ![j].values = Append(@, v)]

LEMMA AppendIn == \A T : \A t \in Seq(T) : \A v \in T : Append(t, v) \in Seq(T)
OBVIOUS

IsPut(x, b, v) == x = [b EXCEPT !.values = Append(@, v)]

LEMMA PutValues ==
    ASSUME NEW T, NEW b \in AttributeOf(T), NEW v \in T, NEW x, IsPut(x, b, v)
    PROVE  x \in AttributeOf(T) /\ x.name = b.name /\ x.values = Append(b.values, v)
<1>1. b.values \in Seq(T) /\ b.name \in T /\ b = [name |-> b.name, values |-> b.values]
  BY DEF AttributeOf
<1>2. PICK w : w = Append(b.values, v)
  OBVIOUS
<1>3. w \in Seq(T)
  BY <1>1, <1>2, AppendIn, Zenon
<1>4. x = [name |-> b.name, values |-> w]
  <2>1. x = [b EXCEPT !.values = w]
    BY <1>2 DEF IsPut
  <2>2. QED
    BY <1>1, <2>1
<1>5. QED
  BY <1>1, <1>2, <1>3, <1>4 DEF AttributeOf

LEMMA UpdateIs ==
    ASSUME NEW T, NEW B \in Seq(AttributeOf(T)), NEW j \in 1 .. Len(B), NEW v \in T, NEW C, IsUpdated(C, B, j, v)
    PROVE  \E x \in AttributeOf(T) : /\ x.name = B[j].name /\ x.values = Append(B[j].values, v)
                                     /\ IsReplaced(C, B, j, x)
<1>1. PICK b \in AttributeOf(T) : b = B[j]
  OBVIOUS
<1>2. PICK x : IsPut(x, b, v)
  BY DEF IsPut
<1>3. x \in AttributeOf(T) /\ x.name = b.name /\ x.values = Append(b.values, v)
  BY <1>2, PutValues
<1>4. IsReplaced(C, B, j, x)
  BY <1>1, <1>2 DEF IsReplaced, IsUpdated, IsPut
<1>5. QED
  BY <1>1, <1>3, <1>4, Zenon

LEMMA GetAttributeIs ==
    ASSUME NEW T, NEW A \in Seq(AttributeOf(T)), Config!IsDistinct(A), NEW k \in T,
           NEW B, B = Config!GetAttribute(A, k)
    PROVE  /\ B \in Seq(AttributeOf(T)) /\ Config!IsDistinct(B)
           /\ Config!Find(B, k) \in 1 .. Len(B)
           /\ \A m : ValuesIn(B, m) = ValuesIn(A, m)
           /\ Extended(B, A, k)
<1>1. CASE Config!Find(A, k) # 0
  <2>1. B = A
    BY <1>1 DEF Config!GetAttribute
  <2>2. Config!Find(A, k) \in 1 .. Len(A)
    BY <1>1, FindIn
  <2>3. QED
    BY <2>1, <2>2 DEF Extended
<1>2. CASE Config!Find(A, k) = 0
  <2>1. PICK x \in AttributeOf(T) : x = [name |-> k, values |-> <<>>] /\ x.name = k /\ x.values = <<>>
    BY NewAttribute, Zenon
  <2>2. IsAppend(B, A, x)
    BY <1>2, <2>1, Zenon DEF Config!GetAttribute, IsAppend
  <2>3. /\ B \in Seq(AttributeOf(T)) /\ Config!IsDistinct(B)
        /\ Len(B) = Len(A) + 1 /\ B[Len(A) + 1] = x /\ \A j \in 1 .. Len(A) : B[j] = A[j]
        /\ Config!Find(B, k) = Len(A) + 1
        /\ \A m : m # k => Config!Find(B, m) = Config!Find(A, m)
    BY <1>2, <2>1, <2>2, FindAppended
  <2>4. \A j \in 1 .. Len(A) : A[j].name # k
    BY <1>2, FindIn
  <2>5. ASSUME NEW m PROVE ValuesIn(B, m) = ValuesIn(A, m)
    <3>1. CASE m = k
      <4>1. Config!Find(B, k) # 0 /\ B[Config!Find(B, k)].values = <<>>
        BY <2>1, <2>3
      <4>2. QED
        BY <1>2, <3>1, <4>1, Zenon DEF ValuesIn
    <3>2. CASE m # k
      <4>1. Config!Find(A, m) # 0 => Config!Find(A, m) \in 1 .. Len(A)
        BY FindIn
      <4>2. QED
        BY <2>3, <3>2, <4>1, Zenon DEF ValuesIn
    <3>3. QED
      BY <3>1, <3>2
  <2>6. QED
    BY <2>1, <2>3, <2>4, <2>5 DEF Extended
<1>3. QED
  BY <1>1, <1>2

LEMMA ValueAddedIs ==
    ASSUME NEW T, NEW A \in Seq(AttributeOf(T)), Config!IsDistinct(A), NEW k \in T, NEW v \in T,
           NEW B, B = Config!GetAttribute(A, k), NEW j, j = Config!Find(B, k), NEW C, IsUpdated(C, B, j, v)
    PROVE  ValueAdded(C, A, T, k, v)
<1>0. B \in Seq(AttributeOf(T)) /\ Config!IsDistinct(B) /\ Config!Find(B, k) \in 1 .. Len(B)
  BY GetAttributeIs
<1>1. (\A m : ValuesIn(B, m) = ValuesIn(A, m)) /\ Extended(B, A, k)
  BY GetAttributeIs
<1>2. PICK x \in AttributeOf(T) : /\ x.name = B[j].name /\ x.values = Append(B[j].values, v)
                                  /\ IsReplaced(C, B, j, x)
  BY <1>0, UpdateIs
<1>3. j \in 1 .. Len(B) /\ B[j].name = k /\ j # 0
  <2>1. j \in 1 .. Len(B)
    BY <1>0
  <2>2. j # 0
    BY <2>1
  <2>3. B[j].name = k
    BY <1>0, <2>2, FindIn
  <2>4. QED
    BY <2>1, <2>2, <2>3
<1>4. /\ C \in Seq(AttributeOf(T)) /\ Config!IsDistinct(C) /\ SameNames(B, C)
      /\ C[j] = x /\ \A i \in 1 .. Len(B) : i # j => C[i] = B[i]
      /\ \A n : Config!Find(C, n) = Config!Find(B, n)
  BY <1>0, <1>2, <1>3, FindReplaced
<1>5. ValuesIn(C, k) = Append(ValuesIn(A, k), v)
  <2>1. ValuesIn(B, k) = B[j].values
    BY <1>3, Zenon DEF ValuesIn
  <2>2. Config!Find(C, k) = j
    BY <1>4, Zenon
  <2>3. ValuesIn(C, k) = C[j].values
    BY <1>3, <2>2, Zenon DEF ValuesIn
  <2>4. QED
    BY <1>1, <1>2, <1>4, <2>1, <2>3, Zenon
<1>6. ASSUME NEW m, m # k PROVE ValuesIn(C, m) = ValuesIn(A, m)
  <2>1. PICK i : i = Config!Find(B, m)
    OBVIOUS
  <2>2. i # 0 => i \in 1 .. Len(B) /\ B[i].name = m
    BY <1>0, <2>1, FindIn
  <2>3. i # j
    BY <1>3, <1>6, <2>2, Zenon
  <2>4. ValuesIn(C, m) = ValuesIn(B, m)
    <3>1. Config!Find(C, m) = i
      BY <1>4, <2>1, Zenon
    <3>2. i # 0 => C[i].values = B[i].values
      BY <1>4, <2>2, <2>3, Zenon
    <3>3. QED
      BY <2>1, <3>1, <3>2, Zenon DEF ValuesIn
  <2>5. QED
    BY <1>1, <2>4, Zenon
<1>7. Len(C) = Len(B) /\ \A i \in 1 .. Len(B) : C[i].name = B[i].name
  BY <1>4, Zenon DEF SameNames
<1>8. Len(A) \in Nat /\ Len(B) \in Nat
  BY <1>0
<1>9. \A i \in 1 .. Len(A) : i \in 1 .. Len(B)
  BY <1>1, <1>8 DEF Extended
<1>10. Extended(C, A, k)
  BY <1>1, <1>7, <1>9, Zenon DEF Extended
<1>11. QED
  BY <1>4, <1>5, <1>6, <1>10, Zenon DEF ValueAdded

-----------------------------------------------------------------------------
(* The same of the sections. *)

Tidy(data) == Config!IsDistinct(data) /\ \A i \in 1 .. Len(data) : Config!IsDistinct(data[i].attributes)
DataOf(T) == {data \in Seq(SectionOf(T)) : Tidy(data)}

AttributesIn(data, s) ==
    LET i == Config!Find(data, s) IN IF i = 0 THEN <<>> ELSE data[i].attributes

LEMMA NewSection ==
    ASSUME NEW T, NEW s \in T, NEW x, x = [name |-> s, attributes |-> <<>>]
    PROVE  x \in SectionOf(T) /\ x.name = s /\ x.attributes = <<>>
BY DEF SectionOf

LEMMA NoneDistinct == Config!IsDistinct(<<>>)
BY DEF Config!IsDistinct

LEMMA AttributesOfSection ==
    \A T : \A x \in SectionOf(T) : x.attributes \in Seq(AttributeOf(T)) /\ x.name \in T
BY DEF SectionOf

LEMMA AttributesTidy ==
    ASSUME NEW T, NEW data \in DataOf(T), NEW s
    PROVE  AttributesIn(data, s) \in Seq(AttributeOf(T)) /\ Config!IsDistinct(AttributesIn(data, s))
<1>1. PICK i : i = Config!Find(data, s)
  OBVIOUS
<1>2. data \in Seq(SectionOf(T)) /\ Tidy(data)
  BY DEF DataOf
<1>3. CASE i = 0
  <2>1. AttributesIn(data, s) = <<>>
    BY <1>1, <1>3, Zenon DEF AttributesIn
  <2>2. <<>> \in Seq(AttributeOf(T))
    OBVIOUS
  <2>3. QED
    BY <2>1, <2>2, NoneDistinct, Zenon
<1>4. CASE i # 0
  <2>1. i \in 1 .. Len(data)
    BY <1>1, <1>2, <1>4, FindIn
  <2>2. data[i] \in SectionOf(T)
    BY <1>2, <2>1
  <2>3. AttributesIn(data, s) = data[i].attributes
    BY <1>1, <1>4, Zenon DEF AttributesIn
  <2>4. QED
    BY <1>2, <2>1, <2>2, <2>3, AttributesOfSection, Zenon DEF Tidy
<1>5. QED
  BY <1>3, <1>4

LEMMA AddSectionIs ==
    ASSUME NEW T, NEW data \in DataOf(T), NEW s \in T, NEW e, e = Config!AddSection(data, s)
    PROVE  /\ e \in DataOf(T) /\ Config!Find(e, s) \in 1 .. Len(e)
           /\ \A t : AttributesIn(e, t) = AttributesIn(data, t)
<1>0. data \in Seq(SectionOf(T)) /\ Tidy(data)
  BY DEF DataOf
<1>1. CASE Config!Find(data, s) # 0
  <2>1. e = data
    BY <1>1 DEF Config!AddSection
  <2>2. Config!Find(data, s) \in 1 .. Len(data)
    BY <1>0, <1>1, FindIn
  <2>3. QED
    BY <2>1, <2>2
<1>2. CASE Config!Find(data, s) = 0
  <2>1. PICK x : x = [name |-> s, attributes |-> <<>>]
    OBVIOUS
  <2>2. x \in SectionOf(T) /\ x.name = s /\ x.attributes = <<>>
    BY <2>1, NewSection
  <2>3. IsAppend(e, data, x)
    BY <1>2, <2>1, Zenon DEF Config!AddSection, IsAppend
  <2>4. Config!IsDistinct(data)
    BY <1>0 DEF Tidy
  <2>5. /\ e \in Seq(SectionOf(T)) /\ Config!IsDistinct(e)
        /\ Len(e) = Len(data) + 1 /\ e[Len(data) + 1] = x /\ \A j \in 1 .. Len(data) : e[j] = data[j]
        /\ Config!Find(e, s) = Len(data) + 1
        /\ \A m : m # s => Config!Find(e, m) = Config!Find(data, m)
    BY <1>0, <1>2, <2>2, <2>3, <2>4, FindAppended
  <2>6. Len(data) \in Nat
    BY <1>0
  <2>7. Tidy(e)
    <3>1. ASSUME NEW i \in 1 .. Len(e) PROVE Config!IsDistinct(e[i].attributes)
      <4>1. CASE i \in 1 .. Len(data)
        BY <1>0, <2>5, <4>1, Zenon DEF Tidy
      <4>2. CASE i = Len(data) + 1
        BY <2>2, <2>5, <4>2, NoneDistinct, Zenon
      <4>3. QED
        BY <2>5, <2>6, <4>1, <4>2
    <3>2. QED
      BY <2>5, <3>1, Zenon DEF Tidy
  <2>8. ASSUME NEW t PROVE AttributesIn(e, t) = AttributesIn(data, t)
    <3>1. CASE t = s
      <4>1. Len(data) + 1 # 0
        BY <2>6
      <4>2. QED
        BY <1>2, <2>2, <2>5, <3>1, <4>1, Zenon DEF AttributesIn
    <3>2. CASE t # s
      <4>1. Config!Find(data, t) # 0 => Config!Find(data, t) \in 1 .. Len(data)
        BY <1>0, FindIn
      <4>2. QED
        BY <2>5, <3>2, <4>1, Zenon DEF AttributesIn
    <3>3. QED
      BY <3>1, <3>2
  <2>9. Len(data) + 1 \in 1 .. Len(e)
    BY <2>5, <2>6
  <2>10. QED
    BY <2>5, <2>7, <2>8, <2>9, Zenon DEF DataOf
<1>3. QED
  BY <1>1, <1>2

\* The section at i has these attributes now.
IsSetTo(e, d, i, attributes) == e = [d EXCEPT ![i].attributes = attributes]

LEMMA SetSection ==
    ASSUME NEW T, NEW d \in Seq(SectionOf(T)), NEW i \in 1 .. Len(d), NEW A \in Seq(AttributeOf(T)),
           NEW e, IsSetTo(e, d, i, A)
    PROVE  \E x \in SectionOf(T) : x.name = d[i].name /\ x.attributes = A /\ IsReplaced(e, d, i, x)
<1>1. PICK b \in SectionOf(T) : b = d[i]
  OBVIOUS
<1>2. PICK x : x = [b EXCEPT !.attributes = A]
  OBVIOUS
<1>3. x \in SectionOf(T) /\ x.name = b.name /\ x.attributes = A
  BY <1>2 DEF SectionOf
<1>4. IsReplaced(e, d, i, x)
  BY <1>1, <1>2 DEF IsReplaced, IsSetTo
<1>5. QED
  BY <1>1, <1>3, <1>4, Zenon

LEMMA AddValueIs ==
    ASSUME NEW T, NEW data \in DataOf(T), NEW s \in T, NEW k \in T, NEW v \in T,
           NEW e, e = Config!AddValue(data, s, k, v)
    PROVE  /\ e \in DataOf(T)
           /\ \A t : t # s => AttributesIn(e, t) = AttributesIn(data, t)
           /\ ValueAdded(AttributesIn(e, s), AttributesIn(data, s), T, k, v)
<1>1. PICK found : found = Config!AddSection(data, s)
  OBVIOUS
<1>2. /\ found \in DataOf(T) /\ Config!Find(found, s) \in 1 .. Len(found)
      /\ \A t : AttributesIn(found, t) = AttributesIn(data, t)
  BY <1>1, AddSectionIs
<1>3. PICK i : i = Config!Find(found, s)
  OBVIOUS
<1>4. PICK A : A = found[i].attributes
  OBVIOUS
<1>5. PICK B : B = Config!GetAttribute(A, k)
  OBVIOUS
<1>6. PICK j : j = Config!Find(B, k)
  OBVIOUS
<1>7. PICK C : IsUpdated(C, B, j, v)
  BY Zenon DEF IsUpdated
<1>8. IsSetTo(e, found, i, C)
  BY <1>1, <1>3, <1>4, <1>5, <1>6, <1>7, Zenon DEF Config!AddValue, IsSetTo, IsUpdated
<1>9. i \in 1 .. Len(found) /\ i # 0
  BY <1>2, <1>3
<1>10. A = AttributesIn(data, s)
  BY <1>2, <1>3, <1>4, <1>9, Zenon DEF AttributesIn
<1>11. A \in Seq(AttributeOf(T)) /\ Config!IsDistinct(A)
  BY <1>10, AttributesTidy
<1>12. ValueAdded(C, A, T, k, v)
  BY <1>5, <1>6, <1>7, <1>11, ValueAddedIs
<1>13. C \in Seq(AttributeOf(T)) /\ Config!IsDistinct(C)
  BY <1>12 DEF ValueAdded
<1>14. found \in Seq(SectionOf(T)) /\ Tidy(found)
  BY <1>2 DEF DataOf
<1>15. PICK x \in SectionOf(T) : x.name = found[i].name /\ x.attributes = C /\ IsReplaced(e, found, i, x)
  BY <1>8, <1>9, <1>13, <1>14, SetSection
<1>16. Config!IsDistinct(found)
  BY <1>14 DEF Tidy
<1>17. /\ e \in Seq(SectionOf(T)) /\ Config!IsDistinct(e) /\ SameNames(found, e)
       /\ e[i] = x /\ \A h \in 1 .. Len(found) : h # i => e[h] = found[h]
       /\ \A n : Config!Find(e, n) = Config!Find(found, n)
  BY <1>9, <1>14, <1>15, <1>16, FindReplaced
<1>18. Len(e) = Len(found)
  BY <1>17 DEF SameNames
<1>19. Tidy(e)
  <2>1. ASSUME NEW h \in 1 .. Len(found) PROVE Config!IsDistinct(e[h].attributes)
    BY <1>13, <1>14, <1>15, <1>17, Zenon DEF Tidy
  <2>2. QED
    BY <1>17, <1>18, <2>1, Zenon DEF Tidy
<1>20. AttributesIn(e, s) = C
  BY <1>3, <1>9, <1>15, <1>17, Zenon DEF AttributesIn
<1>21. ASSUME NEW t, t # s PROVE AttributesIn(e, t) = AttributesIn(data, t)
  <2>1. PICK h : h = Config!Find(found, t)
    OBVIOUS
  <2>2. h # 0 => h \in 1 .. Len(found) /\ found[h].name = t
    BY <1>14, <2>1, FindIn
  <2>3. found[i].name = s
    BY <1>3, <1>9, <1>14, FindIn
  <2>4. h # 0 => e[h] = found[h]
    BY <1>17, <1>21, <2>2, <2>3, Zenon
  <2>5. AttributesIn(e, t) = AttributesIn(found, t)
    BY <1>17, <2>1, <2>4, Zenon DEF AttributesIn
  <2>6. QED
    BY <1>2, <2>5, Zenon
<1>22. QED
  BY <1>10, <1>12, <1>17, <1>19, <1>20, <1>21, Zenon DEF DataOf

-----------------------------------------------------------------------------
(* The lines of a file, and what LoadData finds in them. *)

LEMMA CharsDiffer ==
    /\ " " # "#" /\ " " # "[" /\ " " # "]" /\ " " # ":" /\ " " # ","
    /\ "#" # "[" /\ "#" # "]" /\ "#" # ":" /\ "#" # ","
    /\ "[" # "]" /\ "[" # ":" /\ "[" # "," /\ "]" # ":" /\ "]" # "," /\ ":" # ","
    /\ "stray" # " " /\ "stray" # "#" /\ "stray" # "[" /\ "stray" # ":"
BY Zenon

LEMMA CharsIn ==
    /\ " " \in Chars /\ "#" \in Chars /\ "[" \in Chars /\ "]" \in Chars /\ ":" \in Chars /\ "," \in Chars
    /\ "stray" \in Chars /\ "a" \in Chars /\ "k" \in Chars /\ "v" \in Chars
BY Zenon DEF Chars

LEMMA PairOf ==
    ASSUME NEW a \in Chars, NEW b \in Chars, NEW u, IsOne(u, a), NEW v, IsOne(v, b)
    PROVE  IsJoin(<<a, b>>, u, v)
<1>1. u \in Seq(Chars) /\ Len(u) = 1 /\ u[1] = a /\ v \in Seq(Chars) /\ Len(v) = 1 /\ v[1] = b
  BY One, Zenon
<1>2. PICK t : IsJoin(t, u, v)
  BY DEF IsJoin
<1>3. Joins(t, u, v)
  BY <1>1, <1>2, Join, Zenon
<1>4. t \in Seq(Chars) /\ Len(t) = 2 /\ t[1] = a /\ t[2] = b
  BY <1>1, <1>3 DEF Joins
<1>5. PICK w : w = <<a, b>>
  OBVIOUS
<1>6. w \in Seq(Chars) /\ Len(w) = 2 /\ w[1] = a /\ w[2] = b
  BY <1>5
<1>7. \A j \in 1 .. 2 : w[j] = t[j]
  <2>1. \A j \in 1 .. 2 : j = 1 \/ j = 2
    OBVIOUS
  <2>2. QED
    BY <1>4, <1>6, <2>1, Zenon
<1>8. w = t
  BY <1>4, <1>6, <1>7, SeqEqual
<1>9. QED
  BY <1>2, <1>5, <1>8, Zenon

\* The line as LoadData reads it.
CutLine(item) == LET l == Config!Line(item) IN Config!Before(l, Config!strchr(l, "#"))

LEMMA LineBufIs ==
    ASSUME NEW i \in 1 .. Len(document), document \in Documents
    PROVE  Config!LineBuf(i) = CutLine(document[i])
<1>1. DOMAIN document = 1 .. Len(document)
  BY DocumentIs
<1>2. Config!Lines(document)[i] = Config!Line(document[i])
  BY <1>1, Zenon DEF Config!Lines
<1>3. QED
  BY <1>2, Zenon DEF Config!LineBuf, CutLine

Comma == <<",", " ">>

\* What is left of the values of a line behind the first c of them.
Rest(values, c) == IF c = 0 THEN From(Comma, values)[1] ELSE <<" ">> \o From(Comma, values)[c + 1]

LEMMA JoinedByIs == \A values : Config!JoinedBy(Comma, values) = From(Comma, values)[1]
BY Zenon DEF Config!JoinedBy, From

LEMMA LineIs ==
    ASSUME NEW item
    PROVE  /\ item.kind = "section" => Config!Line(item) = <<"[">> \o item.name \o <<"]">>
           /\ item.kind = "entry" => Config!Line(item) =
                <<" ">> \o item.key \o <<" ", ":">> \o From(Comma, item.values)[1] \o item.comment
           /\ item.kind = "stray" => Config!Line(item) = <<" ", "stray", ",">>
           /\ item.kind = "blank" => Config!Line(item) = <<" ">>
           /\ item.kind = "comment" => Config!Line(item) = <<"#", "[", "a", "]", "k", ":", "v">>
<1>1. item.kind = "section" => Config!Line(item) = <<"[">> \o item.name \o <<"]">>
  BY KindsDiffer, Zenon DEF Config!Line
<1>2. item.kind = "entry" => Config!Line(item) =
                <<" ">> \o item.key \o <<" ", ":">> \o From(Comma, item.values)[1] \o item.comment
  BY KindsDiffer, JoinedByIs, Zenon DEF Config!Line, Config!Blank, Comma
<1>3. item.kind = "stray" => Config!Line(item) = <<" ", "stray", ",">>
  BY KindsDiffer, Zenon DEF Config!Line, Config!Blank
<1>4. item.kind = "blank" => Config!Line(item) = <<" ">>
  BY KindsDiffer, Zenon DEF Config!Line, Config!Blank
<1>5. item.kind = "comment" => Config!Line(item) = <<"#", "[", "a", "]", "k", ":", "v">>
  BY KindsDiffer, Zenon DEF Config!Line
<1>6. QED
  BY <1>1, <1>2, <1>3, <1>4, <1>5, Zenon

LEMMA WithoutFewer == ASSUME NEW s, NEW S, NEW R, R \subseteq S, Without(s, S) PROVE Without(s, R)
BY DEF Without

LEMMA ValueClean == ASSUME NEW v, ValueOk(v) PROVE v \in Clean
<1>1. PICK S, R : S = {" ", "#", "[", ","} /\ R = {"#", "["}
  BY Zenon
<1>2. R \subseteq S
  BY <1>1, Zenon
<1>3. v \in Seq(Chars) /\ Without(v, S)
  BY <1>1, Zenon DEF ValueOk
<1>4. Without(v, R)
  BY <1>2, <1>3, WithoutFewer
<1>5. QED
  BY <1>1, <1>3, <1>4, Zenon DEF Clean

LEMMA OneClean == ASSUME NEW c \in Chars, c # "#", c # "[", NEW u, IsOne(u, c) PROVE u \in Clean
<1>1. PICK R : R = {"#", "["}
  OBVIOUS
<1>2. c \notin R
  BY <1>1, Zenon
<1>3. u \in Seq(Chars) /\ Len(u) = 1 /\ u[1] = c
  BY One, Zenon
<1>4. Without(u, R)
  BY <1>2, <1>3 DEF Without
<1>5. QED
  BY <1>1, <1>3, <1>4, Zenon DEF Clean

LEMMA CommaIs ==
    /\ Comma \in Clean
    /\ \A u, v : IsOne(u, ",") /\ IsOne(v, " ") => IsJoin(Comma, u, v)
<1>1. \A u, v : IsOne(u, ",") /\ IsOne(v, " ") => IsJoin(Comma, u, v)
  BY PairOf, CharsIn, Zenon DEF Comma
<1>2. PICK u, v : IsOne(u, ",") /\ IsOne(v, " ")
  BY Zenon DEF IsOne
<1>3. u \in Clean /\ v \in Clean
  BY <1>2, OneClean, CharsIn, CharsDiffer, Zenon
<1>4. Comma = u \o v
  BY <1>1, <1>2, Zenon DEF IsJoin
<1>5. Comma \in Clean
  BY <1>3, <1>4, CleanJoin, Zenon
<1>6. QED
  BY <1>1, <1>5, Zenon

LEMMA FromClean ==
    ASSUME NEW values, ValuesOk(values)
    PROVE  /\ \A i \in 1 .. Len(values) : From(Comma, values)[i] \in Clean
           /\ From(Comma, values)[Len(values)] = values[Len(values)]
           /\ \A i \in 1 .. Len(values) - 1 :
                From(Comma, values)[i] = values[i] \o Comma \o From(Comma, values)[i + 1]
<1>1. values \in Seq(Texts) /\ Len(values) >= 1 /\ \A i \in 1 .. Len(values) : ValueOk(values[i])
  BY DEF ValuesOk
<1>2. \A i \in 1 .. Len(values) : values[i] \in Clean
  BY <1>1, ValueClean, Zenon
<1>3. values \in Seq(Clean)
  <2>1. Len(values) \in Nat /\ values = [i \in 1 .. Len(values) |-> values[i]]
    BY <1>1
  <2>2. QED
    BY <1>2, <2>1
<1>4. Comma \in Clean
  BY CommaIs, Zenon
<1>5. QED
  BY <1>1, <1>3, <1>4, FromIs

LEMMA EntryLine ==
    ASSUME NEW item \in Items, item.kind = "entry", NEW b, b = CutLine(item)
    PROVE  /\ ~ Config!IsSection(b)
           /\ Config!strchr(b, ":") # 0
           /\ Config!Word(Config!Before(b, Config!strchr(b, ":")), Config!Blanks) = item.key
           /\ Config!After(b, Config!strchr(b, ":")) = Rest(item.values, 0)
<1>1. EntryOk(item)
  BY ItemIs, Zenon
<1>2. PICK key, text, comment : key = item.key /\ text = From(Comma, item.values)[1] /\ comment = item.comment
  OBVIOUS
<1>3. key \in Seq(Chars) /\ Len(key) >= 1 /\ Without(key, {" ", "#", "[", ":"})
  BY <1>1, <1>2, Zenon DEF EntryOk, KeyOk
<1>4. text \in Seq(Chars) /\ Without(text, {"#", "["})
  <2>1. Len(item.values) >= 1 /\ Len(item.values) \in Nat
    <3>1. PICK values : values = item.values
      OBVIOUS
    <3>2. values \in Seq(Texts) /\ Len(values) >= 1
      BY <1>1, <3>1, Zenon DEF EntryOk, ValuesOk
    <3>3. Len(values) \in Nat
      BY <3>2
    <3>4. QED
      BY <3>1, <3>2, <3>3, Zenon
  <2>2. 1 \in 1 .. Len(item.values)
    BY <2>1
  <2>3. text \in Clean
    BY <1>1, <1>2, <2>2, FromClean, Zenon DEF EntryOk
  <2>4. QED
    BY <2>3, Zenon DEF Clean
<1>5. comment \in Seq(Chars) /\ (comment = <<>> \/ (Len(comment) >= 1 /\ comment[1] = "#"))
  BY <1>1, <1>2, Zenon DEF EntryOk, CommentOk
<1>6. PICK blank, hash, open, colon : blank = " " /\ hash = "#" /\ open = "[" /\ colon = ":"
  BY Zenon
<1>7. /\ blank \in Chars /\ hash \in Chars /\ open \in Chars /\ colon \in Chars
      /\ blank \notin {hash, open, colon} /\ colon \notin {hash, open}
  BY <1>6, CharsIn, CharsDiffer, Zenon
<1>8. PICK u, c : IsOne(u, blank) /\ IsOne(c, colon)
  BY Zenon DEF IsOne
<1>9. PICK a : IsJoin(a, u, key)
  BY Zenon DEF IsJoin
<1>10. PICK h : IsJoin(h, a, u)
  BY Zenon DEF IsJoin
<1>11. PICK k : IsJoin(k, h, c)
  BY Zenon DEF IsJoin
<1>12. PICK d : IsJoin(d, k, text)
  BY Zenon DEF IsJoin
<1>13. PICK l : IsJoin(l, d, comment)
  BY Zenon DEF IsJoin
<1>14. Without(key, {blank, hash, open, colon}) /\ Without(text, {hash, open})
  BY <1>3, <1>4, <1>6, Zenon
<1>15. /\ d \in Seq(Chars) /\ Without(d, {hash, open})
       /\ strchr(d, colon) # 0
       /\ Word(Before(d, strchr(d, colon)), {blank}) = key
       /\ After(d, strchr(d, colon)) = text
  <2>1. key \in Seq(Chars) /\ Len(key) >= 1 /\ text \in Seq(Chars)
    BY <1>3, <1>4, Zenon
  <2>2. EntryParts(blank, hash, open, colon, key, text, u, c, a, h, k, d)
    BY <1>7, <1>8, <1>9, <1>10, <1>11, <1>12, <1>14, <2>1, Zenon DEF EntryParts
  <2>3. EntryReadAs(d, blank, hash, open, colon, key, text)
    BY <2>2, EntryText
  <2>4. QED
    BY <2>3, Zenon DEF EntryReadAs
<1>16. l = Config!Line(item)
  <2>1. u \in Seq(Chars) /\ c \in Seq(Chars)
    BY <1>7, <1>8, One, Zenon
  <2>2. a \in Seq(Chars)
    BY <1>3, <1>9, <2>1, Join, Zenon DEF Joins
  <2>3. IsJoin(<<" ", ":">>, u, c)
    BY <1>6, <1>7, <1>8, PairOf, Zenon
  <2>4. IsJoin(k, a, <<" ", ":">>)
    BY <1>10, <1>11, <2>1, <2>2, <2>3, Regroup, Zenon
  <2>5. Config!Line(item) = <<" ">> \o key \o <<" ", ":">> \o text \o comment
    BY <1>2, LineIs, Zenon
  <2>6. u = <<" ">>
    BY <1>6, <1>8, Zenon DEF IsOne
  <2>7. QED
    BY <1>9, <1>12, <1>13, <2>4, <2>5, <2>6, Zenon DEF IsJoin
<1>17. b = d
  <2>1. Without(d, {hash})
    <3>1. {hash} \subseteq {hash, open}
      OBVIOUS
    <3>2. QED
      BY <1>15, <3>1, WithoutFewer
  <2>2. comment = <<>> \/ (Len(comment) >= 1 /\ comment[1] = hash)
    BY <1>5, <1>6, Zenon
  <2>3. Before(l, strchr(l, hash)) = d
    BY <1>5, <1>7, <1>13, <1>15, <2>1, <2>2, CommentCut, Zenon
  <2>4. QED
    BY <1>6, <1>16, <2>3, SameText, Zenon DEF CutLine
<1>18. ~ Config!IsSection(b)
  <2>1. strchr(d, open) = 0
    <3>1. open \in {hash, open}
      OBVIOUS
    <3>2. QED
      BY <1>15, <3>1, strchrAbsent
  <2>2. QED
    BY <1>6, <1>17, <2>1, SameText, Zenon DEF Config!IsSection
<1>19. text = Rest(item.values, 0)
  BY <1>2, Zenon DEF Rest
<1>20. Config!Blanks = {blank}
  BY <1>6, Zenon DEF Config!Blanks, Config!Blank
<1>21. QED
  BY <1>2, <1>6, <1>15, <1>17, <1>18, <1>19, <1>20, SameText, Zenon

\* A line of blanks and other characters that mean nothing.
LEMMA ThreeIs ==
    ASSUME NEW a \in Chars, NEW b \in Chars, NEW c \in Chars, NEW t, t = <<a, b, c>>
    PROVE  t \in Seq(Chars) /\ Len(t) = 3 /\ t[1] = a /\ t[2] = b /\ t[3] = c
OBVIOUS

LEMMA AbsentInThree ==
    ASSUME NEW a \in Chars, NEW b \in Chars, NEW c \in Chars, NEW t, t = <<a, b, c>>, NEW x, x \notin {a, b, c}
    PROVE  strchr(t, x) = 0
<1>1. t \in Seq(Chars) /\ Len(t) = 3 /\ t[1] = a /\ t[2] = b /\ t[3] = c
  BY ThreeIs
<1>2. \A j \in 1 .. 3 : j = 1 \/ j = 2 \/ j = 3
  OBVIOUS
<1>3. Without(t, {x})
  BY <1>1, <1>2 DEF Without
<1>4. x \in {x}
  OBVIOUS
<1>5. QED
  BY <1>1, <1>3, <1>4, strchrAbsent

LEMMA StrayLine ==
    ASSUME NEW item, item.kind = "stray", NEW b, b = CutLine(item)
    PROVE  ~ Config!IsSection(b) /\ Config!strchr(b, ":") = 0 /\ Config!Word(b, Config!Blanks) # <<>>
<1>1. PICK blank, word, comma : blank = " " /\ word = "stray" /\ comma = ","
  BY Zenon
<1>2. blank \in Chars /\ word \in Chars /\ comma \in Chars /\ word # blank /\ comma # blank
  BY <1>1, CharsIn, CharsDiffer, Zenon
<1>3. PICK t : t = <<blank, word, comma>>
  OBVIOUS
<1>4. t = Config!Line(item)
  BY <1>1, <1>3, LineIs, Zenon
<1>5. \A x : x \notin {blank, word, comma} => strchr(t, x) = 0
  BY <1>2, <1>3, AbsentInThree
<1>6. strchr(t, "#") = 0 /\ strchr(t, "[") = 0 /\ strchr(t, ":") = 0
  BY <1>1, <1>5, CharsDiffer, Zenon
<1>7. b = t
  BY <1>4, <1>6, SameText, Zenon DEF CutLine, Before
<1>8. t \in Seq(Chars) /\ Len(t) = 3 /\ t[1] = blank /\ t[2] = word /\ t[3] = comma
  BY <1>2, <1>3, ThreeIs
<1>9. WordAt(t, {blank}, 2, 3)
  <2>1. /\ 2 <= 3 /\ 3 <= Len(t)
        /\ \A j \in 1 .. 2 - 1 : j = 1
        /\ \A j \in 2 .. 3 : j = 2 \/ j = 3
        /\ 3 = Len(t)
    BY <1>8
  <2>2. \A j \in 1 .. 2 - 1 : t[j] \in {blank}
    BY <1>8, <2>1
  <2>3. \A j \in 2 .. 3 : t[j] \notin {blank}
    BY <1>2, <1>8, <2>1
  <2>4. QED
    BY <2>1, <2>2, <2>3 DEF WordAt
<1>10. Word(t, {blank}) = SubSeq(t, 2, 3)
  <2>1. 2 \in Nat \ {0} /\ 3 \in Nat
    OBVIOUS
  <2>2. QED
    BY <1>8, <1>9, <2>1, WordIsAt
<1>11. Word(t, {blank}) # <<>>
  BY <1>8, <1>10
<1>12. Config!Blanks = {blank}
  BY <1>1, Zenon DEF Config!Blanks, Config!Blank
<1>13. QED
  BY <1>6, <1>7, <1>11, <1>12, SameText, Zenon DEF Config!IsSection

\* All blanks.
LEMMA OnlyBlanks ==
    ASSUME NEW t \in Seq(Chars), NEW blank, \A j \in 1 .. Len(t) : t[j] = blank
    PROVE  (\A x : x # blank => strchr(t, x) = 0) /\ Word(t, {blank}) = <<>>
<1>1. ASSUME NEW x, x # blank PROVE strchr(t, x) = 0
  <2>1. \A j \in 1 .. Len(t) : t[j] \notin {x}
    BY <1>1, Zenon
  <2>2. Without(t, {x}) /\ x \in {x}
    BY <2>1 DEF Without
  <2>3. QED
    BY <2>2, strchrAbsent
<1>2. Word(t, {blank}) = <<>>
  <2>1. \A j \in 1 .. Len(t) : t[j] \in {blank}
    OBVIOUS
  <2>2. QED
    BY <2>1, NoWord
<1>3. QED
  BY <1>1, <1>2

LEMMA BlankText ==
    ASSUME NEW t \in Seq(Chars), NEW blank, blank = " ", \A j \in 1 .. Len(t) : t[j] = blank
    PROVE  /\ strchr(t, "#") = 0 /\ strchr(t, "[") = 0 /\ strchr(t, ":") = 0
           /\ Word(t, Config!Blanks) = <<>>
<1>1. (\A x : x # blank => strchr(t, x) = 0) /\ Word(t, {blank}) = <<>>
  BY OnlyBlanks, Zenon
<1>2. Config!Blanks = {blank}
  BY Zenon DEF Config!Blanks, Config!Blank
<1>3. strchr(t, "#") = 0 /\ strchr(t, "[") = 0 /\ strchr(t, ":") = 0
  BY <1>1, CharsDiffer, Zenon
<1>4. QED
  BY <1>1, <1>2, <1>3, Zenon

LEMMA BlankLine ==
    ASSUME NEW item, item.kind \in {"blank", "comment"}, NEW b, b = CutLine(item)
    PROVE  ~ Config!IsSection(b) /\ Config!strchr(b, ":") = 0 /\ Config!Word(b, Config!Blanks) = <<>>
<1>1. PICK blank : blank = " "
  BY Zenon
<1>2. b \in Seq(Chars) /\ \A j \in 1 .. Len(b) : b[j] = blank
  <2>1. CASE item.kind = "blank"
    <3>1. PICK u : IsOne(u, blank)
      BY Zenon DEF IsOne
    <3>2. u \in Seq(Chars) /\ Len(u) = 1 /\ u[1] = blank
      BY <1>1, <3>1, CharsIn, One, Zenon
    <3>3. \A j \in 1 .. Len(u) : u[j] = blank
      BY <3>2
    <3>4. u = Config!Line(item)
      BY <1>1, <2>1, <3>1, LineIs, Zenon DEF IsOne
    <3>5. strchr(u, "#") = 0
      BY <1>1, <3>2, <3>3, BlankText, Zenon
    <3>6. b = u
      BY <3>4, <3>5, SameText, Zenon DEF CutLine, Before
    <3>7. QED
      BY <3>2, <3>3, <3>6
  <2>2. CASE item.kind = "comment"
    <3>1. PICK hash, c2, c3, c4, c5, c6, c7 :
            hash = "#" /\ c2 = "[" /\ c3 = "a" /\ c4 = "]" /\ c5 = "k" /\ c6 = ":" /\ c7 = "v"
      BY Zenon
    <3>2. PICK l : l = <<hash, c2, c3, c4, c5, c6, c7>>
      OBVIOUS
    <3>3. l = Config!Line(item)
      BY <2>2, <3>1, <3>2, LineIs, Zenon
    <3>4. hash \in Chars /\ c2 \in Chars /\ c3 \in Chars /\ c4 \in Chars /\ c5 \in Chars /\ c6 \in Chars /\ c7 \in Chars
      BY <3>1, CharsIn, Zenon
    <3>5. l \in Seq(Chars) /\ Len(l) = 7 /\ l[1] = hash
      BY <3>2, <3>4
    <3>6. strchr(l, hash) = 1
      <4>1. 1 \in 1 .. Len(l) /\ \A j \in 1 .. 1 - 1 : l[j] # hash
        BY <3>5
      <4>2. QED
        BY <3>5, <4>1, strchrIs
    <3>7. b = Before(l, 1)
      BY <3>1, <3>3, <3>6, SameText, Zenon DEF CutLine
    <3>8. b = SubSeq(l, 1, 0)
      BY <3>7 DEF Before
    <3>9. b \in Seq(Chars) /\ Len(b) = 0
      BY <3>5, <3>8
    <3>10. QED
      BY <3>9
  <2>3. QED
    BY <2>1, <2>2, Zenon
<1>3. /\ strchr(b, "#") = 0 /\ strchr(b, "[") = 0 /\ strchr(b, ":") = 0
      /\ Word(b, Config!Blanks) = <<>>
  BY <1>1, <1>2, BlankText, Zenon
<1>4. QED
  BY <1>3, SameText, Zenon DEF Config!IsSection

LEMMA strrchrLast ==
    ASSUME NEW E, NEW s \in Seq(E), NEW c, Len(s) >= 1, s[Len(s)] = c
    PROVE  strrchr(s, c) = Len(s)
<1>1. PICK I : I = {j \in 1 .. Len(s) : s[j] = c}
  OBVIOUS
<1>2. strrchr(s, c) = IF I # {} THEN Max(I) ELSE 0
  BY <1>1 DEF strrchr, SelectLastInSeq
<1>3. Len(s) \in I /\ I \subseteq Nat /\ \A j \in I : Len(s) >= j
  BY <1>1
<1>4. Max(I) = Len(s)
  <2>1. Max(I) \in I /\ \A j \in I : Max(I) >= j
    BY <1>3 DEF Max
  <2>2. PICK m \in Nat : m = Max(I) /\ m >= Len(s) /\ Len(s) >= m
    BY <1>3, <2>1
  <2>3. QED
    BY <2>2
<1>5. QED
  BY <1>2, <1>3, <1>4, Zenon

LEMMA AfterOf == \A a, b \in Seq(Chars) : \A t : IsJoin(t, a, b) => After(t, Len(a)) = b
BY AfterIs

LEMMA SectionText ==
    ASSUME NEW open \in Chars, NEW close \in Chars, NEW n \in Seq(Chars), NEW u, IsOne(u, open), NEW w, IsOne(w, close),
           NEW s, IsJoin(s, u, n), NEW l, IsJoin(l, s, w)
    PROVE  /\ l \in Seq(Chars) /\ \A S : Without(n, S) /\ open \notin S /\ close \notin S => Without(l, S)
           /\ strchr(l, open) = 1 /\ strrchr(l, close) # 0
           /\ Before(After(l, 1), strrchr(After(l, 1), close)) = n
<1>1. u \in Seq(Chars) /\ Len(u) = 1 /\ u[1] = open /\ w \in Seq(Chars) /\ Len(w) = 1 /\ w[1] = close
  BY One, Zenon
<1>2. s \in Seq(Chars) /\ Len(s) = 1 + Len(n) /\ s[1] = open /\ \A j \in 1 .. Len(n) : s[1 + j] = n[j]
  <2>1. Joins(s, u, n)
    BY <1>1, Join, Zenon
  <2>2. QED
    BY <1>1, <2>1 DEF Joins
<1>3. l \in Seq(Chars) /\ Len(l) = Len(s) + 1 /\ l[Len(l)] = close /\ \A j \in 1 .. Len(s) : l[j] = s[j]
  <2>1. Joins(l, s, w)
    BY <1>1, <1>2, Join, Zenon
  <2>2. QED
    BY <1>1, <1>2, <2>1 DEF Joins
<1>4. ASSUME NEW S, Without(n, S), open \notin S, close \notin S PROVE Without(l, S)
  <2>1. Without(u, S) /\ Without(w, S)
    BY <1>1, <1>4 DEF Without
  <2>2. Without(s, S)
    BY <1>1, <1>4, <2>1, WithoutJoin
  <2>3. QED
    BY <1>1, <1>2, <2>1, <2>2, WithoutJoin
<1>5. Len(n) \in Nat
  OBVIOUS
<1>6. strchr(l, open) = 1
  <2>1. 1 \in 1 .. Len(l) /\ 1 \in 1 .. Len(s) /\ \A j \in 1 .. 1 - 1 : l[j] # open
    BY <1>2, <1>3, <1>5
  <2>2. l[1] = open
    BY <1>2, <1>3, <2>1
  <2>3. QED
    BY <1>3, <2>1, <2>2, strchrIs
<1>7. strrchr(l, close) # 0
  <2>1. Len(l) >= 1
    BY <1>2, <1>3, <1>5
  <2>2. strrchr(l, close) = Len(l)
    BY <1>3, <2>1, strrchrLast
  <2>3. QED
    BY <2>1, <2>2
<1>8. PICK t : IsJoin(t, n, w)
  BY Zenon DEF IsJoin
<1>9. After(l, 1) = t
  <2>1. IsJoin(l, u, t)
    BY <1>1, <1>8, Regroup, Zenon
  <2>2. t \in Seq(Chars)
    BY <1>1, <1>8, Join, Zenon DEF Joins
  <2>3. 1 = Len(u) /\ u \in Seq(Chars)
    BY <1>1
  <2>4. After(l, Len(u)) = t
    BY <2>1, <2>2, <2>3, AfterOf, Zenon
  <2>5. QED
    BY <2>3, <2>4
<1>10. t \in Seq(Chars) /\ Len(t) = Len(n) + 1 /\ t[Len(t)] = close
  <2>1. Joins(t, n, w)
    BY <1>1, <1>8, Join, Zenon
  <2>2. QED
    BY <1>1, <2>1 DEF Joins
<1>11. strrchr(t, close) = Len(n) + 1
  BY <1>5, <1>10, strrchrLast
<1>12. Before(t, Len(n) + 1) = n
  BY <1>1, <1>8, BeforeIs
<1>13. QED
  BY <1>3, <1>4, <1>6, <1>7, <1>9, <1>11, <1>12

\* A text without blanks is one word.
LEMMA WholeWord ==
    ASSUME NEW n \in Seq(Chars), NEW blank, Without(n, {blank})
    PROVE  Word(n, {blank}) = n
<1>1. CASE n = <<>>
  <2>1. \A j \in 1 .. Len(n) : n[j] \in {blank}
    BY <1>1
  <2>2. Word(n, {blank}) = <<>>
    BY <2>1, NoWord
  <2>3. QED
    BY <1>1, <2>2
<1>2. CASE n # <<>>
  <2>1. 1 <= Len(n) /\ Len(n) \in Nat /\ 1 \in Nat \ {0}
    BY <1>2
  <2>2. WordAt(n, {blank}, 1, Len(n))
    BY <2>1 DEF WordAt, Without
  <2>3. PieceAt(n, 1, Len(n), n)
    BY <2>1 DEF PieceAt
  <2>4. Word(n, {blank}) = SubSeq(n, 1, Len(n))
    BY <2>1, <2>2, WordIsAt
  <2>5. SubSeq(n, 1, Len(n)) = n
    BY <2>1, <2>3, PieceIs
  <2>6. QED
    BY <2>4, <2>5
<1>3. QED
  BY <1>1, <1>2

LEMMA SectionLineIs ==
    ASSUME NEW item \in Items, item.kind = "section", NEW b, b = CutLine(item)
    PROVE  Config!IsSection(b) /\ Config!Word(Config!InBrackets(b), Config!Blanks) = item.name
<1>1. PICK n : n = item.name
  OBVIOUS
<1>2. n \in Seq(Chars) /\ Without(n, {" ", "#"})
  BY <1>1, ItemIs, Zenon DEF NameOk
<1>3. PICK blank, hash, open, close : blank = " " /\ hash = "#" /\ open = "[" /\ close = "]"
  BY Zenon
<1>4. open \in Chars /\ close \in Chars /\ open \notin {hash} /\ close \notin {hash}
  BY <1>3, CharsIn, CharsDiffer, Zenon
<1>5. PICK u, w : IsOne(u, open) /\ IsOne(w, close)
  BY Zenon DEF IsOne
<1>6. PICK s : IsJoin(s, u, n)
  BY Zenon DEF IsJoin
<1>7. PICK l : IsJoin(l, s, w)
  BY Zenon DEF IsJoin
<1>8. n \in Seq(Chars) /\ Without(n, {blank}) /\ Without(n, {hash})
  <2>1. n \in Seq(Chars) /\ Without(n, {blank, hash})
    BY <1>2, <1>3, Zenon
  <2>2. {blank} \subseteq {blank, hash} /\ {hash} \subseteq {blank, hash}
    OBVIOUS
  <2>3. QED
    BY <2>1, <2>2, WithoutFewer, Zenon
<1>9. /\ l \in Seq(Chars) /\ \A S : Without(n, S) /\ open \notin S /\ close \notin S => Without(l, S)
      /\ strchr(l, open) = 1 /\ strrchr(l, close) # 0
      /\ Before(After(l, 1), strrchr(After(l, 1), close)) = n
  BY <1>4, <1>5, <1>6, <1>7, <1>8, SectionText
<1>10. l = Config!Line(item)
  BY <1>1, <1>3, <1>5, <1>6, <1>7, LineIs, Zenon DEF IsOne, IsJoin
<1>11. strchr(l, hash) = 0
  <2>1. Without(l, {hash}) /\ hash \in {hash}
    BY <1>4, <1>8, <1>9, Zenon
  <2>2. QED
    BY <1>9, <2>1, strchrAbsent
<1>12. b = l
  BY <1>3, <1>10, <1>11, SameText, Zenon DEF CutLine, Before
<1>13. Config!IsSection(b)
  <2>1. strchr(l, open) # 0
    BY <1>9
  <2>2. QED
    BY <1>3, <1>9, <1>12, <2>1, SameText, Zenon DEF Config!IsSection
<1>14. Config!InBrackets(b) = n
  BY <1>3, <1>9, <1>12, SameText, Zenon DEF Config!InBrackets
<1>15. Config!Blanks = {blank}
  BY <1>3, Zenon DEF Config!Blanks, Config!Blank
<1>16. Word(n, {blank}) = n
  BY <1>8, WholeWord
<1>17. QED
  BY <1>1, <1>13, <1>14, <1>15, <1>16, SameText, Zenon

-----------------------------------------------------------------------------
(* The values of a line, one after the other. *)

LEMMA RegroupLeft ==
    \A a, b, c \in Seq(Chars) : \A ab, bc, t :
        IsJoin(ab, a, b) /\ IsJoin(bc, b, c) /\ IsJoin(t, a, bc) => IsJoin(t, ab, c)
<1> SUFFICES ASSUME NEW a \in Seq(Chars), NEW b \in Seq(Chars), NEW c \in Seq(Chars), NEW ab, NEW bc, NEW t,
                    IsJoin(ab, a, b), IsJoin(bc, b, c), IsJoin(t, a, bc)
             PROVE  IsJoin(t, ab, c)
  BY Zenon
<1>1. a \o (b \o c) = (a \o b) \o c
  BY Associate, Zenon
<1>2. a \o bc = ab \o c
  BY <1>1, Zenon DEF IsJoin
<1>3. QED
  BY <1>2, Zenon DEF IsJoin

LEMMA JoinText == \A a, b \in Seq(Chars) : \A t : IsJoin(t, a, b) => t \in Seq(Chars)
BY Join, Zenon DEF Joins

\* Blanks, a value and the comma behind it, and the rest of the line.
PieceParts(blank, comma, u, v, g, p, q, pq, h, f, t, s, r) ==
    /\ u \in Seq(Chars) /\ v \in Seq(Chars) /\ g \in Seq(Chars) /\ blank \in Chars /\ comma \in Chars
    /\ blank # comma /\ (\A j \in 1 .. Len(u) : u[j] = blank) /\ Without(v, {comma})
    /\ IsOne(p, comma) /\ IsOne(q, blank) /\ IsJoin(pq, p, q)
    /\ IsJoin(h, v, pq) /\ IsJoin(f, h, g) /\ IsJoin(t, u, f)
    /\ IsJoin(s, u, v) /\ IsJoin(r, q, g)

PieceReadAs(t, comma, s, r) ==
    /\ strchr(t, comma) # 0
    /\ Before(t, strchr(t, comma)) = s
    /\ After(t, strchr(t, comma)) = r

LEMMA PieceText ==
    ASSUME NEW blank, NEW comma, NEW u, NEW v, NEW g, NEW p, NEW q, NEW pq, NEW h, NEW f, NEW t, NEW s, NEW r,
           PieceParts(blank, comma, u, v, g, p, q, pq, h, f, t, s, r)
    PROVE  PieceReadAs(t, comma, s, r)
<1>1. /\ u \in Seq(Chars) /\ v \in Seq(Chars) /\ g \in Seq(Chars) /\ blank \in Chars /\ comma \in Chars
      /\ blank # comma /\ (\A j \in 1 .. Len(u) : u[j] = blank) /\ Without(v, {comma})
  BY Zenon DEF PieceParts
<1>2. /\ IsOne(p, comma) /\ IsOne(q, blank) /\ IsJoin(pq, p, q)
      /\ IsJoin(h, v, pq) /\ IsJoin(f, h, g) /\ IsJoin(t, u, f)
      /\ IsJoin(s, u, v) /\ IsJoin(r, q, g)
  BY Zenon DEF PieceParts
<1>3. p \in Seq(Chars) /\ Len(p) = 1 /\ p[1] = comma /\ q \in Seq(Chars)
  BY <1>1, <1>2, One, Zenon
<1>4. pq \in Seq(Chars) /\ s \in Seq(Chars) /\ r \in Seq(Chars)
  BY <1>1, <1>2, <1>3, JoinText, Zenon
<1>5. PICK x, y : IsJoin(x, pq, g) /\ IsJoin(y, s, p)
  BY Zenon DEF IsJoin
<1>6. x \in Seq(Chars) /\ y \in Seq(Chars)
  BY <1>1, <1>3, <1>4, <1>5, JoinText, Zenon
<1>7. IsJoin(f, v, x)
  BY <1>1, <1>2, <1>4, <1>5, Regroup, Zenon
<1>8. IsJoin(x, p, r)
  BY <1>1, <1>2, <1>3, <1>5, Regroup, Zenon
<1>9. IsJoin(t, s, x)
  BY <1>1, <1>2, <1>6, <1>7, RegroupLeft, Zenon
<1>10. IsJoin(t, y, r)
  BY <1>3, <1>4, <1>5, <1>8, <1>9, RegroupLeft, Zenon
<1>11. PICK n \in Nat : n = Len(s)
  BY <1>4
<1>12. Joins(t, s, x) /\ Joins(x, p, r) /\ Joins(y, s, p) /\ Joins(s, u, v)
  BY <1>1, <1>2, <1>3, <1>4, <1>5, <1>6, <1>8, <1>9, Join, Zenon
<1>13. Len(y) = n + 1
  BY <1>3, <1>11, <1>12 DEF Joins
<1>14. Len(r) \in Nat
  BY <1>4
<1>15. t \in Seq(Chars) /\ n + 1 \in 1 .. Len(t) /\ t[n + 1] = comma
  <2>1. 1 \in 1 .. Len(p) /\ 1 \in 1 .. Len(x) /\ Len(x) \in Nat
    BY <1>3, <1>12, <1>14 DEF Joins
  <2>2. x[1] = comma
    BY <1>3, <1>12, <2>1, Zenon DEF Joins
  <2>3. t[Len(s) + 1] = x[1]
    BY <1>12, <2>1, Zenon DEF Joins
  <2>4. t \in Seq(Chars) /\ Len(t) = Len(s) + Len(x)
    BY <1>12, Zenon DEF Joins
  <2>5. n + 1 \in 1 .. Len(t)
    BY <1>11, <2>1, <2>4
  <2>6. QED
    BY <1>11, <2>2, <2>3, <2>4, <2>5, Zenon
<1>16. Without(s, {comma})
  <2>1. Without(u, {comma})
    BY <1>1 DEF Without
  <2>2. QED
    BY <1>1, <1>2, <2>1, WithoutJoin
<1>17. \A j \in 1 .. (n + 1) - 1 : t[j] # comma
  <2>1. \A j \in 1 .. (n + 1) - 1 : j \in 1 .. Len(s)
    BY <1>11
  <2>2. \A j \in 1 .. Len(s) : t[j] = s[j] /\ s[j] \notin {comma}
    BY <1>12, <1>16, Zenon DEF Joins, Without
  <2>3. QED
    BY <2>1, <2>2
<1>18. strchr(t, comma) = n + 1
  BY <1>15, <1>17, strchrIs
<1>19. Before(t, n + 1) = s
  <2>1. n + 1 = Len(s) + 1
    BY <1>11
  <2>2. QED
    BY <1>4, <1>6, <1>9, <2>1, BeforeIs
<1>20. After(t, n + 1) = r
  BY <1>4, <1>6, <1>10, <1>13, AfterOf, Zenon
<1>21. n + 1 # 0
  OBVIOUS
<1>22. QED
  BY <1>18, <1>19, <1>20, <1>21, Zenon DEF PieceReadAs

LEMMA LastWord ==
    ASSUME NEW u \in Seq(Chars), NEW v \in Seq(Chars), NEW blank, \A j \in 1 .. Len(u) : u[j] = blank,
           Without(v, {blank}), NEW t, IsJoin(t, u, v)
    PROVE  Word(t, {blank}) = v
<1>1. Joins(t, u, v)
  BY Join, Zenon
<1>2. t \in Seq(Chars)
  BY <1>1, Zenon DEF Joins
<1>3. PICK m \in Nat, n \in Nat : m = Len(u) /\ n = Len(v)
  OBVIOUS
<1>4. /\ Len(t) = m + n
      /\ \A j \in 1 .. m : t[j] = u[j]
      /\ \A j \in 1 .. n : t[m + j] = v[j]
  BY <1>1, <1>3, Zenon DEF Joins
<1>5. \A j \in 1 .. m : t[j] \in {blank}
  BY <1>3, <1>4
<1>6. CASE n = 0
  <2>1. \A j \in 1 .. Len(t) : t[j] \in {blank}
    BY <1>4, <1>5, <1>6
  <2>2. Word(t, {blank}) = <<>>
    BY <1>2, <2>1, NoWord
  <2>3. v = <<>>
    <3>1. Len(v) = 0
      BY <1>3, <1>6
    <3>2. QED
      BY <3>1, EmptySeq
  <2>4. QED
    BY <2>2, <2>3, Zenon
<1>7. CASE n # 0
  <2>1. m + 1 \in Nat \ {0} /\ m + n \in Nat /\ m + 1 <= m + n /\ (m + 1) - 1 = m
    BY <1>7
  <2>2. WordAt(t, {blank}, m + 1, m + n)
    <3>1. ASSUME NEW j \in m + 1 .. m + n PROVE t[j] \notin {blank}
      <4>1. j - m \in 1 .. n /\ m + (j - m) = j
        BY <2>1
      <4>2. t[j] = v[j - m]
        BY <1>4, <4>1, Zenon
      <4>3. QED
        BY <1>3, <4>1, <4>2 DEF Without
    <3>2. m + n <= Len(t) /\ m + n = Len(t)
      BY <1>4, <2>1
    <3>3. QED
      BY <1>5, <2>1, <3>1, <3>2, Zenon DEF WordAt
  <2>3. PieceAt(t, m + 1, m + n, v)
    <3>1. m + 1 <= (m + n) + 1 /\ m + n <= Len(t) /\ n = (m + n) + 1 - (m + 1)
      BY <1>4, <2>1
    <3>2. QED
      BY <1>3, <1>4, <2>1, <3>1, Zenon DEF PieceAt
  <2>4. Word(t, {blank}) = SubSeq(t, m + 1, m + n)
    BY <1>2, <2>1, <2>2, WordIsAt, Zenon
  <2>5. SubSeq(t, m + 1, m + n) = v
    BY <1>2, <2>1, <2>3, PieceIs, Zenon
  <2>6. QED
    BY <2>4, <2>5, Zenon
<1>8. QED
  BY <1>6, <1>7

\* The blanks before the value with the number c + 1.
LEMMA RestBegins ==
    ASSUME NEW values, ValuesOk(values), NEW c \in 0 .. Len(values) - 1
    PROVE  \E u \in Seq(Chars) : /\ \A j \in 1 .. Len(u) : u[j] = " "
                                 /\ IsJoin(Rest(values, c), u, From(Comma, values)[c + 1])
<1>1. PICK f, blank : f = From(Comma, values)[c + 1] /\ blank = " "
  BY Zenon
<1>2. Len(values) \in Nat
  BY DEF ValuesOk
<1>3. c + 1 \in 1 .. Len(values)
  BY <1>2
<1>4. f \in Seq(Chars)
  BY <1>1, <1>3, FromClean, Zenon DEF Clean
<1>5. CASE c = 0
  <2>1. <<>> \in Seq(Chars) /\ <<>> \o f = f /\ \A j \in 1 .. Len(<<>>) : <<>>[j] = blank
    BY <1>4
  <2>2. c + 1 = 1
    BY <1>5
  <2>3. Rest(values, c) = f
    BY <1>1, <1>5, <2>2, Zenon DEF Rest
  <2>4. IsJoin(f, <<>>, f)
    BY <2>1, Zenon DEF IsJoin
  <2>5. QED
    BY <1>1, <2>1, <2>3, <2>4, Zenon
<1>6. CASE c # 0
  <2>1. PICK u : IsOne(u, blank)
    BY Zenon DEF IsOne
  <2>2. u \in Seq(Chars) /\ Len(u) = 1 /\ u[1] = blank
    BY <1>1, <2>1, CharsIn, One, Zenon
  <2>3. \A j \in 1 .. Len(u) : u[j] = blank
    BY <2>2
  <2>4. Rest(values, c) = u \o f
    BY <1>1, <1>6, <2>1, Zenon DEF Rest, IsOne
  <2>5. QED
    BY <1>1, <2>2, <2>3, <2>4, Zenon DEF IsJoin
<1>7. QED
  BY <1>5, <1>6, Zenon

\* The value that the text up to the comma has, the number of commas that are
\* left and what is behind this one.
LEMMA ValueStep ==
    ASSUME NEW values, ValuesOk(values), NEW c \in 0 .. Len(values) - 1, NEW t, t = Rest(values, c)
    PROVE  /\ Config!Word(Config!Before(t, Config!strchr(t, ",")), Config!Blanks) = values[c + 1]
           /\ c + 1 = Len(values) => Config!strchr(t, ",") = 0
           /\ c + 1 # Len(values) =>
                Config!strchr(t, ",") # 0 /\ Config!After(t, Config!strchr(t, ",")) = Rest(values, c + 1)
<1>1. PICK n \in Nat : n = Len(values) /\ c + 1 \in 1 .. n /\ c \in Nat
  BY DEF ValuesOk
<1>2. PICK f, v : f = From(Comma, values)[c + 1] /\ v = values[c + 1]
  OBVIOUS
<1>3. PICK blank, comma : blank = " " /\ comma = ","
  BY Zenon
<1>4. blank \in Chars /\ comma \in Chars /\ blank # comma
  BY <1>3, CharsIn, CharsDiffer, Zenon
<1>5. PICK u \in Seq(Chars) : (\A j \in 1 .. Len(u) : u[j] = blank) /\ IsJoin(t, u, f)
  BY <1>2, <1>3, RestBegins, Zenon
<1>6. f \in Seq(Chars)
  BY <1>1, <1>2, FromClean, Zenon DEF Clean
<1>7. v \in Seq(Chars) /\ Without(v, {blank}) /\ Without(v, {comma})
  <2>1. v \in Seq(Chars) /\ Without(v, {" ", "#", "[", ","})
    BY <1>1, <1>2, Zenon DEF ValuesOk, ValueOk
  <2>2. {blank} \subseteq {" ", "#", "[", ","} /\ {comma} \subseteq {" ", "#", "[", ","}
    BY <1>3, Zenon
  <2>3. PICK S : S = {" ", "#", "[", ","}
    BY Zenon
  <2>4. v \in Seq(Chars) /\ Without(v, S) /\ {blank} \subseteq S /\ {comma} \subseteq S
    BY <2>1, <2>2, <2>3, Zenon
  <2>5. QED
    BY <2>4, WithoutFewer
<1>8. Config!Blanks = {blank}
  BY <1>3, Zenon DEF Config!Blanks, Config!Blank
<1>9. CASE c + 1 = n
  <2>1. f = v
    BY <1>1, <1>2, <1>9, FromClean, Zenon
  <2>2. Without(u, {comma})
    BY <1>4, <1>5 DEF Without
  <2>3. t \in Seq(Chars) /\ Without(t, {comma}) /\ comma \in {comma}
    BY <1>5, <1>7, <2>1, <2>2, WithoutJoin, JoinText
  <2>4. strchr(t, comma) = 0
    BY <2>3, strchrAbsent
  <2>5. Before(t, strchr(t, comma)) = t
    BY <2>4, Zenon DEF Before
  <2>6. IsJoin(t, u, v)
    BY <1>5, <2>1
  <2>7. Word(t, {blank}) = v
    BY <1>5, <1>7, <2>6, LastWord
  <2>8. QED
    BY <1>1, <1>2, <1>3, <1>8, <1>9, <2>4, <2>5, <2>7, SameText, Zenon
<1>10. CASE c + 1 # n
  <2>1. c + 1 \in 1 .. n - 1 /\ (c + 1) + 1 \in 1 .. n /\ c + 1 # 0
    BY <1>1, <1>10
  <2>2. PICK g : g = From(Comma, values)[(c + 1) + 1]
    OBVIOUS
  <2>3. g \in Seq(Chars)
    BY <1>1, <2>1, <2>2, FromClean, Zenon DEF Clean
  <2>4. f = v \o Comma \o g
    BY <1>1, <1>2, <2>1, <2>2, FromClean, Zenon
  <2>5. PICK p, q : IsOne(p, comma) /\ IsOne(q, blank)
    BY Zenon DEF IsOne
  <2>6. IsJoin(Comma, p, q)
    BY <1>3, <2>5, CommaIs, Zenon
  <2>7. PICK h, s, r : IsJoin(h, v, Comma) /\ IsJoin(s, u, v) /\ IsJoin(r, q, g)
    BY Zenon DEF IsJoin
  <2>8. IsJoin(f, h, g)
    BY <2>4, <2>7, Zenon DEF IsJoin
  <2>9. PieceParts(blank, comma, u, v, g, p, q, Comma, h, f, t, s, r)
    BY <1>4, <1>5, <1>7, <2>3, <2>5, <2>6, <2>7, <2>8, Zenon DEF PieceParts
  <2>10. PieceReadAs(t, comma, s, r)
    BY <2>9, PieceText
  <2>11. Word(s, {blank}) = v
    BY <1>5, <1>7, <2>7, LastWord
  <2>12. r = Rest(values, c + 1)
    BY <1>3, <2>1, <2>2, <2>5, <2>7, Zenon DEF Rest, IsJoin, IsOne
  <2>13. QED
    BY <1>1, <1>2, <1>3, <1>8, <1>10, <2>10, <2>11, <2>12, SameText, Zenon DEF PieceReadAs
<1>11. QED
  BY <1>9, <1>10, Zenon

-----------------------------------------------------------------------------
(* What the file says, item by item. *)

NamesSection(item) == item.kind = "section" /\ item.name # <<>>

LEMMA SectionAtIs ==
    ASSUME NEW doc, NEW n \in Nat
    PROVE  /\ Config!SectionAt(doc, 0) = <<>>
           /\ NamesSection(doc[n + 1]) => Config!SectionAt(doc, n + 1) = doc[n + 1].name
           /\ ~ NamesSection(doc[n + 1]) => Config!SectionAt(doc, n + 1) = Config!SectionAt(doc, n)
<1> DEFINE Named(i) == {j \in 1 .. i : NamesSection(doc[j])}
<1>1. \A i : Config!SectionAt(doc, i) = IF Named(i) = {} THEN <<>> ELSE doc[Max(Named(i))].name
  BY SameText, Zenon DEF Config!SectionAt, NamesSection
<1>2. Named(0) = {}
  OBVIOUS
<1>3. ~ NamesSection(doc[n + 1]) => Named(n + 1) = Named(n)
  OBVIOUS
<1>4. ASSUME NamesSection(doc[n + 1]) PROVE Max(Named(n + 1)) = n + 1 /\ Named(n + 1) # {}
  <2>1. PICK S : S = Named(n + 1)
    OBVIOUS
  <2>2. n + 1 \in S /\ S \subseteq Nat /\ \A j \in S : n + 1 >= j
    BY <1>4, <2>1
  <2>3. Max(S) \in S /\ \A j \in S : Max(S) >= j
    BY <2>2 DEF Max
  <2>4. PICK m \in Nat : m = Max(S) /\ m >= n + 1 /\ n + 1 >= m
    BY <2>2, <2>3
  <2>5. m = n + 1
    BY <2>4
  <2>6. QED
    BY <2>1, <2>2, <2>4, <2>5
<1> HIDE DEF Named
<1>5. QED
  BY <1>1, <1>2, <1>3, <1>4, Zenon

NoStray(doc, n) == \A j \in 1 .. n : doc[j].kind # "stray"

\* ItemsRead, for any line.
ReadOf(doc, n) ==
    LET stray == Config!SelectInSeq(doc, LAMBDA x : x.kind = "stray")
    IN  IF stray = 0 \/ stray > n THEN n ELSE stray - 1

LEMMA StrayIs ==
    ASSUME NEW doc \in Seq(Items), NEW i, i = Config!SelectInSeq(doc, LAMBDA x : x.kind = "stray")
    PROVE  /\ i \in 0 .. Len(doc)
           /\ i = 0 => NoStray(doc, Len(doc))
           /\ i # 0 => doc[i].kind = "stray" /\ NoStray(doc, i - 1)
<1>1. PICK I : I = {j \in 1 .. Len(doc) : doc[j].kind = "stray"}
  OBVIOUS
<1>2. i = IF I # {} THEN Min(I) ELSE 0
  <2>1. i = IF {j \in 1 .. Len(doc) : doc[j].kind = "stray"} # {}
            THEN Config!Min({j \in 1 .. Len(doc) : doc[j].kind = "stray"}) ELSE 0
    BY Zenon DEF Config!SelectInSeq
  <2>2. \A S : Config!Min(S) = Min(S)
    BY DEF Config!Min, Min
  <2>3. QED
    BY <1>1, <2>1, <2>2, Zenon
<1>3. CASE I = {}
  BY <1>1, <1>2, <1>3 DEF NoStray
<1>4. CASE I # {}
  <2>1. I \subseteq Nat
    BY <1>1
  <2>2. Min(I) \in I /\ \A y \in I : Min(I) <= y
    BY <1>4, <2>1, FirstExists
  <2>3. i \in I /\ \A y \in I : i <= y
    BY <1>2, <1>4, <2>2, Zenon
  <2>4. i \in 1 .. Len(doc) /\ doc[i].kind = "stray"
    BY <1>1, <2>3
  <2>5. \A j \in 1 .. i - 1 : j \notin I /\ j \in 1 .. Len(doc)
    BY <2>3, <2>4
  <2>6. NoStray(doc, i - 1)
    BY <1>1, <2>5 DEF NoStray
  <2>7. QED
    BY <2>4, <2>6
<1>5. QED
  BY <1>3, <1>4

LEMMA ReadOfIs ==
    ASSUME NEW doc \in Seq(Items), NEW n \in 0 .. Len(doc), NoStray(doc, n)
    PROVE  /\ ReadOf(doc, n) = n
           /\ n < Len(doc) /\ doc[n + 1].kind = "stray" => ReadOf(doc, n + 1) = n
<1>1. PICK i : i = Config!SelectInSeq(doc, LAMBDA x : x.kind = "stray")
  OBVIOUS
<1>2. /\ i \in 0 .. Len(doc)
      /\ i = 0 => NoStray(doc, Len(doc))
      /\ i # 0 => doc[i].kind = "stray" /\ NoStray(doc, i - 1)
  BY <1>1, StrayIs
<1>3. \A m : ReadOf(doc, m) = IF i = 0 \/ i > m THEN m ELSE i - 1
  BY <1>1, Zenon DEF ReadOf
<1>4. i = 0 \/ i > n
  BY <1>2 DEF NoStray
<1>5. ASSUME n < Len(doc), doc[n + 1].kind = "stray" PROVE i = n + 1
  <2>1. i # 0
    BY <1>2, <1>5 DEF NoStray
  <2>2. ~ (n + 1 < i)
    BY <1>2, <1>5, <2>1 DEF NoStray
  <2>3. QED
    BY <1>2, <1>4, <2>1, <2>2
<1>6. QED
  BY <1>3, <1>4, <1>5

-----------------------------------------------------------------------------
(* Values that fit. *)

LEMMA FitsAppend ==
    ASSUME NEW T, NEW vs \in Seq(T), NEW ws \in Seq(T), Config!Fits(vs, ws), NEW v \in T, NEW w \in T, w # <<>> => v = w,
           NEW a, IsAppend(a, vs, v), NEW b, IsAppend(b, ws, w)
    PROVE  Config!Fits(a, b)
<1>1. Len(a) = Len(vs) + 1 /\ a[Len(vs) + 1] = v /\ \A j \in 1 .. Len(vs) : a[j] = vs[j]
  BY DEF IsAppend
<1>2. Len(b) = Len(ws) + 1 /\ b[Len(ws) + 1] = w /\ (\A j \in 1 .. Len(ws) : b[j] = ws[j]) /\ b \in Seq(T)
  BY DEF IsAppend
<1>3. Len(vs) = Len(ws) /\ (\A i \in DOMAIN ws : ws[i] # <<>> => vs[i] = ws[i]) /\ DOMAIN ws = 1 .. Len(ws)
  BY DEF Config!Fits
<1>4. DOMAIN b = 1 .. Len(ws) + 1
  BY <1>2
<1>5. \A i \in 1 .. Len(ws) + 1 : i \in 1 .. Len(ws) \/ i = Len(ws) + 1
  OBVIOUS
<1>6. \A i \in DOMAIN b : b[i] # <<>> => a[i] = b[i]
  BY <1>1, <1>2, <1>3, <1>4, <1>5, Zenon
<1>7. QED
  BY <1>1, <1>2, <1>3, <1>6 DEF Config!Fits

LEMMA OneMoreValue ==
    ASSUME NEW T, NEW ws \in Seq(T), NEW values \in Seq(T), NEW c \in 0 .. Len(values) - 1
    PROVE  /\ ws \o SubSeq(values, 1, c) \in Seq(T)
           /\ IsAppend(ws \o SubSeq(values, 1, c + 1), ws \o SubSeq(values, 1, c), values[c + 1])
           /\ values[c + 1] \in T
<1>1. PICK p, q : p = SubSeq(values, 1, c) /\ q = SubSeq(values, 1, c + 1)
  OBVIOUS
<1>2. c \in Nat /\ c <= Len(values) /\ c + 1 \in Nat /\ c + 1 <= Len(values) /\ Len(values) \in Nat /\ c + 1 \in 1 .. Len(values)
  OBVIOUS
<1>3. p \in Seq(T) /\ Len(p) = c /\ \A j \in 1 .. c : p[j] = values[j]
  BY <1>1, <1>2, HeadAt
<1>4. q \in Seq(T) /\ Len(q) = c + 1 /\ \A j \in 1 .. c + 1 : q[j] = values[j]
  BY <1>1, <1>2, HeadAt
<1>5. PICK x \in T : x = values[c + 1]
  BY <1>2
<1>6. IsAppend(q, p, x)
  <2>1. PICK d : IsAppend(d, p, x)
    BY DEF IsAppend
  <2>2. d \in Seq(T) /\ Len(d) = c + 1 /\ d[c + 1] = x /\ \A j \in 1 .. c : d[j] = p[j]
    BY <1>3, <2>1 DEF IsAppend
  <2>3. \A j \in 1 .. c + 1 : j \in 1 .. c \/ j = c + 1
    BY <1>2
  <2>4. \A j \in 1 .. c + 1 : q[j] = d[j]
    BY <1>3, <1>4, <1>5, <2>2, <2>3, Zenon
  <2>5. q = d
    BY <1>4, <2>2, <2>4, SeqEqual
  <2>6. QED
    BY <2>1, <2>5
<1>7. \A u \in Seq(T) : Append(u, x) = u \o <<x>>
  BY AppendIsConcat
<1>8. <<x>> \in Seq(T)
  OBVIOUS
<1>9. PICK a : a = ws \o p
  OBVIOUS
<1>10. a \in Seq(T)
  BY <1>3, <1>9
<1>11. ws \o (p \o <<x>>) = (ws \o p) \o <<x>>
  BY <1>3, <1>8, AssociateAny
<1>12. ws \o q = Append(a, x)
  BY <1>3, <1>6, <1>7, <1>9, <1>10, <1>11, Zenon DEF IsAppend
<1>13. QED
  BY <1>1, <1>5, <1>9, <1>10, <1>12, Zenon DEF IsAppend

LEMMA AllValues ==
    ASSUME NEW T, NEW ws \in Seq(T), NEW values \in Seq(T)
    PROVE  ws \o SubSeq(values, 1, 0) = ws /\ ws \o SubSeq(values, 1, Len(values)) = ws \o values
<1>1. SubSeq(values, 1, 0) = <<>>
  BY DEF SubSeq
<1>2. ws \o <<>> = ws
  OBVIOUS
<1>3. PICK v : v = SubSeq(values, 1, Len(values))
  OBVIOUS
<1>4. v \in Seq(T) /\ Len(v) = Len(values) /\ \A j \in 1 .. Len(values) : v[j] = values[j]
  BY <1>3, HeadAt
<1>5. v = values
  BY <1>4, SeqEqual
<1>6. QED
  BY <1>1, <1>2, <1>3, <1>5, Zenon

-----------------------------------------------------------------------------
(* How the data follow the items. *)

ValuesAt(data, s, k) == ValuesIn(AttributesIn(data, s), k)

\* After n items, and after c values of item n.
Faithful(doc, data, n) == \A s, k : Config!Fits(ValuesAt(data, s, k), Config!Written(doc, n, s, k))

WrittenIn(doc, n, c, s, k) ==
    IF Config!IsEntryOf(doc, n, s, k) THEN Config!Written(doc, n - 1, s, k) \o SubSeq(doc[n].values, 1, c)
    ELSE Config!Written(doc, n - 1, s, k)

FaithfulIn(doc, data, n, c) == \A s, k : Config!Fits(ValuesAt(data, s, k), WrittenIn(doc, n, c, s, k))

\* Every entry has its attribute and every attribute an entry, and they come in
\* the order of the entries.
HasKey(A, k) == \E i \in 1 .. Len(A) : A[i].name = k

Complete(doc, data, n) ==
    \A s, k : \A m \in 1 .. n : Config!IsEntryOf(doc, m, s, k) => HasKey(AttributesIn(data, s), k)

Known(doc, data, n) ==
    \A s : \A i \in 1 .. Len(AttributesIn(data, s)) :
        \E m \in 1 .. n : Config!IsEntryOf(doc, m, s, AttributesIn(data, s)[i].name)

Precedes(doc, n, s, a, b) ==
    \E m \in 1 .. n : Config!IsEntryOf(doc, m, s, a) /\ \A h \in 1 .. m : ~ Config!IsEntryOf(doc, h, s, b)

InOrder(doc, n, s, A) ==
    \A i, j \in 1 .. Len(A) : i < j => Precedes(doc, n, s, A[i].name, A[j].name)

Ordered(doc, data, n) == \A s : InOrder(doc, n, s, AttributesIn(data, s))

LEMMA SameAttributes ==
    ASSUME NEW data, NEW e, \A t : AttributesIn(e, t) = AttributesIn(data, t), NEW doc, NEW n
    PROVE  /\ Faithful(doc, data, n) => Faithful(doc, e, n)
           /\ Complete(doc, data, n) => Complete(doc, e, n)
           /\ Known(doc, data, n) => Known(doc, e, n)
           /\ Ordered(doc, data, n) => Ordered(doc, e, n)
<1>1. Faithful(doc, data, n) => Faithful(doc, e, n)
  BY Zenon DEF Faithful, ValuesAt
<1>2. Complete(doc, data, n) => Complete(doc, e, n)
  BY Zenon DEF Complete
<1>3. Known(doc, data, n) => Known(doc, e, n)
  BY Zenon DEF Known
<1>4. Ordered(doc, data, n) => Ordered(doc, e, n)
  BY Zenon DEF Ordered
<1>5. QED
  BY <1>1, <1>2, <1>3, <1>4

LEMMA MoreLines ==
    ASSUME NEW data, NEW doc, NEW n \in Nat, NEW m \in Nat, n <= m
    PROVE  /\ Known(doc, data, n) => Known(doc, data, m)
           /\ Ordered(doc, data, n) => Ordered(doc, data, m)
<1>1. \A i \in 1 .. n : i \in 1 .. m
  OBVIOUS
<1>2. Known(doc, data, n) => Known(doc, data, m)
  BY <1>1, Zenon DEF Known
<1>3. \A s, a, b : Precedes(doc, n, s, a, b) => Precedes(doc, m, s, a, b)
  BY <1>1, Zenon DEF Precedes
<1>4. Ordered(doc, data, n) => Ordered(doc, data, m)
  BY <1>3, Zenon DEF Ordered, InOrder
<1>5. QED
  BY <1>2, <1>4

LEMMA ValuesAtIs ==
    ASSUME NEW T, NEW data \in DataOf(T), NEW s, NEW k
    PROVE  ValuesAt(data, s, k) \in Seq(T)
<1>1. PICK A : A = AttributesIn(data, s)
  OBVIOUS
<1>2. A \in Seq(AttributeOf(T))
  BY <1>1, AttributesTidy
<1>3. PICK i : i = Config!Find(A, k)
  OBVIOUS
<1>4. i # 0 => i \in 1 .. Len(A)
  BY <1>2, <1>3, FindIn
<1>5. \A x \in AttributeOf(T) : x.values \in Seq(T)
  BY DEF AttributeOf
<1>6. i # 0 => A[i].values \in Seq(T)
  BY <1>2, <1>4, <1>5
<1>7. <<>> \in Seq(T)
  OBVIOUS
<1>8. ValuesAt(data, s, k) = IF i = 0 THEN <<>> ELSE A[i].values
  BY <1>1, <1>3, Zenon DEF ValuesAt, ValuesIn
<1>9. QED
  BY <1>6, <1>7, <1>8, Zenon

LEMMA NextOf ==
    ASSUME NEW doc \in Documents, NEW n \in 1 .. Len(doc)
    PROVE  /\ n - 1 \in 0 .. Len(doc) /\ n \in 0 .. Len(doc) /\ doc[n] \in Items
           /\ \A s, k : /\ Config!Written(doc, n - 1, s, k) \in Seq(Texts)
                        /\ Config!Written(doc, n, s, k) =
                              IF Config!IsEntryOf(doc, n, s, k) THEN Config!Written(doc, n - 1, s, k) \o doc[n].values
                              ELSE Config!Written(doc, n - 1, s, k)
<1>1. doc \in Seq(Items) /\ doc[n] \in Items
  BY DocumentIs
<1>2. n - 1 \in 0 .. Len(doc) /\ n \in 0 .. Len(doc)
  BY <1>1
<1>3. QED
  BY <1>1, <1>2, WrittenIs, Zenon

LEMMA OtherItem ==
    ASSUME NEW doc \in Documents, NEW n \in 1 .. Len(doc), doc[n].kind # "entry", NEW data
    PROVE  /\ Faithful(doc, data, n - 1) => Faithful(doc, data, n)
           /\ Complete(doc, data, n - 1) => Complete(doc, data, n)
<1>1. \A s, k : ~ Config!IsEntryOf(doc, n, s, k)
  BY Zenon DEF Config!IsEntryOf
<1>2. Faithful(doc, data, n - 1) => Faithful(doc, data, n)
  <2>1. \A s, k : Config!Written(doc, n, s, k) = Config!Written(doc, n - 1, s, k)
    BY <1>1, NextOf, Zenon
  <2>2. QED
    BY <2>1, Zenon DEF Faithful
<1>3. \A m \in 1 .. n : m \in 1 .. n - 1 \/ m = n
  BY DocumentIs
<1>4. Complete(doc, data, n - 1) => Complete(doc, data, n)
  BY <1>1, <1>3, Zenon DEF Complete
<1>5. QED
  BY <1>2, <1>4

LEMMA EntryBegins ==
    ASSUME NEW doc \in Documents, NEW n \in 1 .. Len(doc), doc[n].kind = "entry", NEW data, Faithful(doc, data, n - 1)
    PROVE  FaithfulIn(doc, data, n, 0)
<1>1. doc[n].values \in Seq(Texts)
  BY NextOf, EntryValues, Zenon
<1>2. \A s, k : Config!Written(doc, n - 1, s, k) \o SubSeq(doc[n].values, 1, 0) = Config!Written(doc, n - 1, s, k)
  BY <1>1, NextOf, AllValues, Zenon
<1>3. \A s, k : WrittenIn(doc, n, 0, s, k) = Config!Written(doc, n - 1, s, k)
  BY <1>2, Zenon DEF WrittenIn
<1>4. QED
  BY <1>3, Zenon DEF Faithful, FaithfulIn

LEMMA EntryEnds ==
    ASSUME NEW doc \in Documents, NEW n \in 1 .. Len(doc), doc[n].kind = "entry", NEW data,
           FaithfulIn(doc, data, n, Len(doc[n].values))
    PROVE  Faithful(doc, data, n)
<1>1. doc[n].values \in Seq(Texts)
  BY NextOf, EntryValues, Zenon
<1>2. \A s, k : Config!Written(doc, n - 1, s, k) \o SubSeq(doc[n].values, 1, Len(doc[n].values))
                    = Config!Written(doc, n - 1, s, k) \o doc[n].values
  BY <1>1, NextOf, AllValues, Zenon
<1>3. \A s, k : WrittenIn(doc, n, Len(doc[n].values), s, k) = Config!Written(doc, n, s, k)
  BY <1>2, NextOf, Zenon DEF WrittenIn
<1>4. QED
  BY <1>3, Zenon DEF Faithful, FaithfulIn

LEMMA AppendNotEmpty == ASSUME NEW T, NEW u \in Seq(T), NEW v \in T PROVE Append(u, v) # <<>>
BY AppendProperties

\* A value of an entry is added.
LEMMA ValueFits ==
    ASSUME NEW doc \in Documents, NEW n \in 1 .. Len(doc), doc[n].kind = "entry",
           NEW values, values = doc[n].values, NEW c \in 0 .. Len(values) - 1,
           NEW data \in DataOf(Texts), FaithfulIn(doc, data, n, c),
           NEW s0 \in Texts, s0 = Config!SectionAt(doc, n), NEW k0 \in Texts, k0 = doc[n].key,
           NEW v \in Texts, values[c + 1] # <<>> => v = values[c + 1],
           NEW e, e = Config!AddValue(data, s0, k0, v)
    PROVE  e \in DataOf(Texts) /\ FaithfulIn(doc, e, n, c + 1)
<1>1. /\ e \in DataOf(Texts)
      /\ \A t : t # s0 => AttributesIn(e, t) = AttributesIn(data, t)
      /\ ValueAdded(AttributesIn(e, s0), AttributesIn(data, s0), Texts, k0, v)
  BY AddValueIs
<1>2. values \in Seq(Texts)
  BY NextOf, EntryValues, Zenon
<1>3. ASSUME NEW s, NEW k PROVE Config!Fits(ValuesAt(e, s, k), WrittenIn(doc, n, c + 1, s, k))
  <2>0. Config!Fits(ValuesAt(data, s, k), WrittenIn(doc, n, c, s, k))
    BY Zenon DEF FaithfulIn
  <2>1. CASE s = s0 /\ k = k0
    <3>1. Config!IsEntryOf(doc, n, s, k)
      BY <2>1, Zenon DEF Config!IsEntryOf
    <3>2. PICK ws : ws = Config!Written(doc, n - 1, s, k)
      OBVIOUS
    <3>3. ws \in Seq(Texts)
      BY <3>2, NextOf, Zenon
    <3>4. /\ WrittenIn(doc, n, c, s, k) = ws \o SubSeq(values, 1, c)
          /\ WrittenIn(doc, n, c + 1, s, k) = ws \o SubSeq(values, 1, c + 1)
      BY <3>1, <3>2, Zenon DEF WrittenIn
    <3>5. PICK a, b : a = WrittenIn(doc, n, c, s, k) /\ b = WrittenIn(doc, n, c + 1, s, k)
      OBVIOUS
    <3>6. a \in Seq(Texts) /\ IsAppend(b, a, values[c + 1]) /\ values[c + 1] \in Texts
      BY <1>2, <3>3, <3>4, <3>5, OneMoreValue, Zenon
    <3>7. PICK p, q : p = ValuesAt(data, s, k) /\ q = ValuesAt(e, s, k)
      OBVIOUS
    <3>8. p \in Seq(Texts) /\ IsAppend(q, p, v)
      <4>1. p \in Seq(Texts)
        BY <3>7, ValuesAtIs
      <4>2. q = Append(p, v)
        BY <1>1, <2>1, <3>7, Zenon DEF ValuesAt, ValueAdded
      <4>3. QED
        BY <4>1, <4>2, Zenon DEF IsAppend
    <3>9. PICK w \in Texts : w = values[c + 1]
      BY <3>6
    <3>10. Config!Fits(p, a) /\ IsAppend(b, a, w) /\ (w # <<>> => v = w)
      BY <2>0, <3>5, <3>6, <3>7, <3>9, Zenon
    <3>11. Config!Fits(q, b)
      BY <3>6, <3>8, <3>10, FitsAppend, Zenon
    <3>12. QED
      BY <3>5, <3>7, <3>11, Zenon
  <2>2. CASE ~ (s = s0 /\ k = k0)
    <3>1. ~ Config!IsEntryOf(doc, n, s, k)
      BY <2>2, Zenon DEF Config!IsEntryOf
    <3>2. WrittenIn(doc, n, c + 1, s, k) = WrittenIn(doc, n, c, s, k)
      BY <3>1, Zenon DEF WrittenIn
    <3>3. ValuesAt(e, s, k) = ValuesAt(data, s, k)
      BY <1>1, <2>2, Zenon DEF ValuesAt, ValueAdded
    <3>4. QED
      BY <2>0, <3>2, <3>3, Zenon
  <2>3. QED
    BY <2>1, <2>2, Zenon
<1>4. QED
  BY <1>1, <1>3, Zenon DEF FaithfulIn

LEMMA KeyAdded ==
    ASSUME NEW A, NEW T, A \in Seq(AttributeOf(T)), NEW k, NEW v, NEW C, ValueAdded(C, A, T, k, v),
           ValuesIn(A, k) \in Seq(T), v \in T
    PROVE  HasKey(C, k) /\ \A m : HasKey(A, m) => HasKey(C, m)
<1>1. C \in Seq(AttributeOf(T)) /\ Extended(C, A, k) /\ ValuesIn(C, k) = Append(ValuesIn(A, k), v)
  BY Zenon DEF ValueAdded
<1>2. ValuesIn(C, k) # <<>>
  BY <1>1, AppendNotEmpty, Zenon
<1>3. Config!Find(C, k) # 0
  BY <1>2, Zenon DEF ValuesIn
<1>4. HasKey(C, k)
  <2>1. PICK i : i = Config!Find(C, k)
    OBVIOUS
  <2>2. i \in 1 .. Len(C) /\ C[i].name = k
    BY <1>1, <1>3, <2>1, FindIn
  <2>3. QED
    BY <2>2, Zenon DEF HasKey
<1>5. \A i \in 1 .. Len(A) : i \in 1 .. Len(C) /\ C[i].name = A[i].name
  BY <1>1 DEF Extended
<1>6. QED
  BY <1>4, <1>5, Zenon DEF HasKey

LEMMA ValueInOrder ==
    ASSUME NEW doc \in Documents, NEW n \in 1 .. Len(doc), doc[n].kind = "entry",
           NEW data \in DataOf(Texts), Complete(doc, data, n - 1), Known(doc, data, n), Ordered(doc, data, n),
           NEW s0 \in Texts, s0 = Config!SectionAt(doc, n), NEW k0 \in Texts, k0 = doc[n].key,
           NEW v \in Texts, NEW e, e = Config!AddValue(data, s0, k0, v)
    PROVE  Complete(doc, e, n) /\ Known(doc, e, n) /\ Ordered(doc, e, n)
<1>0. PICK A, C : A = AttributesIn(data, s0) /\ C = AttributesIn(e, s0)
  OBVIOUS
<1>1. /\ e \in DataOf(Texts)
      /\ \A t : t # s0 => AttributesIn(e, t) = AttributesIn(data, t)
      /\ ValueAdded(C, A, Texts, k0, v)
  <2>1. /\ e \in DataOf(Texts)
        /\ \A t : t # s0 => AttributesIn(e, t) = AttributesIn(data, t)
        /\ ValueAdded(AttributesIn(e, s0), AttributesIn(data, s0), Texts, k0, v)
    BY AddValueIs
  <2>2. QED
    BY <1>0, <2>1, Zenon
<1>2. C \in Seq(AttributeOf(Texts)) /\ Config!IsDistinct(C) /\ A \in Seq(AttributeOf(Texts))
  BY <1>0, <1>1, AttributesTidy, Zenon DEF ValueAdded
<1>3. HasKey(C, k0) /\ \A m : HasKey(A, m) => HasKey(C, m)
  <2>1. ValuesIn(A, k0) \in Seq(Texts)
    BY <1>0, ValuesAtIs, Zenon DEF ValuesAt
  <2>2. QED
    BY <1>1, <1>2, <2>1, KeyAdded
<1>4. /\ \A i \in 1 .. Len(C) : i \in 1 .. Len(A) \/ (C[i].name = k0 /\ \A h \in 1 .. Len(A) : A[h].name # k0)
      /\ \A i \in 1 .. Len(A) : i \in 1 .. Len(C) /\ C[i].name = A[i].name
  <2>1. Extended(C, A, k0)
    BY <1>1, Zenon DEF ValueAdded
  <2>2. Len(A) \in Nat /\ Len(C) \in Nat
    BY <1>2
  <2>3. QED
    BY <2>1, <2>2 DEF Extended
<1>5. Config!IsEntryOf(doc, n, s0, k0) /\ \A s, k : Config!IsEntryOf(doc, n, s, k) => s = s0 /\ k = k0
  BY Zenon DEF Config!IsEntryOf
<1>6. n \in Nat /\ n \in 1 .. n /\ \A m \in 1 .. n : m \in 1 .. n - 1 \/ m = n
  BY DocumentIs
<1>7. Complete(doc, e, n)
  <2> SUFFICES ASSUME NEW s, NEW k, NEW m \in 1 .. n, Config!IsEntryOf(doc, m, s, k)
               PROVE  HasKey(AttributesIn(e, s), k)
    BY Zenon DEF Complete
  <2>1. CASE m \in 1 .. n - 1
    <3>1. HasKey(AttributesIn(data, s), k)
      BY <2>1, Zenon DEF Complete
    <3>2. QED
      BY <1>0, <1>1, <1>3, <3>1, Zenon
  <2>2. CASE m = n
    BY <1>0, <1>3, <1>5, <2>2, Zenon
  <2>3. QED
    BY <1>6, <2>1, <2>2, Zenon
<1>8. Known(doc, e, n)
  <2>1. ASSUME NEW i \in 1 .. Len(C) PROVE \E m \in 1 .. n : Config!IsEntryOf(doc, m, s0, C[i].name)
    <3>1. CASE i \in 1 .. Len(A)
      BY <1>0, <1>4, <3>1, Zenon DEF Known
    <3>2. CASE C[i].name = k0
      BY <1>5, <1>6, <3>2, Zenon
    <3>3. QED
      BY <1>4, <3>1, <3>2, Zenon
  <2>2. QED
    BY <1>0, <1>1, <2>1, Zenon DEF Known
<1>9. Ordered(doc, e, n)
  <2>1. ASSUME NEW i \in 1 .. Len(C), NEW j \in 1 .. Len(C), i < j
        PROVE  Precedes(doc, n, s0, C[i].name, C[j].name)
    <3>1. CASE i \in 1 .. Len(A) /\ j \in 1 .. Len(A)
      BY <1>0, <1>4, <2>1, <3>1, Zenon DEF Ordered, InOrder
    <3>2. CASE i \in 1 .. Len(A) /\ C[j].name = k0 /\ \A h \in 1 .. Len(A) : A[h].name # k0
      <4>1. PICK m \in 1 .. n : Config!IsEntryOf(doc, m, s0, A[i].name)
        BY <1>0, <3>2, Zenon DEF Known
      <4>2. A[i].name = C[i].name /\ A[i].name # k0
        BY <1>4, <3>2, Zenon
      <4>3. m # n
        BY <1>5, <4>1, <4>2, Zenon
      <4>4. ASSUME NEW h \in 1 .. m, Config!IsEntryOf(doc, h, s0, k0) PROVE FALSE
        <5>1. h \in 1 .. n - 1
          BY <1>6, <4>1, <4>3
        <5>2. HasKey(A, k0)
          BY <1>0, <4>4, <5>1, Zenon DEF Complete
        <5>3. QED
          BY <3>2, <5>2, Zenon DEF HasKey
      <4>5. QED
        BY <3>2, <4>1, <4>2, <4>4, Zenon DEF Precedes
    <3>3. CASE C[i].name = k0 /\ C[j].name = k0
      <4>1. i = j
        BY <1>2, <3>3 DEF Config!IsDistinct
      <4>2. QED
        BY <2>1, <4>1
    <3>4. CASE j \in 1 .. Len(A) /\ ~ (i \in 1 .. Len(A))
      <4>1. Len(A) \in Nat
        BY <1>2
      <4>2. QED
        BY <2>1, <3>4, <4>1
    <3>5. QED
      BY <1>4, <3>1, <3>2, <3>3, <3>4, Zenon
  <2>2. ASSUME NEW s PROVE InOrder(doc, n, s, AttributesIn(e, s))
    <3>1. CASE s = s0
      <4>1. InOrder(doc, n, s0, C)
        BY <2>1, Zenon DEF InOrder
      <4>2. QED
        BY <1>0, <3>1, <4>1, Zenon
    <3>2. CASE s # s0
      BY <1>1, <3>2, Zenon DEF Ordered
    <3>3. QED
      BY <3>1, <3>2
  <2>3. QED
    BY <2>2, Zenon DEF Ordered
<1>10. QED
  BY <1>7, <1>8, <1>9

-----------------------------------------------------------------------------
(* The invariant of ConfigFile. *)

BetweenItems(doc, data, n, s) ==
    NoStray(doc, n) /\ s = Config!SectionAt(doc, n) /\ Complete(doc, data, n) /\ Faithful(doc, data, n)

InsideEntry(doc, data, n, s, k, text) ==
    /\ n \in 1 .. Len(doc) /\ NoStray(doc, n) /\ doc[n].kind = "entry"
    /\ s = Config!SectionAt(doc, n) /\ k = doc[n].key /\ Complete(doc, data, n - 1)
    /\ \E c \in 0 .. Len(doc[n].values) - 1 :
            text = Rest(doc[n].values, c) /\ FaithfulIn(doc, data, n, c)

FileType ==
    /\ document \in Documents /\ line \in 0 .. Len(document)
    /\ parser \in {"open", "line", "values", "loaded", "destroyed"}
    /\ m_data \in DataOf(Texts) /\ sectionName \in Texts /\ keyName \in Texts /\ value \in Texts

FileInv ==
    /\ FileType
    /\ Known(document, m_data, line) /\ Ordered(document, m_data, line)
    /\ parser \in {"open", "line"} => BetweenItems(document, m_data, line, sectionName)
    /\ parser = "values" => InsideEntry(document, m_data, line, sectionName, keyName, valuetmp)
    /\ parser = "loaded" => Faithful(document, m_data, ReadOf(document, line))

LEMMA ParsersDiffer ==
    /\ "open" # "line" /\ "open" # "values" /\ "open" # "loaded" /\ "open" # "destroyed"
    /\ "line" # "values" /\ "line" # "loaded" /\ "line" # "destroyed"
    /\ "values" # "loaded" /\ "values" # "destroyed" /\ "loaded" # "destroyed"
OBVIOUS

LEMMA NoData ==
    /\ <<>> \in DataOf(Texts) /\ <<>> \in Texts /\ Garbage \in Texts
    /\ \A s : AttributesIn(<<>>, s) = <<>>
    /\ \A s, k : ValuesAt(<<>>, s, k) = <<>>
    /\ \A doc, n : Known(doc, <<>>, n) /\ Ordered(doc, <<>>, n)
<1>1. \A n : Config!Find(<<>>, n) = 0
  <2> SUFFICES ASSUME NEW n PROVE Config!Find(<<>>, n) = 0
    OBVIOUS
  <2>1. {j \in 1 .. Len(<<>>) : <<>>[j].name = n} = {}
    OBVIOUS
  <2>2. QED
    BY <2>1, Zenon DEF Config!Find, Config!SelectInSeq
<1>2. \A s : AttributesIn(<<>>, s) = <<>>
  BY <1>1, Zenon DEF AttributesIn
<1>3. \A s, k : ValuesAt(<<>>, s, k) = <<>>
  BY <1>1, <1>2, Zenon DEF ValuesAt, ValuesIn
<1>4. <<>> \in DataOf(Texts)
  <2>1. <<>> \in Seq(SectionOf(Texts)) /\ Len(<<>>) = 0 /\ \A i : i \notin 1 .. Len(<<>>)
    OBVIOUS
  <2>2. QED
    BY <2>1, NoneDistinct, Zenon DEF DataOf, Tidy
<1>5. <<>> \in Texts /\ Garbage \in Texts
  BY Zenon DEF Texts
<1>6. \A i : i \notin 1 .. Len(<<>>)
  OBVIOUS
<1>7. \A doc, n : Known(doc, <<>>, n) /\ Ordered(doc, <<>>, n)
  BY <1>2, <1>6, Zenon DEF Known, Ordered, InOrder
<1>8. QED
  BY <1>2, <1>3, <1>4, <1>5, <1>7, Zenon

LEMMA FileInit == Init => FileInv
<1> SUFFICES ASSUME Init PROVE FileInv
  OBVIOUS
<1>1. /\ document \in Documents /\ parser = "open" /\ line = 0 /\ m_data = <<>>
      /\ sectionName = <<>> /\ keyName = Garbage /\ value = Garbage
  BY Zenon DEF Init, Config!Init
<1>2. Len(document) \in Nat
  BY <1>1, DocumentIs
<1>3. 0 \in 0 .. Len(document) /\ \A j : j \notin 1 .. 0
  BY <1>2
<1>4. FileType
  BY <1>1, <1>3, NoData, Zenon DEF FileType
<1>5. Faithful(document, <<>>, 0)
  <2>1. \A s, k : Config!Written(document, 0, s, k) = <<>>
    BY <1>1, WrittenIs
  <2>2. Config!Fits(<<>>, <<>>)
    BY DEF Config!Fits
  <2>3. QED
    BY <2>1, <2>2, NoData, Zenon DEF Faithful
<1>6. Config!SectionAt(document, 0) = <<>>
  <2>1. 0 \in Nat
    OBVIOUS
  <2>2. QED
    BY <2>1, SectionAtIs
<1>7. BetweenItems(document, m_data, line, sectionName)
  BY <1>1, <1>3, <1>5, <1>6, Zenon DEF BetweenItems, NoStray, Complete
<1>8. QED
  BY <1>1, <1>4, <1>7, NoData, ParsersDiffer, Zenon DEF FileInv

LEMMA FileKept == FileInv /\ UNCHANGED configFile => FileInv'
<1> SUFFICES ASSUME FileInv, UNCHANGED configFile PROVE FileInv'
  OBVIOUS
<1>1. /\ document' = document /\ parser' = parser /\ line' = line /\ m_data' = m_data
      /\ sectionName' = sectionName /\ keyName' = keyName /\ value' = value /\ valuetmp' = valuetmp
  BY DEF configFile
<1>2. QED
  BY <1>1, Zenon DEF FileInv, FileType

LEMMA FileOpened == FileInv /\ Config!Open => FileInv'
<1> SUFFICES ASSUME FileInv, Config!Open PROVE FileInv'
  OBVIOUS
<1>1. /\ parser = "open" /\ parser' = "line" /\ document' = document /\ line' = line /\ m_data' = m_data
      /\ sectionName' = sectionName /\ keyName' = keyName /\ value' = value /\ valuetmp' = valuetmp
  BY Zenon DEF Config!Open
<1>2. QED
  BY <1>1, ParsersDiffer, Zenon DEF FileInv, FileType

LEMMA FileEnds == FileInv /\ (Config!NoFile \/ Config!ReadFails \/ Config!EndOfFile) => FileInv'
<1> SUFFICES ASSUME FileInv, Config!NoFile \/ Config!ReadFails \/ Config!EndOfFile PROVE FileInv'
  OBVIOUS
<1>1. /\ parser \in {"open", "line"} /\ parser' = "loaded" /\ document' = document /\ line' = line /\ m_data' = m_data
      /\ sectionName' = sectionName /\ keyName' = keyName /\ value' = value /\ valuetmp' = valuetmp
  BY Zenon DEF Config!NoFile, Config!ReadFails, Config!EndOfFile
<1>2. BetweenItems(document, m_data, line, sectionName) /\ FileType
  BY <1>1, Zenon DEF FileInv
<1>3. document \in Seq(Items) /\ line \in 0 .. Len(document) /\ NoStray(document, line)
  BY <1>2, DocumentIs, Zenon DEF BetweenItems, FileType
<1>4. ReadOf(document, line) = line
  BY <1>3, ReadOfIs
<1>5. Faithful(document, m_data, ReadOf(document, line))
  BY <1>2, <1>4, Zenon DEF BetweenItems
<1>6. QED
  BY <1>1, <1>5, ParsersDiffer, Zenon DEF FileInv, FileType

\* What kind of item a line is can be seen from it.
LEMMA KindSeen ==
    ASSUME NEW item \in Items, NEW b, b = CutLine(item)
    PROVE  /\ Config!IsSection(b) => item.kind = "section"
           /\ ~ Config!IsSection(b) /\ Config!strchr(b, ":") = 0 => item.kind \in {"stray", "blank", "comment"}
           /\ ~ Config!IsSection(b) /\ Config!strchr(b, ":") # 0 => item.kind = "entry"
<1>1. item.kind \in {"section", "entry", "stray", "blank", "comment"}
  BY ItemIs
<1>2. item.kind = "section" => Config!IsSection(b)
  BY SectionLineIs
<1>3. item.kind = "entry" => ~ Config!IsSection(b) /\ Config!strchr(b, ":") # 0
  BY EntryLine, Zenon
<1>4. item.kind = "stray" => ~ Config!IsSection(b) /\ Config!strchr(b, ":") = 0
  BY StrayLine, Zenon
<1>5. item.kind \in {"blank", "comment"} => ~ Config!IsSection(b) /\ Config!strchr(b, ":") = 0
  <2>1. CASE item.kind \in {"blank", "comment"}
    <3>1. ~ Config!IsSection(b) /\ Config!strchr(b, ":") = 0 /\ Config!Word(b, Config!Blanks) = <<>>
      BY <2>1, BlankLine
    <3>2. QED
      BY <3>1, Zenon
  <2>2. QED
    BY <2>1, Zenon
<1>6. QED
  BY <1>1, <1>2, <1>3, <1>4, <1>5, KindsDiffer, Zenon

LEMMA NextItem ==
    ASSUME FileInv, parser = "line", line < Len(document)
    PROVE  /\ line + 1 \in 1 .. Len(document) /\ (line + 1) - 1 = line /\ line \in Nat /\ line + 1 \in Nat
           /\ line <= line + 1 /\ line + 1 \in 0 .. Len(document)
           /\ document[line + 1] \in Items
           /\ Config!LineBuf(line + 1) = CutLine(document[line + 1])
           /\ document \in Documents /\ document \in Seq(Items)
           /\ BetweenItems(document, m_data, line, sectionName)
<1>1. document \in Documents /\ line \in 0 .. Len(document) /\ BetweenItems(document, m_data, line, sectionName)
  BY Zenon DEF FileInv, FileType
<1>2. document \in Seq(Items)
  BY <1>1, DocumentIs
<1>3. /\ line + 1 \in 1 .. Len(document) /\ (line + 1) - 1 = line /\ line \in Nat /\ line + 1 \in Nat
      /\ line <= line + 1 /\ line + 1 \in 0 .. Len(document)
  BY <1>1, <1>2
<1>4. document[line + 1] \in Items
  BY <1>1, <1>3, DocumentIs
<1>5. Config!LineBuf(line + 1) = CutLine(document[line + 1])
  BY <1>1, <1>3, LineBufIs, Zenon
<1>6. QED
  BY <1>1, <1>2, <1>3, <1>4, <1>5, Zenon

LEMMA NoStrayNext ==
    ASSUME NEW doc, NEW n \in Nat, NoStray(doc, n), doc[n + 1].kind # "stray"
    PROVE  NoStray(doc, n + 1)
<1>1. \A j \in 1 .. n + 1 : j \in 1 .. n \/ j = n + 1
  OBVIOUS
<1>2. QED
  BY <1>1, Zenon DEF NoStray

LEMMA SectionRead == FileInv /\ Config!SectionLine => FileInv'
<1> SUFFICES ASSUME FileInv, Config!SectionLine PROVE FileInv'
  OBVIOUS
<1>1. /\ parser = "line" /\ line < Len(document) /\ Config!IsSection(Config!LineBuf(line + 1))
      /\ sectionName' = Config!Scan(Config!InBrackets(Config!LineBuf(line + 1)), sectionName)
      /\ m_data' = Config!AddSection(m_data, sectionName')
      /\ line' = line + 1 /\ document' = document /\ parser' = parser
      /\ keyName' = keyName /\ value' = value /\ valuetmp' = valuetmp
  BY Zenon DEF Config!SectionLine
<1>2. PICK n, item : n = line + 1 /\ item = document[n]
  OBVIOUS
<1>3. /\ n \in 1 .. Len(document) /\ n - 1 = line /\ line \in Nat /\ n \in Nat /\ line <= n /\ n \in 0 .. Len(document)
      /\ item \in Items /\ Config!LineBuf(n) = CutLine(item)
      /\ document \in Documents /\ document \in Seq(Items)
      /\ BetweenItems(document, m_data, line, sectionName)
  BY <1>1, <1>2, NextItem, Zenon
<1>4. item.kind = "section"
  BY <1>1, <1>2, <1>3, KindSeen, Zenon
<1>5. sectionName' = IF item.name # <<>> THEN item.name ELSE sectionName
  <2>1. Config!Word(Config!InBrackets(CutLine(item)), Config!Blanks) = item.name
    BY <1>3, <1>4, SectionLineIs
  <2>2. QED
    BY <1>1, <1>2, <1>3, <2>1, Zenon DEF Config!Scan
<1>6. item.name \in Texts /\ sectionName \in Texts /\ m_data \in DataOf(Texts) /\ keyName \in Texts /\ value \in Texts
  BY <1>3, <1>4, ItemIs, Zenon DEF NameOk, FileInv, FileType
<1>7. sectionName' \in Texts
  BY <1>5, <1>6, Zenon
<1>8. m_data' \in DataOf(Texts) /\ \A t : AttributesIn(m_data', t) = AttributesIn(m_data, t)
  BY <1>1, <1>6, <1>7, AddSectionIs
<1>9. sectionName' = Config!SectionAt(document, n)
  <2>1. /\ NamesSection(document[line + 1]) => Config!SectionAt(document, line + 1) = document[line + 1].name
        /\ ~ NamesSection(document[line + 1]) => Config!SectionAt(document, line + 1) = Config!SectionAt(document, line)
    BY <1>3, SectionAtIs
  <2>2. sectionName = Config!SectionAt(document, line)
    BY <1>3, Zenon DEF BetweenItems
  <2>3. QED
    BY <1>2, <1>4, <1>5, <2>1, <2>2, Zenon DEF NamesSection
<1>10. item.kind # "stray" /\ item.kind # "entry"
  BY <1>4, KindsDiffer, Zenon
<1>11. NoStray(document, n)
  BY <1>2, <1>3, <1>10, NoStrayNext, Zenon DEF BetweenItems
<1>12. Complete(document, m_data', n) /\ Faithful(document, m_data', n)
  <2>1. Complete(document, m_data, n - 1) /\ Faithful(document, m_data, n - 1)
    BY <1>3, Zenon DEF BetweenItems
  <2>2. Complete(document, m_data, n) /\ Faithful(document, m_data, n)
    BY <1>2, <1>3, <1>10, <2>1, OtherItem, Zenon
  <2>3. QED
    BY <1>8, <2>2, SameAttributes, Zenon
<1>13. Known(document, m_data', n) /\ Ordered(document, m_data', n)
  <2>1. Known(document, m_data, line) /\ Ordered(document, m_data, line)
    BY Zenon DEF FileInv
  <2>2. Known(document, m_data, n) /\ Ordered(document, m_data, n)
    BY <1>3, <2>1, MoreLines, Zenon
  <2>3. QED
    BY <1>8, <2>2, SameAttributes, Zenon
<1>14. BetweenItems(document', m_data', line', sectionName')
  BY <1>1, <1>2, <1>9, <1>11, <1>12, Zenon DEF BetweenItems
<1>15. FileType'
  BY <1>1, <1>2, <1>3, <1>6, <1>7, <1>8, Zenon DEF FileType
<1>16. QED
  BY <1>1, <1>2, <1>13, <1>14, <1>15, ParsersDiffer, Zenon DEF FileInv

LEMMA OtherRead == FileInv /\ Config!OtherLine => FileInv'
<1> SUFFICES ASSUME FileInv, Config!OtherLine PROVE FileInv'
  OBVIOUS
<1>1. /\ parser = "line" /\ line < Len(document) /\ ~ Config!IsSection(Config!LineBuf(line + 1))
      /\ Config!strchr(Config!LineBuf(line + 1), ":") = 0
      /\ parser' = IF Config!Word(Config!LineBuf(line + 1), Config!Blanks) # <<>> THEN "loaded" ELSE "line"
      /\ line' = line + 1 /\ document' = document /\ m_data' = m_data /\ sectionName' = sectionName
      /\ keyName' = keyName /\ value' = value /\ valuetmp' = valuetmp
  BY Zenon DEF Config!OtherLine
<1>2. PICK n, item : n = line + 1 /\ item = document[n]
  OBVIOUS
<1>3. /\ n \in 1 .. Len(document) /\ n - 1 = line /\ line \in Nat /\ n \in Nat /\ line <= n /\ n \in 0 .. Len(document)
      /\ item \in Items /\ Config!LineBuf(n) = CutLine(item)
      /\ document \in Documents /\ document \in Seq(Items)
      /\ BetweenItems(document, m_data, line, sectionName)
  BY <1>1, <1>2, NextItem, Zenon
<1>4. item.kind \in {"stray", "blank", "comment"}
  BY <1>1, <1>2, <1>3, KindSeen, Zenon
<1>5. FileType'
  <2>1. m_data \in DataOf(Texts) /\ sectionName \in Texts /\ keyName \in Texts /\ value \in Texts
    BY Zenon DEF FileInv, FileType
  <2>2. parser' \in {"line", "loaded"}
    BY <1>1, Zenon
  <2>3. QED
    BY <1>1, <1>2, <1>3, <2>1, <2>2, Zenon DEF FileType
<1>6. Known(document, m_data, n) /\ Ordered(document, m_data, n)
  <2>1. Known(document, m_data, line) /\ Ordered(document, m_data, line)
    BY Zenon DEF FileInv
  <2>2. QED
    BY <1>3, <2>1, MoreLines, Zenon
<1>7. CASE item.kind = "stray"
  <2>1. parser' = "loaded"
    <3>1. Config!Word(CutLine(item), Config!Blanks) # <<>>
      BY <1>7, StrayLine, Zenon
    <3>2. QED
      BY <1>1, <1>2, <1>3, <3>1, Zenon
  <2>2. ReadOf(document, n) = line
    <3>1. line \in 0 .. Len(document) /\ line < Len(document) /\ document[line + 1].kind = "stray"
          /\ NoStray(document, line)
      BY <1>1, <1>2, <1>3, <1>7 DEF BetweenItems
    <3>2. ReadOf(document, line + 1) = line
      BY <1>3, <3>1, ReadOfIs
    <3>3. QED
      BY <1>2, <3>2, Zenon
  <2>3. Faithful(document, m_data, ReadOf(document, n))
    BY <1>3, <2>2, Zenon DEF BetweenItems
  <2>4. QED
    BY <1>1, <1>2, <1>5, <1>6, <2>1, <2>3, ParsersDiffer, Zenon DEF FileInv
<1>8. CASE item.kind \in {"blank", "comment"}
  <2>1. parser' = "line"
    <3>1. Config!Word(CutLine(item), Config!Blanks) = <<>>
      BY <1>8, BlankLine
    <3>2. QED
      BY <1>1, <1>2, <1>3, <3>1, Zenon
  <2>2. item.kind # "stray" /\ item.kind # "entry" /\ item.kind # "section"
    BY <1>8, KindsDiffer, Zenon
  <2>3. NoStray(document, n)
    BY <1>2, <1>3, <2>2, NoStrayNext, Zenon DEF BetweenItems
  <2>4. sectionName = Config!SectionAt(document, n)
    <3>1. ~ NamesSection(document[line + 1])
      BY <1>2, <2>2, Zenon DEF NamesSection
    <3>2. Config!SectionAt(document, line + 1) = Config!SectionAt(document, line)
      BY <1>3, <3>1, SectionAtIs
    <3>3. QED
      BY <1>2, <1>3, <3>2, Zenon DEF BetweenItems
  <2>5. Complete(document, m_data, n) /\ Faithful(document, m_data, n)
    <3>1. Complete(document, m_data, n - 1) /\ Faithful(document, m_data, n - 1)
      BY <1>3, Zenon DEF BetweenItems
    <3>2. QED
      BY <1>2, <1>3, <2>2, <3>1, OtherItem, Zenon
  <2>6. BetweenItems(document', m_data', line', sectionName')
    BY <1>1, <1>2, <2>3, <2>4, <2>5, Zenon DEF BetweenItems
  <2>7. QED
    BY <1>1, <1>2, <1>5, <1>6, <2>1, <2>6, ParsersDiffer, Zenon DEF FileInv
<1>9. QED
  BY <1>4, <1>7, <1>8, Zenon

LEMMA KeyRead == FileInv /\ Config!KeyLine => FileInv'
<1> SUFFICES ASSUME FileInv, Config!KeyLine PROVE FileInv'
  OBVIOUS
<1>1. /\ parser = "line" /\ line < Len(document) /\ ~ Config!IsSection(Config!LineBuf(line + 1))
      /\ Config!strchr(Config!LineBuf(line + 1), ":") # 0
      /\ keyName' \in Config!ScanLocal(Config!Before(Config!LineBuf(line + 1),
                                                     Config!strchr(Config!LineBuf(line + 1), ":")), keyName)
      /\ valuetmp' = Config!After(Config!LineBuf(line + 1), Config!strchr(Config!LineBuf(line + 1), ":"))
      /\ value' \in {value, Garbage} /\ parser' = "values"
      /\ line' = line + 1 /\ document' = document /\ m_data' = m_data /\ sectionName' = sectionName
  BY Zenon DEF Config!KeyLine
<1>2. PICK n, item : n = line + 1 /\ item = document[n]
  OBVIOUS
<1>3. /\ n \in 1 .. Len(document) /\ n - 1 = line /\ line \in Nat /\ n \in Nat /\ line <= n /\ n \in 0 .. Len(document)
      /\ item \in Items /\ Config!LineBuf(n) = CutLine(item)
      /\ document \in Documents /\ document \in Seq(Items)
      /\ BetweenItems(document, m_data, line, sectionName)
  BY <1>1, <1>2, NextItem, Zenon
<1>4. item.kind = "entry"
  BY <1>1, <1>2, <1>3, KindSeen, Zenon
<1>5. item.key \in Texts /\ item.key # <<>> /\ Len(item.values) \in Nat /\ Len(item.values) >= 1
  <2>1. KeyOk(item.key) /\ ValuesOk(item.values)
    BY <1>3, <1>4, ItemIs, Zenon DEF EntryOk
  <2>2. item.key \in Texts /\ Len(item.key) >= 1
    BY <2>1, Zenon DEF KeyOk
  <2>3. item.values \in Seq(Texts) /\ Len(item.values) >= 1
    BY <2>1, Zenon DEF ValuesOk
  <2>4. Len(item.values) \in Nat
    BY <2>3
  <2>5. item.key # <<>>
    BY <2>2
  <2>6. QED
    BY <2>2, <2>3, <2>4, <2>5, Zenon
<1>6. keyName' = item.key /\ valuetmp' = Rest(item.values, 0)
  <2>1. /\ Config!Word(Config!Before(CutLine(item), Config!strchr(CutLine(item), ":")), Config!Blanks) = item.key
        /\ Config!After(CutLine(item), Config!strchr(CutLine(item), ":")) = Rest(item.values, 0)
    BY <1>3, <1>4, EntryLine, Zenon
  <2>2. QED
    BY <1>1, <1>2, <1>3, <1>5, <2>1, Zenon DEF Config!ScanLocal
<1>7. item.kind # "stray" /\ item.kind # "section"
  BY <1>4, KindsDiffer, Zenon
<1>8. FileType'
  <2>1. m_data \in DataOf(Texts) /\ sectionName \in Texts /\ value \in Texts /\ Garbage \in Texts
    BY NoData, Zenon DEF FileInv, FileType
  <2>2. value' \in Texts
    BY <1>1, <2>1, Zenon
  <2>3. QED
    BY <1>1, <1>2, <1>3, <1>5, <1>6, <2>1, <2>2, Zenon DEF FileType
<1>9. Known(document, m_data, n) /\ Ordered(document, m_data, n)
  <2>1. Known(document, m_data, line) /\ Ordered(document, m_data, line)
    BY Zenon DEF FileInv
  <2>2. QED
    BY <1>3, <2>1, MoreLines, Zenon
<1>10. NoStray(document, n)
  BY <1>2, <1>3, <1>7, NoStrayNext, Zenon DEF BetweenItems
<1>11. sectionName = Config!SectionAt(document, n)
  <2>1. ~ NamesSection(document[line + 1])
    BY <1>2, <1>7, Zenon DEF NamesSection
  <2>2. Config!SectionAt(document, line + 1) = Config!SectionAt(document, line)
    BY <1>3, <2>1, SectionAtIs
  <2>3. QED
    BY <1>2, <1>3, <2>2, Zenon DEF BetweenItems
<1>12. FaithfulIn(document, m_data, n, 0) /\ Complete(document, m_data, n - 1)
  <2>1. Complete(document, m_data, n - 1) /\ Faithful(document, m_data, n - 1)
    BY <1>3, Zenon DEF BetweenItems
  <2>2. document[n].kind = "entry"
    BY <1>2, <1>4, Zenon
  <2>3. QED
    BY <1>3, <2>1, <2>2, EntryBegins, Zenon
<1>13. 0 \in 0 .. Len(item.values) - 1
  BY <1>5
<1>14. InsideEntry(document, m_data, n, sectionName, keyName', valuetmp')
  BY <1>2, <1>3, <1>4, <1>6, <1>10, <1>11, <1>12, <1>13, Zenon DEF InsideEntry
<1>15. QED
  BY <1>1, <1>2, <1>8, <1>9, <1>14, ParsersDiffer, Zenon DEF FileInv

LEMMA ValueRead == FileInv /\ Config!NextValue => FileInv'
<1> SUFFICES ASSUME FileInv, Config!NextValue PROVE FileInv'
  OBVIOUS
<1>0. PICK comma, n, item : comma = Config!strchr(valuetmp, ",") /\ n = line /\ item = document[n]
  BY Zenon
<1>1. /\ parser = "values"
      /\ value' = Config!Scan(Config!Before(valuetmp, comma), value)
      /\ m_data' = Config!AddValue(m_data, sectionName, keyName, value')
      /\ \/ comma = 0 /\ parser' = "line"
         \/ comma # 0 /\ valuetmp' = Config!After(valuetmp, comma) /\ parser' = "values"
      /\ line' = line /\ document' = document /\ sectionName' = sectionName /\ keyName' = keyName
  BY <1>0, Zenon DEF Config!NextValue
<1>2. /\ document \in Documents /\ m_data \in DataOf(Texts) /\ n \in 0 .. Len(document)
      /\ sectionName \in Texts /\ keyName \in Texts /\ value \in Texts
      /\ Known(document, m_data, n) /\ Ordered(document, m_data, n)
      /\ InsideEntry(document, m_data, n, sectionName, keyName, valuetmp)
  BY <1>0, <1>1, Zenon DEF FileInv, FileType
<1>3. /\ n \in 1 .. Len(document) /\ NoStray(document, n) /\ item.kind = "entry"
      /\ sectionName = Config!SectionAt(document, n) /\ keyName = item.key /\ Complete(document, m_data, n - 1)
  BY <1>0, <1>2, Zenon DEF InsideEntry
<1>4. PICK c \in 0 .. Len(item.values) - 1 :
        valuetmp = Rest(item.values, c) /\ FaithfulIn(document, m_data, n, c)
  BY <1>0, <1>2, Zenon DEF InsideEntry
<1>5. item \in Items
  BY <1>0, <1>2, <1>3, NextOf, Zenon
<1>6. ValuesOk(item.values)
  BY <1>3, <1>5, ItemIs, Zenon DEF EntryOk
<1>7. /\ Config!Word(Config!Before(valuetmp, comma), Config!Blanks) = item.values[c + 1]
      /\ c + 1 = Len(item.values) => comma = 0
      /\ c + 1 # Len(item.values) => comma # 0 /\ Config!After(valuetmp, comma) = Rest(item.values, c + 1)
  <2>1. /\ Config!Word(Config!Before(valuetmp, Config!strchr(valuetmp, ",")), Config!Blanks) = item.values[c + 1]
        /\ c + 1 = Len(item.values) => Config!strchr(valuetmp, ",") = 0
        /\ c + 1 # Len(item.values) =>
            /\ Config!strchr(valuetmp, ",") # 0
            /\ Config!After(valuetmp, Config!strchr(valuetmp, ",")) = Rest(item.values, c + 1)
    BY <1>4, <1>6, ValueStep, Zenon
  <2>2. QED
    BY <1>0, <2>1, Zenon
<1>8. item.values \in Seq(Texts) /\ c \in Nat /\ c + 1 \in 1 .. Len(item.values) /\ Len(item.values) \in Nat
  <2>1. item.values \in Seq(Texts)
    BY <1>6, Zenon DEF ValuesOk
  <2>2. QED
    BY <1>4, <2>1
<1>9. value' \in Texts /\ (item.values[c + 1] # <<>> => value' = item.values[c + 1])
  <2>1. item.values[c + 1] \in Texts
    BY <1>8
  <2>2. value' = IF item.values[c + 1] # <<>> THEN item.values[c + 1] ELSE value
    BY <1>1, <1>7, Zenon DEF Config!Scan
  <2>3. QED
    BY <1>2, <2>1, <2>2, Zenon
<1>10. document[n].kind = "entry" /\ keyName = document[n].key
  BY <1>0, <1>3, Zenon
<1>11. m_data' \in DataOf(Texts) /\ FaithfulIn(document, m_data', n, c + 1)
  <2>1. PICK values : values = item.values
    OBVIOUS
  <2>2. values = document[n].values /\ c \in 0 .. Len(values) - 1
        /\ value' \in Texts /\ (values[c + 1] # <<>> => value' = values[c + 1])
    BY <1>0, <1>4, <1>9, <2>1, Zenon
  <2>3. QED
    BY <1>1, <1>2, <1>3, <1>4, <1>10, <2>2, ValueFits
<1>12. Complete(document, m_data', n) /\ Known(document, m_data', n) /\ Ordered(document, m_data', n)
  BY <1>1, <1>2, <1>3, <1>9, <1>10, ValueInOrder
<1>13. FileType'
  <2>1. parser' \in {"line", "values"}
    BY <1>1, Zenon
  <2>2. QED
    BY <1>0, <1>1, <1>2, <1>9, <1>11, <2>1, Zenon DEF FileType
<1>14. CASE c + 1 = Len(item.values)
  <2>1. parser' = "line"
    BY <1>1, <1>7, <1>14, Zenon
  <2>2. Faithful(document, m_data', n)
    <3>1. FaithfulIn(document, m_data', n, Len(document[n].values))
      BY <1>0, <1>11, <1>14, Zenon
    <3>2. QED
      BY <1>2, <1>3, <1>10, <3>1, EntryEnds, Zenon
  <2>3. BetweenItems(document', m_data', line', sectionName')
    BY <1>0, <1>1, <1>3, <1>12, <2>2, Zenon DEF BetweenItems
  <2>4. QED
    BY <1>0, <1>1, <1>12, <1>13, <2>1, <2>3, ParsersDiffer, Zenon DEF FileInv
<1>15. CASE c + 1 # Len(item.values)
  <2>1. parser' = "values" /\ valuetmp' = Rest(item.values, c + 1)
    BY <1>1, <1>7, <1>15, Zenon
  <2>2. c + 1 \in 0 .. Len(item.values) - 1
    BY <1>8, <1>15
  <2>3. Complete(document, m_data', n - 1)
    <3>1. \A m \in 1 .. n - 1 : m \in 1 .. n
      BY <1>3
    <3>2. QED
      BY <1>12, <3>1, Zenon DEF Complete
  <2>4. InsideEntry(document', m_data', line', sectionName', keyName', valuetmp')
    BY <1>0, <1>1, <1>3, <1>10, <1>11, <2>1, <2>2, <2>3, Zenon DEF InsideEntry
  <2>5. QED
    BY <1>0, <1>1, <1>12, <1>13, <2>1, <2>4, ParsersDiffer, Zenon DEF FileInv
<1>16. QED
  BY <1>14, <1>15, Zenon

LEMMA SectionAsked ==
    ASSUME NEW s \in Texts, FileInv, Config!GetSection(s)
    PROVE  FileInv'
<1>1. /\ parser = "loaded" /\ m_data' = Config!AddSection(m_data, s)
      /\ document' = document /\ parser' = parser /\ line' = line
      /\ sectionName' = sectionName /\ keyName' = keyName /\ value' = value /\ valuetmp' = valuetmp
  BY Zenon DEF Config!GetSection
<1>2. FileType /\ m_data \in DataOf(Texts)
  BY Zenon DEF FileInv, FileType
<1>3. m_data' \in DataOf(Texts) /\ \A t : AttributesIn(m_data', t) = AttributesIn(m_data, t)
  BY <1>1, <1>2, AddSectionIs
<1>4. PICK n, r : n = line /\ r = ReadOf(document, line)
  OBVIOUS
<1>5. Known(document, m_data, n) /\ Ordered(document, m_data, n) /\ Faithful(document, m_data, r)
  BY <1>1, <1>4, Zenon DEF FileInv
<1>6. Known(document, m_data', n) /\ Ordered(document, m_data', n) /\ Faithful(document, m_data', r)
  BY <1>3, <1>5, SameAttributes, Zenon
<1>7. FileType'
  BY <1>1, <1>2, <1>3, Zenon DEF FileType
<1>8. QED
  BY <1>1, <1>4, <1>6, <1>7, ParsersDiffer, Zenon DEF FileInv

LEMMA FileDestroyed == FileInv /\ Config!Destroyed => FileInv'
<1> SUFFICES ASSUME FileInv, Config!Destroyed PROVE FileInv'
  OBVIOUS
<1>1. /\ parser' = "destroyed" /\ m_data' = <<>> /\ sectionName' = <<>> /\ keyName' = Garbage /\ value' = Garbage
      /\ document' = document /\ line' = line
  BY Zenon DEF Config!Destroyed
<1>2. FileType'
  BY <1>1, NoData, Zenon DEF FileInv, FileType
<1>3. QED
  BY <1>1, <1>2, NoData, ParsersDiffer, Zenon DEF FileInv

LEMMA FileStep == FileInv /\ [Next]_vars => FileInv'
<1> SUFFICES ASSUME FileInv, [Next]_vars PROVE FileInv'
  OBVIOUS
<1>1. CASE LoadData
  BY <1>1, FileOpened, FileEnds, SectionRead, OtherRead, KeyRead, ValueRead, Zenon DEF LoadData, Config!LoadData
<1>2. CASE DaemonMode
  <2>1. Proxy \in Texts
    BY Zenon DEF Texts
  <2>2. QED
    BY <1>2, <2>1, SectionAsked, Zenon DEF DaemonMode
<1>3. CASE ReadSection
  <2>1. \A s \in Sections : s \in Texts
    BY SectionsAssumption, Zenon DEF Texts
  <2>2. PICK s \in Sections : Config!GetSection(s)
    BY <1>3, Zenon DEF ReadSection
  <2>3. QED
    BY <2>1, <2>2, SectionAsked, Zenon
<1>4. CASE DoConfigReturns
  BY <1>4, FileDestroyed, Zenon DEF DoConfigReturns
<1>5. CASE UNCHANGED configFile
  BY <1>5, FileKept, Zenon
<1>6. \/ LoadData \/ DaemonMode \/ ReadSection \/ DoConfigReturns \/ UNCHANGED configFile
  BY Zenon DEF Next, NoConfigFile, ConfigFileThere, DaemonizeExits, Daemonize, LogOptions, ServerOptions, PortThrows,
         InitializeManager, NoSocket, InitializeServerFails, InitializeServer, AddServer, NoPipe, AddCommand,
         IgnoreSigpipe, Started, Exit, vars, config
<1>7. QED
  BY <1>1, <1>2, <1>3, <1>4, <1>5, <1>6, Zenon

LEMMA ConfigAs ==
    /\ Config!ItemsRead = ReadOf(document, line)
    /\ \A s : Config!Attributes(s) = AttributesIn(m_data, s)
    /\ \A s, k : Config!ValuesOf(s, k) = ValuesAt(m_data, s, k)
<1>1. Config!ItemsRead = ReadOf(document, line)
  BY Zenon DEF Config!ItemsRead, Config!FirstStray, ReadOf
<1>2. \A s : Config!Attributes(s) = AttributesIn(m_data, s)
  BY Zenon DEF Config!Attributes, AttributesIn
<1>3. \A s, k : Config!ValuesOf(s, k) = ValuesAt(m_data, s, k)
  BY <1>2, Zenon DEF Config!ValuesOf, ValuesAt, ValuesIn
<1>4. QED
  BY <1>1, <1>2, <1>3, Zenon

LEMMA LoadedHolds == FileInv => LoadedAsWritten
<1> SUFFICES ASSUME FileInv PROVE LoadedAsWritten
  OBVIOUS
<1>1. /\ document \in Documents /\ line \in 0 .. Len(document) /\ m_data \in DataOf(Texts)
      /\ Ordered(document, m_data, line)
  BY Zenon DEF FileInv, FileType
<1>2. Config!AtLine => Faithful(document, m_data, ReadOf(document, line))
  <2>1. CASE parser = "line"
    <3>1. BetweenItems(document, m_data, line, sectionName)
      BY <2>1, Zenon DEF FileInv
    <3>2. document \in Seq(Items)
      BY <1>1, DocumentIs
    <3>3. NoStray(document, line) /\ Faithful(document, m_data, line)
      BY <3>1, Zenon DEF BetweenItems
    <3>4. ReadOf(document, line) = line
      BY <1>1, <3>2, <3>3, ReadOfIs
    <3>5. QED
      BY <3>3, <3>4, Zenon
  <2>2. CASE parser = "loaded"
    BY <2>2, Zenon DEF FileInv
  <2>3. QED
    BY <2>1, <2>2, Zenon DEF Config!AtLine
<1>3. Config!AtLine => \A s, k : Config!Fits(Config!ValuesOf(s, k), Config!Written(document, Config!ItemsRead, s, k))
  BY <1>2, ConfigAs, Zenon DEF Faithful
<1>4. Config!EnumeratedOnce
  <2>1. m_data \in Seq(SectionOf(Texts)) /\ Tidy(m_data)
    BY <1>1, Zenon DEF DataOf
  <2>2. DOMAIN m_data = 1 .. Len(m_data)
    BY <2>1
  <2>3. Config!IsDistinct(m_data) /\ \A i \in DOMAIN m_data : Config!IsDistinct(m_data[i].attributes)
    BY <2>1, <2>2, Zenon DEF Tidy
  <2>4. ASSUME NEW s
        PROVE  \A i, j \in DOMAIN Config!Attributes(s) : i < j => \E m \in 1 .. line :
                   /\ Config!IsEntryOf(document, m, s, Config!Attributes(s)[i].name)
                   /\ \A n \in 1 .. m : ~ Config!IsEntryOf(document, n, s, Config!Attributes(s)[j].name)
    <3>1. PICK A : A = AttributesIn(m_data, s) /\ A = Config!Attributes(s)
      BY ConfigAs, Zenon
    <3>2. A \in Seq(AttributeOf(Texts))
      BY <1>1, <3>1, AttributesTidy, Zenon
    <3>3. DOMAIN A = 1 .. Len(A)
      BY <3>2
    <3>4. \A i, j \in 1 .. Len(A) : i < j => Precedes(document, line, s, A[i].name, A[j].name)
      BY <1>1, <3>1, Zenon DEF Ordered, InOrder
    <3>5. QED
      BY <3>1, <3>3, <3>4, Zenon DEF Precedes
  <2>5. QED
    BY <2>3, <2>4, Zenon DEF Config!EnumeratedOnce
<1>5. QED
  BY <1>3, <1>4, Zenon DEF LoadedAsWritten, Config!LoadedAsWritten

\* Whatever the file says, the keys of its sections have the values that it gives
\* them, up to every line, and who goes through the lists meets each section and
\* key once, in the order of the file: ConfigFile::LoadData and GetSection.
THEOREM StartupLoadsWhatIsWritten == Spec => []LoadedAsWritten
<1>1. Init => FileInv
  BY FileInit
<1>2. FileInv /\ [Next]_vars => FileInv'
  BY FileStep
<1>3. QED
  BY <1>1, <1>2, LoadedHolds, PTL DEF Spec

-----------------------------------------------------------------------------
(* Descriptors that are free. *)

Contents == {"terminal", "/dev/null", "log", "epoll", "listen", "pipe"}

\* What is held before the loop begins: never more than is free at first.
HeldInv ==
    /\ files \in [Fd -> Contents \cup {Unset}]
    /\ {logFile, m_epollFd, m_socketFd} \subseteq (Fd \ 0 .. 2) \cup {Unset}
    /\ m_pipeFds = {} \/ \E r, w \in Fd \ 0 .. 2 : m_pipeFds = {r, w}
    /\ DescriptorsHeld

\* Which of the descriptors nobody has opened yet.
Early == {"access", "load", "fork", "options"}
BeforeManager == Early \cup {"port", "lists", "epoll"}
BeforeServer == BeforeManager \cup {"server"}
BeforePipe == BeforeServer \cup {"addserver", "addcommand"}

StageInv ==
    /\ pc \in Early => ~ m_toFile /\ logFile = Unset
    /\ pc \in BeforeManager => m_epollFd = Unset
    /\ pc \in BeforeServer => m_socketFd = Unset
    /\ pc \in BeforeServer \cup {"addserver"} => registered = {}
    /\ pc \in BeforePipe => m_pipeFds = {}

LEMMA FdNat == Fd \subseteq Nat /\ 0 .. 7 \subseteq Fd /\ Unset \notin Fd /\ Unset \notin Contents
BY MaxFdAssumption, UnsetAssumption DEF Fd, Contents

LEMMA Standard == 0 .. 2 \subseteq Fd /\ \A d \in Fd : d < 3 <=> d \in 0 .. 2
BY MaxFdAssumption DEF Fd

LEMMA SomeFree ==
    ASSUME HeldInv, logFile = Unset \/ m_epollFd = Unset \/ m_socketFd = Unset \/ m_pipeFds = {}
    PROVE  FreeFd \in Fd \ 0 .. 2 /\ files[FreeFd] = Unset
<1>1. PICK a, b, c, r, w : /\ a = logFile /\ b = m_epollFd /\ c = m_socketFd
                           /\ m_pipeFds \subseteq {r, w}
                           /\ a = Unset \/ b = Unset \/ c = Unset \/ (m_pipeFds = {} /\ r = Unset)
  BY DEF HeldInv
<1>2. Unset \notin 0 .. 7 /\ 0 .. 7 \subseteq Fd
  BY FdNat
<1>3. \E d \in 3 .. 7 : d \notin {a, b, c, r, w}
  BY <1>1, <1>2
<1>4. PICK d \in 3 .. 7 : d \notin {a, b, c, r, w}
  BY <1>3
<1>5. files[d] = Unset
  BY <1>1, <1>2, <1>4 DEF HeldInv, DescriptorsHeld
<1>6. FreeFd \in {e \in Fd : files[e] = Unset}
  <2>1. PICK T : T = {e \in Fd : files[e] = Unset}
    OBVIOUS
  <2>2. T \subseteq Nat /\ d \in T
    <3>1. d \in 0 .. 7
      OBVIOUS
    <3>2. QED
      BY <1>2, <1>5, <2>1, <3>1, FdNat
  <2>3. Min(T) \in T
    BY <2>2, FirstExists
  <2>4. QED
    BY <2>1, <2>3 DEF FreeFd
<1>7. FreeFd \notin 0 .. 2
  BY <1>6, FdNat DEF HeldInv, DescriptorsHeld
<1>8. QED
  BY <1>6, <1>7

-----------------------------------------------------------------------------
(* What the steps do to the descriptors. *)

held == <<files, logFile, m_epollFd, m_socketFd, m_pipeFds, registered>>

LEMMA SameHeld == HeldInv /\ UNCHANGED held => HeldInv'
BY DEF HeldInv, DescriptorsHeld, Holds, held

LEMMA LogAndGoHeld ==
    ASSUME HeldInv, NEW severity, NEW next, LogAndGo(severity, next), UNCHANGED sockets
    PROVE  /\ HeldInv'
           /\ pc' \in {next, "crashed"}
           /\ m_toFile' = m_toFile /\ (~ m_toFile => logFile' = logFile)
<1>1. pc' \in {next, "crashed"} /\ m_toFile' = m_toFile
  BY DEF LogAndGo
<1>2. CASE UNCHANGED <<files, logFile>>
  BY <1>1, <1>2, SameHeld DEF held, sockets
<1>3. CASE OpensLog(severity) /\ files' = [files EXCEPT ![FreeFd] = "log"] /\ logFile' = FreeFd
  <2>1. PICK d \in Fd \ 0 .. 2 : d = FreeFd /\ files[d] = Unset
    BY <1>3, SomeFree DEF OpensLog
  <2>2. files' = [files EXCEPT ![d] = "log"] /\ logFile' = d /\ logFile = Unset /\ m_toFile
    BY <1>3, <2>1 DEF OpensLog
  <2>3. HeldInv'
    BY <2>1, <2>2, FdNat DEF HeldInv, DescriptorsHeld, Holds, sockets, Contents
  <2>4. QED
    BY <1>1, <2>2, <2>3
<1>4. QED
  BY <1>2, <1>3 DEF LogAndGo

LEMMA ExitHeld ==
    ASSUME HeldInv, NEW severity, Exit(severity)
    PROVE  HeldInv' /\ pc' \in {"exited", "crashed"}
BY LogAndGoHeld DEF Exit

Inv == HeldInv /\ StageInv

LEMMA InitInv == Init => Inv
<1> SUFFICES ASSUME Init PROVE Inv
  OBVIOUS
<1>1. HeldInv
  <2>1. files \in [Fd -> Contents \cup {Unset}] /\ {d \in Fd : files[d] # Unset} = 0 .. 2
    <3>1. files = [d \in Fd |-> IF d < 3 THEN "terminal" ELSE Unset]
      BY DEF Init
    <3>2. QED
      BY <3>1, FdNat, Standard DEF Contents
  <2>2. QED
    BY <2>1 DEF Init, HeldInv, DescriptorsHeld, Holds
<1>2. StageInv
  BY DEF Init, StageInv
<1>3. QED
  BY <1>1, <1>2 DEF Inv

\* The steps that open, register or close nothing.
LEMMA QuietSteps ==
    ASSUME Inv, \/ NoConfigFile \/ ConfigFileThere \/ LoadData \/ DaemonMode \/ LogOptions \/ PortThrows
                \/ ReadSection \/ Started \/ UNCHANGED vars
    PROVE  Inv'
<1>1. UNCHANGED held
  BY DEF NoConfigFile, ConfigFileThere, LoadData, DaemonMode, LogOptions, PortThrows, ReadSection,
         Started, vars, log, sockets, held
<1>2. HeldInv'
  BY <1>1, SameHeld DEF Inv
<1>3. StageInv'
  <2>1. CASE NoConfigFile \/ PortThrows
    BY <2>1 DEF NoConfigFile, PortThrows, StageInv, Early, BeforeManager, BeforeServer, BeforePipe
  <2>2. CASE ConfigFileThere
    BY <1>1, <2>2 DEF ConfigFileThere, Inv, StageInv, Early, BeforeManager, BeforeServer, BeforePipe, held, log
  <2>3. CASE LoadData \/ ReadSection \/ Started \/ UNCHANGED vars
    <3>1. UNCHANGED <<pc, m_toFile>>
      BY <2>3 DEF LoadData, ReadSection, Started, vars, log
    <3>2. QED
      BY <1>1, <3>1 DEF Inv, StageInv, held
  <2>4. CASE DaemonMode
    <3>1. pc = "load" /\ pc' \in {"fork", "options"} /\ m_toFile' = m_toFile
      BY <2>4 DEF DaemonMode, log
    <3>2. QED
      BY <1>1, <3>1 DEF Inv, StageInv, Early, BeforeManager, BeforeServer, BeforePipe, held
  <2>5. CASE LogOptions
    <3>1. pc = "options" /\ pc' = "port"
      BY <2>5 DEF LogOptions
    <3>2. QED
      BY <1>1, <3>1 DEF Inv, StageInv, Early, BeforeManager, BeforeServer, BeforePipe, held
  <2>6. QED
    BY <2>1, <2>2, <2>3, <2>4, <2>5
<1>4. QED
  BY <1>2, <1>3 DEF Inv

LEMMA EndsInv ==
    ASSUME HeldInv', pc' \in {"exited", "crashed"}
    PROVE  Inv'
BY DEF Inv, StageInv, Early, BeforeManager, BeforeServer, BeforePipe

LEMMA DaemonInv ==
    ASSUME Inv, DaemonizeExits \/ Daemonize
    PROVE  Inv'
<1>1. CASE DaemonizeExits
  BY <1>1, ExitHeld, EndsInv DEF DaemonizeExits, Inv
<1>2. CASE Daemonize
  <2>1. /\ pc = "fork" /\ pc' = "options"
        /\ files' = [d \in Fd |-> IF d < 3 THEN "/dev/null" ELSE Unset]
        /\ UNCHANGED <<m_toFile, logFile, m_epollFd, m_socketFd, m_pipeFds, registered>>
    BY <1>2 DEF Daemonize, log, sockets
  <2>2. /\ ~ m_toFile /\ logFile = Unset /\ m_epollFd = Unset /\ m_socketFd = Unset
        /\ registered = {} /\ m_pipeFds = {}
    BY <2>1 DEF Inv, StageInv, Early, BeforeManager, BeforeServer, BeforePipe
  <2>3. HeldInv'
    <3>1. files' \in [Fd -> Contents \cup {Unset}] /\ {d \in Fd : files'[d] # Unset} = 0 .. 2
      BY <2>1, FdNat, Standard DEF Contents
    <3>2. QED
      BY <2>1, <2>2, <3>1 DEF HeldInv, DescriptorsHeld, Holds
  <2>4. StageInv'
    BY <2>1, <2>2 DEF StageInv
  <2>5. QED
    BY <2>3, <2>4 DEF Inv
<1>3. QED
  BY <1>1, <1>2

LEMMA ConfigInv ==
    ASSUME Inv, ServerOptions \/ DoConfigReturns \/ NoSocket
    PROVE  Inv'
<1>1. UNCHANGED sockets
  BY DEF ServerOptions, DoConfigReturns, NoSocket
<1>2. \/ pc = "port" /\ pc' = "lists" /\ UNCHANGED held
      \/ pc = "port" /\ LogAndGo("debug", "lists")
      \/ pc = "lists" /\ \E severity : LogAndGo(severity, "epoll")
      \/ pc = "server" /\ LogAndGo("debug", "addserver")
  BY DEF ServerOptions, DoConfigReturns, NoSocket, held, sockets, log
<1>3. /\ HeldInv'
      /\ \/ pc' = "crashed"
         \/ pc = "port" /\ pc' = "lists"
         \/ pc = "lists" /\ pc' = "epoll"
         \/ pc = "server" /\ pc' = "addserver"
  BY <1>1, <1>2, LogAndGoHeld, SameHeld DEF Inv
<1>4. StageInv'
  BY <1>1, <1>3 DEF Inv, StageInv, Early, BeforeManager, BeforeServer, BeforePipe, sockets
<1>5. QED
  BY <1>3, <1>4 DEF Inv

LEMMA ManagerInv ==
    ASSUME Inv, InitializeManager \/ InitializeServerFails \/ InitializeServer
    PROVE  Inv'
<1>1. CASE \E severity : Exit(severity)
  BY <1>1, ExitHeld, EndsInv DEF Inv
<1>2. CASE pc = "epoll" /\ ~ \E severity : Exit(severity)
  <2>1. PICK d : /\ d = FreeFd /\ m_epollFd' = d /\ files' = [files EXCEPT ![d] = "epoll"] /\ pc' = "server"
                 /\ UNCHANGED <<logFile, m_socketFd, m_pipeFds, registered>>
    BY <1>2 DEF InitializeManager, InitializeServerFails, InitializeServer, log
  <2>2. m_epollFd = Unset /\ m_socketFd = Unset /\ registered = {} /\ m_pipeFds = {}
    BY <1>2 DEF Inv, StageInv, BeforeManager, BeforeServer, BeforePipe
  <2>3. d \in Fd \ 0 .. 2 /\ files[d] = Unset
    BY <2>1, <2>2, SomeFree DEF Inv
  <2>4. HeldInv'
    BY <2>1, <2>2, <2>3, FdNat DEF Inv, HeldInv, DescriptorsHeld, Holds, Contents
  <2>5. StageInv'
    BY <2>1, <2>2 DEF StageInv, Early, BeforeManager
  <2>6. QED
    BY <2>4, <2>5 DEF Inv
<1>3. CASE pc = "server" /\ ~ \E severity : Exit(severity)
  <2>1. PICK d : /\ d = FreeFd /\ m_socketFd' = d /\ files' = [files EXCEPT ![d] = "listen"] /\ pc' = "addserver"
                 /\ UNCHANGED <<logFile, m_epollFd, m_pipeFds, registered>>
    BY <1>3 DEF InitializeManager, InitializeServerFails, InitializeServer, log
  <2>2. m_socketFd = Unset /\ registered = {} /\ m_pipeFds = {}
    BY <1>3 DEF Inv, StageInv, BeforeManager, BeforeServer, BeforePipe
  <2>3. d \in Fd \ 0 .. 2 /\ files[d] = Unset
    BY <2>1, <2>2, SomeFree DEF Inv
  <2>4. HeldInv'
    BY <2>1, <2>2, <2>3, FdNat DEF Inv, HeldInv, DescriptorsHeld, Holds, Contents
  <2>5. StageInv'
    BY <2>1, <2>2 DEF StageInv, Early, BeforeManager, BeforeServer
  <2>6. QED
    BY <2>4, <2>5 DEF Inv
<1>4. QED
  BY <1>1, <1>2, <1>3 DEF InitializeManager, InitializeServerFails, InitializeServer

LEMMA AddServerInv == ASSUME Inv, AddServer PROVE Inv'
<1>1. /\ pc = "addserver" /\ pc' = "addcommand" /\ registered = {} /\ m_pipeFds = {}
      /\ UNCHANGED <<logFile, m_epollFd, m_pipeFds>>
  BY DEF AddServer, log, Inv, StageInv, BeforePipe
<1>2. PICK s : s = m_socketFd /\ s \in (Fd \ 0 .. 2) \cup {Unset}
  BY DEF Inv, HeldInv
<1>3. \/ s # Unset /\ registered' = {s} /\ UNCHANGED <<files, m_socketFd>>
      \/ s # Unset /\ files' = [files EXCEPT ![s] = Unset] /\ m_socketFd' = Unset /\ registered' = {}
      \/ UNCHANGED held
  BY <1>1, <1>2 DEF AddServer, held
<1>4. HeldInv'
  <2>1. CASE s # Unset /\ registered' = {s} /\ UNCHANGED <<files, m_socketFd>>
    BY <1>1, <1>2, <2>1 DEF Inv, HeldInv, DescriptorsHeld, Holds
  <2>2. CASE s # Unset /\ files' = [files EXCEPT ![s] = Unset] /\ m_socketFd' = Unset /\ registered' = {}
    <3>1. files[s] = "listen" /\ s \in Fd /\ s \notin 0 .. 2
      BY <1>2, <2>2 DEF Inv, HeldInv, DescriptorsHeld, Holds
    <3>2. logFile # s /\ m_epollFd # s
      BY <2>2, <3>1 DEF Inv, HeldInv, DescriptorsHeld, Holds
    <3>3. QED
      BY <1>1, <1>2, <2>2, <3>1, <3>2, FdNat DEF Inv, HeldInv, DescriptorsHeld, Holds
  <2>3. CASE UNCHANGED held
    BY <2>3, SameHeld DEF Inv
  <2>4. QED
    BY <1>3, <2>1, <2>2, <2>3
<1>5. StageInv'
  BY <1>1 DEF StageInv, Early, BeforeManager, BeforeServer
<1>6. QED
  BY <1>4, <1>5 DEF Inv

LEMMA AddCommandInv == ASSUME Inv, AddCommand PROVE Inv'
<1> PICK r, T, w : r = FreeFd /\ T = {d \in Fd \ {r} : files[d] = Unset} /\ w = Min(T)
  OBVIOUS
<1>1. /\ pc = "addcommand" /\ pc' = "sigpipe"
      /\ m_pipeFds' = {r, w} /\ files' = [files EXCEPT ![r] = "pipe", ![w] = "pipe"]
      /\ registered' \in {registered, registered \cup {r}}
      /\ UNCHANGED <<logFile, m_epollFd, m_socketFd>>
  BY DEF AddCommand, log
<1>2. m_pipeFds = {}
  BY <1>1 DEF Inv, StageInv, BeforePipe
<1>3. r \in Fd \ 0 .. 2 /\ files[r] = Unset
  BY <1>2, SomeFree DEF Inv
<1>4. w \in Fd \ 0 .. 2 /\ files[w] = Unset /\ w # r
  <2>1. PICK a, b, c : a = logFile /\ b = m_epollFd /\ c = m_socketFd
    OBVIOUS
  <2>2. PICK d \in 3 .. 7 : d \notin {a, b, c, r}
    OBVIOUS
  <2>3. d \in T
    BY <1>2, <2>1, <2>2, FdNat DEF Inv, HeldInv, DescriptorsHeld
  <2>4. w \in T
    BY <2>3, FdNat, FirstExists
  <2>5. QED
    BY <2>4, FdNat DEF Inv, HeldInv, DescriptorsHeld
<1>5. HeldInv'
  <2>1. files' \in [Fd -> Contents \cup {Unset}] /\ \A d \in Fd : files'[d] = IF d \in {r, w} THEN "pipe" ELSE files[d]
    BY <1>1, <1>3, <1>4 DEF Inv, HeldInv, Contents
  <2>2. {d \in Fd : files'[d] # Unset} = {d \in Fd : files[d] # Unset} \cup {r, w}
    BY <1>3, <1>4, <2>1, FdNat DEF Contents
  <2>3. \A d \in {logFile, m_epollFd, m_socketFd} : d # Unset => d \in Fd /\ d \notin {r, w}
    BY <1>3, <1>4, FdNat DEF Inv, HeldInv, DescriptorsHeld, Holds, Contents
  <2>4. DescriptorsHeld'
    BY <1>1, <1>2, <1>3, <1>4, <2>1, <2>2, <2>3 DEF Inv, HeldInv, DescriptorsHeld, Holds
  <2>5. QED
    BY <1>1, <1>3, <1>4, <2>1, <2>4 DEF Inv, HeldInv
<1>6. StageInv'
  BY <1>1 DEF StageInv, Early, BeforeManager, BeforeServer, BeforePipe
<1>7. QED
  BY <1>5, <1>6 DEF Inv

LEMMA LastInv == ASSUME Inv, NoPipe \/ IgnoreSigpipe PROVE Inv'
<1>1. CASE \E severity : Exit(severity)
  BY <1>1, ExitHeld, EndsInv DEF Inv
<1>2. CASE pc' = "loop" /\ UNCHANGED held
  <2>1. HeldInv'
    BY <1>2, SameHeld DEF Inv
  <2>2. QED
    BY <1>2, <2>1 DEF Inv, StageInv, Early, BeforeManager, BeforeServer, BeforePipe
<1>3. QED
  BY <1>1, <1>2 DEF NoPipe, IgnoreSigpipe, held, sockets, log

LEMMA InvStep == Inv /\ [Next]_vars => Inv'
BY QuietSteps, DaemonInv, ConfigInv, ManagerInv, AddServerInv, AddCommandInv, LastInv DEF Next

\* Every descriptor that a part of the program holds is open on what that part
\* opened, registered ones included, and no others are open, however many
\* descriptors there are, whatever the file says and whichever calls fail.
THEOREM StartupHoldsDescriptors == Spec => []DescriptorsHeld
<1>1. Inv /\ [Next]_vars => Inv'
  BY InvStep
<1>2. Inv => DescriptorsHeld
  BY DEF Inv, HeldInv
<1>3. QED
  BY <1>1, <1>2, InitInv, PTL DEF Spec

-----------------------------------------------------------------------------
(* The options. *)

Options == {<<"daemon_mode">>, <<"port">>, <<"auth">>}

LEMMA OptionalIs ==
    ASSUME NEW item \in Items, item.kind = "entry", item.key \in Options
    PROVE  item.values[1] # <<>>
<1>1. Optional(item)
  BY ItemIs, Zenon DEF EntryOk
<1>2. QED
  BY <1>1, Zenon DEF Optional, Options

\* If the file says something of an option it does not begin with nothing.
Begun(ws) == ws = <<>> \/ ws[1] # <<>>

LEMMA BegunJoin ==
    ASSUME NEW T, NEW u \in Seq(T), NEW v \in Seq(T), Begun(u), Len(v) >= 1, v[1] # <<>>, NEW t, t = u \o v
    PROVE  Begun(t)
<1>1. /\ Len(t) = Len(u) + Len(v)
      /\ \A j \in 1 .. Len(u) : t[j] = u[j]
      /\ \A j \in 1 .. Len(v) : t[Len(u) + j] = v[j]
  BY JoinTwo
<1>2. Len(u) \in Nat /\ Len(v) \in Nat
  OBVIOUS
<1>3. CASE Len(u) = 0
  <2>1. t[1] = v[1]
    <3>1. 1 \in 1 .. Len(v) /\ Len(u) + 1 = 1
      BY <1>2, <1>3
    <3>2. QED
      BY <1>1, <3>1
  <2>2. QED
    BY <2>1, Zenon DEF Begun
<1>4. CASE Len(u) # 0
  <2>1. 1 \in 1 .. Len(u) /\ u # <<>>
    BY <1>2, <1>4
  <2>2. t[1] = u[1]
    BY <1>1, <2>1
  <2>3. QED
    BY <2>1, <2>2, Zenon DEF Begun
<1>5. QED
  BY <1>3, <1>4

LEMMA WrittenBegun ==
    ASSUME NEW doc \in Documents, NEW s, NEW k \in Options
    PROVE  \A n \in 0 .. Len(doc) : Begun(Config!Written(doc, n, s, k))
<1>1. PICK B : B = {n \in Nat : n <= Len(doc) => Begun(Config!Written(doc, n, s, k))}
  OBVIOUS
<1>2. Len(doc) \in Nat
  BY DocumentIs
<1>3. 0 \in B
  <2>1. Config!Written(doc, 0, s, k) = <<>>
    BY WrittenIs
  <2>2. Begun(Config!Written(doc, 0, s, k))
    BY <2>1, Zenon DEF Begun
  <2>3. 0 \in Nat
    OBVIOUS
  <2>4. QED
    BY <1>1, <2>2, <2>3, Zenon
<1>4. ASSUME NEW n \in Nat, n \in B PROVE n + 1 \in B
  <2> SUFFICES ASSUME n + 1 <= Len(doc) PROVE Begun(Config!Written(doc, n + 1, s, k))
    BY <1>1
  <2>1. n + 1 \in 1 .. Len(doc) /\ (n + 1) - 1 = n /\ n \in 0 .. Len(doc) /\ n <= Len(doc)
    BY <1>2
  <2>2. PICK u : u = Config!Written(doc, n, s, k)
    OBVIOUS
  <2>3. Begun(u)
    BY <1>1, <1>4, <2>1, <2>2, Zenon
  <2>4. /\ doc[n + 1] \in Items /\ u \in Seq(Texts)
        /\ Config!Written(doc, n + 1, s, k) =
              IF Config!IsEntryOf(doc, n + 1, s, k) THEN u \o doc[n + 1].values ELSE u
    BY <2>1, <2>2, NextOf, Zenon
  <2>5. CASE Config!IsEntryOf(doc, n + 1, s, k)
    <3>1. doc[n + 1].kind = "entry" /\ doc[n + 1].key = k
      BY <2>5, Zenon DEF Config!IsEntryOf
    <3>2. PICK v : v = doc[n + 1].values
      OBVIOUS
    <3>3. v \in Seq(Texts) /\ Len(v) >= 1
      BY <2>4, <3>1, <3>2, EntryValues, Zenon
    <3>4. v[1] # <<>>
      BY <2>4, <3>1, <3>2, OptionalIs, Zenon
    <3>5. PICK t : t = u \o v
      OBVIOUS
    <3>6. Begun(t)
      BY <2>3, <2>4, <3>3, <3>4, <3>5, BegunJoin
    <3>7. QED
      BY <2>4, <2>5, <3>2, <3>5, <3>6, Zenon
  <2>6. CASE ~ Config!IsEntryOf(doc, n + 1, s, k)
    BY <2>3, <2>4, <2>6, Zenon
  <2>7. QED
    BY <2>5, <2>6
<1>5. Nat \subseteq B
  BY <1>3, <1>4, InductionOnNat
<1>6. QED
  BY <1>1, <1>2, <1>5

LEMMA ReadOfIn == ASSUME NEW doc \in Documents, NEW n \in 0 .. Len(doc) PROVE ReadOf(doc, n) \in 0 .. Len(doc)
<1>1. PICK i : i = Config!SelectInSeq(doc, LAMBDA x : x.kind = "stray")
  OBVIOUS
<1>2. doc \in Seq(Items)
  BY DocumentIs
<1>3. i \in 0 .. Len(doc)
  BY <1>1, <1>2, StrayIs
<1>4. ReadOf(doc, n) = IF i = 0 \/ i > n THEN n ELSE i - 1
  BY <1>1, Zenon DEF ReadOf
<1>5. QED
  BY <1>2, <1>3, <1>4

\* What the lines that have been read say of an option.
Heard(key) ==
    LET values == Config!Written(document, Config!ItemsRead, Proxy, <<key>>)
    IN  IF values = <<>> THEN <<>> ELSE Head(values)

HeardPort == IF Heard("port") = <<>> THEN 10080 ELSE Number[Heard("port")]

\* What LoadData made of an option is what the lines it has read say.
LEMMA OptionIs ==
    ASSUME FileInv, parser = "loaded", NEW key, <<key>> \in Options
    PROVE  Option(key) = Heard(key)
<1>1. PICK vs, ws : vs = Config!ValuesOf(Proxy, <<key>>) /\ ws = Config!Written(document, Config!ItemsRead, Proxy, <<key>>)
  OBVIOUS
<1>2. document \in Documents /\ line \in 0 .. Len(document) /\ m_data \in DataOf(Texts)
      /\ Faithful(document, m_data, ReadOf(document, line))
  BY Zenon DEF FileInv, FileType
<1>3. Config!Fits(vs, ws)
  BY <1>1, <1>2, ConfigAs, Zenon DEF Faithful
<1>4. vs \in Seq(Texts)
  BY <1>1, <1>2, ConfigAs, ValuesAtIs, Zenon
<1>5. ReadOf(document, line) \in 0 .. Len(document)
  BY <1>2, ReadOfIn
<1>6. ws \in Seq(Texts)
  BY <1>1, <1>2, <1>5, ConfigAs, WrittenIs, Zenon
<1>7. Begun(ws)
  BY <1>1, <1>2, <1>5, ConfigAs, WrittenBegun, Zenon
<1>8. IF vs = <<>> THEN ws = <<>> ELSE ws # <<>> /\ Head(vs) = Head(ws)
  BY <1>3, <1>4, <1>6, <1>7 DEF Config!Fits, Begun
<1>9. QED
  BY <1>1, <1>8, Zenon DEF Option, Heard

LEMMA ItemsReadIs == Config!ItemsRead = ReadOf(document, line)
BY ConfigAs, Zenon

LEMMA SameHeard ==
    ASSUME UNCHANGED <<document, line>>
    PROVE  /\ \A key : Heard(key)' = Heard(key)
           /\ HeardPort' = HeardPort
<1>1. document' = document /\ line' = line
  OBVIOUS
<1>2. Config!ItemsRead' = Config!ItemsRead
  <2>1. (Config!ItemsRead = ReadOf(document, line))'
    BY ItemsReadIs, PTL
  <2>2. QED
    BY <1>1, <2>1, ItemsReadIs, Zenon
<1>3. \A key : Heard(key)' = Heard(key)
  BY <1>1, <1>2, Zenon DEF Heard
<1>4. HeardPort' = HeardPort
  <2>1. Heard("port")' = Heard("port")
    BY <1>1, <1>2, Zenon DEF Heard
  <2>2. QED
    BY <2>1 DEF HeardPort
<1>5. QED
  BY <1>3, <1>4, Zenon

-----------------------------------------------------------------------------
(* On the way to the loop. *)

\* The stages from the daemon, the options and the server on.
FromLoop == {"loop"}
FromSigpipe == {"sigpipe"} \cup FromLoop
FromCommand == {"addcommand"} \cup FromSigpipe
FromAdd == {"addserver"} \cup FromCommand
FromLists == {"lists", "epoll", "server"} \cup FromAdd
FromOptions == {"options", "port"} \cup FromLists

DaemonReady ==
    Heard("daemon_mode") = <<"enabled">> => "SIGHUP" \in ignored /\ \A d \in Fd : files[d] # "terminal"

OptionsTaken ==
    /\ g_authEnabled = (Heard("auth") = <<"enabled">>)
    /\ HeardPort \in 1 .. PortWidth - 1 => g_serverPort = HeardPort

ServerBound ==
    unseen = {} /\ HeardPort \in 1 .. PortWidth - 1 => m_socketFd # Unset /\ boundPort = HeardPort

ServerAdded == unseen = {} /\ HeardPort \in 1 .. PortWidth - 1 => m_socketFd \in registered

\* What has been done so far on the way to the loop.
ServeInv ==
    /\ pc \in {"fork", "options", "port", "lists"} => parser = "loaded"
    /\ pc \in Early \cup {"port"} => g_serverPort = 10080
    /\ pc \in FromOptions => DaemonReady
    /\ pc \in FromLists => OptionsTaken
    /\ pc \in FromAdd => ServerBound
    /\ pc \in FromCommand => ServerAdded
    /\ pc \in FromSigpipe => (unseen = {} => registered \cap m_pipeFds # {})
    /\ pc \in FromLoop => "SIGPIPE" \in ignored

\* A step in which the process ends, or the file is read.
LEMMA ServeElsewhere ==
    ASSUME ServeInv,
           \/ pc' \in {"exited", "crashed"}
           \/ pc \in {"access", "load"} /\ pc' = "load" /\ g_serverPort' = g_serverPort
    PROVE  ServeInv'
BY DEF ServeInv, Early, FromOptions, FromLists, FromAdd, FromCommand, FromSigpipe, FromLoop

\* No step opens a terminal.
Quiet == \A d \in Fd : files'[d] # "terminal" \/ files'[d] = files[d]

LEMMA QuietOpen ==
    ASSUME HeldInv, NEW x, NEW content, content # "terminal",
           UNCHANGED files \/ files' = [files EXCEPT ![x] = content]
    PROVE  Quiet
BY DEF HeldInv, Quiet

LEMMA DaemonKept ==
    ASSUME DaemonReady, Quiet, ignored \subseteq ignored', UNCHANGED <<document, line>>
    PROVE  DaemonReady'
<1>1. Heard("daemon_mode")' = Heard("daemon_mode")
  BY SameHeard DEF Heard
<1>2. QED
  BY <1>1 DEF DaemonReady, Quiet

LEMMA OptionsKept ==
    ASSUME OptionsTaken, UNCHANGED <<document, line, g_serverPort, g_authEnabled>>
    PROVE  OptionsTaken'
<1>1. UNCHANGED <<document, line>>
  OBVIOUS
<1>2. Heard("auth")' = Heard("auth") /\ HeardPort' = HeardPort
  BY <1>1, SameHeard DEF Heard
<1>3. QED
  BY <1>2 DEF OptionsTaken

\* What the stages are about, but for the files and the signals.
stage == <<document, line, parser, g_serverPort, g_authEnabled, m_socketFd, boundPort, m_pipeFds, registered>>

\* Nothing but the place, the files and the calls that failed changes.
LEMMA ServeKept ==
    ASSUME ServeInv, Quiet, UNCHANGED <<stage, ignored>>, unseen \subseteq unseen',
           \/ pc' = pc
           \/ pc = "options" /\ pc' = "port"
           \/ pc = "epoll" /\ pc' = "server"
    PROVE  ServeInv'
<1>1. UNCHANGED <<document, line, g_serverPort, g_authEnabled>> /\ ignored \subseteq ignored'
      /\ UNCHANGED <<document, line>>
  BY DEF stage
<1>2. HeardPort' = HeardPort
  BY <1>1, SameHeard
<1>3. pc' \in FromOptions => DaemonReady'
  BY <1>1, DaemonKept DEF ServeInv, FromOptions, FromLists, FromAdd, FromCommand, FromSigpipe, FromLoop
<1>4. pc' \in FromLists => OptionsTaken'
  BY <1>1, OptionsKept DEF ServeInv, FromLists, FromAdd, FromCommand, FromSigpipe, FromLoop
<1>5. pc' \in FromAdd => ServerBound'
  BY <1>2 DEF ServeInv, ServerBound, stage, FromAdd, FromCommand, FromSigpipe, FromLoop
<1>6. pc' \in FromCommand => ServerAdded'
  BY <1>2 DEF ServeInv, ServerAdded, stage, FromCommand, FromSigpipe, FromLoop
<1>7. QED
  BY <1>3, <1>4, <1>5, <1>6 DEF ServeInv, stage, Early, FromSigpipe, FromLoop

LEMMA ServeRead ==
    ASSUME ServeInv, FileInv, DaemonMode \/ ReadSection
    PROVE  ServeInv'
<1>1. CASE DaemonMode
  <2>1. /\ pc' = IF Enabled("daemon_mode") THEN "fork" ELSE "options"
        /\ parser = "loaded" /\ parser' = "loaded"
        /\ UNCHANGED <<document, line>> /\ pc = "load" /\ g_serverPort' = g_serverPort
    BY <1>1 DEF DaemonMode, Config!GetSection
  <2>2. Option("daemon_mode") = Heard("daemon_mode") /\ Heard("daemon_mode")' = Heard("daemon_mode")
    BY <2>1, OptionIs, SameHeard DEF Options, Heard
  <2>3. pc' = "options" => DaemonReady'
    BY <2>1, <2>2 DEF Enabled, DaemonReady
  <2>4. QED
    BY <2>1, <2>3 DEF ServeInv, Early, FromOptions, FromLists, FromAdd, FromCommand, FromSigpipe, FromLoop
<1>2. CASE ReadSection
  <2>1. UNCHANGED <<stage, ignored>> /\ unseen' = unseen /\ pc' = pc /\ files' = files
    BY <1>2 DEF ReadSection, Config!GetSection, stage, sockets
  <2>2. QED
    BY <2>1, ServeKept DEF Quiet
<1>3. QED
  BY <1>1, <1>2

LEMMA ServeDaemonize ==
    ASSUME ServeInv, Daemonize
    PROVE  ServeInv'
<1>1. /\ pc = "fork" /\ pc' = "options" /\ ignored' = ignored \cup {"SIGHUP", "SIGCHLD"}
      /\ files' = [d \in Fd |-> IF d < 3 THEN "/dev/null" ELSE Unset]
      /\ parser' = parser /\ g_serverPort' = g_serverPort
  BY DEF Daemonize, config, configFile
<1>2. DaemonReady'
  <2>1. \A d \in Fd : files'[d] \in {"/dev/null", Unset}
    BY <1>1
  <2>2. Unset # "terminal" /\ "/dev/null" # "terminal"
    BY UnsetAssumption
  <2>3. \A d \in Fd : files'[d] # "terminal"
    BY <2>1, <2>2
  <2>4. "SIGHUP" \in ignored'
    BY <1>1
  <2>5. QED
    BY <2>3, <2>4 DEF DaemonReady
<1>3. QED
  BY <1>1, <1>2 DEF ServeInv, Early, FromOptions, FromLists, FromAdd, FromCommand, FromSigpipe, FromLoop

\* What is logged.
LEMMA LogQuiet ==
    ASSUME HeldInv, NEW severity, NEW next, LogAndGo(severity, next)
    PROVE  Quiet /\ pc' \in {next, "crashed"}
<1>1. PICK x : x = FreeFd
  OBVIOUS
<1>2. UNCHANGED files \/ files' = [files EXCEPT ![x] = "log"]
  BY <1>1 DEF LogAndGo
<1>3. Quiet
  BY <1>2, QuietOpen
<1>4. pc' \in {next, "crashed"}
  BY DEF LogAndGo
<1>5. QED
  BY <1>3, <1>4

LEMMA ServeOptions ==
    ASSUME ServeInv, HeldInv, FileInv, ServerOptions
    PROVE  ServeInv'
<1>1. /\ pc = "port" /\ UNCHANGED configFile /\ UNCHANGED <<ignored, unseen>>
      /\ Option("port") \in DOMAIN Number \cup {<<>>}
      /\ g_serverPort' = IF Option("port") # <<>> THEN ToPort(Number[Option("port")]) ELSE g_serverPort
      /\ g_authEnabled' = Enabled("auth")
      /\ LogAndGo("debug", "lists") \/ (pc' = "lists" /\ UNCHANGED files)
  BY DEF ServerOptions
<1>2. parser = "loaded" /\ parser' = parser /\ UNCHANGED <<document, line>>
  BY <1>1 DEF ServeInv, configFile
<1>3. Option("port") = Heard("port") /\ Option("auth") = Heard("auth")
  BY <1>2, OptionIs DEF Options
<1>4. Heard("auth")' = Heard("auth") /\ HeardPort' = HeardPort
  BY <1>2, SameHeard DEF Heard
<1>5. OptionsTaken'
  <2>1. g_authEnabled' = (Heard("auth")' = <<"enabled">>)
    BY <1>1, <1>3, <1>4 DEF Enabled
  <2>2. ASSUME HeardPort \in 1 .. PortWidth - 1 PROVE g_serverPort' = HeardPort
    <3>1. CASE Heard("port") = <<>>
      BY <1>1, <1>3, <3>1 DEF ServeInv, HeardPort
    <3>2. CASE Heard("port") # <<>>
      <4>1. PICK n : n = Number[Heard("port")]
        OBVIOUS
      <4>2. n \in 1 .. PortWidth - 1 /\ g_serverPort' = ToPort(n) /\ HeardPort = n
        BY <1>1, <1>3, <2>2, <3>2, <4>1 DEF HeardPort
      <4>3. PortWidth \in Nat \ {0}
        BY PortsAssumption
      <4>4. n % PortWidth = n
        BY <4>2, <4>3
      <4>5. QED
        BY <4>2, <4>4 DEF ToPort
    <3>3. QED
      BY <3>1, <3>2
  <2>3. QED
    BY <1>4, <2>1, <2>2 DEF OptionsTaken
<1>6. Quiet /\ pc' \in {"lists", "crashed"}
  BY <1>1, LogQuiet DEF Quiet
<1>7. DaemonReady'
  BY <1>1, <1>2, <1>6, DaemonKept DEF ServeInv, FromOptions
<1>8. QED
  BY <1>1, <1>2, <1>5, <1>6, <1>7 DEF ServeInv, Early, FromOptions, FromLists, FromAdd, FromCommand, FromSigpipe, FromLoop

\* DoConfig is done, and everything it has read is forgotten but for the options.
LEMMA ServeListsRead ==
    ASSUME ServeInv, HeldInv, DoConfigReturns
    PROVE  ServeInv'
<1>1. /\ pc = "lists" /\ UNCHANGED <<document, line, g_serverPort, g_authEnabled, ignored>>
      /\ \E severity : LogAndGo(severity, "epoll")
  BY DEF DoConfigReturns, Config!Destroyed
<1>2. Quiet /\ pc' \in {"epoll", "crashed"}
  BY <1>1, LogQuiet
<1>3. DaemonReady'
  <2>1. DaemonReady
    BY <1>1 DEF ServeInv, FromOptions, FromLists
  <2>2. ignored \subseteq ignored' /\ UNCHANGED <<document, line>>
    BY <1>1
  <2>3. QED
    BY <1>2, <2>1, <2>2, DaemonKept
<1>4. OptionsTaken'
  BY <1>1, OptionsKept DEF ServeInv, FromLists
<1>5. QED
  BY <1>2, <1>3, <1>4 DEF ServeInv, Early, FromOptions, FromLists, FromAdd, FromCommand, FromSigpipe, FromLoop

\* The server, from here on nothing of the configuration changes.
LEMMA ServeConfigKept ==
    ASSUME ServeInv, HeldInv, pc \in {"server"} \cup FromAdd, UNCHANGED <<config, ignored>>, Quiet
    PROVE  DaemonReady' /\ OptionsTaken' /\ HeardPort' = HeardPort
<1>1. UNCHANGED <<document, line, g_serverPort, g_authEnabled>> /\ UNCHANGED <<document, line>>
      /\ ignored \subseteq ignored'
  BY DEF config, configFile
<1>2. pc \in FromLists /\ pc \in FromOptions
  BY DEF FromLists, FromOptions
<1>3. DaemonReady /\ OptionsTaken
  BY <1>2 DEF ServeInv
<1>4. QED
  BY <1>1, <1>3, DaemonKept, OptionsKept, SameHeard

LEMMA ServeServer ==
    ASSUME ServeInv, Inv, NoSocket \/ InitializeServer
    PROVE  ServeInv'
<1>1. /\ pc = "server" /\ UNCHANGED <<config, ignored>> /\ HeldInv /\ pc \in {"server"} \cup FromAdd
      /\ m_socketFd = Unset /\ OptionsTaken
  BY DEF NoSocket, InitializeServer, Inv, StageInv, BeforeServer, ServeInv, FromLists
<1>2. Quiet /\ pc' \in {"addserver", "crashed"}
  <2>1. CASE NoSocket
    <3>1. LogAndGo("debug", "addserver")
      BY <2>1 DEF NoSocket
    <3>2. QED
      BY <1>1, <3>1, LogQuiet
  <2>2. CASE InitializeServer
    <3>1. PICK x : x = FreeFd
      OBVIOUS
    <3>2. files' = [files EXCEPT ![x] = "listen"] /\ pc' = "addserver"
      BY <2>2, <3>1 DEF InitializeServer
    <3>3. QED
      BY <1>1, <3>2, QuietOpen
  <2>3. QED
    BY <2>1, <2>2
<1>3. DaemonReady' /\ OptionsTaken' /\ HeardPort' = HeardPort
  BY <1>1, <1>2, ServeConfigKept
<1>4. ServerBound'
  <2>1. CASE NoSocket
    <3>1. unseen' # {}
      BY <2>1 DEF NoSocket
    <3>2. QED
      BY <3>1 DEF ServerBound
  <2>2. CASE InitializeServer
    <3>1. PICK x : x = FreeFd
      OBVIOUS
    <3>2. m_socketFd' = x /\ (HeardPort \in 1 .. PortWidth - 1 => boundPort' = HeardPort)
      <4>1. m_socketFd' = x /\ boundPort' \in IF g_serverPort = 0 THEN Ephemeral ELSE {g_serverPort}
        BY <2>2, <3>1 DEF InitializeServer
      <4>2. HeardPort \in 1 .. PortWidth - 1 => g_serverPort = HeardPort /\ HeardPort # 0
        BY <1>1, PortsAssumption DEF OptionsTaken
      <4>3. QED
        BY <4>1, <4>2
    <3>3. x \in Fd
      BY <1>1, <3>1, SomeFree
    <3>4. QED
      BY <1>3, <3>2, <3>3, FdNat DEF ServerBound
  <2>3. QED
    BY <2>1, <2>2
<1>5. QED
  BY <1>2, <1>3, <1>4 DEF ServeInv, Early, FromOptions, FromLists, FromAdd, FromCommand, FromSigpipe, FromLoop

LEMMA ServeAddServer ==
    ASSUME ServeInv, HeldInv, AddServer
    PROVE  ServeInv'
<1>1. /\ pc = "addserver" /\ pc' = "addcommand" /\ UNCHANGED <<config, ignored>>
      /\ pc \in {"server"} \cup FromAdd /\ ServerBound /\ boundPort' = boundPort
  BY DEF AddServer, ServeInv, FromAdd
<1>2. PICK s : s = m_socketFd
  OBVIOUS
<1>3. \/ s # Unset /\ registered' = registered \cup {s} /\ files' = files /\ m_socketFd' = s /\ unseen' = unseen
      \/ s # Unset /\ files' = [files EXCEPT ![s] = Unset] /\ unseen' # {}
      \/ s = Unset /\ files' = files /\ m_socketFd' = s /\ unseen' = unseen
  BY <1>2 DEF AddServer
<1>4. Quiet
  <2>1. Unset # "terminal"
    BY UnsetAssumption
  <2>2. UNCHANGED files \/ files' = [files EXCEPT ![s] = Unset]
    BY <1>3
  <2>3. QED
    BY <2>1, <2>2, QuietOpen
<1>5. DaemonReady' /\ OptionsTaken' /\ HeardPort' = HeardPort
  BY <1>1, <1>4, ServeConfigKept
<1>6. ServerBound' /\ ServerAdded'
  BY <1>1, <1>2, <1>3, <1>5 DEF ServerBound, ServerAdded
<1>7. QED
  BY <1>1, <1>5, <1>6 DEF ServeInv, Early, FromOptions, FromLists, FromAdd, FromCommand, FromSigpipe, FromLoop

LEMMA ServeAddCommand ==
    ASSUME ServeInv, HeldInv, AddCommand
    PROVE  ServeInv'
<1>1. PICK r, w : /\ m_pipeFds' = {r, w} /\ files' = [files EXCEPT ![r] = "pipe", ![w] = "pipe"]
                  /\ \/ registered' = registered \cup {r} /\ unseen' = unseen
                     \/ registered' = registered /\ unseen' # {}
  BY DEF AddCommand
<1>2. /\ pc = "addcommand" /\ pc' = "sigpipe" /\ UNCHANGED <<config, ignored, boundPort, m_socketFd>>
      /\ pc \in {"server"} \cup FromAdd /\ ServerBound /\ ServerAdded
  BY DEF AddCommand, ServeInv, FromAdd, FromCommand
<1>3. Quiet
  BY <1>1 DEF HeldInv, Quiet
<1>4. DaemonReady' /\ OptionsTaken' /\ HeardPort' = HeardPort
  BY <1>2, <1>3, ServeConfigKept
<1>5. ServerBound' /\ ServerAdded' /\ (unseen' = {} => registered' \cap m_pipeFds' # {})
  BY <1>1, <1>2, <1>4 DEF ServerBound, ServerAdded
<1>6. QED
  BY <1>2, <1>4, <1>5 DEF ServeInv, Early, FromOptions, FromLists, FromAdd, FromCommand, FromSigpipe, FromLoop

LEMMA ServeSigpipe ==
    ASSUME ServeInv, HeldInv, IgnoreSigpipe, pc' = "loop"
    PROVE  ServeInv'
<1>1. /\ pc = "sigpipe" /\ ignored' = ignored \cup {"SIGPIPE"}
      /\ UNCHANGED <<document, line, g_serverPort, g_authEnabled>> /\ UNCHANGED <<document, line>>
      /\ UNCHANGED <<files, m_socketFd, boundPort, registered, m_pipeFds, unseen>>
  BY DEF IgnoreSigpipe, Exit, LogAndGo, config, configFile, sockets
<1>2. Quiet /\ ignored \subseteq ignored'
  BY <1>1 DEF Quiet
<1>3. /\ DaemonReady /\ OptionsTaken /\ ServerBound /\ ServerAdded
      /\ unseen = {} => registered \cap m_pipeFds # {}
  BY <1>1 DEF ServeInv, FromOptions, FromLists, FromAdd, FromCommand, FromSigpipe
<1>4. DaemonReady' /\ OptionsTaken' /\ HeardPort' = HeardPort
  BY <1>1, <1>2, <1>3, DaemonKept, OptionsKept, SameHeard
<1>5. ServerBound' /\ ServerAdded' /\ (unseen' = {} => registered' \cap m_pipeFds' # {})
  BY <1>1, <1>3, <1>4 DEF ServerBound, ServerAdded
<1>6. "SIGPIPE" \in ignored'
  BY <1>1
<1>7. QED
  BY <1>4, <1>5, <1>6 DEF ServeInv, Early, FromOptions, FromLists, FromAdd, FromCommand, FromSigpipe, FromLoop

\* The process ends, the file is being read, or nothing that matters changes.
LEMMA ServeOther ==
    ASSUME ServeInv, HeldInv,
           \/ NoConfigFile \/ ConfigFileThere \/ LoadData \/ DaemonizeExits \/ LogOptions \/ PortThrows
           \/ InitializeManager \/ InitializeServerFails \/ NoPipe \/ Started \/ UNCHANGED vars
    PROVE  ServeInv'
<1>1. CASE \E severity : Exit(severity)
  <2>1. pc' \in {"exited", "crashed"}
    BY <1>1 DEF Exit, LogAndGo
  <2>2. QED
    BY <2>1, ServeElsewhere
<1>2. CASE NoConfigFile \/ PortThrows
  <2>1. pc' \in {"exited", "crashed"}
    BY <1>2 DEF NoConfigFile, PortThrows
  <2>2. QED
    BY <2>1, ServeElsewhere
<1>3. CASE ConfigFileThere \/ LoadData
  <2>1. pc \in {"access", "load"} /\ pc' = "load" /\ g_serverPort' = g_serverPort
    BY <1>3 DEF ConfigFileThere, LoadData, config
  <2>2. QED
    BY <2>1, ServeElsewhere
<1>4. CASE LogOptions \/ Started \/ UNCHANGED vars
  <2>1. /\ UNCHANGED <<stage, ignored>> /\ unseen' = unseen /\ files' = files
        /\ pc' = pc \/ (pc = "options" /\ pc' = "port")
    BY <1>4 DEF LogOptions, Started, vars, config, configFile, sockets, stage
  <2>2. QED
    BY <2>1, ServeKept DEF Quiet
<1>5. CASE InitializeManager /\ ~ \E severity : Exit(severity)
  <2>1. PICK x : x = FreeFd
    OBVIOUS
  <2>2. /\ UNCHANGED <<stage, ignored>> /\ unseen' = unseen /\ files' = [files EXCEPT ![x] = "epoll"]
        /\ pc = "epoll" /\ pc' = "server"
    BY <1>5, <2>1 DEF InitializeManager, config, configFile, stage
  <2>3. Quiet
    BY <2>2, QuietOpen
  <2>4. QED
    BY <2>2, <2>3, ServeKept
<1>6. QED
  BY <1>1, <1>2, <1>3, <1>4, <1>5 DEF DaemonizeExits, InitializeServerFails, NoPipe

LEMMA ServeStep ==
    ASSUME ServeInv, Inv, FileInv, [Next]_vars
    PROVE  ServeInv'
<1>1. HeldInv
  BY DEF Inv
<1>2. CASE DaemonMode \/ ReadSection
  BY <1>2, ServeRead
<1>3. CASE Daemonize \/ ServerOptions \/ DoConfigReturns
  BY <1>1, <1>3, ServeDaemonize, ServeOptions, ServeListsRead
<1>4. CASE NoSocket \/ InitializeServer \/ AddServer \/ AddCommand
  BY <1>1, <1>4, ServeServer, ServeAddServer, ServeAddCommand
<1>5. CASE IgnoreSigpipe
  <2>1. pc' = "loop" \/ \E severity : Exit(severity)
    BY <1>5 DEF IgnoreSigpipe
  <2>2. CASE \E severity : Exit(severity)
    <3>1. pc' \in {"exited", "crashed"}
      BY <2>2 DEF Exit, LogAndGo
    <3>2. QED
      BY <3>1, ServeElsewhere
  <2>3. QED
    BY <1>1, <1>5, <2>1, <2>2, ServeSigpipe
<1>6. QED
  BY <1>1, <1>2, <1>3, <1>4, <1>5, ServeOther DEF Next

LEMMA ServeInit == Init => ServeInv
BY DEF Init, ServeInv, Early, FromOptions, FromLists, FromAdd, FromCommand, FromSigpipe, FromLoop

-----------------------------------------------------------------------------
(* What has been read of the file. *)

\* ItemsThatCount, for any file.
CountedIn(doc) ==
    LET stray == Config!SelectInSeq(doc, LAMBDA x : x.kind = "stray")
    IN  IF stray = 0 THEN Len(doc) ELSE stray - 1

Whole(doc, n) == ReadOf(doc, n) = CountedIn(doc)

LEMMA WholeIs ==
    ASSUME NEW doc \in Documents, NEW n \in 0 .. Len(doc),
           n = Len(doc) \/ (n # 0 /\ doc[n].kind = "stray")
    PROVE  Whole(doc, n)
<1>1. PICK i : i = Config!SelectInSeq(doc, LAMBDA x : x.kind = "stray")
  OBVIOUS
<1>2. doc \in Seq(Items)
  BY DocumentIs
<1>3. /\ i \in 0 .. Len(doc)
      /\ i = 0 => NoStray(doc, Len(doc))
      /\ i # 0 => doc[i].kind = "stray" /\ NoStray(doc, i - 1)
  BY <1>1, <1>2, StrayIs
<1>4. /\ ReadOf(doc, n) = IF i = 0 \/ i > n THEN n ELSE i - 1
      /\ CountedIn(doc) = IF i = 0 THEN Len(doc) ELSE i - 1
  BY <1>1, Zenon DEF ReadOf, CountedIn
<1>5. Len(doc) \in Nat
  BY <1>2
<1>6. n = Len(doc) \/ (i # 0 /\ ~ (i > n))
  BY <1>3, <1>5 DEF NoStray
<1>7. ReadOf(doc, n) = CountedIn(doc)
  BY <1>3, <1>4, <1>5, <1>6
<1>8. QED
  BY <1>7, Zenon DEF Whole

\* A line without a colon that ends the file is a stray one.
LEMMA OtherEnds ==
    ASSUME FileInv, Config!OtherLine, parser' = "loaded"
    PROVE  Whole(document, line')
<1>1. /\ parser = "line" /\ line < Len(document) /\ ~ Config!IsSection(Config!LineBuf(line + 1))
      /\ Config!strchr(Config!LineBuf(line + 1), ":") = 0
      /\ parser' = IF Config!Word(Config!LineBuf(line + 1), Config!Blanks) # <<>> THEN "loaded" ELSE "line"
      /\ line' = line + 1
  BY Zenon DEF Config!OtherLine
<1>2. PICK n, item : n = line + 1 /\ item = document[n]
  OBVIOUS
<1>3. /\ n \in 1 .. Len(document) /\ n \in Nat /\ n \in 0 .. Len(document)
      /\ item \in Items /\ Config!LineBuf(n) = CutLine(item) /\ document \in Documents
  BY <1>1, <1>2, NextItem, Zenon
<1>4. item.kind \in {"stray", "blank", "comment"}
  BY <1>1, <1>2, <1>3, KindSeen, Zenon
<1>5. CASE item.kind \in {"blank", "comment"}
  <2>1. Config!Word(CutLine(item), Config!Blanks) = <<>>
    BY <1>5, BlankLine
  <2>2. parser' = "line"
    BY <1>1, <1>2, <1>3, <2>1, Zenon
  <2>3. QED
    BY <2>2, ParsersDiffer, Zenon
<1>6. CASE item.kind = "stray"
  <2>1. n # 0
    BY <1>3
  <2>2. Whole(document, n)
    BY <1>2, <1>3, <1>6, <2>1, WholeIs
  <2>3. QED
    BY <1>1, <1>2, <2>2, Zenon
<1>7. QED
  BY <1>4, <1>5, <1>6, Zenon

Unseen == {"fopen", "getline", "socket", "epoll_ctl"}

\* If nothing failed unseen while the file was read, all of it has been read when
\* it is loaded; of a file that could not be opened nothing has.
ReadInv ==
    /\ unseen \subseteq Unseen
    /\ parser \in {"open", "line", "values"} => "fopen" \notin unseen
    /\ parser = "open" => line = 0
    /\ "fopen" \in unseen => line = 0
    /\ parser \in {"loaded", "destroyed"} /\ FileRead => Whole(document, line)
    /\ pc \in {"access", "load", "exited", "crashed"} \/ parser \in {"loaded", "destroyed"}

LEMMA ReadInit == Init => ReadInv
<1> SUFFICES ASSUME Init PROVE ReadInv
  OBVIOUS
<1>1. parser = "open" /\ line = 0 /\ unseen = {} /\ pc = "access"
  BY Zenon DEF Init, Config!Init
<1>2. QED
  BY <1>1 DEF ReadInv

LEMMA ReadLoad ==
    ASSUME ReadInv, FileInv, LoadData
    PROVE  ReadInv'
<1>1. pc' = pc /\ pc = "load" /\ document \in Documents
  BY Zenon DEF LoadData, FileInv, FileType
<1>2. CASE (Config!Open \/ Config!SectionLine \/ Config!KeyLine \/ Config!NextValue) /\ unseen' = unseen
  <2>1. /\ parser \in {"open", "line", "values"} /\ parser' \in {"line", "values"}
    BY <1>2, Zenon DEF Config!Open, Config!SectionLine, Config!KeyLine, Config!NextValue
  <2>2. QED
    BY <1>1, <1>2, <2>1 DEF ReadInv
<1>3. CASE Config!EndOfFile /\ unseen' = unseen
  <2>1. parser = "line" /\ line = Len(document) /\ parser' = "loaded" /\ line' = line /\ document' = document
    BY <1>3, Zenon DEF Config!EndOfFile
  <2>2. Len(document) \in 0 .. Len(document)
    BY <1>1, DocumentIs
  <2>3. Whole(document, Len(document))
    BY <1>1, <2>2, WholeIs
  <2>4. Whole(document', line')
    BY <2>1, <2>3, Zenon
  <2>5. QED
    BY <1>1, <1>3, <2>1, <2>4 DEF ReadInv
<1>4. CASE Config!OtherLine /\ unseen' = unseen
  <2>1. /\ parser = "line" /\ parser' \in {"loaded", "line"} /\ document' = document
    BY <1>4, Zenon DEF Config!OtherLine
  <2>2. parser' = "loaded" => Whole(document', line')
    BY <1>4, <2>1, OtherEnds
  <2>3. QED
    BY <1>1, <1>4, <2>1, <2>2 DEF ReadInv
<1>5. CASE Config!NoFile /\ unseen' = unseen \cup {"fopen"}
  <2>1. parser = "open" /\ parser' = "loaded" /\ line' = line /\ document' = document
    BY <1>5, Zenon DEF Config!NoFile
  <2>2. QED
    BY <1>1, <1>5, <2>1 DEF ReadInv, FileRead, Unseen
<1>6. CASE Config!ReadFails /\ unseen' = unseen \cup {"getline"}
  <2>1. parser = "line" /\ parser' = "loaded" /\ line' = line /\ document' = document
    BY <1>6, Zenon DEF Config!ReadFails
  <2>2. QED
    BY <1>1, <1>6, <2>1 DEF ReadInv, FileRead, Unseen
<1>7. QED
  BY <1>2, <1>3, <1>4, <1>5, <1>6, Zenon DEF LoadData, Config!LoadData

\* After that, the file and its lines stay as they are.
LEMMA ReadKept ==
    ASSUME ReadInv, UNCHANGED <<document, line>>,
           parser' = parser \/ (parser = "loaded" /\ parser' \in {"loaded", "destroyed"}),
           unseen \subseteq unseen', unseen' \subseteq unseen \cup {"socket", "epoll_ctl"},
           pc' \in {"access", "load", "exited", "crashed"} \/ pc' = pc \/ parser = "loaded"
             \/ pc \notin {"access", "load", "exited", "crashed"}
    PROVE  ReadInv'
<1>1. ReadInv /\ UNCHANGED <<document, line>>
  OBVIOUS
<1>2. "fopen" \in unseen' <=> "fopen" \in unseen
  OBVIOUS
<1>3. FileRead' <=> FileRead
  BY DEF FileRead
<1>4. unseen' \subseteq Unseen
  BY <1>1 DEF ReadInv, Unseen
<1>5. QED
  BY <1>1, <1>2, <1>3, <1>4 DEF ReadInv

LEMMA ReadStep ==
    ASSUME ReadInv, FileInv, [Next]_vars
    PROVE  ReadInv'
<1>1. CASE LoadData
  BY <1>1, ReadLoad
<1>2. CASE DaemonMode \/ ReadSection \/ DoConfigReturns
  <2>1. /\ UNCHANGED <<document, line>> /\ unseen' = unseen
        /\ parser = "loaded" /\ parser' \in {"loaded", "destroyed"}
    BY <1>2 DEF DaemonMode, ReadSection, DoConfigReturns, Config!GetSection, Config!Destroyed
  <2>2. QED
    BY <2>1, ReadKept
<1>3. CASE NoConfigFile \/ ConfigFileThere \/ DaemonizeExits \/ Daemonize \/ LogOptions \/ ServerOptions \/ PortThrows
           \/ InitializeManager \/ NoSocket \/ InitializeServerFails \/ InitializeServer \/ AddServer \/ NoPipe
           \/ AddCommand \/ IgnoreSigpipe \/ Started \/ UNCHANGED vars
  <2>1. UNCHANGED configFile
    BY <1>3 DEF NoConfigFile, ConfigFileThere, DaemonizeExits, Daemonize, LogOptions, ServerOptions, PortThrows,
           InitializeManager, NoSocket, InitializeServerFails, InitializeServer, AddServer, NoPipe, AddCommand,
           IgnoreSigpipe, Started, Exit, vars, config
  <2>2. UNCHANGED <<document, line>> /\ parser' = parser
    BY <2>1 DEF configFile
  <2>3. unseen' = unseen \/ unseen' = unseen \cup {"socket"} \/ unseen' = unseen \cup {"epoll_ctl"}
    BY <1>3 DEF NoConfigFile, ConfigFileThere, DaemonizeExits, Daemonize, LogOptions, ServerOptions, PortThrows,
           InitializeManager, NoSocket, InitializeServerFails, InitializeServer, AddServer, NoPipe, AddCommand,
           IgnoreSigpipe, Started, Exit, vars
  <2>4. pc' \in {"access", "load", "exited", "crashed"} \/ pc' = pc
          \/ pc \notin {"access", "load", "exited", "crashed"}
    BY <1>3 DEF NoConfigFile, ConfigFileThere, DaemonizeExits, Daemonize, LogOptions, ServerOptions, PortThrows,
           InitializeManager, NoSocket, InitializeServerFails, InitializeServer, AddServer, NoPipe, AddCommand,
           IgnoreSigpipe, Started, Exit, vars
  <2>5. unseen \subseteq unseen' /\ unseen' \subseteq unseen \cup {"socket", "epoll_ctl"}
    BY <2>3
  <2>6. QED
    BY <2>2, <2>4, <2>5, ReadKept
<1>4. QED
  BY <1>1, <1>2, <1>3 DEF Next

\* Said and Heard are the same when all of the file has been read, and of a file
\* that could not be opened nothing has been heard.
LEMMA HeardIs ==
    ASSUME FileInv, ReadInv, parser \in {"loaded", "destroyed"}
    PROVE  /\ FileRead => (\A key : Heard(key) = Said(key)) /\ HeardPort = ConfiguredPort
           /\ "fopen" \in unseen => \A key : Heard(key) = <<>>
<1>1. Config!ItemsThatCount = CountedIn(document)
  BY Zenon DEF Config!ItemsThatCount, Config!FirstStray, CountedIn
<1>2. ASSUME FileRead PROVE Config!ItemsRead = Config!ItemsThatCount
  <2>1. Whole(document, line)
    BY <1>2 DEF ReadInv
  <2>2. QED
    BY <1>1, <2>1, ItemsReadIs, Zenon DEF Whole
<1>3. FileRead => \A key : Heard(key) = Said(key)
  BY <1>2, Zenon DEF Heard, Said
<1>4. ASSUME FileRead PROVE HeardPort = ConfiguredPort
  <2>1. Heard("port") = Said("port")
    BY <1>3, <1>4, Zenon
  <2>2. QED
    BY <2>1 DEF HeardPort, ConfiguredPort
<1>5. ASSUME "fopen" \in unseen PROVE \A key : Heard(key) = <<>>
  <2>1. line = 0 /\ document \in Documents
    BY <1>5 DEF ReadInv, FileInv, FileType
  <2>2. document \in Seq(Items) /\ Len(document) \in Nat
    BY <2>1, DocumentIs
  <2>3. 0 \in 0 .. Len(document) /\ NoStray(document, 0)
    BY <2>2 DEF NoStray
  <2>4. ReadOf(document, 0) = 0
    BY <2>2, <2>3, ReadOfIs
  <2>5. Config!ItemsRead = 0
    BY <2>1, <2>4, ItemsReadIs, Zenon
  <2>6. \A k : Config!Written(document, 0, Proxy, k) = <<>>
    BY <2>1, WrittenIs
  <2>7. QED
    BY <2>5, <2>6, Zenon DEF Heard
<1>6. QED
  BY <1>3, <1>4, <1>5, Zenon

LEMMA ServeReady == FileInv /\ ReadInv /\ ServeInv => ReadyToServe
<1> SUFFICES ASSUME FileInv, ReadInv, ServeInv, pc = "loop" PROVE ReadyToServe
  BY DEF ReadyToServe
<1>1. /\ DaemonReady /\ OptionsTaken /\ ServerBound /\ ServerAdded /\ "SIGPIPE" \in ignored
      /\ unseen = {} => registered \cap m_pipeFds # {}
  BY DEF ServeInv, FromOptions, FromLists, FromAdd, FromCommand, FromSigpipe, FromLoop
<1>2. parser \in {"loaded", "destroyed"} /\ unseen \subseteq {"fopen", "getline", "socket", "epoll_ctl"}
  BY DEF ReadInv, Unseen
<1>3. /\ FileRead => (\A key : Heard(key) = Said(key)) /\ HeardPort = ConfiguredPort
      /\ "fopen" \in unseen => \A key : Heard(key) = <<>>
  BY <1>2, HeardIs, Zenon
<1>4. unseen = {} => FileRead
  BY DEF FileRead
<1>5. ASSUME unseen = {}, ConfiguredPort \in 1 .. PortWidth - 1
      PROVE  m_socketFd \in registered /\ boundPort = ConfiguredPort
  <2>1. HeardPort = ConfiguredPort
    BY <1>3, <1>4, <1>5
  <2>2. QED
    BY <1>1, <1>5, <2>1 DEF ServerBound, ServerAdded
<1>6. ASSUME FileRead
      PROVE  /\ g_authEnabled = (Said("auth") = <<"enabled">>)
             /\ Said("daemon_mode") = <<"enabled">> =>
                    "SIGHUP" \in ignored /\ \A d \in Fd : files[d] # "terminal"
  <2>1. Heard("auth") = Said("auth") /\ Heard("daemon_mode") = Said("daemon_mode")
    BY <1>3, <1>6
  <2>2. QED
    BY <1>1, <2>1 DEF DaemonReady, OptionsTaken
<1>7. ASSUME "fopen" \in unseen PROVE g_serverPort = 10080 /\ ~ g_authEnabled
  <2>1. Heard("auth") = <<>> /\ Heard("port") = <<>>
    BY <1>3, <1>7
  <2>2. HeardPort = 10080 /\ 10080 \in 1 .. PortWidth - 1
    BY <2>1, PortsAssumption DEF HeardPort
  <2>3. g_serverPort = 10080
    BY <1>1, <2>2 DEF OptionsTaken
  <2>4. <<>> # <<"enabled">>
    OBVIOUS
  <2>5. ~ g_authEnabled
    BY <1>1, <2>1, <2>4, Zenon DEF OptionsTaken
  <2>6. QED
    BY <2>3, <2>5
<1>8. QED
  BY <1>1, <1>2, <1>5, <1>6, <1>7 DEF ReadyToServe

\* When the loop begins, whatever the file says and whichever calls have failed:
\* a broken pipe does not end the process; unless a failure has gone unseen, the
\* server listens and is registered where the file says, and so is the pipe of
\* the workers; unless the file could not be read, users have to authenticate
\* just if it says so, and a daemon holds no terminal; and with a file that cannot
\* be opened nobody has to: main(), from DoConfig to RunManagerLoop.
THEOREM StartupReadyToServe == Spec => []ReadyToServe
<1>1. Init => Inv /\ FileInv /\ ServeInv /\ ReadInv
  BY InitInv, FileInit, ServeInit, ReadInit
<1>2. Inv /\ FileInv /\ ServeInv /\ ReadInv /\ [Next]_vars => (Inv /\ FileInv /\ ServeInv /\ ReadInv)'
  BY InvStep, FileStep, ServeStep, ReadStep
<1>3. QED
  BY <1>1, <1>2, ServeReady, PTL DEF Spec

=============================================================================
