--------------------------- MODULE AdmissionProofs ---------------------------
(***************************************************************************)
(* Proofs about Credentials and Admission: Base64Decode for sources of any *)
(* length and of any characters, what comes out of a text that a client    *)
(* has encoded, and who is served as whom.                                 *)
(***************************************************************************)
EXTENDS Admission, TextProofs

-----------------------------------------------------------------------------
(* Arithmetic. *)

\* The sets are named so that the steps below need not look into them.
Char == 1 .. 255
Octet == 0 .. 255

\* A shift by six loses nothing of a number of eighteen bits.
LEMMA ShiftExact == \A t \in Nat : t < 64 * 64 * 64 => ShiftLeft(t) = 64 * t
<1>1. Modulus \div 64 \in Nat /\ Modulus \div 64 >= 64 * 64 * 64
  BY ModulusAssumption, SMT
<1>2. \A t, m \in Nat : t < m => t % m = t
  BY SMT
<1> QED
  BY <1>1, <1>2 DEF ShiftLeft

\* Three bytes are all of a number of twenty-four bits.
LEMMA BytesExact ==
    ASSUME NEW t \in Nat, t < 256 * 256 * 256
    PROVE  /\ ThreeBytes(t) \in Seq(Octet) /\ Len(ThreeBytes(t)) = 3
           /\ 256 * (256 * ThreeBytes(t)[1] + ThreeBytes(t)[2]) + ThreeBytes(t)[3] = t
<1> DEFINE a == t \div 65536
           b == (t \div 256) % 256
           c == t % 256
<1>1. a \in Octet /\ b \in Octet /\ c \in Octet /\ a % 256 = a
  BY SMT DEF Octet
<1>2. 256 * (256 * a + b) + c = t
  BY SMT
<1>3. ThreeBytes(t) = <<a, b, c>>
  BY <1>1, SMT DEF ThreeBytes
<1> HIDE DEF a, b, c
<1> QED
  BY <1>1, <1>2, <1>3

LEMMA AppendOctets ==
    \A d, b \in Seq(Octet) : \A n \in Nat :
        Len(d) = n /\ Len(b) = 3 =>
            /\ d \o b \in Seq(Octet) /\ Len(d \o b) = n + 3
            /\ \A i \in 1 .. n : (d \o b)[i] = d[i]
            /\ \A i \in 1 .. 3 : (d \o b)[n + i] = b[i]
<1> TAKE d, b \in Seq(Octet)
<1> TAKE n \in Nat
<1> HAVE Len(d) = n /\ Len(b) = 3
<1>0. /\ d \o b \in Seq(Octet) /\ Len(d \o b) = Len(d) + Len(b)
      /\ \A i \in 1 .. Len(d) + Len(b) : (d \o b)[i] = IF i <= Len(d) THEN d[i] ELSE b[i - Len(d)]
  BY ConcatProperties, Zenon
<1>1. d \o b \in Seq(Octet) /\ Len(d \o b) = n + 3
  BY <1>0, Zenon
<1>2. \A i \in 1 .. n + 3 : (d \o b)[i] = IF i <= n THEN d[i] ELSE b[i - n]
  BY <1>0, Zenon
<1>3. \A i \in 1 .. 3 : n + i \in 1 .. n + 3 /\ ~ (n + i <= n) /\ (n + i) - n = i
  OBVIOUS
<1>4. \A i \in 1 .. 3 : (d \o b)[n + i] = b[i]
  BY <1>2, <1>3
<1> QED
  BY <1>1, <1>2, <1>4

LEMMA SextetRange == \A in \in Char : Sextet(in) \in 0 .. 63
BY SMT DEF Sextet, Char

LEMMA Quarter ==
    /\ \A n \in Nat : (n + 1) % 4 = 0 => \E q \in Nat : n = 4 * q + 3
    /\ \A n \in Nat : (n + 1) \div 4 >= n \div 4
    /\ \A n \in Nat : n % 4 = 0 => (n + 1) % 4 = 1
    /\ \A n \in Nat : n % 4 = 1 => (n + 1) % 4 = 2 /\ n >= 1
    /\ \A n \in Nat : n % 4 = 2 => (n + 1) % 4 = 3 /\ n >= 2
<1>1. \A n \in Nat : (n + 1) % 4 = 0 => n \div 4 \in Nat /\ n = 4 * (n \div 4) + 3
  BY SMT
<1>2. \A n \in Nat : (n + 1) \div 4 >= n \div 4
  BY SMT
<1>3. \A n \in Nat : n % 4 = 0 => (n + 1) % 4 = 1
  BY SMT
<1>4. \A n \in Nat : n % 4 = 1 => (n + 1) % 4 = 2 /\ n >= 1
  BY SMT
<1>5. \A n \in Nat : n % 4 = 2 => (n + 1) % 4 = 3 /\ n >= 2
  BY SMT
<1>6. \A n \in Nat : (n + 1) % 4 = 0 => \E q \in Nat : n = 4 * q + 3
  BY <1>1
<1> QED
  BY <1>2, <1>3, <1>4, <1>5, <1>6

\* Four characters of six bits are a number of twenty-four, three of eighteen.
LEMMA TwoSextets == \A a, b \in 0 .. 63 : 64 * a + b \in Nat /\ 64 * a + b < 64 * 64
BY SMT

LEMMA ThreeSextets == \A x \in Nat : \A c \in 0 .. 63 :
    x < 64 * 64 => 64 * x + c \in Nat /\ 64 * x + c < 64 * 64 * 64
BY SMT

LEMMA FourSextets == \A x \in Nat : \A d \in 0 .. 63 :
    x < 64 * 64 * 64 => 64 * x + d \in Nat /\ 64 * x + d < 256 * 256 * 256
BY SMT

-----------------------------------------------------------------------------
(* The inductive invariant.  GroupsOfFour is about the bytes that have been  *)
(* written; that it goes on holding needs what tmp is between two groups,    *)
(* and InBuffer needs to know that three bytes are written for each four     *)
(* characters read.                                                          *)

Typed ==
    /\ source \in Seq(Char)
    /\ idx \in 0 .. Len(source)
    /\ tmp \in Nat /\ tmp < 256 * 256 * 256
    /\ dst \in Seq(Octet)

\* The characters of the group so far, shifted to make room for the next one.
GroupSoFar ==
    /\ idx % 4 = 0 => tmp = 0
    /\ idx % 4 = 1 => tmp = 64 * SextetAt(idx)
    /\ idx % 4 = 2 => tmp = 64 * (64 * SextetAt(idx - 1) + SextetAt(idx))
    /\ idx % 4 = 3 => tmp = 64 * (64 * (64 * SextetAt(idx - 2) + SextetAt(idx - 1)) + SextetAt(idx))

DecodeInv ==
    /\ Typed
    /\ Len(dst) <= 3 * (idx \div 4)
    /\ pc = "decode" => Len(dst) = 3 * (idx \div 4) /\ GroupSoFar
    /\ GroupsOfFour

LEMMA SextetAtRange ==
    ASSUME source \in Seq(Char), NEW i \in 1 .. Len(source)
    PROVE  SextetAt(i) \in 0 .. 63
<1>1. source[i] \in Char
  OBVIOUS
<1>2. Sextet(source[i]) \in 0 .. 63
  BY <1>1, SextetRange
<1> QED
  BY <1>2 DEF SextetAt

-----------------------------------------------------------------------------
LEMMA DecodeStep ==
    ASSUME DecodeInv, Decode
    PROVE  DecodeInv'
<1> DEFINE t == AddSextet(source[idx + 1])
           s == SextetAt(idx + 1)
<1>1. /\ pc = "decode" /\ pc' = "decode" /\ source' = source /\ idx' = idx + 1 /\ idx < Len(source)
      /\ IF (idx + 1) % 4 = 0
         THEN dst' = dst \o ThreeBytes(t) /\ tmp' = 0
         ELSE dst' = dst /\ tmp' = ShiftLeft(t)
  BY DEF Decode
<1>2. Typed /\ GroupsOfFour /\ GroupSoFar /\ Len(dst) = 3 * (idx \div 4)
  BY <1>1 DEF DecodeInv
<1>3. idx \in Nat /\ idx + 1 \in 1 .. Len(source) /\ idx' \in 0 .. Len(source) /\ Len(source) \in Nat
  BY <1>1, <1>2 DEF Typed
<1>4. s \in 0 .. 63 /\ t = tmp + s
  BY <1>2, <1>3, SextetAtRange DEF Typed, AddSextet, SextetAt
<1>5. \A i \in Int : SextetAt(i)' = SextetAt(i)
  BY <1>1 DEF SextetAt
<1> HIDE DEF t, s
<1>6. CASE (idx + 1) % 4 = 0
  <2>1. dst' = dst \o ThreeBytes(t) /\ tmp' = 0
    BY <1>1, <1>6
  <2>2. PICK q \in Nat : idx = 4 * q + 3
    BY <1>3, <1>6, Quarter
  <2>3. /\ idx % 4 = 3 /\ idx \div 4 = q /\ (idx + 1) \div 4 = q + 1
        /\ idx - 2 \in 1 .. Len(source) /\ idx - 1 \in 1 .. Len(source) /\ idx \in 1 .. Len(source)
    BY <1>3, <2>2, SMT
  <2>4. /\ SextetAt(idx - 2) \in 0 .. 63 /\ SextetAt(idx - 1) \in 0 .. 63 /\ SextetAt(idx) \in 0 .. 63
    BY <1>2, <2>3, SextetAtRange DEF Typed
  <2>5. t = 64 * (64 * (64 * SextetAt(idx - 2) + SextetAt(idx - 1)) + SextetAt(idx)) + s
    BY <1>2, <1>4, <2>3, <2>4 DEF GroupSoFar
  <2>6. t \in Nat /\ t < 256 * 256 * 256
    <3>1a. PICK a \in 0 .. 63 : a = SextetAt(idx - 2)
      BY <2>4
    <3>1b. PICK b \in 0 .. 63 : b = SextetAt(idx - 1)
      BY <2>4
    <3>1c. PICK c \in 0 .. 63 : c = SextetAt(idx)
      BY <2>4
    <3>1d. PICK d \in 0 .. 63 : d = s
      BY <1>4
    <3>2. PICK x \in Nat : x = 64 * a + b /\ x < 64 * 64
      BY TwoSextets
    <3>3. PICK y \in Nat : y = 64 * x + c /\ y < 64 * 64 * 64
      BY <3>2, ThreeSextets
    <3>4. t = 64 * y + d
      BY <2>5, <3>1a, <3>1b, <3>1c, <3>1d, <3>2, <3>3
    <3> QED
      BY <3>3, <3>4, FourSextets
  <2>7. /\ ThreeBytes(t) \in Seq(Octet) /\ Len(ThreeBytes(t)) = 3
        /\ 256 * (256 * ThreeBytes(t)[1] + ThreeBytes(t)[2]) + ThreeBytes(t)[3] = t
    BY <2>6, BytesExact
  <2>9. dst \in Seq(Octet) /\ Len(dst) = 3 * q
    BY <1>2, <2>3 DEF Typed
  <2>10. /\ dst' \in Seq(Octet) /\ Len(dst') = 3 * q + 3
         /\ \A i \in 1 .. 3 * q : dst'[i] = dst[i]
         /\ \A i \in 1 .. 3 : dst'[3 * q + i] = ThreeBytes(t)[i]
    <3>1. PICK d \in Seq(Octet), b \in Seq(Octet) :
            d = dst /\ b = ThreeBytes(t) /\ Len(d) = 3 * q /\ Len(b) = 3
      BY <2>7, <2>9
    <3>2. dst' = d \o b /\ 3 * q \in Nat
      BY <2>1, <3>1
    <3>3. /\ d \o b \in Seq(Octet) /\ Len(d \o b) = 3 * q + 3
          /\ \A i \in 1 .. 3 * q : (d \o b)[i] = d[i]
          /\ \A i \in 1 .. 3 : (d \o b)[3 * q + i] = b[i]
      <4>1. PICK n \in Nat : n = 3 * q
        BY <3>2, Zenon
      <4>2. Len(d) = n /\ Len(b) = 3
        BY <3>1, <4>1, Zenon
      <4>3. /\ d \o b \in Seq(Octet) /\ Len(d \o b) = n + 3
            /\ \A i \in 1 .. n : (d \o b)[i] = d[i]
            /\ \A i \in 1 .. 3 : (d \o b)[n + i] = b[i]
        BY <4>2, AppendOctets, Zenon
      <4> QED
        BY <4>1, <4>3, Zenon
    <3> QED
      BY <3>1, <3>2, <3>3, Zenon
  <2>11. Typed'
    BY <1>1, <1>2, <1>3, <2>1, <2>10 DEF Typed
  <2>12. Len(dst') = 3 * (idx' \div 4) /\ GroupSoFar'
    <3>1. idx' % 4 = 0
      BY <1>1, <1>6
    <3>2. Len(dst') = 3 * (idx' \div 4)
      <4>1. idx' \div 4 = q + 1 /\ 3 * (q + 1) = 3 * q + 3
        BY <1>1, <2>3
      <4> QED
        BY <2>10, <4>1
    <3>3. GroupSoFar'
      BY <2>1, <3>1 DEF GroupSoFar
    <3> QED
      BY <3>2, <3>3
  <2>13. GroupsOfFour'
    <3> DEFINE Group(d, k) == 256 * (256 * d[3 * k + 1] + d[3 * k + 2]) + d[3 * k + 3]
               Chars(k) == 64 * (64 * (64 * SextetAt(4 * k + 1) + SextetAt(4 * k + 2)) + SextetAt(4 * k + 3))
                             + SextetAt(4 * k + 4)
    <3>1. (Len(dst') \div 3) - 1 = q /\ (Len(dst) \div 3) - 1 = q - 1
      BY <2>9, <2>10
    <3>2. \A k \in 0 .. q - 1 : Group(dst, k) = Chars(k)
      BY <1>2, <3>1 DEF GroupsOfFour
    <3>3. ASSUME NEW k \in 0 .. q - 1 PROVE Group(dst', k) = Chars(k)
      <4>1. 3 * k + 1 \in 1 .. 3 * q /\ 3 * k + 2 \in 1 .. 3 * q /\ 3 * k + 3 \in 1 .. 3 * q
        OBVIOUS
      <4> QED
        BY <2>10, <3>2, <3>3, <4>1
    <3>4. Group(dst', q) = t
      BY <2>7, <2>10
    <3>5. Chars(q) = t
      <4>1. idx - 2 = 4 * q + 1 /\ idx - 1 = 4 * q + 2 /\ idx = 4 * q + 3 /\ idx + 1 = 4 * q + 4
        BY <2>2
      <4> QED
        BY <2>5, <4>1 DEF s
    <3>6. \A k \in 0 .. q : Group(dst', k) = Chars(k)
      BY <3>3, <3>4, <3>5
    <3> QED
      BY <1>5, <3>1, <3>6 DEF GroupsOfFour
  <2> QED
    BY <2>11, <2>12, <2>13 DEF DecodeInv
<1>7. CASE (idx + 1) % 4 # 0
  <2>1. dst' = dst /\ tmp' = ShiftLeft(t)
    BY <1>1, <1>7
  <2>2. GroupsOfFour'
    BY <1>2, <1>5, <2>1 DEF GroupsOfFour, Typed
  <2>3. idx' \div 4 = idx \div 4
    BY <1>1, <1>3, <1>7, SMT
  <2>4. ASSUME t \in Nat, t < 64 * 64 * 64, GroupSoFar' PROVE DecodeInv'
    <3>1. tmp' \in Nat /\ tmp' < 256 * 256 * 256
      BY <2>1, <2>4, ShiftExact
    <3>2. Typed'
      BY <1>1, <1>2, <1>3, <2>1, <3>1 DEF Typed
    <3> QED
      BY <1>1, <1>2, <2>1, <2>2, <2>3, <2>4, <3>2 DEF DecodeInv
  <2>5. CASE idx % 4 = 0
    <3>1. idx' % 4 = 1 /\ t = s
      <4>1. tmp = 0 /\ idx' % 4 = 1
        BY <1>1, <1>2, <1>3, <2>5, Quarter DEF GroupSoFar
      <4> QED
        BY <1>4, <4>1
    <3>2. t \in Nat /\ t < 64 * 64 * 64 /\ tmp' = 64 * SextetAt(idx + 1)
      BY <1>4, <2>1, <3>1, ShiftExact DEF s
    <3>3. GroupSoFar'
      BY <1>1, <1>3, <1>5, <3>1, <3>2 DEF GroupSoFar
    <3> QED
      BY <2>4, <3>2, <3>3
  <2>6. CASE idx % 4 = 1
    <3>1. idx' % 4 = 2 /\ idx \in 1 .. Len(source)
      BY <1>1, <1>3, <2>6, Quarter
    <3>2. SextetAt(idx) \in 0 .. 63
      BY <1>2, <3>1, SextetAtRange DEF Typed
    <3>3. t = 64 * SextetAt(idx) + s
      BY <1>2, <1>4, <2>6 DEF GroupSoFar
    <3>4. t \in Nat /\ t < 64 * 64 * 64
      <4>1. PICK a \in 0 .. 63, b \in 0 .. 63 : a = SextetAt(idx) /\ b = s
        BY <1>4, <3>2
      <4>2. t = 64 * a + b
        BY <3>3, <4>1
      <4> QED
        BY <4>2, TwoSextets
    <3>5. tmp' = 64 * (64 * SextetAt(idx) + s)
      BY <1>4, <2>1, <3>2, <3>3, <3>4, ShiftExact
    <3>6. GroupSoFar'
      <4>1. (idx + 1) - 1 = idx
        BY <1>3
      <4> QED
        BY <1>1, <1>3, <1>5, <3>1, <3>5, <4>1 DEF GroupSoFar, s
    <3> QED
      BY <2>4, <3>4, <3>6
  <2>7. CASE idx % 4 = 2
    <3>1. idx' % 4 = 3 /\ idx \in 1 .. Len(source) /\ idx - 1 \in 1 .. Len(source)
      BY <1>1, <1>3, <2>7, Quarter
    <3>2. SextetAt(idx) \in 0 .. 63 /\ SextetAt(idx - 1) \in 0 .. 63
      BY <1>2, <3>1, SextetAtRange DEF Typed
    <3>3. t = 64 * (64 * SextetAt(idx - 1) + SextetAt(idx)) + s
      BY <1>2, <1>4, <2>7 DEF GroupSoFar
    <3>4. t \in Nat /\ t < 64 * 64 * 64
      <4>1a. PICK a \in 0 .. 63 : a = SextetAt(idx - 1)
        BY <3>2
      <4>1b. PICK b \in 0 .. 63 : b = SextetAt(idx)
        BY <3>2
      <4>1c. PICK c \in 0 .. 63 : c = s
        BY <1>4
      <4>2. PICK x \in Nat : x = 64 * a + b /\ x < 64 * 64
        BY TwoSextets
      <4>3. t = 64 * x + c
        BY <3>3, <4>1a, <4>1b, <4>1c, <4>2
      <4> QED
        BY <4>2, <4>3, ThreeSextets
    <3>5. tmp' = 64 * (64 * (64 * SextetAt(idx - 1) + SextetAt(idx)) + s)
      BY <1>4, <2>1, <3>2, <3>3, <3>4, ShiftExact
    <3>6. GroupSoFar'
      <4>1. (idx + 1) - 1 = idx /\ (idx + 1) - 2 = idx - 1
        BY <1>3
      <4> QED
        BY <1>1, <1>3, <1>5, <3>1, <3>5, <4>1 DEF GroupSoFar, s
    <3> QED
      BY <2>4, <3>4, <3>6
  <2>8. idx % 4 \in 0 .. 2
    BY <1>3, <1>7, SMT
  <2> QED
    BY <2>5, <2>6, <2>7, <2>8
<1> QED
  BY <1>6, <1>7

LEMMA DecodeInvStep == DecodeInv /\ [Next]_vars => DecodeInv'
<1> SUFFICES ASSUME DecodeInv, [Next]_vars PROVE DecodeInv'
  OBVIOUS
<1>1. CASE Decode
  BY <1>1, DecodeStep
<1>2. ASSUME UNCHANGED <<source, tmp, dst>>, idx' \in {idx, idx + 1}, idx' \in 0 .. Len(source),
             pc' # "decode" \/ (UNCHANGED <<idx, pc>>)
      PROVE  DecodeInv'
  <2>1. idx' \div 4 >= idx \div 4
    <3>1. idx \in Nat
      BY DEF DecodeInv, Typed
    <3> QED
      <4>1. CASE idx' = idx
        BY <3>1, <4>1
      <4>2. CASE idx' = idx + 1
        BY <3>1, <4>2, Quarter
      <4> QED
        BY <1>2, <4>1, <4>2
  <2>2. \A i \in Int : SextetAt(i)' = SextetAt(i)
    BY <1>2 DEF SextetAt
  <2>3. GroupsOfFour'
    BY <1>2, <2>2 DEF DecodeInv, Typed, GroupsOfFour
  <2>4. Typed' /\ Len(dst') <= 3 * (idx' \div 4)
    BY <1>2, <2>1 DEF DecodeInv, Typed
  <2>5. pc' = "decode" => Len(dst') = 3 * (idx' \div 4) /\ GroupSoFar'
    BY <1>2, <2>2 DEF DecodeInv, Typed, GroupSoFar
  <2> QED
    BY <2>3, <2>4, <2>5 DEF DecodeInv
<1>3. CASE InvalidCharacter
  BY <1>2, <1>3 DEF InvalidCharacter, DecodeInv, Typed
<1>4. CASE EndOfSource
  BY <1>2, <1>4 DEF EndOfSource, DecodeInv, Typed
<1>5. CASE Authenticate
  BY <1>2, <1>5 DEF Authenticate, DecodeInv, Typed
<1>6. CASE Returned \/ UNCHANGED vars
  BY <1>2, <1>6 DEF Returned, vars, DecodeInv, Typed
<1> QED
  BY <1>1, <1>3, <1>4, <1>5, <1>6 DEF Next

LEMMA DecodeInvInit == Init => DecodeInv
BY SourcesAssumption DEF Init, DecodeInv, Typed, GroupSoFar, GroupsOfFour, Char

\* Base64Decode writes nothing behind the bytes it allocates and leaves a zero at
\* their end, for a source of any length, complete or not.
THEOREM BufferSafe == Spec => []InBuffer
<1>1. DecodeInv => InBuffer
  <2> SUFFICES ASSUME DecodeInv PROVE InBuffer
    OBVIOUS
  <2> DEFINE n == Len(source)
             i == idx
             l == Len(dst)
  <2>1. n \in Nat /\ i \in Nat /\ l \in Nat /\ i <= n
    BY DEF DecodeInv, Typed
  <2>2. l <= 3 * (i \div 4)
    BY DEF DecodeInv
  <2> HIDE DEF n, i, l
  <2>3. l < ((n * 3 + 3) \div 4) + 3
    BY <2>1, <2>2, SMT
  <2> QED
    BY <2>3 DEF InBuffer, Allocated, size, n, l
<1> QED
  BY <1>1, DecodeInvInit, DecodeInvStep, PTL DEF Spec

\* The bytes are those of the characters, group by group, for every source.
THEOREM DecodesGroups == Spec => []GroupsOfFour
<1>1. DecodeInv => GroupsOfFour
  BY DEF DecodeInv
<1> QED
  BY <1>1, DecodeInvInit, DecodeInvStep, PTL DEF Spec

-----------------------------------------------------------------------------
(* What comes out of an encoded text is the text. *)

LEMMA LetterIs ==
    ASSUME NEW v \in 0 .. 63
    PROVE  Letter(v) \in Letters /\ Sextet(Letter(v)) = v /\ Letter(v) # Pad
<1>1. \E c \in Letters : Sextet(c) = v
  <2>1. CASE v < 26
    <3>1. 65 + v \in Letters /\ Sextet(65 + v) = v
      BY <2>1, SMT DEF Letters, Sextet
    <3>2. QED
      BY <3>1
  <2>2. CASE v >= 26 /\ v < 52
    <3>1. 71 + v \in Letters /\ Sextet(71 + v) = v
      BY <2>2, SMT DEF Letters, Sextet
    <3>2. QED
      BY <3>1
  <2>3. CASE v >= 52 /\ v < 62
    <3>1. v - 4 \in Letters /\ Sextet(v - 4) = v
      BY <2>3, SMT DEF Letters, Sextet
    <3>2. QED
      BY <3>1
  <2>4. CASE v = 62
    <3>1. 43 \in Letters /\ Sextet(43) = 62
      BY SMT DEF Letters, Sextet
    <3>2. QED
      BY <2>4, <3>1
  <2>5. CASE v = 63
    <3>1. 47 \in Letters /\ Sextet(47) = 63
      BY SMT DEF Letters, Sextet
    <3>2. QED
      BY <2>5, <3>1
  <2>6. QED
    BY <2>1, <2>2, <2>3, <2>4, <2>5
<1>2. Letter(v) \in Letters /\ Sextet(Letter(v)) = v
  BY <1>1 DEF Letter
<1>3. Pad \notin Letters
  BY SMT DEF Pad, Letters
<1>4. QED
  BY <1>2, <1>3

\* The digits of a number of twenty-four bits: four of six bits, three of eight.
\* (The numbers are kept inside definitions: Zenon counts them out.)
Bits24(b) == b \in Nat /\ b < 256 * 256 * 256
Digit(b, j) == (b \div 64^(3 - j)) % 64
FromSextets(p, q, r, s) == 64 * (64 * (64 * p + q) + r) + s
FromBytes(a, b, c) == 256 * (256 * a + b) + c

LEMMA SixBits ==
    ASSUME NEW b, Bits24(b)
    PROVE  /\ Digit(b, 0) \in 0 .. 63 /\ Digit(b, 1) \in 0 .. 63
           /\ Digit(b, 2) \in 0 .. 63 /\ Digit(b, 3) \in 0 .. 63
           /\ FromSextets(Digit(b, 0), Digit(b, 1), Digit(b, 2), Digit(b, 3)) = b
<1>1. b \in Nat /\ b < 256 * 256 * 256
  BY SMT DEF Bits24
<1>2. 64^3 = 262144 /\ 64^2 = 4096 /\ 64^1 = 64 /\ 64^0 = 1 /\ b \div 1 = b
  BY <1>1, SMT
<1>3. 3 - 0 = 3 /\ 3 - 1 = 2 /\ 3 - 2 = 1 /\ 3 - 3 = 0
  BY SMT
<1>4. /\ Digit(b, 0) = (b \div 262144) % 64 /\ Digit(b, 1) = (b \div 4096) % 64
      /\ Digit(b, 2) = (b \div 64) % 64 /\ Digit(b, 3) = b % 64
  BY <1>1, <1>2, <1>3, SMT DEF Digit
<1>5. PICK x \in Nat, y \in Nat, z \in Nat :
        x = b \div 64 /\ y = b \div 4096 /\ z = b \div 262144
  BY <1>1, SMT
<1>6. b = 64 * x + (b % 64) /\ b % 64 \in 0 .. 63
  BY <1>1, <1>5, SMT
<1>7. x = 64 * y + (x % 64) /\ x % 64 \in 0 .. 63
  BY <1>1, <1>5, SMT
<1>8. y = 64 * z + (y % 64) /\ y % 64 \in 0 .. 63
  BY <1>1, <1>5, SMT
<1>9. z % 64 = z /\ z \in 0 .. 63
  BY <1>1, <1>5, SMT
<1>10. 64 * (64 * (64 * z + (y % 64)) + (x % 64)) + (b % 64) = b
  BY <1>6, <1>7, <1>8, SMT
<1>11. Digit(b, 0) = z /\ Digit(b, 1) = y % 64 /\ Digit(b, 2) = x % 64 /\ Digit(b, 3) = b % 64
  BY <1>4, <1>5, <1>9, SMT
<1>12. FromSextets(z, y % 64, x % 64, b % 64) = b
  BY <1>10, Zenon DEF FromSextets
<1>13. QED
  BY <1>6, <1>7, <1>8, <1>9, <1>11, <1>12, Zenon

LEMMA EightBits ==
    ASSUME NEW a \in Octet, NEW b \in Octet, NEW c \in Octet,
           NEW x \in Octet, NEW y \in Octet, NEW z \in Octet,
           FromBytes(a, b, c) = FromBytes(x, y, z)
    PROVE  a = x /\ b = y /\ c = z
BY SMT DEF Octet, FromBytes

\* Bytes that are zero have sextets that are zero.
LEMMA ZeroDigits ==
    ASSUME NEW x \in Octet, NEW y \in Octet
    PROVE  /\ Digit(FromBytes(x, y, 0), 3) = 0
           /\ Digit(FromBytes(x, 0, 0), 2) = 0
<1>1. PICK b \in Nat : b = FromBytes(x, y, 0)
  BY SMT DEF FromBytes, Octet
<1>2. 64^0 = 1 /\ 3 - 3 = 0 /\ b \div 1 = b
  BY SMT
<1>3. Digit(b, 3) = b % 64
  BY <1>2, SMT DEF Digit
<1>4. b % 64 = 0
  BY <1>1, SMT DEF FromBytes, Octet
<1>5. PICK d \in Nat : d = FromBytes(x, 0, 0)
  BY SMT DEF FromBytes, Octet
<1>6. 64^1 = 64 /\ 3 - 2 = 1
  BY SMT
<1>7. Digit(d, 2) = (d \div 64) % 64
  BY <1>6, SMT DEF Digit
<1>8. (d \div 64) % 64 = 0
  BY <1>5, SMT DEF FromBytes, Octet
<1>9. QED
  BY <1>1, <1>3, <1>4, <1>5, <1>7, <1>8, SMT

\* The bits that a group of the text has.
Bits(text, k) ==
    FromBytes(Byte(text, 3 * k + 1), Byte(text, 3 * k + 2), Byte(text, 3 * k + 3))
Groups(text) == (Len(text) + 2) \div 3

LEMMA ByteRange ==
    ASSUME NEW text \in Seq(Char), NEW i \in Nat \ {0}
    PROVE  Byte(text, i) \in Octet
<1>1. CASE i <= Len(text)
  <2>1. text[i] \in Char
    BY <1>1
  <2>2. QED
    BY <1>1, <2>1, SMT DEF Byte, Char, Octet
<1>2. CASE ~ (i <= Len(text))
  BY <1>2, SMT DEF Byte, Octet
<1>3. QED
  BY <1>1, <1>2

LEMMA GroupBytes ==
    ASSUME NEW text \in Seq(Char), NEW k \in Nat
    PROVE  /\ Byte(text, 3 * k + 1) \in Octet /\ Byte(text, 3 * k + 2) \in Octet
           /\ Byte(text, 3 * k + 3) \in Octet /\ Bits24(Bits(text, k))
<1>1. 3 * k + 1 \in Nat \ {0} /\ 3 * k + 2 \in Nat \ {0} /\ 3 * k + 3 \in Nat \ {0}
  OBVIOUS
<1>2. /\ Byte(text, 3 * k + 1) \in Octet /\ Byte(text, 3 * k + 2) \in Octet
      /\ Byte(text, 3 * k + 3) \in Octet
  BY <1>1, ByteRange, Zenon
<1>3. \A a, b, c \in Octet : Bits24(FromBytes(a, b, c))
  BY SMT DEF Octet, Bits24, FromBytes
<1>4. QED
  BY <1>2, <1>3, Zenon DEF Bits

\* The characters of a group.
CharOf(text, g, j) == IF j > Len(text) - 3 * g THEN Pad ELSE Letter(Digit(Bits(text, g), j))

LEMMA EncodeIs ==
    ASSUME NEW text \in Seq(Char)
    PROVE  /\ Groups(text) \in Nat /\ Len(Encode(text)) = 4 * Groups(text)
           /\ DOMAIN Encode(text) = 1 .. 4 * Groups(text)
           /\ \A i \in 1 .. 4 * Groups(text) :
                Encode(text)[i] = CharOf(text, (i - 1) \div 4, (i - 1) % 4)
<1>1. PICK n \in Nat : n = Len(text)
  OBVIOUS
<1>2. PICK m \in Nat : m = Groups(text) /\ m = (n + 2) \div 3
  <2>1. (n + 2) \div 3 \in Nat
    BY SMT
  <2>2. QED
    BY <1>1, <2>1, SMT DEF Groups
<1>3. DOMAIN Encode(text) = 1 .. 4 * m /\ Len(Encode(text)) = 4 * m
  BY <1>1, <1>2, SMT DEF Encode
<1>4. ASSUME NEW i \in 1 .. 4 * m PROVE Encode(text)[i] = CharOf(text, (i - 1) \div 4, (i - 1) % 4)
  <2>1. PICK k, j : k = (i - 1) \div 4 /\ j = (i - 1) % 4
    OBVIOUS
  <2>2. k \in Nat /\ j \in Nat
    BY <2>1, SMT
  <2>3. Encode(text)[i] = IF j > Len(text) - 3 * k THEN Pad
          ELSE Letter(((65536 * Byte(text, 3 * k + 1) + 256 * Byte(text, 3 * k + 2)
                          + Byte(text, 3 * k + 3)) \div 64^(3 - j)) % 64)
    BY <1>1, <1>2, <2>1, SMT DEF Encode
  <2>4. PICK x, y, z :
          x = Byte(text, 3 * k + 1) /\ y = Byte(text, 3 * k + 2) /\ z = Byte(text, 3 * k + 3)
    OBVIOUS
  <2>5. x \in Octet /\ y \in Octet /\ z \in Octet
    BY <2>2, <2>4, GroupBytes, Zenon
  <2>6. 65536 * x + 256 * y + z = FromBytes(x, y, z)
    BY <2>5, SMT DEF FromBytes, Octet
  <2>7. QED
    BY <2>1, <2>3, <2>4, <2>6, SMT DEF CharOf, Bits, Digit
<1>5. QED
  BY <1>2, <1>3, <1>4, SMT

LEMMA EncodeAt ==
    ASSUME NEW text \in Seq(Char), NEW k \in Nat, k < Groups(text)
    PROVE  /\ 3 * k + 1 <= Len(text)
           /\ Encode(text)[4 * k + 1] = CharOf(text, k, 0) /\ Encode(text)[4 * k + 2] = CharOf(text, k, 1)
           /\ Encode(text)[4 * k + 3] = CharOf(text, k, 2) /\ Encode(text)[4 * k + 4] = CharOf(text, k, 3)
<1>1. PICK n \in Nat, m \in Nat : n = Len(text) /\ m = Groups(text)
  BY EncodeIs
<1>2. m = (n + 2) \div 3 /\ k < m
  BY <1>1 DEF Groups
<1>3. 3 * k + 1 <= n /\ 4 * k + 4 <= 4 * m
  BY <1>2, SMT
<1>4. /\ ((4 * k + 1) - 1) \div 4 = k /\ ((4 * k + 1) - 1) % 4 = 0
      /\ ((4 * k + 2) - 1) \div 4 = k /\ ((4 * k + 2) - 1) % 4 = 1
      /\ ((4 * k + 3) - 1) \div 4 = k /\ ((4 * k + 3) - 1) % 4 = 2
      /\ ((4 * k + 4) - 1) \div 4 = k /\ ((4 * k + 4) - 1) % 4 = 3
  BY SMT
<1>5. 4 * k + 1 \in 1 .. 4 * m /\ 4 * k + 2 \in 1 .. 4 * m /\ 4 * k + 3 \in 1 .. 4 * m
      /\ 4 * k + 4 \in 1 .. 4 * m
  BY <1>3
<1>6. \A i \in 1 .. 4 * m : Encode(text)[i] = CharOf(text, (i - 1) \div 4, (i - 1) % 4)
  BY <1>1, EncodeIs
<1>7. Encode(text)[4 * k + 1] = CharOf(text, k, 0)
  BY <1>4, <1>5, <1>6, Zenon
<1>8. Encode(text)[4 * k + 2] = CharOf(text, k, 1)
  BY <1>4, <1>5, <1>6, Zenon
<1>9. Encode(text)[4 * k + 3] = CharOf(text, k, 2)
  BY <1>4, <1>5, <1>6, Zenon
<1>10. Encode(text)[4 * k + 4] = CharOf(text, k, 3)
  BY <1>4, <1>5, <1>6, Zenon
<1>11. QED
  BY <1>1, <1>3, <1>7, <1>8, <1>9, <1>10

LEMMA CharOfRange ==
    ASSUME NEW text \in Seq(Char), NEW k \in Nat, NEW j \in 0 .. 3
    PROVE  CharOf(text, k, j) \in Letters \cup {Pad}
<1>1. Bits24(Bits(text, k))
  BY GroupBytes
<1>2. Digit(Bits(text, k), j) \in 0 .. 63
  <2>1. j = 0 \/ j = 1 \/ j = 2 \/ j = 3
    OBVIOUS
  <2>2. QED
    BY <1>1, <2>1, SixBits, Zenon
<1>3. Letter(Digit(Bits(text, k), j)) \in Letters
  BY <1>2, LetterIs, Zenon
<1>4. QED
  BY <1>3, Zenon DEF CharOf

LEMMA EncodeShape ==
    ASSUME NEW text \in Seq(Char)
    PROVE  \A i \in 1 .. 4 * Groups(text) : Encode(text)[i] \in Letters \cup {Pad}
<1> SUFFICES ASSUME NEW i \in 1 .. 4 * Groups(text) PROVE Encode(text)[i] \in Letters \cup {Pad}
  OBVIOUS
<1>1. Groups(text) \in Nat
  BY EncodeIs
<1>2. (i - 1) \div 4 \in Nat /\ (i - 1) % 4 \in 0 .. 3
  BY <1>1, SMT
<1>3. QED
  BY <1>2, EncodeIs, CharOfRange, Zenon

\* The four characters have the twenty-four bits of the three bytes: what is
\* padded has only zeros.
LEMMA EncodedBits ==
    ASSUME NEW text \in Seq(Char), source = Encode(text), NEW k \in Nat, k < Groups(text)
    PROVE  FromSextets(SextetAt(4 * k + 1), SextetAt(4 * k + 2), SextetAt(4 * k + 3), SextetAt(4 * k + 4))
             = Bits(text, k)
<1>1. PICK b : b = Bits(text, k) /\ Bits24(b)
  BY GroupBytes
<1>2. PICK p, q, r, s : p = Digit(b, 0) /\ q = Digit(b, 1) /\ r = Digit(b, 2) /\ s = Digit(b, 3)
  OBVIOUS
<1>3. p \in 0 .. 63 /\ q \in 0 .. 63 /\ r \in 0 .. 63 /\ s \in 0 .. 63 /\ FromSextets(p, q, r, s) = b
  BY <1>1, <1>2, SixBits, Zenon
<1>4. PICK n \in Nat : n = Len(text)
  OBVIOUS
<1>5. /\ 3 * k + 1 <= n
      /\ source[4 * k + 1] = CharOf(text, k, 0) /\ source[4 * k + 2] = CharOf(text, k, 1)
      /\ source[4 * k + 3] = CharOf(text, k, 2) /\ source[4 * k + 4] = CharOf(text, k, 3)
  BY <1>4, EncodeAt, Zenon
<1>6. ~ (0 > n - 3 * k) /\ ~ (1 > n - 3 * k)
  BY <1>5
<1>7. source[4 * k + 1] = Letter(p) /\ source[4 * k + 2] = Letter(q)
  BY <1>1, <1>2, <1>4, <1>5, <1>6, Zenon DEF CharOf
<1>8. SextetAt(4 * k + 1) = p /\ SextetAt(4 * k + 2) = q
  BY <1>3, <1>7, LetterIs, Zenon DEF SextetAt
<1>9. PICK x, y, z :
        /\ x = Byte(text, 3 * k + 1) /\ y = Byte(text, 3 * k + 2) /\ z = Byte(text, 3 * k + 3)
  OBVIOUS
<1>10. x \in Octet /\ y \in Octet /\ z \in Octet /\ b = FromBytes(x, y, z)
  BY <1>1, <1>9, GroupBytes, Zenon DEF Bits
<1>11. SextetAt(4 * k + 3) = r
  <2>1. CASE 2 > n - 3 * k
    <3>1. ~ (3 * k + 2 <= n) /\ ~ (3 * k + 3 <= n)
      BY <2>1
    <3>2. y = 0 /\ z = 0
      BY <1>4, <1>9, <3>1, Zenon DEF Byte
    <3>3. r = 0
      BY <1>2, <1>10, <3>2, ZeroDigits, Zenon
    <3>4. source[4 * k + 3] = Pad
      BY <1>4, <1>5, <2>1, Zenon DEF CharOf
    <3>5. QED
      BY <3>3, <3>4, Zenon DEF SextetAt
  <2>2. CASE ~ (2 > n - 3 * k)
    <3>1. source[4 * k + 3] = Letter(r)
      BY <1>1, <1>2, <1>4, <1>5, <2>2, Zenon DEF CharOf
    <3>2. QED
      BY <1>3, <3>1, LetterIs, Zenon DEF SextetAt
  <2>3. QED
    BY <2>1, <2>2, Zenon
<1>12. SextetAt(4 * k + 4) = s
  <2>1. CASE 3 > n - 3 * k
    <3>1. ~ (3 * k + 3 <= n)
      BY <2>1
    <3>2. z = 0
      BY <1>4, <1>9, <3>1, Zenon DEF Byte
    <3>3. s = 0
      BY <1>2, <1>10, <3>2, ZeroDigits, Zenon
    <3>4. source[4 * k + 4] = Pad
      BY <1>4, <1>5, <2>1, Zenon DEF CharOf
    <3>5. QED
      BY <3>3, <3>4, Zenon DEF SextetAt
  <2>2. CASE ~ (3 > n - 3 * k)
    <3>1. source[4 * k + 4] = Letter(s)
      BY <1>1, <1>2, <1>4, <1>5, <2>2, Zenon DEF CharOf
    <3>2. QED
      BY <1>3, <3>1, LetterIs, Zenon DEF SextetAt
  <2>3. QED
    BY <2>1, <2>2, Zenon
<1>13. QED
  BY <1>1, <1>3, <1>8, <1>11, <1>12, Zenon

\* What has been read is of the alphabet, and how the reading ended.
ReadInv ==
    /\ pc # "invalid" => \A i \in 1 .. idx : source[i] \in Letters \cup {Pad}
    /\ pc \in {"decoded", "done"} =>
         idx = Len(source) /\ Len(source) % 4 = 0 /\ Len(dst) = 3 * (Len(source) \div 4)
    /\ pc = "invalid" =>
         Len(source) % 4 # 0 \/ \E i \in 1 .. Len(source) : source[i] \notin Letters \cup {Pad}

LEMMA ReadInit == Init => ReadInv
BY SourcesAssumption, SMT DEF Init, ReadInv

LEMMA ReadStep == DecodeInv /\ ReadInv /\ [Next]_vars => ReadInv'
<1> SUFFICES ASSUME DecodeInv, ReadInv, [Next]_vars PROVE ReadInv'
  OBVIOUS
<1>0. source \in Seq(Char) /\ idx \in 0 .. Len(source) /\ idx \in Nat
  BY DEF DecodeInv, Typed
<1>1. CASE Decode
  <2>1. /\ pc = "decode" /\ pc' = "decode" /\ source' = source /\ idx' = idx + 1
        /\ source[idx + 1] \in Letters \cup {Pad}
    BY <1>1, Zenon DEF Decode
  <2>2. \A i \in 1 .. idx : source[i] \in Letters \cup {Pad}
    BY <2>1, Zenon DEF ReadInv
  <2>3. ASSUME NEW i \in 1 .. idx + 1 PROVE source[i] \in Letters \cup {Pad}
    <3>1. i \in 1 .. idx \/ i = idx + 1
      BY <1>0
    <3>2. QED
      BY <2>1, <2>2, <3>1, Zenon
  <2>4. QED
    BY <2>1, <2>3, Zenon DEF ReadInv
<1>2. CASE InvalidCharacter
  <2>1. /\ pc' = "invalid" /\ source' = source /\ idx + 1 \in 1 .. Len(source)
        /\ source[idx + 1] \notin Letters \cup {Pad}
    BY <1>0, <1>2, SMT DEF InvalidCharacter
  <2>2. QED
    BY <2>1, Zenon DEF ReadInv
<1>3. CASE EndOfSource
  <2>1. /\ pc = "decode" /\ idx = Len(source) /\ source' = source /\ idx' = idx /\ dst' = dst
        /\ pc' = IF idx % 4 # 0 THEN "invalid" ELSE "decoded"
    BY <1>3, Zenon DEF EndOfSource
  <2>2. Len(dst) = 3 * (idx \div 4) /\ \A i \in 1 .. idx : source[i] \in Letters \cup {Pad}
    BY <2>1, Zenon DEF DecodeInv, ReadInv
  <2>3. CASE idx % 4 # 0
    <3>1. pc' = "invalid" /\ Len(source) % 4 # 0
      BY <2>1, <2>3
    <3>2. QED
      BY <2>1, <3>1, Zenon DEF ReadInv
  <2>4. CASE ~ (idx % 4 # 0)
    <3>1. pc' = "decoded" /\ Len(source) % 4 = 0
      BY <2>1, <2>4
    <3>2. QED
      BY <2>1, <2>2, <3>1, Zenon DEF ReadInv
  <2>5. QED
    BY <2>3, <2>4, Zenon
<1>4. CASE Authenticate
  BY <1>4, Zenon DEF Authenticate, ReadInv
<1>5. CASE Returned \/ UNCHANGED vars
  BY <1>5, Zenon DEF Returned, vars, ReadInv
<1>6. QED
  BY <1>1, <1>2, <1>3, <1>4, <1>5, Zenon DEF Next

LEMMA DecodedBytes ==
    ASSUME DecodeInv, ReadInv, pc \in {"decoded", "done"}, NEW text \in Seq(Char), source = Encode(text)
    PROVE  /\ Len(dst) = 3 * Groups(text) /\ dst \in Seq(Octet)
           /\ \A i \in 1 .. 3 * Groups(text) : dst[i] = Byte(text, i)
<1>1. PICK m \in Nat : m = Groups(text)
  BY EncodeIs
<1>2. Len(source) = 4 * m
  BY <1>1, EncodeIs, Zenon
<1>3. dst \in Seq(Octet) /\ Len(dst) = 3 * m
  <2>1. dst \in Seq(Octet) /\ Len(dst) = 3 * ((4 * m) \div 4)
    BY <1>2, Zenon DEF DecodeInv, Typed, ReadInv
  <2>2. (4 * m) \div 4 = m
    BY SMT
  <2>3. QED
    BY <2>1, <2>2, Zenon
<1>4. ASSUME NEW k \in Nat, k < m
      PROVE  /\ dst[3 * k + 1] = Byte(text, 3 * k + 1) /\ dst[3 * k + 2] = Byte(text, 3 * k + 2)
             /\ dst[3 * k + 3] = Byte(text, 3 * k + 3)
  <2>1. (3 * m) \div 3 = m /\ k \in 0 .. m - 1
    BY <1>4, SMT
  <2>2. k \in 0 .. (Len(dst) \div 3) - 1
    BY <1>3, <2>1, Zenon
  <2>3. FromBytes(dst[3 * k + 1], dst[3 * k + 2], dst[3 * k + 3])
          = FromSextets(SextetAt(4 * k + 1), SextetAt(4 * k + 2), SextetAt(4 * k + 3), SextetAt(4 * k + 4))
    BY <2>2, SMT DEF DecodeInv, GroupsOfFour, FromBytes, FromSextets
  <2>4. FromBytes(dst[3 * k + 1], dst[3 * k + 2], dst[3 * k + 3]) = Bits(text, k)
    BY <1>1, <1>4, <2>3, EncodedBits, Zenon
  <2>5. 3 * k + 1 \in 1 .. 3 * m /\ 3 * k + 2 \in 1 .. 3 * m /\ 3 * k + 3 \in 1 .. 3 * m
    BY <1>4
  <2>6. dst[3 * k + 1] \in Octet /\ dst[3 * k + 2] \in Octet /\ dst[3 * k + 3] \in Octet
    BY <1>3, <2>5, SMT
  <2>7. /\ Byte(text, 3 * k + 1) \in Octet /\ Byte(text, 3 * k + 2) \in Octet
        /\ Byte(text, 3 * k + 3) \in Octet
    BY GroupBytes
  <2>8. FromBytes(dst[3 * k + 1], dst[3 * k + 2], dst[3 * k + 3])
          = FromBytes(Byte(text, 3 * k + 1), Byte(text, 3 * k + 2), Byte(text, 3 * k + 3))
    BY <2>4, Zenon DEF Bits
  <2>9. PICK a, b, c, x, y, z :
          /\ a = dst[3 * k + 1] /\ b = dst[3 * k + 2] /\ c = dst[3 * k + 3]
          /\ x = Byte(text, 3 * k + 1) /\ y = Byte(text, 3 * k + 2) /\ z = Byte(text, 3 * k + 3)
    BY Zenon
  <2>10. /\ a \in Octet /\ b \in Octet /\ c \in Octet /\ x \in Octet /\ y \in Octet /\ z \in Octet
         /\ FromBytes(a, b, c) = FromBytes(x, y, z)
    BY <2>6, <2>7, <2>8, <2>9, Zenon
  <2>11. a = x /\ b = y /\ c = z
    BY <2>10, EightBits, SMT
  <2>12. QED
    BY <2>9, <2>11, Zenon
<1>5. ASSUME NEW i \in 1 .. 3 * m PROVE dst[i] = Byte(text, i)
  <2>1. PICK k : k = (i - 1) \div 3
    OBVIOUS
  <2>2. k \in Nat /\ k < m /\ (i = 3 * k + 1 \/ i = 3 * k + 2 \/ i = 3 * k + 3)
    BY <2>1, SMT
  <2>3. QED
    BY <1>4, <2>2, Zenon
<1>6. QED
  BY <1>1, <1>3, <1>5, Zenon

LEMMA CredentialsAreText ==
    ASSUME DecodeInv, ReadInv, pc \in {"decoded", "done"}, NEW text \in Seq(Char), source = Encode(text)
    PROVE  credString = text
<1>1. PICK n \in Nat : n = Len(text)
  OBVIOUS
<1>2. PICK m \in Nat : m = Groups(text)
  BY EncodeIs
<1>3. m = (n + 2) \div 3
  BY <1>1, <1>2 DEF Groups
<1>4. n <= 3 * m
  BY <1>3, SMT
<1>5. Len(dst) = 3 * m /\ dst \in Seq(Octet) /\ \A i \in 1 .. 3 * m : dst[i] = Byte(text, i)
  BY <1>2, DecodedBytes, Zenon
<1>6. ASSUME NEW i \in 1 .. n PROVE dst[i] = text[i] /\ dst[i] # 0
  <2>1. i \in 1 .. 3 * m /\ i <= n
    BY <1>4
  <2>2. dst[i] = text[i]
    BY <1>1, <1>5, <2>1, Zenon DEF Byte
  <2>3. text[i] \in Char
    BY <1>1
  <2>4. 0 \notin Char
    BY SMT DEF Char
  <2>5. QED
    BY <2>2, <2>3, <2>4, Zenon
<1>7. n < 3 * m => dst[n + 1] = 0
  <2> SUFFICES ASSUME n < 3 * m PROVE dst[n + 1] = 0
    OBVIOUS
  <2>1. n + 1 \in 1 .. 3 * m /\ ~ (n + 1 <= n)
    OBVIOUS
  <2>2. QED
    BY <1>1, <1>5, <2>1, Zenon DEF Byte
<1>8. credString = SubSeq(dst, 1, n)
  <2>1. PICK z : z = strchr(dst, 0)
    OBVIOUS
  <2>2. /\ z \in 0 .. 3 * m
        /\ z = 0 => \A j \in 1 .. 3 * m : dst[j] # 0
        /\ z # 0 => dst[z] = 0 /\ \A j \in 1 .. z - 1 : dst[j] # 0
    BY <1>5, <2>1, strchrFinds, Zenon
  <2>3. CASE n < 3 * m
    <3>1. n + 1 \in 1 .. Len(dst) /\ dst[n + 1] = 0
      BY <1>5, <1>7, <2>3
    <3>2. \A j \in 1 .. (n + 1) - 1 : dst[j] # 0
      BY <1>6
    <3>3. strchr(dst, 0) = n + 1
      BY <1>5, <3>1, <3>2, strchrIs, Zenon
    <3>4. n + 1 # 0 /\ (n + 1) - 1 = n
      OBVIOUS
    <3>5. QED
      BY <3>3, <3>4, Zenon DEF credString, Before
  <2>4. CASE n = 3 * m
    <3>1. z = 0
      BY <1>6, <2>2, <2>4
    <3>2. credString = dst
      BY <2>1, <3>1, Zenon DEF credString, Before
    <3>3. SubSeq(dst, 1, n) = dst
      BY <1>5, <2>4
    <3>4. QED
      BY <3>2, <3>3, Zenon
  <2>5. QED
    BY <1>4, <2>3, <2>4
<1>9. PICK u \in Seq(Octet) : u = SubSeq(dst, 1, n) /\ Len(u) = n /\ \A j \in 1 .. n : u[j] = dst[j]
  <2>1. n <= Len(dst) /\ 1 \in Nat \ {0} /\ 1 <= n + 1 /\ (n + 1) - 1 = n
    BY <1>4, <1>5
  <2>2. /\ SubSeq(dst, 1, n) \in Seq(Octet) /\ Len(SubSeq(dst, 1, n)) = n + 1 - 1
        /\ \A j \in 1 .. n + 1 - 1 : SubSeq(dst, 1, n)[j] = dst[1 - 1 + j]
    BY <1>5, <2>1, Piece
  <2>3. \A j \in 1 .. n : 1 - 1 + j = j
    OBVIOUS
  <2>4. /\ SubSeq(dst, 1, n) \in Seq(Octet) /\ Len(SubSeq(dst, 1, n)) = n
        /\ \A j \in 1 .. n : SubSeq(dst, 1, n)[j] = dst[j]
    BY <2>1, <2>2, <2>3, SMT
  <2>5. QED
    BY <2>4
<1>10. text \in Seq(Octet)
  <2>1. Char \subseteq Octet
    BY SMT DEF Char, Octet
  <2>2. QED
    BY <2>1
<1>11. u = text
  <2>1. \A j \in 1 .. Len(u) : u[j] = text[j]
    BY <1>6, <1>9, Zenon
  <2>2. QED
    BY <1>1, <1>9, <1>10, <2>1, SeqEqual, Zenon
<1>12. QED
  BY <1>8, <1>9, <1>11, Zenon

LEMMA TextsAre ==
    ASSUME NEW src, NEW text \in TextsOf(src)
    PROVE  text \in Texts /\ text \in Seq(Char) /\ src = Encode(text)
<1>1. text \in Texts /\ src = Encode(text)
  <2>1. PICK x \in Encoded : text = x[2] /\ x[1] = src
    BY DEF TextsOf
  <2>2. PICK t \in Texts : x = <<Encode(t), t>>
    BY DEF Encoded
  <2>3. QED
    BY <2>1, <2>2
<1>2. QED
  BY <1>1, TextsAssumption, Zenon DEF Char

\* Base64Decode refuses nothing that a client has encoded, gives back the text
\* that it encoded, and accepts only characters of the alphabet in groups of four.
THEOREM DecodesEncodedText == Spec => []DecodesText
<1>1. ASSUME DecodeInv, ReadInv PROVE DecodesText
  <2>1. ASSUME pc = "invalid", NEW text \in TextsOf(source) PROVE FALSE
    <3>1. text \in Seq(Char) /\ source = Encode(text)
      BY <2>1, TextsAre
    <3>2. PICK m \in Nat : /\ m = Groups(text) /\ Len(source) = 4 * m
                           /\ \A i \in 1 .. 4 * m : source[i] \in Letters \cup {Pad}
      <4>1. Groups(text) \in Nat /\ Len(source) = 4 * Groups(text)
        BY <3>1, EncodeIs, Zenon
      <4>2. \A i \in 1 .. 4 * Groups(text) : source[i] \in Letters \cup {Pad}
        BY <3>1, EncodeShape, Zenon
      <4>3. QED
        BY <4>1, <4>2, Zenon
    <3>3. (4 * m) % 4 = 0
      BY SMT
    <3>4. QED
      BY <1>1, <2>1, <3>2, <3>3, Zenon DEF ReadInv
  <2>2. ASSUME pc = "done", NEW text \in TextsOf(source) PROVE credString = text
    BY <1>1, <2>2, TextsAre, CredentialsAreText, Zenon
  <2>3. ASSUME pc = "done"
        PROVE  Len(source) % 4 = 0 /\ \A i \in DOMAIN source : source[i] \in Letters \cup {Pad}
    <3>1. source \in Seq(Char)
      BY <1>1 DEF DecodeInv, Typed
    <3>2. DOMAIN source = 1 .. Len(source)
      BY <3>1
    <3>3. pc # "invalid"
      BY <2>3
    <3>4. QED
      BY <1>1, <2>3, <3>2, <3>3, Zenon DEF ReadInv
  <2>4. pc = "invalid" => TextsOf(source) = {}
    BY <2>1, Zenon
  <2>5. QED
    BY <2>2, <2>3, <2>4, Zenon DEF DecodesText
<1>2. QED
  BY <1>1, DecodeInvInit, DecodeInvStep, ReadInit, ReadStep, PTL DEF Spec

-----------------------------------------------------------------------------
(* The name and the password that Authenticate makes of a text. *)

LEMMA BlankFacts == Space \in Blanks /\ Space \in Char /\ Colon \in Char
BY SMT DEF Space, Blanks, Char, Colon

\* A name has no colon.
LEMMA UserFacts ==
    ASSUME NEW u \in m_users
    PROVE  /\ u.name \in Seq(Char) /\ u.name # <<>> /\ Len(u.name) > 0
           /\ \A j \in 1 .. Len(u.name) : u.name[j] # Colon
           /\ u.password \in Seq(Char) /\ u.password # <<>> /\ Len(u.password) > 0
<1>1. PICK N, P : N = 1 .. 255 \ (Blanks \cup {Colon}) /\ P = 1 .. 255 \ Blanks
  OBVIOUS
<1>2. u.name \in Seq(N) /\ u.name # <<>> /\ u.password \in Seq(P) /\ u.password # <<>>
  BY <1>1, UsersAssumption, Zenon
<1>3. N \subseteq Char /\ P \subseteq Char /\ Colon \notin N
  BY <1>1, Zenon DEF Char
<1>4. u.name \in Seq(Char) /\ u.password \in Seq(Char)
  BY <1>2, <1>3
<1>5. \A j \in 1 .. Len(u.name) : u.name[j] \in N
  BY <1>2
<1>6. Len(u.name) > 0 /\ Len(u.password) > 0
  BY <1>2
<1>7. QED
  BY <1>2, <1>3, <1>4, <1>5, <1>6, Zenon

\* A name and a password as a client puts them together.
Joint(a, b) == a \o <<Colon>> \o b

LEMMA JoinedText ==
    ASSUME NEW a \in Seq(Char), NEW b \in Seq(Char)
    PROVE  /\ Joint(a, b) \in Seq(Char) /\ Len(Joint(a, b)) = Len(a) + 1 + Len(b)
           /\ \A j \in 1 .. Len(a) : Joint(a, b)[j] = a[j]
           /\ Joint(a, b)[Len(a) + 1] = Colon
           /\ \A j \in 1 .. Len(b) : Joint(a, b)[Len(a) + 1 + j] = b[j]
<1>1. Colon \in Char
  BY BlankFacts
<1>2. PICK t : t = a \o <<Colon>> \o b
  OBVIOUS
<1>3. /\ t \in Seq(Char) /\ Len(t) = Len(a) + 1 + Len(b)
      /\ \A j \in 1 .. Len(a) : t[j] = a[j]
      /\ t[Len(a) + 1] = Colon
      /\ \A j \in 1 .. Len(b) : t[Len(a) + 1 + j] = b[j]
  BY <1>1, <1>2, Joined, SMT
<1>4. t = Joint(a, b)
  BY <1>2 DEF Joint
<1>5. QED
  BY <1>3, <1>4, Zenon

\* Such a text, cut at its first colon.
LEMMA Parts ==
    ASSUME NEW a \in Seq(Char), NEW b \in Seq(Char), NEW t \in Seq(Char), Len(t) = Len(a) + 1 + Len(b),
           \A j \in 1 .. Len(a) : t[j] = a[j], t[Len(a) + 1] = Colon,
           \A j \in 1 .. Len(b) : t[Len(a) + 1 + j] = b[j],
           \A j \in 1 .. Len(a) : a[j] # Colon
    PROVE  /\ strchr(t, Colon) = Len(a) + 1
           /\ SubSeq(t, 1, Len(a)) = a
           /\ SubSeq(t, Len(a) + 2, Len(t)) = b
<1>1. PICK n \in Nat : n = Len(a)
  OBVIOUS
<1>2. PICK m \in Nat : m = Len(b)
  OBVIOUS
<1>3. Len(t) = n + 1 + m
  BY <1>1, <1>2
<1>4. strchr(t, Colon) = n + 1
  <2>1. n + 1 \in 1 .. Len(t)
    BY <1>3
  <2>2. \A j \in 1 .. n + 1 : j < n + 1 => t[j] # Colon
    BY <1>1
  <2>3. t[n + 1] = Colon
    BY <1>1
  <2>4. QED
    BY <2>1, <2>2, <2>3, strchrIs
<1>5. SubSeq(t, 1, n) = a
  <2>1. n <= Len(t) /\ n <= Len(a) /\ \A j \in 1 .. n : t[j] = a[j]
    BY <1>1, <1>3
  <2>2. SubSeq(t, 1, n) = SubSeq(a, 1, n)
    BY <2>1, SamePiece
  <2>3. SubSeq(a, 1, n) = a
    BY <1>1
  <2>4. QED
    BY <2>2, <2>3
<1>6. SubSeq(t, n + 2, Len(t)) = b
  <2>1. PICK p \in Nat \ {0} : p = n + 2
    OBVIOUS
  <2>2. PICK q \in Nat : q = n + 1 + m
    OBVIOUS
  <2>3. p <= q + 1 /\ q <= Len(t) /\ q + 1 - p = m
    BY <1>3, <2>1, <2>2
  <2>4. /\ SubSeq(t, p, q) \in Seq(Char) /\ Len(SubSeq(t, p, q)) = q + 1 - p
        /\ \A j \in 1 .. q + 1 - p : SubSeq(t, p, q)[j] = t[p - 1 + j]
    BY <2>3, Piece
  <2>5. \A j \in 1 .. m : p - 1 + j = n + 1 + j
    BY <2>1
  <2>6. \A j \in 1 .. m : SubSeq(t, p, q)[j] = b[j]
    BY <1>1, <1>2, <2>3, <2>4, <2>5, Zenon
  <2>7. SubSeq(t, p, q) = b
    <3>1. PICK w \in Seq(Char) : w = SubSeq(t, p, q) /\ Len(w) = m
      BY <2>3, <2>4, Zenon
    <3>2. \A j \in 1 .. Len(w) : w[j] = b[j]
      BY <2>6, <3>1, Zenon
    <3>3. w = b
      BY <1>2, <3>1, <3>2, SeqEqual
    <3>4. QED
      BY <3>1, <3>3
  <2>8. QED
    BY <1>3, <2>1, <2>2, <2>7
<1>7. QED
  BY <1>1, <1>4, <1>5, <1>6

LEMMA JoinedParts ==
    ASSUME NEW a \in Seq(Char), NEW b \in Seq(Char), \A j \in 1 .. Len(a) : a[j] # Colon
    PROVE  /\ Joint(a, b) \in Seq(Char)
           /\ strchr(Joint(a, b), Colon) = Len(a) + 1
           /\ SubSeq(Joint(a, b), 1, Len(a)) = a
           /\ SubSeq(Joint(a, b), Len(a) + 2, Len(Joint(a, b))) = b
<1>1. PICK t \in Seq(Char) : t = Joint(a, b)
  BY JoinedText, Zenon
<1>2. /\ Len(t) = Len(a) + 1 + Len(b)
      /\ \A j \in 1 .. Len(a) : t[j] = a[j]
      /\ t[Len(a) + 1] = Colon
      /\ \A j \in 1 .. Len(b) : t[Len(a) + 1 + j] = b[j]
  <2>1. /\ Len(Joint(a, b)) = Len(a) + 1 + Len(b)
        /\ \A j \in 1 .. Len(a) : Joint(a, b)[j] = a[j]
        /\ Joint(a, b)[Len(a) + 1] = Colon
        /\ \A j \in 1 .. Len(b) : Joint(a, b)[Len(a) + 1 + j] = b[j]
    BY JoinedText, Zenon
  <2>2. QED
    BY <1>1, <2>1, Zenon
<1>3. /\ strchr(t, Colon) = Len(a) + 1
      /\ SubSeq(t, 1, Len(a)) = a
      /\ SubSeq(t, Len(a) + 2, Len(t)) = b
  BY <1>2, Parts
<1>4. QED
  BY <1>1, <1>3, Zenon

\* Where the first colon is, if the text is the name and the password of u.
LEMMA SentBy ==
    ASSUME NEW u \in m_users, NEW text, text = Joint(u.name, u.password)
    PROVE  /\ text \in Seq(Char)
           /\ strchr(text, Colon) = Len(u.name) + 1
           /\ SubSeq(text, 1, Len(u.name)) = u.name
           /\ SubSeq(text, Len(u.name) + 2, Len(text)) = u.password
<1>1. PICK a \in Seq(Char) : a = u.name /\ \A j \in 1 .. Len(a) : a[j] # Colon
  BY UserFacts, Zenon
<1>2. PICK b \in Seq(Char) : b = u.password
  BY UserFacts, Zenon
<1>3. /\ Joint(a, b) \in Seq(Char)
      /\ strchr(Joint(a, b), Colon) = Len(a) + 1
      /\ SubSeq(Joint(a, b), 1, Len(a)) = a
      /\ SubSeq(Joint(a, b), Len(a) + 2, Len(Joint(a, b))) = b
  BY <1>1, JoinedParts, Zenon
<1>4. text = Joint(a, b)
  BY <1>1, <1>2
<1>5. QED
  BY <1>1, <1>2, <1>3, <1>4, Zenon

\* A text that is cut at a colon and put together again.
LEMMA CutAtColon ==
    ASSUME NEW text \in Seq(Char), NEW i \in 1 .. Len(text), text[i] = Colon
    PROVE  text = Joint(SubSeq(text, 1, i - 1), SubSeq(text, i + 1, Len(text)))
<1>1. PICK n \in Nat : n = Len(text) /\ i \in 1 .. n
  OBVIOUS
<1>2. PICK k \in Nat : k = i - 1 /\ k <= n /\ k + 1 - 1 = k
  BY <1>1
<1>3. PICK p \in Nat \ {0} : p = i + 1 /\ p <= n + 1 /\ n + 1 - p = n - i /\ p - 1 = i
  BY <1>1
<1>4. /\ SubSeq(text, 1, k) \in Seq(Char) /\ Len(SubSeq(text, 1, k)) = k
      /\ \A j \in 1 .. k : SubSeq(text, 1, k)[j] = text[j]
  <2>1. /\ SubSeq(text, 1, k) \in Seq(Char) /\ Len(SubSeq(text, 1, k)) = k + 1 - 1
        /\ \A j \in 1 .. k + 1 - 1 : SubSeq(text, 1, k)[j] = text[1 - 1 + j]
    BY <1>1, <1>2, Piece
  <2>2. \A j \in 1 .. k : 1 - 1 + j = j
    OBVIOUS
  <2>3. QED
    BY <1>2, <2>1, <2>2, Zenon
<1>5. /\ SubSeq(text, p, n) \in Seq(Char) /\ Len(SubSeq(text, p, n)) = n - i
      /\ \A j \in 1 .. n - i : SubSeq(text, p, n)[j] = text[i + j]
  <2>1. /\ SubSeq(text, p, n) \in Seq(Char) /\ Len(SubSeq(text, p, n)) = n + 1 - p
        /\ \A j \in 1 .. n + 1 - p : SubSeq(text, p, n)[j] = text[p - 1 + j]
    BY <1>1, <1>3, Piece
  <2>2. QED
    BY <1>3, <2>1, Zenon
<1>6. PICK a \in Seq(Char) : a = SubSeq(text, 1, k) /\ Len(a) = k /\ \A j \in 1 .. k : a[j] = text[j]
  BY <1>4, Zenon
<1>7. PICK b \in Seq(Char) : b = SubSeq(text, p, n) /\ Len(b) = n - i /\ \A j \in 1 .. n - i : b[j] = text[i + j]
  BY <1>5, Zenon
<1>8. PICK t : t = Joint(a, b)
  OBVIOUS
<1>9. /\ t \in Seq(Char) /\ Len(t) = Len(a) + 1 + Len(b)
      /\ \A j \in 1 .. Len(a) : t[j] = a[j]
      /\ t[Len(a) + 1] = Colon
      /\ \A j \in 1 .. Len(b) : t[Len(a) + 1 + j] = b[j]
  BY <1>8, JoinedText, Zenon
<1>10. ASSUME NEW j \in 1 .. n PROVE t[j] = text[j]
  <2>1. CASE j < i
    BY <1>1, <1>2, <1>6, <1>9, <2>1
  <2>2. CASE j = i
    BY <1>1, <1>2, <1>6, <1>9, <2>2
  <2>3. CASE j > i
    <3>1. j - i \in 1 .. n - i /\ Len(a) + 1 + (j - i) = j /\ i + (j - i) = j
      BY <1>1, <1>2, <1>6, <2>3
    <3>2. t[Len(a) + 1 + (j - i)] = b[j - i] /\ b[j - i] = text[i + (j - i)]
      BY <1>7, <1>9, <3>1, Zenon
    <3>3. QED
      BY <3>1, <3>2, Zenon
  <2>4. QED
    BY <1>1, <2>1, <2>2, <2>3
<1>11. Len(t) = n
  BY <1>1, <1>2, <1>6, <1>7, <1>9
<1>12. t = text
  BY <1>1, <1>9, <1>10, <1>11, SeqEqual
<1>13. QED
  BY <1>1, <1>2, <1>3, <1>6, <1>7, <1>8, <1>12, Zenon

\* The text with its colon at i replaced.
LEMMA Replaced ==
    ASSUME NEW text \in Seq(Char), NEW i \in 1 .. Len(text), NEW c, c = ReplaceAt(text, i, Space)
    PROVE  /\ c \in Seq(Char) /\ Len(c) = Len(text) /\ c[i] = Space
           /\ \A j \in 1 .. Len(text) : j # i => c[j] = text[j]
<1>1. Space \in Char
  BY BlankFacts
<1>2. QED
  BY <1>1 DEF ReplaceAt

\* Without a colon inside the text one of the two words is missing.
LEMMA NoSplit ==
    ASSUME NEW text \in Seq(Char), \A j \in 1 .. Len(text) : text[j] \notin Blanks,
           strchr(text, Colon) \notin 2 .. Len(text) - 1, NEW c, c = SplitAtColon(text)
    PROVE  Word(c, Blanks) = <<>> \/ Word(AfterWord(c, Blanks), Blanks) = <<>>
<1> DEFINE i == strchr(text, Colon)
<1>1. i = 0 \/ (i \in 1 .. Len(text) /\ text[i] = Colon)
  BY strchrFinds
<1>2. PICK n \in Nat : n = Len(text)
  OBVIOUS
<1>3. <<>> \in Seq(Char) /\ Len(<<>>) = 0
  OBVIOUS
<1>4. Word(<<>>, Blanks) = <<>>
  <2>1. \A j \in 1 .. Len(<<>>) : <<>>[j] \in Blanks
    BY <1>3
  <2>2. QED
    BY <1>3, <2>1, NoWord
<1>5. CASE i = 0
  <2>1. c = text
    BY <1>5 DEF SplitAtColon
  <2>2. CASE n = 0
    <3>1. \A j \in 1 .. Len(c) : c[j] \in Blanks
      BY <1>2, <2>1, <2>2
    <3>2. QED
      BY <2>1, <3>1, NoWord
  <2>3. CASE n > 0
    <3>1. 1 \in Nat \ {0} /\ 1 <= n /\ n <= Len(c) /\ n = Len(c) /\ c \in Seq(Char)
      BY <1>2, <2>1, <2>3
    <3>2. (\A j \in 1 .. 1 - 1 : c[j] \in Blanks) /\ (\A j \in 1 .. n : c[j] \notin Blanks)
      BY <1>2, <2>1
    <3>3. AfterWord(c, Blanks) = SubSeq(c, n + 1, Len(c))
      BY <3>1, <3>2, WordIs
    <3>4. SubSeq(c, n + 1, n) = <<>>
      BY <3>1, EmptyPiece
    <3>5. QED
      BY <1>4, <3>1, <3>3, <3>4
  <2>4. QED
    BY <1>2, <2>2, <2>3
<1>6. CASE i = 1 /\ 1 <= n
  <2>1. c = ReplaceAt(text, 1, Space) /\ 1 \in 1 .. Len(text)
    BY <1>2, <1>6 DEF SplitAtColon
  <2>2. /\ c \in Seq(Char) /\ Len(c) = n /\ c[1] = Space
        /\ \A j \in 1 .. n : j # 1 => c[j] = text[j]
    BY <1>2, <2>1, Replaced
  <2>3. CASE n = 1
    <3>1. \A j \in 1 .. Len(c) : c[j] \in Blanks
      BY <2>2, <2>3, BlankFacts
    <3>2. QED
      BY <2>2, <3>1, NoWord
  <2>4. CASE n > 1
    <3>1. 2 \in Nat \ {0} /\ 2 <= n /\ n <= Len(c) /\ n = Len(c)
      BY <2>2, <2>4
    <3>2. (\A j \in 1 .. 2 - 1 : c[j] \in Blanks) /\ (\A j \in 2 .. n : c[j] \notin Blanks)
      BY <1>2, <2>2, BlankFacts
    <3>3. AfterWord(c, Blanks) = SubSeq(c, n + 1, Len(c))
      BY <2>2, <3>1, <3>2, WordIs
    <3>4. SubSeq(c, n + 1, n) = <<>>
      BY <2>2, <3>1, EmptyPiece
    <3>5. QED
      BY <1>4, <3>1, <3>3, <3>4
  <2>5. QED
    BY <1>6, <2>3, <2>4
<1>7. CASE i = n /\ 2 <= n
  <2>1. c = ReplaceAt(text, n, Space) /\ n \in 1 .. Len(text)
    BY <1>2, <1>7 DEF SplitAtColon
  <2>2. /\ c \in Seq(Char) /\ Len(c) = n /\ c[n] = Space
        /\ \A j \in 1 .. n : j # n => c[j] = text[j]
    BY <1>2, <2>1, Replaced
  <2>3. PICK b \in Nat : b = n - 1 /\ b + 1 = n /\ 1 <= b /\ b <= Len(c)
    BY <1>7, <2>2
  <2>4. (\A j \in 1 .. 1 - 1 : c[j] \in Blanks) /\ (\A j \in 1 .. b : c[j] \notin Blanks)
    BY <1>2, <2>2, <2>3
  <2>5. b = Len(c) \/ c[b + 1] \in Blanks
    BY <2>2, <2>3, BlankFacts
  <2>6. AfterWord(c, Blanks) = SubSeq(c, b + 1, Len(c))
    <3>1. c \in Seq(Char) /\ 1 \in Nat \ {0} /\ 1 <= b /\ b <= Len(c)
      BY <2>2, <2>3
    <3>2. QED
      BY <2>4, <2>5, <3>1, WordIs
  <2>7. PICK d : d = SubSeq(c, n, n)
    OBVIOUS
  <2>8. d \in Seq(Char) /\ Len(d) = n + 1 - n /\ \A j \in 1 .. n + 1 - n : d[j] = c[n - 1 + j]
    <3>1. n \in Nat \ {0} /\ n <= n + 1 /\ n <= Len(c)
      BY <1>7, <2>2
    <3>2. QED
      BY <2>2, <2>7, <3>1, Piece
  <2>9. \A j \in 1 .. Len(d) : d[j] \in Blanks
    BY <2>2, <2>8, BlankFacts
  <2>10. Word(d, Blanks) = <<>>
    BY <2>8, <2>9, NoWord
  <2>11. QED
    BY <2>2, <2>3, <2>6, <2>7, <2>10
<1>8. QED
  BY <1>1, <1>2, <1>5, <1>6, <1>7

\* Two words with a blank between them.
LEMMA FirstWord ==
    ASSUME NEW c \in Seq(Char), NEW b \in Nat, 1 <= b, b + 1 <= Len(c), c[b + 1] \in Blanks,
           \A j \in 1 .. Len(c) : j # b + 1 => c[j] \notin Blanks
    PROVE  Word(c, Blanks) = SubSeq(c, 1, b) /\ AfterWord(c, Blanks) = SubSeq(c, b + 1, Len(c))
<1>1. (\A j \in 1 .. 1 - 1 : c[j] \in Blanks) /\ (\A j \in 1 .. b : c[j] \notin Blanks)
  OBVIOUS
<1>2. 1 \in Nat \ {0} /\ b <= Len(c) /\ (b = Len(c) \/ c[b + 1] \in Blanks)
  OBVIOUS
<1>3. QED
  BY <1>1, <1>2, WordIs

LEMMA LastWord ==
    ASSUME NEW d \in Seq(Char), 2 <= Len(d), d[1] \in Blanks,
           \A j \in 2 .. Len(d) : d[j] \notin Blanks
    PROVE  Word(d, Blanks) = SubSeq(d, 2, Len(d))
<1>1. PICK n \in Nat : n = Len(d)
  OBVIOUS
<1>2. PICK a \in Nat \ {0} : a = 2
  OBVIOUS
<1>3. (\A j \in 1 .. a - 1 : d[j] \in Blanks) /\ (\A j \in a .. n : d[j] \notin Blanks)
  BY <1>1, <1>2
<1>4. a <= n /\ n <= Len(d) /\ (n = Len(d) \/ d[n + 1] \in Blanks)
  BY <1>1, <1>2
<1>5. Word(d, Blanks) = SubSeq(d, a, n)
  BY <1>3, <1>4, WordIs
<1>6. QED
  BY <1>1, <1>2, <1>5

LEMMA SecondWord ==
    ASSUME NEW c \in Seq(Char), NEW b \in Nat, 1 <= b, b + 1 < Len(c), c[b + 1] \in Blanks,
           \A j \in 1 .. Len(c) : j # b + 1 => c[j] \notin Blanks
    PROVE  Word(SubSeq(c, b + 1, Len(c)), Blanks) = SubSeq(c, b + 2, Len(c))
<1>1. PICK d : d = SubSeq(c, b + 1, Len(c))
  OBVIOUS
<1>2. b + 1 \in Nat \ {0} /\ Len(c) \in Nat /\ b + 1 <= Len(c) + 1 /\ Len(c) <= Len(c)
  OBVIOUS
<1>3. d \in Seq(Char) /\ Len(d) = Len(c) + 1 - (b + 1) /\ \A j \in 1 .. Len(c) + 1 - (b + 1) : d[j] = c[(b + 1) - 1 + j]
  BY <1>1, <1>2, Piece
<1>4. Len(d) = Len(c) - b /\ 2 <= Len(d)
  BY <1>3
<1>5. \A j \in 1 .. Len(d) : d[j] = c[b + j]
  BY <1>3, <1>4
<1>6. d[1] \in Blanks /\ \A j \in 2 .. Len(d) : d[j] \notin Blanks
  BY <1>4, <1>5
<1>7. Word(d, Blanks) = SubSeq(d, 2, Len(d))
  BY <1>3, <1>4, <1>6, LastWord
<1>8. SubSeq(d, 2, Len(d)) = SubSeq(c, (b + 1) - 1 + 2, (b + 1) - 1 + Len(d))
  <2>1. 2 \in Nat \ {0} /\ Len(d) \in Nat /\ 2 <= Len(d) + 1 /\ Len(d) <= Len(c) + 1 - (b + 1)
    BY <1>3, <1>4
  <2>2. SubSeq(SubSeq(c, b + 1, Len(c)), 2, Len(d)) = SubSeq(c, (b + 1) - 1 + 2, (b + 1) - 1 + Len(d))
    BY <1>2, <2>1, PieceOfPiece
  <2>3. QED
    BY <1>1, <2>2, Zenon
<1>9. (b + 1) - 1 + 2 = b + 2 /\ (b + 1) - 1 + Len(d) = Len(c)
  BY <1>4
<1>10. QED
  BY <1>1, <1>7, <1>8, <1>9, Zenon

\* With one they are the two parts.
LEMMA Split ==
    ASSUME NEW text \in Seq(Char), \A j \in 1 .. Len(text) : text[j] \notin Blanks,
           NEW b \in Nat, 1 <= b, b + 1 < Len(text), b + 1 = strchr(text, Colon), NEW c, c = SplitAtColon(text)
    PROVE  /\ Word(c, Blanks) = SubSeq(text, 1, b)
           /\ Word(AfterWord(c, Blanks), Blanks) = SubSeq(text, b + 2, Len(text))
<1>1. b + 1 \in 1 .. Len(text) /\ b + 1 # 0
  OBVIOUS
<1>2. c = ReplaceAt(text, b + 1, Space)
  BY <1>1, Zenon DEF SplitAtColon
<1>3. /\ c \in Seq(Char) /\ Len(c) = Len(text) /\ c[b + 1] = Space
      /\ \A j \in 1 .. Len(text) : j # b + 1 => c[j] = text[j]
  BY <1>1, <1>2, Replaced
<1>4. c[b + 1] \in Blanks /\ \A j \in 1 .. Len(c) : j # b + 1 => c[j] \notin Blanks
  BY <1>3, BlankFacts, Zenon
<1>5. b + 1 < Len(c) /\ b + 1 <= Len(c)
  BY <1>3
<1>6. Word(c, Blanks) = SubSeq(c, 1, b) /\ AfterWord(c, Blanks) = SubSeq(c, b + 1, Len(c))
  BY <1>3, <1>4, <1>5, FirstWord, Zenon
<1>7. Word(SubSeq(c, b + 1, Len(c)), Blanks) = SubSeq(c, b + 2, Len(c))
  BY <1>3, <1>4, <1>5, SecondWord, Zenon
<1>8. SubSeq(c, 1, b) = SubSeq(text, 1, b)
  <2>1. 1 \in Nat \ {0} /\ 1 <= b + 1 /\ b <= Len(c) /\ b <= Len(text)
    BY <1>3
  <2>2. \A j \in 1 .. b : c[j] = text[j]
    BY <1>3
  <2>3. QED
    BY <1>3, <2>1, <2>2, SamePiece
<1>9. SubSeq(c, b + 2, Len(text)) = SubSeq(text, b + 2, Len(text))
  <2>1. b + 2 \in Nat \ {0} /\ Len(text) \in Nat /\ b + 2 <= Len(text) + 1 /\ Len(text) <= Len(c) /\ Len(text) <= Len(text)
    BY <1>3
  <2>2. \A j \in b + 2 .. Len(text) : c[j] = text[j]
    BY <1>3
  <2>3. QED
    BY <1>3, <2>1, <2>2, SamePiece
<1>10. QED
  BY <1>3, <1>6, <1>7, <1>8, <1>9, Zenon

\* The two words are the name and the password of u if and only if the client
\* has sent those of u.
LEMMA SplitWords ==
    ASSUME NEW text \in Seq(Char), \A j \in 1 .. Len(text) : text[j] \notin Blanks,
           NEW u \in m_users, NEW c, c = SplitAtColon(text)
    PROVE  (Word(c, Blanks) = u.name /\ Word(AfterWord(c, Blanks), Blanks) = u.password)
               <=> text = Joint(u.name, u.password)
<1>1. PICK i : i = strchr(text, Colon)
  OBVIOUS
<1>2. i \in 0 .. Len(text) /\ (i # 0 => text[i] = Colon)
  BY <1>1, strchrFinds
<1>3. u.name # <<>> /\ u.password # <<>>
  BY UserFacts, Zenon
<1>4. CASE i \in 2 .. Len(text) - 1
  <2>1. /\ Word(c, Blanks) = SubSeq(text, 1, i - 1)
        /\ Word(AfterWord(c, Blanks), Blanks) = SubSeq(text, i + 1, Len(text))
    <3>1. PICK b \in Nat : b = i - 1 /\ 1 <= b /\ b + 1 < Len(text) /\ b + 1 = i /\ b + 2 = i + 1
      BY <1>4
    <3>2. /\ Word(c, Blanks) = SubSeq(text, 1, b)
          /\ Word(AfterWord(c, Blanks), Blanks) = SubSeq(text, b + 2, Len(text))
      BY <1>1, <3>1, Split, Zenon
    <3>3. QED
      BY <3>1, <3>2, Zenon
  <2>2. text = Joint(SubSeq(text, 1, i - 1), SubSeq(text, i + 1, Len(text)))
    <3>1. i \in 1 .. Len(text) /\ text[i] = Colon
      BY <1>2, <1>4
    <3>2. QED
      BY <3>1, CutAtColon
  <2>3. ASSUME text = Joint(u.name, u.password)
        PROVE  SubSeq(text, 1, i - 1) = u.name /\ SubSeq(text, i + 1, Len(text)) = u.password
    <3>1. /\ i = Len(u.name) + 1
          /\ SubSeq(text, 1, Len(u.name)) = u.name
          /\ SubSeq(text, Len(u.name) + 2, Len(text)) = u.password
      BY <1>1, <2>3, SentBy, Zenon
    <3>2. PICK k \in Nat : k = Len(u.name)
      BY UserFacts, LenProperties
    <3>3. i - 1 = k /\ i + 1 = k + 2
      BY <3>1, <3>2
    <3>4. QED
      BY <3>1, <3>2, <3>3, Zenon
  <2>4. QED
    BY <2>1, <2>2, <2>3, Zenon
<1>5. CASE i \notin 2 .. Len(text) - 1
  <2>1. Word(c, Blanks) = <<>> \/ Word(AfterWord(c, Blanks), Blanks) = <<>>
    BY <1>1, <1>5, NoSplit
  <2>2. ASSUME text = Joint(u.name, u.password) PROVE FALSE
    <3>1. PICK a \in Seq(Char) : a = u.name /\ Len(a) > 0
      BY UserFacts, Zenon
    <3>2. PICK b \in Seq(Char) : b = u.password /\ Len(b) > 0
      BY UserFacts, Zenon
    <3>3. Len(Joint(a, b)) = Len(a) + 1 + Len(b)
      BY JoinedText
    <3>4. Len(text) = Len(a) + 1 + Len(b)
      BY <2>2, <3>1, <3>2, <3>3, Zenon
    <3>5. i = Len(a) + 1
      BY <1>1, <2>2, <3>1, SentBy, Zenon
    <3>6. QED
      BY <1>5, <3>1, <3>2, <3>4, <3>5
  <2>3. QED
    BY <1>3, <2>1, <2>2, Zenon
<1>6. QED
  BY <1>4, <1>5

-----------------------------------------------------------------------------
(* The user, by name. *)

NoBlanks(text) == \A i \in DOMAIN text : text[i] \notin Blanks
Senders(text) == {u \in m_users : text = u.name \o <<Colon>> \o u.password}

\* The name is set once, at the end, and is that of a sender.
KnowsUser ==
    /\ pc # "done" => username = <<>>
    /\ pc = "done" => \A text \in TextsOf(source) : NoBlanks(text) =>
         /\ Senders(text) # {} => username # <<>>
         /\ username # <<>> => \E u \in Senders(text) : username = u.name

LEMMA KnowsUserInit == Init => KnowsUser
BY Zenon DEF Init, KnowsUser

LEMMA KnowsUserStep == DecodeInv /\ ReadInv /\ KnowsUser /\ [Next]_vars => KnowsUser'
<1> SUFFICES ASSUME DecodeInv, ReadInv, KnowsUser, [Next]_vars PROVE KnowsUser'
  OBVIOUS
<1>1. CASE Authenticate
  <2>1. PICK c, user, pass : /\ c = SplitAtColon(credString) /\ user = Word(c, Blanks)
                             /\ pass = Word(AfterWord(c, Blanks), Blanks)
    OBVIOUS
  <2>2. /\ username' = IF Authenticate_i(user, pass) THEN user ELSE <<>>
        /\ pc' = "done" /\ source' = source /\ pc = "decoded"
    BY <1>1, <2>1, Zenon DEF Authenticate
  <2>3. ASSUME NEW text \in TextsOf(source), NoBlanks(text), NEW u \in m_users
        PROVE  (user = u.name /\ pass = u.password) <=> u \in Senders(text)
    <3>1. text \in Seq(Char) /\ source = Encode(text)
      BY <2>3, TextsAre
    <3>2. credString = text
      BY <2>2, <3>1, CredentialsAreText, Zenon
    <3>3. \A j \in 1 .. Len(text) : text[j] \notin Blanks
      BY <2>3, <3>1 DEF NoBlanks
    <3>4. (user = u.name /\ pass = u.password) <=> text = Joint(u.name, u.password)
      BY <2>1, <3>1, <3>2, <3>3, SplitWords, Zenon
    <3>5. QED
      BY <3>4, Zenon DEF Senders, Joint
  <2>4. ASSUME NEW text \in TextsOf(source), NoBlanks(text)
        PROVE  /\ Senders(text) # {} => username' # <<>>
               /\ username' # <<>> => \E u \in Senders(text) : username' = u.name
    <3>1. \A u \in Senders(text) : u \in m_users
      BY Zenon DEF Senders
    <3>2. ASSUME NEW u \in Senders(text) PROVE username' # <<>>
      <4>1. user = u.name /\ pass = u.password
        BY <2>3, <2>4, <3>1, <3>2, Zenon
      <4>2. username' = u.name
        BY <2>2, <3>1, <4>1, Zenon DEF Authenticate_i
      <4>3. QED
        BY <3>1, <4>2, UserFacts, Zenon
    <3>3. ASSUME username' # <<>> PROVE \E u \in Senders(text) : username' = u.name
      <4>1. PICK u \in m_users : u.name = user /\ u.password = pass
        BY <2>2, <3>3, Zenon DEF Authenticate_i
      <4>2. username' = user
        BY <2>2, <3>3, Zenon
      <4>3. QED
        BY <2>3, <2>4, <4>1, <4>2, Zenon
    <3>4. QED
      BY <3>2, <3>3, Zenon
  <2>5. \A text \in TextsOf(source') : NoBlanks(text) =>
            /\ Senders(text) # {} => username' # <<>>
            /\ username' # <<>> => \E u \in Senders(text) : username' = u.name
    BY <2>2, <2>4, Zenon
  <2>6. QED
    BY <2>2, <2>5 DEF KnowsUser
<1>2. CASE Decode \/ InvalidCharacter \/ EndOfSource
  <2>1. pc = "decode" /\ pc' # "done" /\ username' = username
    BY <1>2 DEF Decode, InvalidCharacter, EndOfSource
  <2>2. QED
    BY <2>1, Zenon DEF KnowsUser
<1>3. CASE Returned \/ UNCHANGED vars
  <2>1. pc' = pc /\ username' = username /\ source' = source
    BY <1>3, Zenon DEF Returned, vars
  <2>2. QED
    BY <2>1, Zenon DEF KnowsUser
<1>4. QED
  BY <1>1, <1>2, <1>3, Zenon DEF Next

-----------------------------------------------------------------------------
(* Admission: the threads together. *)

\* What the request and the credentials know of each other.
AdmitInv ==
    /\ Served \/ pending # <<>> => stage \in {"relaying", "ended"}
    /\ stage = "detecting" => m_request = <<>>
    /\ stage = "failed" => Decided
    /\ stage \in {"relaying", "ended"} => Admitted

LEMMA EmptyRequest == m_request = <<>> => ~ HasCredentials
<1> SUFFICES ASSUME m_request = <<>> PROVE authString = 0
  BY Zenon DEF HasCredentials
<1>1. <<>> \in Seq({}) /\ Len(<<>>) = 0
  OBVIOUS
<1>2. strchr(<<>>, AuthHeader) \in 0 .. Len(<<>>)
  BY <1>1, strchrFinds
<1>3. QED
  BY <1>1, <1>2 DEF authString

LEMMA AdmitInit == AdmissionInit => AdmitInv
BY DEF AdmissionInit, AdmitInv, Request!Init, Served

LEMMA AdmitStep == AdmitInv /\ [AdmissionNext]_<<credentials, request>> => AdmitInv'
<1> SUFFICES ASSUME AdmitInv, [AdmissionNext]_<<credentials, request>> PROVE AdmitInv'
  OBVIOUS
<1>1. ASSUME UNCHANGED <<m_request, pc, username>>
      PROVE  (Decided' <=> Decided) /\ (Admitted' <=> Admitted)
  BY <1>1, Zenon DEF Decided, Admitted, HasCredentials, authString
<1>2. CASE Transport
  <2>1. UNCHANGED <<pc, username>>
    BY <1>2, Zenon DEF Transport, credentials, vars
  <2>2. CASE Request!ClientSends
    <3>1. UNCHANGED <<m_request, stage, answered, toServer, pending>>
      BY <2>2, Zenon DEF Request!ClientSends, Request!session, Request!relay
    <3>2. QED
      BY <1>1, <2>1, <3>1, Zenon DEF AdmitInv, Served
  <2>3. CASE Request!Relay
    <3>1. /\ UNCHANGED <<m_request, answered>>
          /\ stage = "relaying" \/ (pending # <<>> /\ UNCHANGED stage)
          /\ UNCHANGED stage \/ stage' = "ended"
      <4>1. CASE Request!RelayReads \/ Request!ReadEnds \/ Request!SessionEnds
        BY <4>1, Zenon
           DEF Request!RelayReads, Request!ReadEnds, Request!SessionEnds, Request!Idle, Request!session
      <4>2. CASE Request!WriteFails
        BY <4>2, Zenon DEF Request!WriteFails, Request!session
      <4>3. CASE Request!RelayWrites
        <5>1. Len(<<>>) = 0 /\ 1 .. 0 = {}
          OBVIOUS
        <5>2. pending # <<>>
          BY <4>3, <5>1, Zenon DEF Request!RelayWrites
        <5>3. QED
          BY <4>3, <5>2, Zenon DEF Request!RelayWrites, Request!session
      <4>4. QED
        BY <2>3, <4>1, <4>2, <4>3, Zenon DEF Request!Relay
    <3>2. stage \in {"relaying", "ended"} /\ stage' \in {"relaying", "ended"}
      BY <3>1, Zenon DEF AdmitInv
    <3>3. "relaying" # "detecting" /\ "relaying" # "failed" /\ "ended" # "detecting" /\ "ended" # "failed"
      OBVIOUS
    <3>4. Admitted'
      BY <1>1, <2>1, <3>1, <3>2, Zenon DEF AdmitInv
    <3>5. QED
      BY <3>2, <3>3, <3>4, Zenon DEF AdmitInv
  <2>4. CASE Request!DetectFails
    <3>1. UNCHANGED <<m_request, answered, toServer, pending>> /\ stage = "detecting" /\ stage' = "failed"
      BY <2>4, Zenon DEF Request!DetectFails, Request!session, Request!relay
    <3>2. Decided
      BY <3>1, EmptyRequest, Zenon DEF AdmitInv, Decided
    <3>3. QED
      BY <1>1, <2>1, <3>1, <3>2 DEF AdmitInv, Served
  <2>5. CASE Request!Detect
    <3>1. /\ UNCHANGED <<answered, toServer, pending>> /\ stage = "detecting"
          /\ (stage' = "failed" /\ UNCHANGED m_request) \/ stage' = "connecting"
      BY <2>5, Zenon DEF Request!Detect, Request!session, Request!relay
    <3>2. Decided
      BY <3>1, EmptyRequest, Zenon DEF AdmitInv, Decided
    <3>3. QED
      BY <1>1, <2>1, <3>1, <3>2 DEF AdmitInv, Served
  <2>6. QED
    BY <1>2, <2>2, <2>3, <2>4, <2>5, Zenon DEF Transport
<1>3. CASE AuthenticateRequest
  <2>1. UNCHANGED request /\ stage = "connecting"
    BY <1>3, Zenon DEF AuthenticateRequest
  <2>2. QED
    BY <2>1 DEF request, AdmitInv, Served
<1>4. CASE Reject
  <2>1. /\ UNCHANGED <<m_request, pc, username, answered, toServer, pending>>
        /\ Decided /\ stage = "connecting" /\ stage' = "failed"
    BY <1>4, Zenon DEF Reject, credentials, vars, Request!ConnectFails, Request!session, Request!relay
  <2>2. QED
    BY <1>1, <2>1 DEF AdmitInv, Served
<1>5. CASE Connect
  <2>1. UNCHANGED <<m_request, pc, username>> /\ Admitted /\ stage' = "relaying"
    BY <1>5, Zenon DEF Connect, credentials, vars, Request!Connect, Request!session
  <2>2. QED
    BY <1>1, <2>1 DEF AdmitInv
<1>6. CASE Quiet \/ UNCHANGED <<credentials, request>>
  <2>1. UNCHANGED <<m_request, pc, username, answered, toServer, stage, pending>>
    BY <1>6, Zenon DEF Quiet, credentials, vars, request
  <2>2. QED
    BY <1>1, <2>1, Zenon DEF AdmitInv, Served
<1>7. QED
  BY <1>2, <1>3, <1>4, <1>5, <1>6, Zenon DEF AdmissionNext

\* Admission does with the credentials what Credentials does.
LEMMA AdmissionSteps == [AdmissionNext]_<<credentials, request>> => [Next]_vars
BY Zenon DEF AdmissionNext, Transport, AuthenticateRequest, Reject, Connect, Quiet, credentials, Next

LEMMA AdmissionBegins == AdmissionInit => Init
BY DEF AdmissionInit

\* For every request and all credentials, and however the two threads and the
\* client interleave: who is served came with a header and is served under the
\* name of the user whose name and password it holds, and no user is turned away
\* before the name is known.
THEOREM ServedByName == AdmissionSpec => []ServedAsItsUser
<1>1. ASSUME DecodesText, KnowsUser, AdmitInv PROVE ServedAsItsUser
  <2> SUFFICES ASSUME NEW text \in TextsOf(source), HasCredentials, NoBlanks(text)
               PROVE  /\ Served => \E u \in Senders(text) : username = u.name
                      /\ Senders(text) # {} /\ stage = "failed" => username # <<>>
    BY Zenon DEF ServedAsItsUser, NoBlanks, Senders
  <2>1. authString # 0
    BY Zenon DEF HasCredentials
  <2>2. ASSUME Served PROVE \E u \in Senders(text) : username = u.name
    <3>1. pc = "done" /\ username # <<>>
      BY <1>1, <2>1, <2>2, Zenon DEF AdmitInv, Admitted
    <3>2. QED
      BY <1>1, <3>1, Zenon DEF KnowsUser
  <2>3. ASSUME Senders(text) # {}, stage = "failed" PROVE username # <<>>
    <3>1. pc \in {"invalid", "done"}
      BY <1>1, <2>3, Zenon DEF AdmitInv, Decided
    <3>2. pc = "done"
      BY <1>1, <3>1, Zenon DEF DecodesText
    <3>3. QED
      BY <1>1, <2>3, <3>2, Zenon DEF KnowsUser
  <2>4. QED
    BY <2>2, <2>3, Zenon
<1>2. AdmissionSpec => Spec
  BY AdmissionBegins, AdmissionSteps, PTL DEF AdmissionSpec, Spec
<1>3. QED
  BY <1>1, <1>2, DecodesEncodedText, DecodeInvInit, DecodeInvStep, ReadInit, ReadStep, KnowsUserInit, KnowsUserStep,
     AdmitInit, AdmitStep, PTL DEF Spec, AdmissionSpec

-----------------------------------------------------------------------------
(* ProxyRequest has the functions of Text under names of its own. *)

LEMMA SameMin == \A S : Request!Min(S) = Min(S)
BY DEF Request!Min, Min

LEMMA SameSkip == \A s, b : Request!SkipBlanks(s, b) = SkipBlanks(s, b)
BY SameMin, Zenon DEF Request!SkipBlanks, SkipBlanks, Request!SelectInSeq, SelectInSeq

LEMMA SameText ==
    /\ \A s, c : Request!strchr(s, c) = strchr(s, c)
    /\ \A s, b : Request!Word(s, b) = Word(s, b)
    /\ \A s, b : Request!AfterWord(s, b) = AfterWord(s, b)
    /\ \A s, i : Request!After(s, i) = After(s, i)
    /\ \A s, i : Request!Before(s, i) = Before(s, i)
    /\ \A s, t : Request!IsPrefix(s, t) <=> IsPrefix(s, t)
<1>1. \A s, c : Request!strchr(s, c) = strchr(s, c)
  BY SameMin, Zenon DEF Request!strchr, strchr, Request!SelectInSeq, SelectInSeq
<1>2. \A s, b : Request!WordLength(s, b) = WordLength(s, b)
  BY SameMin, Zenon DEF Request!WordLength, WordLength, Request!SelectInSeq, SelectInSeq
<1>3. \A s, i : Request!After(s, i) = After(s, i)
  BY DEF Request!After, After
<1>4. \A s, b : Request!Word(s, b) = Word(s, b)
  BY <1>2, SameSkip, Zenon DEF Request!Word, Word
<1>5. \A s, b : Request!AfterWord(s, b) = AfterWord(s, b)
  BY <1>2, <1>3, SameSkip, Zenon DEF Request!AfterWord, AfterWord
<1>6. \A s, i : Request!Before(s, i) = Before(s, i)
  BY DEF Request!Before, Before
<1>7. \A s, t : Request!IsPrefix(s, t) <=> IsPrefix(s, t)
  BY DEF Request!IsPrefix, IsPrefix
<1>8. QED
  BY <1>1, <1>3, <1>4, <1>5, <1>6, <1>7

-----------------------------------------------------------------------------
(* The pieces of a request. *)

Pieces ==
    {Request!Blank, Request!LineEnd, Request!Garbage, "http", ":", "/", "path", "HTTP/1.1"}
        \cup UNION {{r.method, r.host, r.port} \cup Range(r.headers) \cup Range(r.body) : r \in Requests}

LEMMA Literals ==
    /\ Request!Blank \in Pieces /\ Request!LineEnd \in Pieces /\ Request!Garbage \in Pieces
    /\ "http" \in Pieces /\ ":" \in Pieces /\ "/" \in Pieces /\ "path" \in Pieces /\ "HTTP/1.1" \in Pieces
BY DEF Pieces

LEMMA PiecesOf ==
    ASSUME NEW r \in Requests
    PROVE  /\ r.method \in Pieces /\ r.host \in Pieces /\ r.port \in Pieces
           /\ r.headers \in Seq(Pieces) /\ r.body \in Seq(Pieces)
<1>1. /\ r.method \in Pieces /\ r.host \in Pieces /\ r.port \in Pieces
      /\ Range(r.headers) \subseteq Pieces /\ Range(r.body) \subseteq Pieces
  BY DEF Pieces
<1>2. r.headers \in Seq(Range(r.headers)) /\ r.body \in Seq(Range(r.body))
  BY RequestsAssumption, Zenon
<1>3. ASSUME NEW R, R \subseteq Pieces, NEW s \in Seq(R) PROVE s \in Seq(Pieces)
  BY <1>3
<1>4. QED
  BY <1>1, <1>2, <1>3, Zenon

LEMMA PieceFacts ==
    ASSUME NEW r \in Requests, Request!IsRelayed(r)
    PROVE  /\ r.method \in {"CONNECT", "GET", "POST"}
           /\ r.host \notin Request!Blanks /\ r.host \notin {Request!NUL, ":", "/"}
           /\ r.port \notin Request!Blanks /\ r.port # Request!NUL
<1>1. r.method \in {"CONNECT", "GET", "POST"}
  BY DEF Request!IsRelayed
<1>2. r.host \notin Request!Blanks \cup {Request!NUL, ":", "/"} /\ r.port \in DOMAIN Request!Number \cup {Request!NoPort}
  BY RequestsAssumption, Zenon
<1>3. r.port \in {"443", "8080", "70000", "none"}
  <2>1. DOMAIN Request!Number = {"443", "8080", "70000"}
    BY SMT DEF Request!Number
  <2>2. QED
    BY <1>2, <2>1, Zenon DEF Request!NoPort
<1>4. r.port \notin Request!Blanks /\ r.port # Request!NUL
  BY <1>3, Zenon DEF Request!Blanks, Request!Blank, Request!LineEnd, Request!NUL
<1>5. QED
  BY <1>1, <1>2, <1>4, Zenon

LEMMA JoinOne == ASSUME NEW E, NEW h \in E, NEW t, t = <<h>> \o <<>>
    PROVE  t \in Seq(E) /\ Len(t) = 1 /\ t[1] = h
OBVIOUS

LEMMA JoinThree == ASSUME NEW E, NEW h \in E, NEW c \in E, NEW p \in E, NEW t, t = <<h>> \o <<c, p>>
    PROVE  t \in Seq(E) /\ Len(t) = 3 /\ t[1] = h /\ t[2] = c /\ t[3] = p
OBVIOUS

LEMMA JoinScheme ==
    ASSUME NEW E, NEW a \in E, NEW b \in E, NEW c \in E, NEW h \in E, NEW t, t = <<a, b, c, c>> \o <<h>>
    PROVE  t \in Seq(E) /\ Len(t) = 5 /\ t[1] = a /\ t[2] = b /\ t[3] = c /\ t[4] = c /\ t[5] = h
OBVIOUS

LEMMA JoinPath ==
    ASSUME NEW E, NEW s \in Seq(E), NEW p \in Seq(E), NEW c \in E, NEW d \in E, NEW t, t = s \o p \o <<c, d>>
    PROVE  /\ t \in Seq(E) /\ Len(t) = Len(s) + Len(p) + 2
           /\ \A j \in 1 .. Len(s) : t[j] = s[j]
           /\ t[Len(s) + Len(p) + 1] = c /\ t[Len(s) + Len(p) + 2] = d
OBVIOUS

LEMMA JoinLine ==
    ASSUME NEW E, NEW m \in E, NEW bl \in E, NEW v \in E, NEW le \in E, NEW u \in Seq(E), NEW t,
           t = <<m, bl>> \o u \o <<bl, v, le>>
    PROVE  /\ t \in Seq(E) /\ Len(t) = Len(u) + 5 /\ t[1] = m /\ t[2] = bl
           /\ \A j \in 1 .. Len(u) : t[2 + j] = u[j]
           /\ t[Len(u) + 3] = bl /\ t[Len(u) + 4] = v /\ t[Len(u) + 5] = le
OBVIOUS

LEMMA TunnelUrl ==
    ASSUME NEW r \in Requests, Request!Tunnels(r), NEW u, u = Request!Url(r)
    PROVE  /\ u \in Seq(Pieces) /\ u[1] = r.host
           /\ r.port = Request!NoPort => Len(u) = 1
           /\ r.port # Request!NoPort => Len(u) = 3 /\ u[2] = ":" /\ u[3] = r.port
<1>1. r.host \in Pieces /\ r.port \in Pieces /\ ":" \in Pieces
  BY PiecesOf, Literals, Zenon
<1>2. CASE r.port = Request!NoPort
  <2>1. u = <<r.host>> \o <<>>
    BY <1>2, Zenon DEF Request!Url, Request!Tunnels
  <2>2. QED
    BY <1>1, <1>2, <2>1, JoinOne
<1>3. CASE r.port # Request!NoPort
  <2>1. u = <<r.host>> \o <<":", r.port>>
    BY <1>3, Zenon DEF Request!Url, Request!Tunnels
  <2>2. PICK h \in Pieces : h = r.host
    BY <1>1
  <2>3. PICK p \in Pieces : p = r.port
    BY <1>1
  <2>4. PICK c \in Pieces : c = ":"
    BY <1>1, Zenon
  <2>5. u = <<h>> \o <<c, p>>
    BY <2>1, <2>2, <2>3, <2>4, Zenon
  <2>6. u \in Seq(Pieces) /\ Len(u) = 3 /\ u[1] = h /\ u[2] = c /\ u[3] = p
    BY <2>5, JoinThree
  <2>7. QED
    BY <1>3, <2>2, <2>3, <2>4, <2>6, Zenon
<1>4. QED
  BY <1>2, <1>3

LEMMA PageUrl ==
    ASSUME NEW r \in Requests, ~ Request!Tunnels(r), NEW u, u = Request!Url(r)
    PROVE  /\ u \in Seq(Pieces)
           /\ r.port = Request!NoPort =>
                /\ Len(u) = 7 /\ u[1] = "http" /\ u[2] = ":" /\ u[3] = "/" /\ u[4] = "/"
                /\ u[5] = r.host /\ u[6] = "/" /\ u[7] = "path"
<1>1. PICK h \in Pieces : h = r.host
  BY PiecesOf, Zenon
<1>2. PICK p \in Pieces : p = r.port
  BY PiecesOf, Zenon
<1>3. PICK co \in Pieces : co = ":"
  BY Literals, Zenon
<1>4. PICK sl \in Pieces : sl = "/"
  BY Literals, Zenon
<1>5. PICK ht \in Pieces : ht = "http"
  BY Literals, Zenon
<1>6. PICK pa \in Pieces : pa = "path"
  BY Literals, Zenon
<1>7. PICK port : port = IF p = Request!NoPort THEN <<>> ELSE <<co, p>>
  OBVIOUS
<1>8. port \in Seq(Pieces) /\ (p = Request!NoPort => Len(port) = 0)
  BY <1>7
<1>9. PICK s : s = <<ht, co, sl, sl>> \o <<h>>
  OBVIOUS
<1>10. s \in Seq(Pieces) /\ Len(s) = 5 /\ s[1] = ht /\ s[2] = co /\ s[3] = sl /\ s[4] = sl /\ s[5] = h
  BY <1>9, JoinScheme
<1>11. u = s \o port \o <<sl, pa>>
  BY <1>1, <1>2, <1>3, <1>4, <1>5, <1>6, <1>7, <1>9, Zenon DEF Request!Url, Request!Tunnels, Request!Scheme
<1>12. /\ u \in Seq(Pieces) /\ Len(u) = Len(s) + Len(port) + 2
       /\ \A j \in 1 .. Len(s) : u[j] = s[j]
       /\ u[Len(s) + Len(port) + 1] = sl /\ u[Len(s) + Len(port) + 2] = pa
  <2>1. s \in Seq(Pieces) /\ port \in Seq(Pieces)
    BY <1>8, <1>10
  <2>2. QED
    BY <1>11, <2>1, JoinPath
<1>13. ASSUME p = Request!NoPort
       PROVE  Len(u) = 7 /\ u[1] = ht /\ u[2] = co /\ u[3] = sl /\ u[4] = sl /\ u[5] = h /\ u[6] = sl /\ u[7] = pa
  <2>1. Len(s) = 5 /\ Len(port) = 0
    BY <1>8, <1>10, <1>13
  <2>2. QED
    BY <1>10, <1>12, <2>1
<1>14. QED
  BY <1>1, <1>2, <1>3, <1>4, <1>5, <1>6, <1>12, <1>13, Zenon

\* The line, whatever the method.
LEMMA LineShape ==
    ASSUME NEW r \in Requests
    PROVE  LET u == Request!Url(r)
               t == Request!RequestLine(r)
           IN  /\ u \in Seq(Pieces) /\ t \in Seq(Pieces) /\ Len(t) = Len(u) + 5
               /\ t[1] = r.method /\ t[2] = Request!Blank
               /\ \A j \in 1 .. Len(u) : t[2 + j] = u[j]
               /\ t[Len(u) + 3] = Request!Blank /\ t[Len(u) + 4] = "HTTP/1.1" /\ t[Len(u) + 5] = Request!LineEnd
<1>1. PICK u : u = Request!Url(r)
  OBVIOUS
<1>2. PICK t : t = Request!RequestLine(r)
  OBVIOUS
<1>3. u \in Seq(Pieces)
  BY <1>1, TunnelUrl, PageUrl, Zenon
<1>4. PICK m \in Pieces : m = r.method
  BY PiecesOf, Zenon
<1>5. PICK bl \in Pieces : bl = Request!Blank
  BY Literals, Zenon
<1>6. PICK v \in Pieces : v = "HTTP/1.1"
  BY Literals, Zenon
<1>7. PICK le \in Pieces : le = Request!LineEnd
  BY Literals, Zenon
<1>8. t = <<m, bl>> \o u \o <<bl, v, le>>
  BY <1>1, <1>2, <1>4, <1>5, <1>6, <1>7, Zenon DEF Request!RequestLine
<1>9. /\ t \in Seq(Pieces) /\ Len(t) = Len(u) + 5 /\ t[1] = m /\ t[2] = bl
      /\ \A j \in 1 .. Len(u) : t[2 + j] = u[j]
      /\ t[Len(u) + 3] = bl /\ t[Len(u) + 4] = v /\ t[Len(u) + 5] = le
  BY <1>3, <1>8, JoinLine
<1>10. QED
  BY <1>1, <1>2, <1>3, <1>4, <1>5, <1>6, <1>7, <1>9, Zenon

\* Nothing in the line of a tunnel or a page ends a string.
LEMMA NoZeroInLine ==
    ASSUME NEW r \in Requests, Request!IsRelayed(r), Request!Tunnels(r) \/ r.port = Request!NoPort,
           NEW t, t = Request!RequestLine(r)
    PROVE  \A j \in 1 .. Len(t) : t[j] # Request!NUL
<1>1. PICK u : u = Request!Url(r)
  OBVIOUS
<1>2. /\ u \in Seq(Pieces) /\ t \in Seq(Pieces) /\ Len(t) = Len(u) + 5
      /\ t[1] = r.method /\ t[2] = Request!Blank
      /\ \A j \in 1 .. Len(u) : t[2 + j] = u[j]
      /\ t[Len(u) + 3] = Request!Blank /\ t[Len(u) + 4] = "HTTP/1.1" /\ t[Len(u) + 5] = Request!LineEnd
  BY <1>1, LineShape, Zenon
<1>3. \A j \in 1 .. Len(u) : u[j] # Request!NUL
  <2>1. /\ r.host # Request!NUL /\ r.port # Request!NUL
        /\ \A x \in {"http", ":", "/", "path"} : x # Request!NUL
    BY PieceFacts, Zenon DEF Request!NUL
  <2>2. CASE Request!Tunnels(r) /\ r.port = Request!NoPort
    <3>1. Len(u) = 1 /\ u[1] = r.host
      BY <1>1, <2>2, TunnelUrl, Zenon
    <3>2. \A j \in 1 .. 1 : j = 1
      OBVIOUS
    <3>3. QED
      BY <2>1, <3>1, <3>2, Zenon
  <2>3. CASE Request!Tunnels(r) /\ r.port # Request!NoPort
    <3>1. Len(u) = 3 /\ u[1] = r.host /\ u[2] = ":" /\ u[3] = r.port
      BY <1>1, <2>3, TunnelUrl, Zenon
    <3>2. \A j \in 1 .. 3 : j = 1 \/ j = 2 \/ j = 3
      OBVIOUS
    <3>3. QED
      BY <2>1, <3>1, <3>2, Zenon
  <2>4. CASE ~ Request!Tunnels(r)
    <3>1. /\ Len(u) = 7 /\ u[1] = "http" /\ u[2] = ":" /\ u[3] = "/" /\ u[4] = "/"
          /\ u[5] = r.host /\ u[6] = "/" /\ u[7] = "path"
      BY <1>1, <2>4, PageUrl, Zenon
    <3>2. \A j \in 1 .. 7 : j = 1 \/ j = 2 \/ j = 3 \/ j = 4 \/ j = 5 \/ j = 6 \/ j = 7
      OBVIOUS
    <3>3. QED
      BY <2>1, <3>1, <3>2, Zenon
  <2>5. QED
    BY <2>2, <2>3, <2>4, Zenon
<1>4. r.method # Request!NUL /\ Request!Blank # Request!NUL /\ "HTTP/1.1" # Request!NUL /\ Request!LineEnd # Request!NUL
  BY PieceFacts, Zenon DEF Request!NUL, Request!Blank, Request!LineEnd
<1>5. PICK n \in Nat : n = Len(u)
  BY <1>2
<1>6. ASSUME NEW j \in 1 .. n + 5 PROVE t[j] # Request!NUL
  <2>1. CASE j \in 3 .. n + 2
    <3>1. PICK i : i = j - 2
      OBVIOUS
    <3>2. i \in 1 .. n /\ 2 + i = j
      BY <2>1, <3>1
    <3>3. QED
      BY <1>2, <1>3, <1>5, <3>2, Zenon
  <2>2. CASE j \notin 3 .. n + 2
    <3>1. j = 1 \/ j = 2 \/ j = n + 3 \/ j = n + 4 \/ j = n + 5
      BY <2>2
    <3>2. QED
      BY <1>2, <1>4, <1>5, <3>1, Zenon
  <2>3. QED
    BY <2>1, <2>2
<1>7. QED
  BY <1>2, <1>5, <1>6, Zenon

LEMMA JoinMessage ==
    ASSUME NEW E, NEW l \in Seq(E), NEW hs \in Seq(E), NEW bo \in Seq(E), NEW le \in E,
           NEW h, h = l \o hs \o <<le>>, NEW m, m = h \o bo
    PROVE  /\ m \in Seq(E) /\ Len(l) <= Len(m)
           /\ \A j \in 1 .. Len(l) : m[j] = l[j]
<1>1. h \in Seq(E) /\ Len(h) = Len(l) + Len(hs) + 1 /\ \A j \in 1 .. Len(l) : h[j] = l[j]
  OBVIOUS
<1>2. m \in Seq(E) /\ Len(m) = Len(h) + Len(bo) /\ \A j \in 1 .. Len(h) : m[j] = h[j]
  <2>1. h \in Seq(E)
    BY <1>1
  <2>2. QED
    BY <2>1
<1>3. Len(l) <= Len(h) /\ \A j \in 1 .. Len(l) : m[j] = l[j]
  <2>1. Len(l) \in Nat /\ Len(hs) \in Nat
    OBVIOUS
  <2>2. Len(l) <= Len(h) /\ \A j \in 1 .. Len(l) : j \in 1 .. Len(h)
    BY <1>1, <2>1
  <2>3. QED
    BY <1>1, <1>2, <2>2, Zenon
<1>4. Len(h) <= Len(m)
  BY <1>1, <1>2
<1>5. QED
  BY <1>1, <1>2, <1>3, <1>4

\* What a client says: its line is the beginning of it.
LEMMA MessageShape ==
    ASSUME NEW r \in Requests
    PROVE  LET l == Request!RequestLine(r)
               m == Request!Message(r)
           IN  /\ l \in Seq(Pieces) /\ m \in Seq(Pieces) /\ Len(l) \in Nat /\ Len(m) \in Nat /\ Len(l) <= Len(m)
               /\ \A j \in 1 .. Len(l) : m[j] = l[j]
<1>1. PICK l : l = Request!RequestLine(r)
  OBVIOUS
<1>2. l \in Seq(Pieces) /\ Len(l) \in Nat
  <2>1. l \in Seq(Pieces)
    BY <1>1, LineShape, Zenon
  <2>2. QED
    BY <2>1
<1>3. PICK hs \in Seq(Pieces) : hs = r.headers
  BY PiecesOf, Zenon
<1>4. PICK bo \in Seq(Pieces) : bo = r.body
  BY PiecesOf, Zenon
<1>5. PICK le \in Pieces : le = Request!LineEnd
  BY Literals, Zenon
<1>6. PICK h : h = l \o hs \o <<le>>
  OBVIOUS
<1>7. PICK m : m = h \o bo
  OBVIOUS
<1>8. h = Request!Header(r) /\ m = Request!Message(r)
  BY <1>1, <1>3, <1>4, <1>5, <1>6, <1>7, Zenon DEF Request!Message, Request!Header
<1>9. m \in Seq(Pieces) /\ Len(l) <= Len(m) /\ \A j \in 1 .. Len(l) : m[j] = l[j]
  <2>1. l \in Seq(Pieces)
    BY <1>2
  <2>2. QED
    BY <1>6, <1>7, <2>1, JoinMessage
<1>10. Len(m) \in Nat
  BY <1>9
<1>11. QED
  BY <1>1, <1>2, <1>8, <1>9, <1>10, Zenon

-----------------------------------------------------------------------------
(* What asyncDetector makes of it. *)

LEMMA StringOf ==
    ASSUME NEW piece \in Seq(Pieces), NEW n \in Nat, n <= Len(piece), \A j \in 1 .. n : piece[j] # Request!NUL,
           NEW buf \in Request!Strings(piece)
    PROVE  /\ buf \in Seq(Pieces) /\ n <= Len(buf)
           /\ \A j \in 1 .. n : buf[j] = piece[j]
<1>1. PICK i : i = strchr(piece, Request!NUL)
  OBVIOUS
<1>2. i \in 0 .. Len(piece) /\ (i # 0 => piece[i] = Request!NUL)
  BY <1>1, strchrFinds
<1>3. i = 0 \/ i > n
  BY <1>2
<1>4. PICK s : s = Before(piece, i)
  OBVIOUS
<1>5. s \in Seq(Pieces) /\ n <= Len(s) /\ (\A j \in 1 .. n : s[j] = piece[j])
  <2>1. CASE i = 0
    BY <1>4, <2>1 DEF Before
  <2>2. CASE i # 0
    <3>1. s = SubSeq(piece, 1, i - 1)
      BY <1>4, <2>2 DEF Before
    <3>2. PICK k \in Nat : k = i - 1 /\ n <= k /\ k < Len(piece)
      BY <1>2, <1>3, <2>2
    <3>3. s \in Seq(Pieces) /\ Len(s) = k + 1 - 1 /\ \A j \in 1 .. k + 1 - 1 : s[j] = piece[1 - 1 + j]
      <4>1. 1 \in Nat \ {0} /\ 1 <= k + 1 /\ k <= Len(piece)
        BY <3>2
      <4>2. SubSeq(piece, 1, k) = s
        BY <3>1, <3>2, Zenon
      <4>3. QED
        BY <4>1, <4>2, Piece
    <3>4. QED
      BY <3>2, <3>3
  <2>3. QED
    BY <2>1, <2>2
<1>6. buf = s \/ (buf = s \o <<Request!Garbage>> /\ Len(piece) = BufferSize)
  <2>1. s = Request!Before(piece, Request!strchr(piece, Request!NUL))
    BY <1>1, <1>4, SameText, Zenon
  <2>2. QED
    BY <2>1 DEF Request!Strings
<1>7. CASE buf = s
  BY <1>5, <1>7
<1>8. CASE buf = s \o <<Request!Garbage>> /\ Len(piece) = BufferSize
  <2>1. PICK g \in Pieces : g = Request!Garbage
    BY Literals, Zenon
  <2>2. <<g>> \in Seq(Pieces) /\ Len(<<g>>) = 1
    OBVIOUS
  <2>3. s \in Seq(Pieces) /\ buf = s \o <<g>>
    BY <1>5, <1>8, <2>1
  <2>4. buf \in Seq(Pieces) /\ Len(buf) = Len(s) + 1 /\ \A j \in 1 .. Len(s) : buf[j] = s[j]
    BY <2>2, <2>3, JoinTwo
  <2>5. n <= Len(buf) /\ \A j \in 1 .. n : j \in 1 .. Len(s)
    BY <1>5, <2>4
  <2>6. QED
    BY <1>5, <2>4, <2>5, Zenon
<1>9. QED
  BY <1>6, <1>7, <1>8

\* A string in a buffer that it does not fill is what is found there.
LEMMA WholeString ==
    ASSUME NEW piece \in Seq(Pieces), Request!IsString(piece), NEW buf \in Request!Strings(piece)
    PROVE  buf = piece
<1>1. Request!strchr(piece, Request!NUL) = 0 /\ Len(piece) # BufferSize
  <2>1. Len(piece) < BufferSize /\ Len(piece) \in Nat
    BY DEF Request!IsString
  <2>2. Len(piece) # BufferSize
    BY <2>1, BufferAssumption
  <2>3. QED
    BY <2>2, Zenon DEF Request!IsString
<1>2. Request!Before(piece, 0) = piece
  BY DEF Request!Before
<1>3. QED
  BY <1>1, <1>2 DEF Request!Strings

LEMMA ModeIs ==
    ASSUME NEW E, NEW s \in Seq(E), NEW blanks, 2 <= Len(s), s[1] \notin blanks, s[2] \in blanks
    PROVE  Word(s, blanks) = <<s[1]>> /\ AfterWord(s, blanks) = SubSeq(s, 2, Len(s))
<1>1. PICK a \in Nat \ {0} : a = 1
  OBVIOUS
<1>2. PICK b \in Nat : b = 1
  OBVIOUS
<1>3. a <= b /\ b <= Len(s) /\ (b = Len(s) \/ s[b + 1] \in blanks)
  BY <1>1, <1>2
<1>4. (\A j \in 1 .. a - 1 : s[j] \in blanks) /\ (\A j \in a .. b : s[j] \notin blanks)
  BY <1>1, <1>2
<1>5. Word(s, blanks) = SubSeq(s, a, b) /\ AfterWord(s, blanks) = SubSeq(s, b + 1, Len(s))
  BY <1>3, <1>4, WordIs
<1>6. SubSeq(s, a, a) = <<s[a]>>
  <2>1. a <= Len(s)
    BY <1>1
  <2>2. QED
    BY <2>1, OnePiece
<1>7. b + 1 = 2 /\ a = b
  BY <1>1, <1>2
<1>8. QED
  BY <1>1, <1>5, <1>6, <1>7, Zenon

LEMMA LaterWord ==
    ASSUME NEW E, NEW d \in Seq(E), NEW blanks, NEW b \in Nat, 2 <= b, b < Len(d),
           d[1] \in blanks, \A j \in 2 .. b : d[j] \notin blanks, d[b + 1] \in blanks
    PROVE  Word(d, blanks) = SubSeq(d, 2, b)
<1>1. PICK a \in Nat \ {0} : a = 2
  OBVIOUS
<1>2. (\A j \in 1 .. a - 1 : d[j] \in blanks) /\ (\A j \in a .. b : d[j] \notin blanks)
  BY <1>1
<1>3. a <= b /\ b <= Len(d) /\ (b = Len(d) \/ d[b + 1] \in blanks)
  BY <1>1
<1>4. Word(d, blanks) = SubSeq(d, a, b)
  BY <1>2, <1>3, WordIs
<1>5. QED
  BY <1>1, <1>4

\* A piece of what is left when the first i have been taken away.
LEMMA Behind ==
    ASSUME NEW E, NEW s \in Seq(E), NEW i \in Nat, NEW a \in Nat \ {0}, NEW b \in Nat,
           a <= b + 1, i + b <= Len(s)
    PROVE  SubSeq(SubSeq(s, i + 1, Len(s)), a, b) = SubSeq(s, i + a, i + b)
<1>1. i + 1 \in Nat \ {0} /\ Len(s) \in Nat /\ i + 1 <= Len(s) + 1 /\ Len(s) <= Len(s) /\ b <= Len(s) + 1 - (i + 1)
  OBVIOUS
<1>2. SubSeq(SubSeq(s, i + 1, Len(s)), a, b) = SubSeq(s, (i + 1) - 1 + a, (i + 1) - 1 + b)
  BY <1>1, PieceOfPiece
<1>3. (i + 1) - 1 + a = i + a /\ (i + 1) - 1 + b = i + b
  OBVIOUS
<1>4. QED
  BY <1>2, <1>3, Zenon

\* The text from its third piece on: what comes behind the method.
LEMMA BehindMode ==
    ASSUME NEW E, NEW s \in Seq(E), NEW blanks, NEW k \in Nat, 3 <= k, k < Len(s),
           s[2] \in blanks, \A j \in 3 .. k : s[j] \notin blanks, s[k + 1] \in blanks
    PROVE  LET t == SubSeq(s, 2, Len(s))
           IN  Word(t, blanks) = SubSeq(s, 3, k) /\ SkipBlanks(t, blanks) = SubSeq(s, 3, Len(s))
<1>1. PICK t : t = SubSeq(s, 2, Len(s))
  OBVIOUS
<1>2. PICK n \in Nat : n = Len(s) /\ k < n
  OBVIOUS
<1>3. t \in Seq(E) /\ Len(t) = n - 1 /\ \A j \in 1 .. n - 1 : t[j] = s[1 + j]
  <2>1. PICK p \in Nat \ {0} : p = 2
    OBVIOUS
  <2>2. p <= n + 1 /\ n <= Len(s) /\ n + 1 - p = n - 1 /\ p - 1 = 1
    BY <1>2, <2>1
  <2>3. t = SubSeq(s, p, n)
    BY <1>1, <1>2, <2>1
  <2>4. t \in Seq(E) /\ Len(t) = n + 1 - p /\ \A j \in 1 .. n + 1 - p : t[j] = s[p - 1 + j]
    BY <2>2, <2>3, Piece
  <2>5. QED
    BY <2>2, <2>4, Zenon
<1>4. PICK b \in Nat : b = k - 1 /\ 2 <= b /\ b < n - 1
  BY <1>2
<1>5. PICK a \in Nat \ {0} : a = 2
  OBVIOUS
<1>6. \A j \in 1 .. a - 1 : t[j] \in blanks
  <2>1. 1 \in 1 .. n - 1 /\ 1 + 1 = 2 /\ \A j \in 1 .. a - 1 : j = 1
    BY <1>2, <1>5
  <2>2. QED
    BY <1>3, <2>1, Zenon
<1>7. \A j \in a .. b : t[j] \notin blanks
  <2>1. \A j \in a .. b : j \in 1 .. n - 1 /\ 1 + j \in 3 .. k
    BY <1>4, <1>5
  <2>2. QED
    BY <1>3, <2>1, Zenon
<1>8. t[b + 1] \in blanks
  <2>1. b + 1 \in 1 .. n - 1 /\ 1 + (b + 1) = k + 1
    BY <1>4
  <2>2. QED
    BY <1>3, <2>1, Zenon
<1>9. a <= b /\ b <= Len(t) /\ a \in 1 .. Len(t)
  BY <1>3, <1>4, <1>5
<1>10. Word(t, blanks) = SubSeq(t, a, b)
  <2>1. t \in Seq(E) /\ 2 <= b /\ b < Len(t)
    BY <1>3, <1>4
  <2>2. t[1] \in blanks /\ \A j \in 2 .. b : t[j] \notin blanks
    BY <1>5, <1>6, <1>7
  <2>3. Word(t, blanks) = SubSeq(t, 2, b)
    BY <1>8, <2>1, <2>2, LaterWord
  <2>4. QED
    BY <1>5, <2>3
<1>11. SkipBlanks(t, blanks) = SubSeq(t, a, Len(t))
  <2>1. a \in a .. b
    BY <1>9
  <2>2. t[a] \notin blanks
    BY <1>7, <2>1, Zenon
  <2>3. QED
    BY <1>3, <1>6, <1>9, <2>2, SkipIs
<1>12. SubSeq(t, a, b) = SubSeq(s, 3, k) /\ SubSeq(t, a, n - 1) = SubSeq(s, 3, n)
  <2>1. PICK i \in Nat : i = 1
    OBVIOUS
  <2>2. t = SubSeq(s, i + 1, Len(s))
    BY <1>1, <2>1
  <2>3. PICK c \in Nat : c = n - 1
    BY <1>4
  <2>4. a <= b + 1 /\ i + b <= Len(s) /\ a <= c + 1 /\ i + c <= Len(s)
    BY <1>2, <1>4, <1>5, <2>1, <2>3
  <2>5. SubSeq(t, a, b) = SubSeq(s, i + a, i + b)
    BY <2>2, <2>4, Behind
  <2>6. SubSeq(t, a, c) = SubSeq(s, i + a, i + c)
    BY <2>2, <2>4, Behind
  <2>7. i + a = 3 /\ i + b = k /\ i + c = n
    BY <1>2, <1>4, <1>5, <2>1, <2>3
  <2>8. QED
    BY <2>3, <2>5, <2>6, <2>7, Zenon
<1>13. QED
  BY <1>1, <1>2, <1>3, <1>10, <1>11, <1>12, Zenon

LEMMA CutBeforeSecond ==
    ASSUME NEW E, NEW u \in Seq(E), NEW c, Len(u) >= 2, u[1] # c, u[2] = c
    PROVE  strchr(u, c) = 2 /\ Before(u, strchr(u, c)) = <<u[1]>>
<1>1. strchr(u, c) = 2
  <2>1. PICK i \in 1 .. Len(u) : i = 2
    OBVIOUS
  <2>2. u[i] = c /\ \A j \in 1 .. i - 1 : u[j] # c
    BY <2>1
  <2>3. strchr(u, c) = i
    BY <2>2, strchrIs
  <2>4. QED
    BY <2>1, <2>3
<1>2. Before(u, 2) = SubSeq(u, 1, 1)
  BY DEF Before
<1>3. SubSeq(u, 1, 1) = <<u[1]>>
  <2>1. 1 \in Nat \ {0} /\ 1 <= Len(u)
    OBVIOUS
  <2>2. QED
    BY <2>1, OnePiece
<1>4. QED
  BY <1>1, <1>2, <1>3, Zenon

\* A string that begins with the line of r.
Begins(r, buf) ==
    /\ buf \in Seq(Pieces) /\ Len(Request!RequestLine(r)) <= Len(buf)
    /\ \A j \in 1 .. Len(Request!RequestLine(r)) : buf[j] = Request!RequestLine(r)[j]

LEMMA BlankPieces ==
    /\ Request!Blank \in Request!Blanks /\ Request!LineEnd \in Request!Blanks
    /\ \A x \in {"CONNECT", "GET", "POST", "http", ":", "/", "path"} : x \notin Request!Blanks
BY Zenon DEF Request!Blanks, Request!Blank, Request!LineEnd

LEMMA LinePieces ==
    ASSUME NEW r \in Requests, Request!IsRelayed(r), NEW buf, Begins(r, buf)
    PROVE  LET u == Request!Url(r)
           IN  /\ buf \in Seq(Pieces) /\ Len(u) + 5 <= Len(buf) /\ u \in Seq(Pieces)
               /\ buf[1] = r.method /\ buf[2] = Request!Blank
               /\ \A j \in 1 .. Len(u) : buf[2 + j] = u[j]
               /\ buf[Len(u) + 3] = Request!Blank
<1>1. PICK t : t = Request!RequestLine(r)
  OBVIOUS
<1>2. PICK u : u = Request!Url(r)
  OBVIOUS
<1>3. /\ buf \in Seq(Pieces) /\ Len(t) <= Len(buf) /\ \A j \in 1 .. Len(t) : buf[j] = t[j]
  BY <1>1, Zenon DEF Begins
<1>4. /\ u \in Seq(Pieces) /\ t \in Seq(Pieces) /\ Len(t) = Len(u) + 5
      /\ t[1] = r.method /\ t[2] = Request!Blank
      /\ \A j \in 1 .. Len(u) : t[2 + j] = u[j]
      /\ t[Len(u) + 3] = Request!Blank
  BY <1>1, <1>2, LineShape, Zenon
<1>5. PICK n \in Nat : n = Len(u)
  BY <1>4
<1>6. /\ 1 \in 1 .. n + 5 /\ 2 \in 1 .. n + 5 /\ n + 3 \in 1 .. n + 5
      /\ \A j \in 1 .. n : 2 + j \in 1 .. n + 5
  OBVIOUS
<1>7. QED
  BY <1>2, <1>3, <1>4, <1>5, <1>6, Zenon

LEMMA DetectsMode ==
    ASSUME NEW r \in Requests, Request!IsRelayed(r), NEW buf, Begins(r, buf)
    PROVE  /\ Request!IsTransparent(buf) <=> ~ Request!Tunnels(r)
           /\ AfterWord(buf, Request!Blanks) = SubSeq(buf, 2, Len(buf))
<1>1. PICK u : u = Request!Url(r)
  OBVIOUS
<1>2. /\ buf \in Seq(Pieces) /\ Len(u) + 5 <= Len(buf) /\ u \in Seq(Pieces)
      /\ buf[1] = r.method /\ buf[2] = Request!Blank
  BY <1>1, LinePieces, Zenon
<1>3. 2 <= Len(buf)
  <2>1. Len(u) \in Nat /\ Len(buf) \in Nat /\ Len(u) + 5 <= Len(buf)
    BY <1>2
  <2>2. QED
    BY <2>1
<1>4. buf[1] \notin Request!Blanks /\ buf[2] \in Request!Blanks
  BY <1>2, PieceFacts, BlankPieces, Zenon
<1>5. Word(buf, Request!Blanks) = <<buf[1]>> /\ AfterWord(buf, Request!Blanks) = SubSeq(buf, 2, Len(buf))
  BY <1>2, <1>3, <1>4, ModeIs
<1>6. Request!Mode(buf) = <<r.method>>
  BY <1>2, <1>5, SameText, Zenon DEF Request!Mode
<1>7. \A x, y : <<x>> = <<y>> => x = y
  OBVIOUS
<1>8. Request!IsTransparent(buf) <=> r.method \in {"GET", "POST"}
  BY <1>6, <1>7, Zenon DEF Request!IsTransparent
<1>9. QED
  BY <1>5, <1>8, PieceFacts, Zenon DEF Request!Tunnels

\* The word behind the method is the url.
LEMMA UrlBack ==
    ASSUME NEW r \in Requests, Request!IsRelayed(r), NEW buf, Begins(r, buf), NEW u, u = Request!Url(r), Len(u) >= 1,
           \A j \in 1 .. Len(u) : u[j] \notin Request!Blanks
    PROVE  /\ Request!ConnectUrl(buf) = u
           /\ Request!SkipBlanks(Request!AfterWord(buf, Request!Blanks), Request!Blanks) = SubSeq(buf, 3, Len(buf))
<1>1. /\ buf \in Seq(Pieces) /\ Len(u) + 5 <= Len(buf) /\ u \in Seq(Pieces)
      /\ buf[2] = Request!Blank
      /\ \A j \in 1 .. Len(u) : buf[2 + j] = u[j]
      /\ buf[Len(u) + 3] = Request!Blank
  BY LinePieces, Zenon
<1>2. PICK n \in Nat : n = Len(u) /\ n >= 1 /\ n + 5 <= Len(buf)
  BY <1>1
<1>3. PICK k \in Nat : k = n + 2
  OBVIOUS
<1>4. 3 <= k /\ k < Len(buf) /\ k + 1 = n + 3
  BY <1>1, <1>2, <1>3
<1>5. ASSUME NEW j \in 3 .. k PROVE buf[j] \notin Request!Blanks
  <2>1. PICK i : i = j - 2
    OBVIOUS
  <2>2. i \in 1 .. n /\ 2 + i = j
    BY <1>3, <2>1
  <2>3. QED
    BY <1>1, <1>2, <2>2, Zenon
<1>6. buf[2] \in Request!Blanks /\ buf[k + 1] \in Request!Blanks
  BY <1>1, <1>2, <1>4, BlankPieces, Zenon
<1>7. PICK t : t = SubSeq(buf, 2, Len(buf))
  OBVIOUS
<1>8. Word(t, Request!Blanks) = SubSeq(buf, 3, k) /\ SkipBlanks(t, Request!Blanks) = SubSeq(buf, 3, Len(buf))
  BY <1>1, <1>4, <1>5, <1>6, <1>7, BehindMode
<1>9. SubSeq(buf, 3, k) = u
  <2>1. PICK w : w = SubSeq(buf, 3, k)
    OBVIOUS
  <2>2. PICK p \in Nat \ {0} : p = 3
    OBVIOUS
  <2>3. p <= k + 1 /\ k <= Len(buf) /\ k + 1 - p = n /\ p - 1 = 2
    BY <1>3, <1>4, <2>2
  <2>4. w = SubSeq(buf, p, k)
    BY <2>1, <2>2
  <2>5. w \in Seq(Pieces) /\ Len(w) = k + 1 - p /\ \A j \in 1 .. k + 1 - p : w[j] = buf[p - 1 + j]
    BY <1>1, <2>3, <2>4, Piece
  <2>6. Len(w) = Len(u) /\ \A j \in 1 .. Len(w) : w[j] = u[j]
    BY <1>1, <1>2, <2>3, <2>5, Zenon
  <2>7. w = u
    BY <1>1, <2>5, <2>6, SeqEqual
  <2>8. QED
    BY <2>1, <2>7
<1>10. AfterWord(buf, Request!Blanks) = t
  BY <1>7, DetectsMode, Zenon
<1>11. QED
  BY <1>8, <1>9, <1>10, SameText, SameSkip, Zenon DEF Request!ConnectUrl

LEMMA DetectsTunnel ==
    ASSUME NEW r \in Requests, Request!IsRelayed(r), Request!Tunnels(r), NEW buf, Begins(r, buf)
    PROVE  Request!HostOf(buf) = <<r.host>> /\ Request!PortOf(buf) = Request!NamedPort(r)
<1>1. PICK u : u = Request!Url(r)
  OBVIOUS
<1>2. /\ buf \in Seq(Pieces) /\ Len(u) + 5 <= Len(buf) /\ u \in Seq(Pieces)
      /\ buf[2] = Request!Blank
      /\ \A j \in 1 .. Len(u) : buf[2 + j] = u[j]
      /\ buf[Len(u) + 3] = Request!Blank
  BY <1>1, LinePieces, Zenon
<1>3. /\ u[1] = r.host
      /\ r.port = Request!NoPort => Len(u) = 1
      /\ r.port # Request!NoPort => Len(u) = 3 /\ u[2] = ":" /\ u[3] = r.port
  BY <1>1, TunnelUrl, Zenon
<1>4. PICK n \in Nat : n = Len(u)
  BY <1>2
<1>5. n >= 1 /\ \A j \in 1 .. n : u[j] \notin Request!Blanks
  <2>1. CASE r.port = Request!NoPort
    <3>1. n = 1 /\ \A j \in 1 .. 1 : j = 1
      BY <1>3, <1>4, <2>1
    <3>2. u[1] \notin Request!Blanks
      BY <1>3, PieceFacts, Zenon
    <3>3. QED
      BY <3>1, <3>2
  <2>2. CASE r.port # Request!NoPort
    <3>0. \A j \in 1 .. 3 : j = 1 \/ j = 2 \/ j = 3
      OBVIOUS
    <3>1. n = 3
      BY <1>3, <1>4, <2>2, Zenon
    <3>2. u[1] \notin Request!Blanks /\ u[2] \notin Request!Blanks /\ u[3] \notin Request!Blanks
      BY <1>3, <2>2, PieceFacts, BlankPieces, Zenon
    <3>3. QED
      BY <3>0, <3>1, <3>2
  <2>3. QED
    BY <2>1, <2>2
<1>6. Request!ConnectUrl(buf) = u
  <2>1. Len(u) >= 1 /\ \A j \in 1 .. Len(u) : u[j] \notin Request!Blanks
    BY <1>4, <1>5, Zenon
  <2>2. QED
    BY <1>1, <2>1, UrlBack, Zenon
<1>7. ~ Request!IsTransparent(buf)
  BY DetectsMode, Zenon
<1>8. r.host # ":"
  BY PieceFacts, Zenon
<1>9. PICK i : i = strchr(u, ":")
  OBVIOUS
<1>10. Request!strchr(Request!ConnectUrl(buf), ":") = i
  BY <1>6, <1>9, SameText, Zenon
<1>11. Request!HostOf(buf) = Before(u, i)
  BY <1>6, <1>7, <1>10, SameText, Zenon DEF Request!HostOf
<1>12. Request!PortOf(buf) = IF i # 0 /\ i < n /\ u[i + 1] \in DOMAIN Request!Number
                             THEN Request!Number[u[i + 1]] ELSE 80
  BY <1>4, <1>6, <1>7, <1>10, Zenon DEF Request!PortOf
<1>13. CASE r.port = Request!NoPort
  <2>1. Len(u) = 1 /\ u[1] # ":"
    BY <1>3, <1>8, <1>13, Zenon
  <2>2. i = 0
    BY <1>2, <1>9, <2>1, NotInOne
  <2>3. u = <<u[1]>>
    <3>1. SubSeq(u, 1, 1) = <<u[1]>>
      <4>1. 1 \in Nat \ {0} /\ 1 <= Len(u)
        BY <2>1
      <4>2. QED
        BY <1>2, <4>1, OnePiece
    <3>2. SubSeq(u, 1, Len(u)) = u
      BY <1>2
    <3>3. QED
      BY <2>1, <3>1, <3>2, Zenon
  <2>4. Before(u, i) = u
    BY <2>2 DEF Before
  <2>5. QED
    BY <1>3, <1>11, <1>12, <1>13, <2>2, <2>3, <2>4, Zenon DEF Request!NamedPort
<1>14. CASE r.port # Request!NoPort
  <2>1. Len(u) = 3 /\ u[1] # ":" /\ u[2] = ":" /\ u[3] = r.port /\ n = 3
    BY <1>3, <1>4, <1>8, <1>14, Zenon
  <2>2. Len(u) >= 2
    BY <2>1
  <2>3. i = 2 /\ Before(u, i) = <<u[1]>>
    BY <1>2, <1>9, <2>1, <2>2, CutBeforeSecond
  <2>4. i # 0 /\ i < n /\ i + 1 = 3
    BY <2>1, <2>3
  <2>5. r.port \in DOMAIN Request!Number
    BY <1>14, RequestsAssumption, Zenon
  <2>6. QED
    BY <1>3, <1>11, <1>12, <1>14, <2>1, <2>3, <2>4, <2>5, Zenon DEF Request!NamedPort
<1>15. QED
  BY <1>13, <1>14

LEMMA HeadWord ==
    ASSUME NEW E, NEW d \in Seq(E), NEW blanks, NEW b \in Nat, 1 <= b, b < Len(d),
           \A j \in 1 .. b : d[j] \notin blanks, d[b + 1] \in blanks
    PROVE  Word(d, blanks) = SubSeq(d, 1, b)
<1>1. PICK a \in Nat \ {0} : a = 1
  OBVIOUS
<1>2. (\A j \in 1 .. a - 1 : d[j] \in blanks) /\ (\A j \in a .. b : d[j] \notin blanks)
  BY <1>1
<1>3. a <= b /\ b <= Len(d) /\ (b = Len(d) \/ d[b + 1] \in blanks)
  BY <1>1
<1>4. Word(d, blanks) = SubSeq(d, a, b)
  BY <1>2, <1>3, WordIs
<1>5. QED
  BY <1>1, <1>4

LEMMA FirstThree ==
    ASSUME NEW E, NEW d \in Seq(E), Len(d) >= 3, NEW v, v = SubSeq(d, 1, 3)
    PROVE  v \in Seq(E) /\ Len(v) = 3 /\ v[1] = d[1] /\ v[2] = d[2]
<1>1. 3 \in Nat /\ 3 <= Len(d)
  OBVIOUS
<1>2. v \in Seq(E) /\ Len(v) = 3 /\ \A j \in 1 .. 3 : v[j] = d[j]
  BY <1>1, HeadAt
<1>3. QED
  BY <1>2

\* "http://" is passed over, if it is there.
LEMMA SchemeMatches ==
    ASSUME NEW s \in Seq(Pieces), Len(s) >= 4, s[1] = "http", s[2] = ":", s[3] = "/", s[4] = "/"
    PROVE  IsPrefix(Request!Scheme, s) /\ Len(Request!Scheme) = 4
<1>1. PICK a \in Pieces : a = "http"
  BY Literals, Zenon
<1>2. PICK b \in Pieces : b = ":"
  BY Literals, Zenon
<1>3. PICK c \in Pieces : c = "/"
  BY Literals, Zenon
<1>4. PICK t : t = <<a, b, c, c>>
  OBVIOUS
<1>5. t \in Seq(Pieces) /\ Len(t) = 4 /\ t[1] = a /\ t[2] = b /\ t[3] = c /\ t[4] = c
  BY <1>4
<1>6. s[1] = a /\ s[2] = b /\ s[3] = c /\ s[4] = c
  BY <1>1, <1>2, <1>3, Zenon
<1>7. \A j \in 1 .. 4 : t[j] = s[j]
  <2>1. \A j \in 1 .. 4 : j = 1 \/ j = 2 \/ j = 3 \/ j = 4
    OBVIOUS
  <2>2. QED
    BY <1>5, <1>6, <2>1, Zenon
<1>8. SubSeq(t, 1, 4) = SubSeq(s, 1, 4)
  <2> HIDE <1>6
  <2>1. PICK p \in Nat \ {0} : p = 1
    OBVIOUS
  <2>2. PICK q \in Nat : q = 4
    OBVIOUS
  <2>3. q <= Len(t) /\ t \in Seq(Pieces)
    BY <1>5, <2>2
  <2>4. p <= q + 1 /\ \A j \in p .. q : t[j] = s[j]
    BY <1>7, <2>1, <2>2
  <2>5. q <= Len(s)
    BY <2>2, Zenon
  <2>6. SubSeq(t, p, q) = SubSeq(s, p, q)
    BY <2>3, <2>4, <2>5, SamePiece, Zenon
  <2>7. QED
    BY <2>1, <2>2, <2>6, Zenon
<1>9. t = Request!Scheme
  BY <1>1, <1>2, <1>3, <1>4, Zenon DEF Request!Scheme
<1>10. Len(t) <= Len(s)
  BY <1>5, Zenon
<1>11. IsPrefix(t, s)
  BY <1>5, <1>8, <1>10, Zenon DEF IsPrefix
<1>12. QED
  BY <1>5, <1>9, <1>11, Zenon

LEMMA DetectsPage ==
    ASSUME NEW r \in Requests, Request!IsRelayed(r), ~ Request!Tunnels(r), r.port = Request!NoPort, NEW buf, Begins(r, buf)
    PROVE  Request!HostOf(buf) = <<r.host>> /\ Request!PortOf(buf) = Request!NamedPort(r)
<1>1. PICK u : u = Request!Url(r)
  OBVIOUS
<1>2. /\ buf \in Seq(Pieces) /\ Len(u) + 5 <= Len(buf) /\ u \in Seq(Pieces)
      /\ \A j \in 1 .. Len(u) : buf[2 + j] = u[j]
      /\ buf[Len(u) + 3] = Request!Blank
  BY <1>1, LinePieces, Zenon
<1>3. /\ Len(u) = 7 /\ u[1] = "http" /\ u[2] = ":" /\ u[3] = "/" /\ u[4] = "/"
      /\ u[5] = r.host /\ u[6] = "/" /\ u[7] = "path"
  BY <1>1, PageUrl, Zenon
<1>4. \A j \in 1 .. 7 : j = 1 \/ j = 2 \/ j = 3 \/ j = 4 \/ j = 5 \/ j = 6 \/ j = 7
  OBVIOUS
<1>5. \A j \in 1 .. 7 : u[j] \notin Request!Blanks
  BY <1>3, <1>4, PieceFacts, BlankPieces, Zenon
<1>6. PICK rest : rest = SubSeq(buf, 3, Len(buf))
  OBVIOUS
<1>7. Request!SkipBlanks(Request!AfterWord(buf, Request!Blanks), Request!Blanks) = rest
  <2>1. 7 >= 1
    OBVIOUS
  <2>2. Len(u) >= 1 /\ \A j \in 1 .. Len(u) : u[j] \notin Request!Blanks
    BY <1>3, <1>5, <2>1, Zenon
  <2>3. QED
    BY <1>1, <1>6, <2>2, UrlBack, Zenon
<1>8. PICK n \in Nat : n = Len(buf) /\ n >= 12
  <2>1. Len(buf) \in Nat /\ 7 + 5 <= Len(buf)
    BY <1>2, <1>3, Zenon, LenProperties
  <2>2. QED
    BY <2>1
<1>9. rest \in Seq(Pieces) /\ Len(rest) = n - 2 /\ \A j \in 1 .. n - 2 : rest[j] = buf[2 + j]
  <2>1. 2 \in Nat /\ 2 <= Len(buf) /\ 2 + 1 = 3
    BY <1>8
  <2>2. rest = SubSeq(buf, 2 + 1, Len(buf))
    BY <1>6, <2>1, Zenon
  <2>3. rest \in Seq(Pieces) /\ Len(rest) = Len(buf) - 2 /\ \A j \in 1 .. Len(buf) - 2 : rest[j] = buf[2 + j]
    BY <1>2, <2>1, <2>2, TailAt
  <2>4. QED
    BY <1>8, <2>3, Zenon
<1>10. /\ Len(rest) >= 4 /\ rest[1] = "http" /\ rest[2] = ":" /\ rest[3] = "/" /\ rest[4] = "/"
       /\ rest[5] = r.host /\ rest[6] = "/" /\ rest[7] = "path" /\ rest[8] = Request!Blank
  <2>1. /\ 1 \in 1 .. n - 2 /\ 2 \in 1 .. n - 2 /\ 3 \in 1 .. n - 2 /\ 4 \in 1 .. n - 2
        /\ 5 \in 1 .. n - 2 /\ 6 \in 1 .. n - 2 /\ 7 \in 1 .. n - 2 /\ 8 \in 1 .. n - 2
    BY <1>8
  <2>2. 1 \in 1 .. 7 /\ 2 \in 1 .. 7 /\ 3 \in 1 .. 7 /\ 4 \in 1 .. 7 /\ 5 \in 1 .. 7 /\ 6 \in 1 .. 7 /\ 7 \in 1 .. 7
    OBVIOUS
  <2>3. \A j \in 1 .. 7 : j \in 1 .. n - 2 /\ rest[j] = u[j]
    <3>1. \A j \in 1 .. 7 : j \in 1 .. n - 2
      BY <1>8
    <3>2. QED
      BY <1>2, <1>3, <1>9, <3>1, Zenon
  <2>4. n - 2 >= 4 /\ 2 + 8 = 7 + 3
    BY <1>8
  <2>5. rest[8] = buf[7 + 3]
    BY <1>9, <2>1, <2>4, Zenon
  <2>6. QED
    BY <1>2, <1>3, <1>9, <2>2, <2>3, <2>4, <2>5, Zenon
<1>11. IsPrefix(Request!Scheme, rest) /\ Len(Request!Scheme) = 4
  BY <1>9, <1>10, SchemeMatches, Zenon
<1>12. PICK tail : tail = SubSeq(rest, 4 + 1, Len(rest))
  OBVIOUS
<1>13. tail \in Seq(Pieces) /\ Len(tail) = n - 6 /\ \A j \in 1 .. n - 6 : tail[j] = rest[4 + j]
  <2>1. 4 \in Nat /\ 4 <= Len(rest) /\ Len(rest) - 4 = n - 6
    BY <1>8, <1>9
  <2>2. rest \in Seq(Pieces)
    BY <1>9
  <2>3. tail \in Seq(Pieces) /\ Len(tail) = Len(rest) - 4 /\ \A j \in 1 .. Len(rest) - 4 : tail[j] = rest[4 + j]
    <3>1. PICK i \in Nat : i = 4
      OBVIOUS
    <3>2. i <= Len(rest) /\ tail = SubSeq(rest, i + 1, Len(rest))
      BY <1>12, <2>1, <3>1
    <3>3. tail \in Seq(Pieces) /\ Len(tail) = Len(rest) - i /\ \A j \in 1 .. Len(rest) - i : tail[j] = rest[i + j]
      BY <2>2, <3>2, TailAt
    <3>4. QED
      BY <3>1, <3>3, Zenon
  <2>4. QED
    BY <2>1, <2>3, Zenon
<1>14. tail[1] = r.host /\ tail[2] = "/" /\ tail[3] = "path" /\ tail[4] = Request!Blank
  <2>1. 1 \in 1 .. n - 6 /\ 2 \in 1 .. n - 6 /\ 3 \in 1 .. n - 6 /\ 4 \in 1 .. n - 6
    BY <1>8
  <2>2. 4 + 1 = 5 /\ 4 + 2 = 6 /\ 4 + 3 = 7 /\ 4 + 4 = 8
    OBVIOUS
  <2>3. QED
    BY <1>10, <1>13, <2>1, <2>2, Zenon
<1>15. PICK v : v = SubSeq(tail, 1, 3)
  OBVIOUS
<1>16. Word(tail, Request!Blanks) = v
  <2>1. 3 \in Nat /\ 1 <= 3 /\ 3 < Len(tail) /\ 3 + 1 = 4
    BY <1>8, <1>13
  <2>2. \A j \in 1 .. 3 : tail[j] \notin Request!Blanks
    <3>1. \A j \in 1 .. 3 : j = 1 \/ j = 2 \/ j = 3
      OBVIOUS
    <3>2. QED
      BY <1>14, <3>1, PieceFacts, BlankPieces, Zenon
  <2>3. tail[3 + 1] \in Request!Blanks
    BY <1>14, <2>1, BlankPieces, Zenon
  <2>4. tail \in Seq(Pieces)
    BY <1>13
  <2>5. Word(tail, Request!Blanks) = SubSeq(tail, 1, 3)
    BY <2>1, <2>2, <2>3, <2>4, HeadWord
  <2>6. QED
    BY <1>15, <2>5
<1>17. Request!TransparentUrl(buf) = v
  <2>1. Request!After(rest, Len(Request!Scheme)) = tail
    BY <1>11, <1>12, SameText, Zenon DEF After
  <2>2. QED
    BY <1>7, <1>11, <1>16, <2>1, SameText, Zenon DEF Request!TransparentUrl
<1>18. v \in Seq(Pieces) /\ Len(v) = 3 /\ v[1] = r.host /\ v[2] = "/"
  <2>1. Len(tail) >= 3 /\ tail \in Seq(Pieces)
    BY <1>8, <1>13
  <2>2. v \in Seq(Pieces) /\ Len(v) = 3 /\ v[1] = tail[1] /\ v[2] = tail[2]
    BY <1>15, <2>1, FirstThree
  <2>3. QED
    BY <1>14, <2>2, Zenon
<1>19. Before(v, strchr(v, "/")) = <<r.host>>
  <2>1. PICK c : c = "/"
    OBVIOUS
  <2>2. v[1] # c /\ v[2] = c /\ v \in Seq(Pieces)
    BY <1>18, <2>1, PieceFacts, Zenon
  <2>3. Len(v) >= 2
    <3>1. Len(v) = 3
      BY <1>18
    <3>2. QED
      BY <3>1
  <2>4. Before(v, strchr(v, c)) = <<v[1]>>
    BY <2>2, <2>3, CutBeforeSecond
  <2>5. QED
    BY <1>18, <2>1, <2>4, Zenon
<1>20. Request!IsTransparent(buf)
  BY DetectsMode, Zenon
<1>21. Request!HostOf(buf) = <<r.host>>
  BY <1>17, <1>19, <1>20, SameText, Zenon DEF Request!HostOf
<1>22. Request!PortOf(buf) = Request!NamedPort(r)
  BY <1>20, Zenon DEF Request!PortOf, Request!NamedPort
<1>23. QED
  BY <1>21, <1>22

-----------------------------------------------------------------------------
(* Where the pieces of a request are. *)

\* The first k of the s pieces of m that have been sent are the first read.
Sized(m, k, s) == m \in Seq(Pieces) /\ k \in Nat /\ s \in Nat /\ k <= s /\ s <= Len(m)

\* Of a message m: behind x, which was resent, a part of what comes behind the
\* first read is at the server.
Delivered(m, k, s, x, to) ==
    \E p \in Nat : k <= p /\ p <= s /\ to = x \o SubSeq(m, k + 1, p)

\* And the rest of what has been sent is with the relay or in the socket.
Carried(m, k, s, x, to, pe, un) ==
    /\ pe \in Seq(Pieces) /\ un \in Seq(Pieces)
    /\ \E p \in Nat : /\ k <= p /\ p <= s /\ to = x \o SubSeq(m, k + 1, p)
                      /\ pe \o un = SubSeq(m, p + 1, s)

LEMMA Continues ==
    ASSUME NEW E, NEW m \in Seq(E), NEW a \in Nat, NEW k \in Nat, NEW n \in Nat, a <= k, k <= n, n <= Len(m)
    PROVE  /\ SubSeq(m, a + 1, k) \o SubSeq(m, k + 1, n) = SubSeq(m, a + 1, n)
           /\ SubSeq(m, a + 1, k) \in Seq(E) /\ SubSeq(m, k + 1, n) \in Seq(E) /\ SubSeq(m, a + 1, n) \in Seq(E)
           /\ Len(SubSeq(m, a + 1, k)) = k - a
<1>1. a + 1 \in 1 .. Len(m) + 1 /\ k \in (a + 1) - 1 .. Len(m) /\ n \in k .. Len(m)
  OBVIOUS
<1>2. SubSeq(m, a + 1, k) \o SubSeq(m, k + 1, n) = SubSeq(m, a + 1, n)
  BY <1>1, ConcatAdjacentSubSeq
<1>3. SubSeq(m, a + 1, k) \in Seq(E) /\ Len(SubSeq(m, a + 1, k)) = k + 1 - (a + 1)
  <2>1. a + 1 \in Nat \ {0} /\ a + 1 <= k + 1 /\ k <= Len(m)
    OBVIOUS
  <2>2. QED
    BY <2>1, Piece
<1>4. SubSeq(m, k + 1, n) \in Seq(E)
  <2>1. k + 1 \in Nat \ {0} /\ k + 1 <= n + 1
    OBVIOUS
  <2>2. QED
    BY <2>1, Piece
<1>5. SubSeq(m, a + 1, n) \in Seq(E)
  <2>1. a + 1 \in Nat \ {0} /\ a + 1 <= n + 1
    OBVIOUS
  <2>2. QED
    BY <2>1, Piece
<1>6. k + 1 - (a + 1) = k - a
  OBVIOUS
<1>7. QED
  BY <1>2, <1>3, <1>4, <1>5, <1>6, Zenon

LEMMA AssociatePieces ==
    \A p, q, x \in Seq(Pieces) : p \o (q \o x) = (p \o q) \o x
BY AssociateAny

LEMMA Associate ==
    \A p, q, x \in Seq(Pieces) : q \o x \in Seq(Pieces) /\ p \o (q \o x) = (p \o q) \o x
<1>1. \A q, x \in Seq(Pieces) : q \o x \in Seq(Pieces)
  OBVIOUS
<1>2. QED
  BY <1>1, AssociatePieces, Zenon

\* More of the message m is added behind the two parts of it.
Extends(m, a, k, n) ==
    /\ SubSeq(m, k + 1, n) \in Seq(Pieces)
    /\ \A p, q \in Seq(Pieces) : p \o q = SubSeq(m, a + 1, k) =>
         p \o (q \o SubSeq(m, k + 1, n)) = SubSeq(m, a + 1, n)
    /\ SubSeq(m, a + 1, k) \o SubSeq(m, k + 1, n) = SubSeq(m, a + 1, n)

LEMMA Extended ==
    \A m \in Seq(Pieces), a, k, n \in Nat : a <= k /\ k <= n /\ n <= Len(m) => Extends(m, a, k, n)
<1> SUFFICES ASSUME NEW m \in Seq(Pieces), NEW a \in Nat, NEW k \in Nat, NEW n \in Nat, a <= k, k <= n, n <= Len(m)
             PROVE  Extends(m, a, k, n)
  BY Zenon
<1>1. PICK x : x = SubSeq(m, k + 1, n)
  OBVIOUS
<1>2. PICK y : y = SubSeq(m, a + 1, k)
  OBVIOUS
<1>3. PICK z : z = SubSeq(m, a + 1, n)
  OBVIOUS
<1>4. y \o x = z /\ x \in Seq(Pieces)
  <2>1. /\ SubSeq(m, a + 1, k) \o SubSeq(m, k + 1, n) = SubSeq(m, a + 1, n)
        /\ SubSeq(m, k + 1, n) \in Seq(Pieces)
    BY Continues
  <2>2. QED
    BY <1>1, <1>2, <1>3, <2>1, Zenon
<1>5. ASSUME NEW p \in Seq(Pieces), NEW q \in Seq(Pieces), p \o q = y
      PROVE  p \o (q \o x) = z
  <2>1. p \o (q \o x) = (p \o q) \o x
    BY <1>4, Associate, Zenon
  <2>2. QED
    BY <1>4, <1>5, <2>1, Zenon
<1>6. QED
  BY <1>1, <1>2, <1>3, <1>4, <1>5, Zenon DEF Extends

LEMMA NoPieces ==
    \A m \in Seq(Pieces), n \in Nat : n <= Len(m) => SubSeq(m, n + 1, n) = <<>>
<1> SUFFICES ASSUME NEW m \in Seq(Pieces), NEW n \in Nat, n <= Len(m)
             PROVE  SubSeq(m, n + 1, n) = <<>>
  BY Zenon
<1>1. n + 1 \in Nat \ {0} /\ n + 1 <= n + 1
  OBVIOUS
<1>2. SubSeq(m, n + 1, n) \in Seq(Pieces) /\ Len(SubSeq(m, n + 1, n)) = n + 1 - (n + 1)
  BY <1>1, Piece
<1>3. n + 1 - (n + 1) = 0
  OBVIOUS
<1>4. QED
  BY <1>2, <1>3

LEMMA NothingJoined ==
    \A p \in Seq(Pieces) : <<>> \in Seq(Pieces) /\ p \o <<>> = p /\ <<>> \o p = p
OBVIOUS

LEMMA BeginningOf ==
    \A p, q \in Seq(Pieces) : IsPrefix(p, p \o q)
<1> SUFFICES ASSUME NEW p \in Seq(Pieces), NEW q \in Seq(Pieces)
             PROVE  IsPrefix(p, p \o q)
  BY Zenon
<1>1. Len(p) <= Len(p \o q) /\ SubSeq(p \o q, 1, Len(p)) = p /\ SubSeq(p, 1, Len(p)) = p
  OBVIOUS
<1>2. QED
  BY <1>1, Zenon DEF IsPrefix

\* The first n pieces of u, a part of m up to k, and what is behind them.
Cuts(m, a, k, u, n) ==
    /\ u \in Seq(Pieces) /\ Len(u) = k - a /\ a + n <= k
    /\ SubSeq(u, 1, n) = SubSeq(m, a + 1, a + n)
    /\ SubSeq(u, n + 1, Len(u)) = SubSeq(m, (a + n) + 1, k)

LEMMA Parted ==
    \A m \in Seq(Pieces), a, k, n \in Nat :
        a <= k /\ k <= Len(m) /\ n <= Len(SubSeq(m, a + 1, k)) => Cuts(m, a, k, SubSeq(m, a + 1, k), n)
<1> SUFFICES ASSUME NEW m \in Seq(Pieces), NEW a \in Nat, NEW k \in Nat, NEW n \in Nat, a <= k, k <= Len(m),
                    n <= Len(SubSeq(m, a + 1, k))
             PROVE  Cuts(m, a, k, SubSeq(m, a + 1, k), n)
  BY Zenon
<1> DEFINE u == SubSeq(m, a + 1, k)
<1>1. a + 1 \in Nat \ {0} /\ a + 1 <= k + 1 /\ k + 1 - (a + 1) = k - a
  OBVIOUS
<1>2. u \in Seq(Pieces) /\ Len(u) = k - a
  <2>1. SubSeq(m, a + 1, k) \in Seq(Pieces) /\ Len(SubSeq(m, a + 1, k)) = k + 1 - (a + 1)
    BY <1>1, Piece
  <2>2. QED
    BY <1>1, <2>1, Zenon
<1>3. n <= k - a /\ a + n <= k
  BY <1>2
<1>4. SubSeq(u, 1, n) = SubSeq(m, a + 1, a + n)
  <2>1. 1 \in Nat \ {0} /\ 1 <= n + 1 /\ n <= k + 1 - (a + 1)
    BY <1>3
  <2>2. SubSeq(SubSeq(m, a + 1, k), 1, n) = SubSeq(m, (a + 1) - 1 + 1, (a + 1) - 1 + n)
    BY <1>1, <2>1, PieceOfPiece
  <2>3. (a + 1) - 1 + 1 = a + 1 /\ (a + 1) - 1 + n = a + n
    OBVIOUS
  <2>4. QED
    BY <2>2, <2>3, Zenon
<1>5. SubSeq(u, n + 1, Len(u)) = SubSeq(m, (a + n) + 1, k)
  <2>1. n + 1 \in Nat \ {0} /\ k - a \in Nat /\ n + 1 <= (k - a) + 1 /\ k - a <= k + 1 - (a + 1)
    BY <1>3
  <2>2. SubSeq(SubSeq(m, a + 1, k), n + 1, k - a) = SubSeq(m, (a + 1) - 1 + (n + 1), (a + 1) - 1 + (k - a))
    BY <1>1, <2>1, PieceOfPiece
  <2>3. (a + 1) - 1 + (n + 1) = (a + n) + 1 /\ (a + 1) - 1 + (k - a) = k
    OBVIOUS
  <2>4. QED
    BY <1>2, <2>2, <2>3, Zenon
<1>6. QED
  BY <1>2, <1>3, <1>4, <1>5, Zenon DEF Cuts

\* The part of a message between two places is what is in front of a third and
\* what is behind it.
LEMMA Adjacent ==
    \A m \in Seq(Pieces), a, k, n \in Nat : a <= k /\ k <= n /\ n <= Len(m) =>
        /\ SubSeq(m, a + 1, k) \o SubSeq(m, k + 1, n) = SubSeq(m, a + 1, n)
        /\ SubSeq(m, a + 1, k) \in Seq(Pieces) /\ SubSeq(m, k + 1, n) \in Seq(Pieces)
        /\ Len(SubSeq(m, a + 1, k)) = k - a
<1> SUFFICES ASSUME NEW m \in Seq(Pieces), NEW a \in Nat, NEW k \in Nat, NEW n \in Nat, a <= k, k <= n, n <= Len(m)
             PROVE  /\ SubSeq(m, a + 1, k) \o SubSeq(m, k + 1, n) = SubSeq(m, a + 1, n)
                    /\ SubSeq(m, a + 1, k) \in Seq(Pieces) /\ SubSeq(m, k + 1, n) \in Seq(Pieces)
                    /\ Len(SubSeq(m, a + 1, k)) = k - a
  BY Zenon
<1>1. QED
  BY Continues

\* A sequence is what is in front of a place in it and what is behind it.
LEMMA Halves ==
    ASSUME NEW u \in Seq(Pieces), NEW n \in Nat, n <= Len(u)
    PROVE  /\ SubSeq(u, 1, n) \in Seq(Pieces) /\ Len(SubSeq(u, 1, n)) = n
           /\ SubSeq(u, n + 1, Len(u)) \in Seq(Pieces)
           /\ SubSeq(u, 1, n) \o SubSeq(u, n + 1, Len(u)) = u
<1>1. 0 \in Nat /\ 0 <= n /\ Len(u) \in Nat /\ Len(u) <= Len(u) /\ 0 + 1 = 1 /\ n - 0 = n
  OBVIOUS
<1>2. /\ SubSeq(u, 0 + 1, n) \o SubSeq(u, n + 1, Len(u)) = SubSeq(u, 0 + 1, Len(u))
      /\ SubSeq(u, 0 + 1, n) \in Seq(Pieces) /\ SubSeq(u, n + 1, Len(u)) \in Seq(Pieces)
      /\ Len(SubSeq(u, 0 + 1, n)) = n - 0
  BY <1>1, Adjacent, Zenon
<1>3. SubSeq(u, 1, Len(u)) = u
  OBVIOUS
<1>4. QED
  BY <1>1, <1>2, <1>3, Zenon

LEMMA BothParts ==
    \A a, b \in Seq(Pieces) :
        /\ a \o b \in Seq(Pieces)
        /\ Len(a) \in Nat /\ Len(b) \in Nat /\ Len(a \o b) = Len(a) + Len(b)
        /\ SubSeq(a \o b, 1, Len(a)) = a
        /\ SubSeq(a \o b, Len(a) + 1, Len(a \o b)) = b
<1> SUFFICES ASSUME NEW a \in Seq(Pieces), NEW b \in Seq(Pieces)
             PROVE  /\ a \o b \in Seq(Pieces)
                    /\ Len(a) \in Nat /\ Len(b) \in Nat /\ Len(a \o b) = Len(a) + Len(b)
                    /\ SubSeq(a \o b, 1, Len(a)) = a
                    /\ SubSeq(a \o b, Len(a) + 1, Len(a \o b)) = b
  BY Zenon
<1>1. SubSeq(a \o b, Len(a) + 1, Len(a \o b)) = b
  BY TailOfJoin
<1>2. QED
  BY <1>1

\* asyncConnector passes on x, and nothing that is behind the first read is gone.
LEMMA CarryBegins ==
    ASSUME NEW m, NEW k, NEW s, Sized(m, k, s), NEW x \in Seq(Pieces)
    PROVE  Carried(m, k, s, x, x, <<>>, SubSeq(m, k + 1, s))
<1>1. m \in Seq(Pieces) /\ k \in Nat /\ s \in Nat /\ k <= s /\ s <= Len(m) /\ k <= k /\ k <= Len(m)
  BY DEF Sized
<1>2. SubSeq(m, k + 1, s) \in Seq(Pieces)
  BY <1>1, Adjacent, Zenon
<1>3. SubSeq(m, k + 1, k) = <<>>
  BY <1>1, NoPieces, Zenon
<1>4. <<>> \in Seq(Pieces) /\ x \o <<>> = x /\ <<>> \o SubSeq(m, k + 1, s) = SubSeq(m, k + 1, s)
  BY <1>2, NothingJoined, Zenon
<1>5. QED
  BY <1>1, <1>2, <1>3, <1>4, Zenon DEF Carried

\* The client sends more.
LEMMA PartSends ==
    \A m, k, s : Sized(m, k, s) => \A n \in s + 1 .. Len(m) :
        SubSeq(m, k + 1, s) \o SubSeq(m, s + 1, n) = SubSeq(m, k + 1, n)
<1> SUFFICES ASSUME NEW m, NEW k, NEW s, Sized(m, k, s), NEW n \in s + 1 .. Len(m)
             PROVE  SubSeq(m, k + 1, s) \o SubSeq(m, s + 1, n) = SubSeq(m, k + 1, n)
  BY Zenon
<1>1. m \in Seq(Pieces) /\ k \in Nat /\ s \in Nat /\ k <= s /\ n \in Nat /\ s <= n /\ n <= Len(m)
  BY DEF Sized
<1>2. QED
  BY <1>1, Adjacent, Zenon

LEMMA CarrySends ==
    ASSUME NEW m, NEW k, NEW s, Sized(m, k, s), NEW x, NEW to, NEW pe, NEW un,
           NEW n \in s + 1 .. Len(m)
    PROVE  /\ Sized(m, k, n)
           /\ Delivered(m, k, s, x, to) => Delivered(m, k, n, x, to)
           /\ Carried(m, k, s, x, to, pe, un) => Carried(m, k, n, x, to, pe, un \o SubSeq(m, s + 1, n))
<1>1. /\ m \in Seq(Pieces) /\ k \in Nat /\ s \in Nat /\ k <= s /\ s <= Len(m)
      /\ n \in Nat /\ s <= n /\ n <= Len(m) /\ k <= n
  BY DEF Sized
<1>2. \A p \in Nat : p <= s => p <= n
  BY <1>1
<1>3. Sized(m, k, n)
  BY <1>1, Zenon DEF Sized
<1>4. Delivered(m, k, s, x, to) => Delivered(m, k, n, x, to)
  BY <1>2, Zenon DEF Delivered
<1>5. ASSUME Carried(m, k, s, x, to, pe, un)
      PROVE  Carried(m, k, n, x, to, pe, un \o SubSeq(m, s + 1, n))
  <2>1. pe \in Seq(Pieces) /\ un \in Seq(Pieces)
    BY <1>5, Zenon DEF Carried
  <2>2. PICK p \in Nat : /\ k <= p /\ p <= s /\ to = x \o SubSeq(m, k + 1, p)
                         /\ pe \o un = SubSeq(m, p + 1, s)
    BY <1>5, Zenon DEF Carried
  <2>3. Extends(m, p, s, n)
    BY <1>1, <2>2, Extended, Zenon
  <2>4. /\ SubSeq(m, s + 1, n) \in Seq(Pieces)
        /\ pe \o (un \o SubSeq(m, s + 1, n)) = SubSeq(m, p + 1, n)
    BY <2>1, <2>2, <2>3, Zenon DEF Extends
  <2>5. un \o SubSeq(m, s + 1, n) \in Seq(Pieces)
    BY <2>1, <2>4, Associate, Zenon
  <2>6. QED
    BY <1>2, <2>1, <2>2, <2>4, <2>5, Zenon DEF Carried
<1>6. QED
  BY <1>3, <1>4, <1>5, Zenon

\* What the relay reads, it takes out of the socket.
LEMMA CarryReads ==
    ASSUME NEW m, NEW k, NEW s, NEW x, NEW to, NEW un,
           Carried(m, k, s, x, to, <<>>, un), NEW n \in 1 .. Len(un)
    PROVE  Carried(m, k, s, x, to, SubSeq(un, 1, n), SubSeq(un, n + 1, Len(un)))
<1>1. un \in Seq(Pieces)
  BY Zenon DEF Carried
<1>2. PICK p \in Nat : /\ k <= p /\ p <= s /\ to = x \o SubSeq(m, k + 1, p)
                       /\ <<>> \o un = SubSeq(m, p + 1, s)
  BY Zenon DEF Carried
<1>3. n \in Nat /\ n <= Len(un)
  BY <1>1
<1>4. /\ SubSeq(un, 1, n) \in Seq(Pieces) /\ SubSeq(un, n + 1, Len(un)) \in Seq(Pieces)
      /\ SubSeq(un, 1, n) \o SubSeq(un, n + 1, Len(un)) = un
  BY <1>1, <1>3, Halves
<1>5. <<>> \o un = un
  BY <1>1, NothingJoined, Zenon
<1>6. QED
  BY <1>2, <1>4, <1>5, Zenon DEF Carried

\* What it writes goes behind what is at the server.
LEMMA CarryWrites ==
    ASSUME NEW m, NEW k, NEW s, Sized(m, k, s), NEW x \in Seq(Pieces), NEW to, NEW pe, NEW un,
           Carried(m, k, s, x, to, pe, un), NEW n \in 1 .. Len(pe)
    PROVE  Carried(m, k, s, x, to \o SubSeq(pe, 1, n), SubSeq(pe, n + 1, Len(pe)), un)
<1>1. m \in Seq(Pieces) /\ k \in Nat /\ s \in Nat /\ k <= s /\ s <= Len(m)
  BY DEF Sized
<1>2. pe \in Seq(Pieces) /\ un \in Seq(Pieces)
  BY Zenon DEF Carried
<1>3. PICK p \in Nat : /\ k <= p /\ p <= s /\ to = x \o SubSeq(m, k + 1, p)
                       /\ pe \o un = SubSeq(m, p + 1, s)
  BY Zenon DEF Carried
<1>4. n \in Nat /\ n <= Len(pe)
  BY <1>2
<1>5. PICK a : a = SubSeq(pe, 1, n)
  OBVIOUS
<1>6. PICK b : b = SubSeq(pe, n + 1, Len(pe))
  OBVIOUS
<1>7. a \in Seq(Pieces) /\ Len(a) = n /\ b \in Seq(Pieces) /\ a \o b = pe
  <2>1. /\ SubSeq(pe, 1, n) \in Seq(Pieces) /\ Len(SubSeq(pe, 1, n)) = n
        /\ SubSeq(pe, n + 1, Len(pe)) \in Seq(Pieces)
        /\ SubSeq(pe, 1, n) \o SubSeq(pe, n + 1, Len(pe)) = pe
    BY <1>2, <1>4, Halves
  <2>2. QED
    BY <1>5, <1>6, <2>1, Zenon
<1>8. PICK w : w = SubSeq(m, p + 1, s)
  OBVIOUS
<1>9. PICK c : c = b \o un
  OBVIOUS
<1>10. c \in Seq(Pieces) /\ w = a \o c
  <2>1. c \in Seq(Pieces) /\ a \o c = (a \o b) \o un
    <3>1. c \in Seq(Pieces)
      BY <1>2, <1>7, <1>9, Associate, Zenon
    <3>2. a \in Seq(Pieces) /\ b \in Seq(Pieces) /\ un \in Seq(Pieces)
      BY <1>2, <1>7, Zenon
    <3>3. a \o (b \o un) = (a \o b) \o un
      BY <3>2, AssociatePieces, Zenon
    <3>4. QED
      BY <1>9, <3>1, <3>3, Zenon
  <2>2. QED
    BY <1>3, <1>7, <1>8, <2>1, Zenon
<1>11. a = SubSeq(w, 1, n) /\ c = SubSeq(w, n + 1, Len(w)) /\ n <= Len(w)
  <2>1. /\ SubSeq(w, 1, Len(a)) = a /\ SubSeq(w, Len(a) + 1, Len(w)) = c
        /\ Len(a) \in Nat /\ Len(c) \in Nat /\ Len(w) = Len(a) + Len(c)
    BY <1>7, <1>10, BothParts, Zenon
  <2>2. \A i, j \in Nat : i <= i + j
    OBVIOUS
  <2>3. n <= Len(w)
    BY <1>7, <2>1, <2>2, Zenon
  <2>4. QED
    BY <1>7, <2>1, <2>3, Zenon
<1>12. p + n <= s /\ a = SubSeq(m, p + 1, p + n) /\ c = SubSeq(m, (p + n) + 1, s)
  <2>1. /\ p + n <= s
        /\ SubSeq(w, 1, n) = SubSeq(m, p + 1, p + n)
        /\ SubSeq(w, n + 1, Len(w)) = SubSeq(m, (p + n) + 1, s)
    <3>1. p <= s /\ s <= Len(m) /\ n \in Nat /\ m \in Seq(Pieces) /\ s \in Nat /\ n <= Len(SubSeq(m, p + 1, s))
      BY <1>1, <1>3, <1>4, <1>8, <1>11, Zenon
    <3>2. Cuts(m, p, s, SubSeq(m, p + 1, s), n)
      BY <3>1, Parted, Zenon
    <3>3. QED
      BY <1>8, <3>2, Zenon DEF Cuts
  <2>2. QED
    BY <1>11, <2>1, Zenon
<1>13. p + n \in Nat /\ k <= p + n /\ p <= p + n /\ p + n <= Len(m)
  BY <1>1, <1>3, <1>4, <1>12
<1>14. to \o a = x \o SubSeq(m, k + 1, p + n)
  <2>1. /\ SubSeq(m, k + 1, p) \o SubSeq(m, p + 1, p + n) = SubSeq(m, k + 1, p + n)
        /\ SubSeq(m, k + 1, p) \in Seq(Pieces)
    BY <1>1, <1>3, <1>13, Adjacent, Zenon
  <2>2. x \o (SubSeq(m, k + 1, p) \o a) = (x \o SubSeq(m, k + 1, p)) \o a
    BY <1>7, <2>1, Associate, Zenon
  <2>3. QED
    BY <1>3, <1>12, <2>1, <2>2, Zenon
<1>15. Carried(m, k, s, x, to \o a, b, un)
  BY <1>2, <1>7, <1>9, <1>12, <1>13, <1>14, Zenon DEF Carried
<1>16. QED
  BY <1>5, <1>6, <1>15, Zenon

\* What is at the server is a beginning of what is meant for it, and all of it
\* when nothing is left.
LEMMA DeliveredInOrder ==
    ASSUME NEW m, NEW k, NEW s, Sized(m, k, s), NEW x \in Seq(Pieces), NEW to, NEW un,
           NEW w, w = SubSeq(m, k + 1, Len(m))
    PROVE  /\ Delivered(m, k, s, x, to) => IsPrefix(to, x \o w)
           /\ Carried(m, k, s, x, to, <<>>, un) /\ un = <<>> /\ s = Len(m) => to = x \o w
<1>1. m \in Seq(Pieces) /\ k \in Nat /\ s \in Nat /\ k <= s /\ s <= Len(m) /\ Len(m) \in Nat /\ Len(m) <= Len(m)
  BY DEF Sized
<1>2. ASSUME Delivered(m, k, s, x, to) PROVE IsPrefix(to, x \o w)
  <2>1. PICK p \in Nat : k <= p /\ p <= s /\ to = x \o SubSeq(m, k + 1, p)
    BY <1>2, Zenon DEF Delivered
  <2>2. p <= Len(m)
    BY <1>1, <2>1
  <2>3. PICK y : y = SubSeq(m, k + 1, p)
    OBVIOUS
  <2>4. PICK z : z = SubSeq(m, p + 1, Len(m))
    OBVIOUS
  <2>5. y \o z = w /\ y \in Seq(Pieces) /\ z \in Seq(Pieces)
    <3>1. /\ SubSeq(m, k + 1, p) \o SubSeq(m, p + 1, Len(m)) = SubSeq(m, k + 1, Len(m))
          /\ SubSeq(m, k + 1, p) \in Seq(Pieces) /\ SubSeq(m, p + 1, Len(m)) \in Seq(Pieces)
      <4>1. k <= p /\ p <= Len(m) /\ Len(m) <= Len(m) /\ m \in Seq(Pieces) /\ k \in Nat /\ Len(m) \in Nat
        BY <1>1, <2>1, <2>2, Zenon
      <4>2. QED
        BY <4>1, Adjacent, Zenon
    <3>2. QED
      BY <2>3, <2>4, <3>1, Zenon
  <2>6. x \o w = (x \o y) \o z /\ x \o y \in Seq(Pieces)
    <3>1. x \o (y \o z) = (x \o y) \o z
      BY <2>5, Associate, Zenon
    <3>2. x \o y \in Seq(Pieces)
      BY <2>5, Associate, Zenon
    <3>3. QED
      BY <2>5, <3>1, <3>2, Zenon
  <2>7. IsPrefix(x \o y, (x \o y) \o z)
    BY <2>5, <2>6, BeginningOf, Zenon
  <2>8. QED
    BY <2>1, <2>3, <2>6, <2>7, Zenon
<1>3. ASSUME Carried(m, k, s, x, to, <<>>, un), un = <<>>, s = Len(m) PROVE to = x \o w
  <2>1. PICK p \in Nat : /\ k <= p /\ p <= s /\ to = x \o SubSeq(m, k + 1, p)
                         /\ <<>> \o <<>> = SubSeq(m, p + 1, s)
    BY <1>3, Zenon DEF Carried
  <2>2. SubSeq(m, p + 1, s) = <<>>
    BY <2>1, NothingJoined, Zenon
  <2>3. Len(SubSeq(m, p + 1, s)) = s - p
    <3>1. s <= s /\ p <= p
      BY <1>1
    <3>2. QED
      BY <1>1, <2>1, <3>1, Adjacent, Zenon
  <2>4. p = s
    <3>1. Len(<<>>) = 0
      OBVIOUS
    <3>2. s - p = 0
      BY <2>2, <2>3, <3>1, Zenon
    <3>3. QED
      BY <1>1, <3>2
  <2>5. QED
    BY <1>3, <2>1, <2>4, Zenon
<1>4. QED
  BY <1>2, <1>3, Zenon

-----------------------------------------------------------------------------
(* The threads keep to that, whatever the client sends and when, whatever is  *)
(* written of it, and whatever fails.                                         *)

Asked == Request!Message(req)
HeardOf == Len(firstRead)

\* The first read of a page was a string.
Plain == m_transparent => Request!IsString(firstRead)

Connected == stage \in {"relaying", "ended"}

\* Before there is a connection.
Waits ==
    /\ toServer = <<>> /\ pending = <<>> /\ unsent = 0
    /\ unread = SubSeq(Asked, HeardOf + 1, sent)
    /\ stage = "detecting" => firstRead = <<>>
    /\ stage = "connecting" /\ m_transparent /\ Request!IsString(firstRead) => m_request = firstRead

\* From then on.
Flows ==
    /\ Request!Resent \in Seq(Pieces)
    /\ Delivered(Asked, HeardOf, sent, Request!Resent, toServer)
    /\ stage = "relaying" /\ m_isActive =>
        Carried(Asked, HeardOf, sent, Request!Resent, toServer, pending, unread)

RelayInv ==
    /\ req \in Requests
    /\ Sized(Asked, HeardOf, sent)
    /\ firstRead = SubSeq(Asked, 1, HeardOf)
    /\ stage \in {"detecting", "connecting", "failed"} \/ Connected
    /\ ~ Connected => Waits
    /\ Connected /\ Plain => Flows
    /\ pending # <<>> => stage = "relaying" /\ m_isActive

\* What one call of recv takes out of the socket.
ReadOf(un) == SubSeq(un, 1, IF Len(un) < BufferSize THEN Len(un) ELSE BufferSize)

LEMMA RequestSteps ==
    [AdmissionNext]_<<credentials, request>> =>
        \/ Request!ClientSends
        \/ Request!Detect
        \/ Request!DetectFails
        \/ Request!ConnectFails
        \/ Request!Connect
        \/ Request!Relay
        \/ UNCHANGED request
BY Zenon DEF AdmissionNext, Transport, AuthenticateRequest, Reject, Connect, Quiet

LEMMA StagesDiffer ==
    /\ "detecting" # "connecting" /\ "detecting" # "failed" /\ "connecting" # "failed"
    /\ \A x \in {"detecting", "connecting", "failed"} : x \notin {"relaying", "ended"}
    /\ "relaying" # "ended"
OBVIOUS

LEMMA RelayInit == AdmissionInit => RelayInv
<1> SUFFICES ASSUME AdmissionInit PROVE RelayInv
  OBVIOUS
<1>1. /\ req \in Requests /\ sent = 0 /\ unread = <<>> /\ stage = "detecting"
      /\ toServer = <<>> /\ pending = <<>> /\ unsent = 0 /\ firstRead = <<>>
  BY DEF AdmissionInit, Request!Init
<1>2. Asked \in Seq(Pieces) /\ Len(Asked) \in Nat
  BY <1>1, MessageShape, Zenon DEF Asked
<1>3. HeardOf = 0 /\ 0 \in Nat /\ 0 <= 0 /\ 0 <= Len(Asked) /\ 0 + 1 = 1
  BY <1>1, <1>2 DEF HeardOf
<1>4. SubSeq(Asked, 1, 0) = <<>>
  BY <1>2, <1>3, NoPieces, Zenon
<1>5. Sized(Asked, HeardOf, sent)
  BY <1>1, <1>2, <1>3, Zenon DEF Sized
<1>6. Waits
  BY <1>1, <1>3, <1>4, StagesDiffer, Zenon DEF Waits
<1>7. QED
  BY <1>1, <1>3, <1>4, <1>5, <1>6, StagesDiffer, Zenon DEF RelayInv, Connected

\* What the steps of the relay and of the client leave alone.
Settled == UNCHANGED <<req, firstRead, m_transparent, unsent>>

LEMMA SettledKeeps ==
    ASSUME Settled
    PROVE  /\ Asked' = Asked /\ HeardOf' = HeardOf /\ Request!Resent' = Request!Resent
           /\ Plain' <=> Plain
BY Zenon DEF Settled, Asked, HeardOf, Plain, Request!Resent

LEMMA SendsKeeps == RelayInv /\ Request!ClientSends => RelayInv'
<1> SUFFICES ASSUME RelayInv, Request!ClientSends PROVE RelayInv'
  OBVIOUS
<1>1. PICK n \in sent + 1 .. Len(Asked) : unread' = unread \o SubSeq(Asked, sent + 1, n) /\ sent' = n
  BY Zenon DEF Request!ClientSends, Asked
<1>2. /\ UNCHANGED <<stage, m_request, toServer, pending, m_isActive, unsent, firstRead, m_transparent, req>>
      /\ Settled
  BY Zenon DEF Request!ClientSends, Request!session, Request!relay, Settled
<1>3. /\ Asked' = Asked /\ HeardOf' = HeardOf /\ Request!Resent' = Request!Resent
      /\ (Plain' <=> Plain) /\ (Connected' <=> Connected)
  BY <1>2, SettledKeeps, Zenon DEF Connected
<1>4. Sized(Asked, HeardOf, sent)
  BY Zenon DEF RelayInv
<1>5. Sized(Asked, HeardOf, n)
  BY <1>1, <1>4, CarrySends, Zenon
<1>6. ASSUME Waits PROVE Waits'
  <2>1. unread = SubSeq(Asked, HeardOf + 1, sent)
    BY <1>6, Zenon DEF Waits
  <2>2. unread' = SubSeq(Asked, HeardOf + 1, n)
    BY <1>1, <1>4, <2>1, PartSends, Zenon
  <2>3. QED
    BY <1>1, <1>2, <1>3, <1>6, <2>2, Zenon DEF Waits
<1>7. ASSUME Flows PROVE Flows'
  <2>1. Delivered(Asked, HeardOf, n, Request!Resent, toServer)
    BY <1>1, <1>4, <1>7, CarrySends, Zenon DEF Flows
  <2>2. ASSUME stage = "relaying", m_isActive
        PROVE  Carried(Asked, HeardOf, n, Request!Resent, toServer, pending, unread \o SubSeq(Asked, sent + 1, n))
    <3>1. Carried(Asked, HeardOf, sent, Request!Resent, toServer, pending, unread)
      BY <1>7, <2>2, Zenon DEF Flows
    <3>2. QED
      BY <1>1, <1>4, <3>1, CarrySends, Zenon
  <2>3. Request!Resent \in Seq(Pieces)
    BY <1>7, Zenon DEF Flows
  <2>4. QED
    BY <1>1, <1>2, <1>3, <2>1, <2>2, <2>3, Zenon DEF Flows
<1>8. QED
  BY <1>1, <1>2, <1>3, <1>5, <1>6, <1>7, Zenon DEF RelayInv

\* What is read at first is a beginning of the message, and what is left is the
\* part behind it.
ReadFirst(m, s, un) ==
    /\ Sized(m, Len(ReadOf(un)), s)
    /\ ReadOf(un) \in Seq(Pieces) /\ ReadOf(un) = SubSeq(m, 1, Len(ReadOf(un)))
    /\ SubSeq(un, Len(ReadOf(un)) + 1, Len(un)) = SubSeq(m, Len(ReadOf(un)) + 1, s)

LEMMA FirstReads == \A m, s : Sized(m, 0, s) => ReadFirst(m, s, SubSeq(m, 0 + 1, s))
<1> SUFFICES ASSUME NEW m, NEW s, Sized(m, 0, s) PROVE ReadFirst(m, s, SubSeq(m, 0 + 1, s))
  BY Zenon
<1> DEFINE un == SubSeq(m, 0 + 1, s)
<1>1. m \in Seq(Pieces) /\ 0 \in Nat /\ s \in Nat /\ 0 <= s /\ s <= s /\ s <= Len(m)
  BY DEF Sized
<1>2. un \in Seq(Pieces)
  BY <1>1, Adjacent, Zenon
<1>3. PICK n \in Nat : n <= Len(un) /\ ReadOf(un) = SubSeq(un, 1, n)
  <2>1. PICK c : c = IF Len(un) < BufferSize THEN Len(un) ELSE BufferSize
    OBVIOUS
  <2>2. c \in Nat /\ c <= Len(un)
    BY <1>2, <2>1, BufferAssumption
  <2>3. QED
    BY <2>1, <2>2, Zenon DEF ReadOf
<1>4. ReadOf(un) \in Seq(Pieces) /\ Len(ReadOf(un)) = n
  BY <1>2, <1>3, Halves, Zenon
<1>5. Cuts(m, 0, s, un, n)
  BY <1>1, <1>3, Parted, Zenon
<1>6. /\ 0 + n <= s /\ SubSeq(un, 1, n) = SubSeq(m, 0 + 1, 0 + n)
      /\ SubSeq(un, n + 1, Len(un)) = SubSeq(m, (0 + n) + 1, s)
  BY <1>5, Zenon DEF Cuts
<1>7. 0 + n = n /\ 0 + 1 = 1
  OBVIOUS
<1>8. QED
  BY <1>1, <1>3, <1>4, <1>6, <1>7, Zenon DEF Sized, ReadFirst

LEMMA DetectKeeps == RelayInv /\ Request!Detect => RelayInv'
<1> SUFFICES ASSUME RelayInv, Request!Detect PROVE RelayInv'
  OBVIOUS
<1>1. /\ stage = "detecting" /\ UNCHANGED <<req, sent, toServer, pending, unsent>>
      /\ firstRead' = ReadOf(unread) /\ unread' = SubSeq(unread, Len(ReadOf(unread)) + 1, Len(unread))
  BY Zenon DEF Request!Detect, Request!Read, Request!relay, ReadOf, Request!After
<1>2. PICK buf \in Request!Strings(ReadOf(unread)) :
        stage' = "failed" \/ (stage' = "connecting" /\ m_request' = buf)
  BY Zenon DEF Request!Detect, Request!Read, ReadOf
<1>3. Asked' = Asked
  BY <1>1, Zenon DEF Asked
<1>4. ~ Connected /\ ~ Connected'
  BY <1>1, <1>2, StagesDiffer, Zenon DEF Connected
<1>5. /\ toServer = <<>> /\ pending = <<>> /\ unsent = 0 /\ HeardOf = 0
      /\ unread = SubSeq(Asked, 0 + 1, sent) /\ Sized(Asked, 0, sent)
  <2>1. Waits
    BY <1>4, Zenon DEF RelayInv
  <2>2. firstRead = <<>>
    BY <1>1, <2>1, Zenon DEF Waits
  <2>3. HeardOf = 0
    BY <2>2 DEF HeardOf
  <2>4. QED
    BY <2>1, <2>3, Zenon DEF Waits, RelayInv
<1>6. /\ Sized(Asked, Len(ReadOf(unread)), sent)
      /\ ReadOf(unread) \in Seq(Pieces) /\ ReadOf(unread) = SubSeq(Asked, 1, Len(ReadOf(unread)))
      /\ unread' = SubSeq(Asked, Len(ReadOf(unread)) + 1, sent)
  <2>1. ReadFirst(Asked, sent, SubSeq(Asked, 0 + 1, sent))
    BY <1>5, FirstReads, Zenon
  <2>2. QED
    BY <1>1, <1>5, <2>1, Zenon DEF ReadFirst
<1>7. HeardOf' = Len(ReadOf(unread))
  BY <1>1, Zenon DEF HeardOf
<1>8. Request!IsString(ReadOf(unread)) => buf = ReadOf(unread)
  BY <1>6, WholeString, Zenon
<1>9. Waits'
  BY <1>1, <1>2, <1>3, <1>5, <1>6, <1>7, <1>8, StagesDiffer, Zenon DEF Waits
<1>10. QED
  BY <1>1, <1>2, <1>3, <1>4, <1>5, <1>6, <1>7, <1>9, Zenon DEF RelayInv

LEMMA FailKeeps == RelayInv /\ (Request!DetectFails \/ Request!ConnectFails) => RelayInv'
<1> SUFFICES ASSUME RelayInv, Request!DetectFails \/ Request!ConnectFails PROVE RelayInv'
  OBVIOUS
<1>1. /\ stage \in {"detecting", "connecting"} /\ stage' = "failed"
      /\ UNCHANGED <<req, sent, unread, firstRead, toServer, pending, unsent>>
  BY Zenon DEF Request!DetectFails, Request!ConnectFails, Request!relay
<1>2. Asked' = Asked /\ HeardOf' = HeardOf
  BY <1>1, Zenon DEF Asked, HeardOf
<1>3. ~ Connected /\ ~ Connected'
  BY <1>1, StagesDiffer, Zenon DEF Connected
<1>4. Waits
  BY <1>3, Zenon DEF RelayInv
<1>5. Waits'
  BY <1>1, <1>2, <1>4, StagesDiffer, Zenon DEF Waits
<1>6. QED
  BY <1>1, <1>2, <1>3, <1>4, <1>5, Zenon DEF RelayInv, Waits

\* A beginning of the first read, of any length.
LEMMA ResentIs ==
    ASSUME RelayInv, NEW n \in 0 .. HeardOf
    PROVE  SubSeq(firstRead, 1, n) \in Seq(Pieces)
<1>1. Sized(Asked, HeardOf, sent) /\ firstRead = SubSeq(Asked, 1, HeardOf)
  BY Zenon DEF RelayInv
<1>2. Asked \in Seq(Pieces) /\ HeardOf \in Nat /\ HeardOf <= Len(Asked)
  BY <1>1 DEF Sized
<1>3. firstRead \in Seq(Pieces) /\ Len(firstRead) = HeardOf
  BY <1>1, <1>2, Halves, Zenon
<1>4. n \in Nat /\ n <= Len(firstRead)
  BY <1>2, <1>3
<1>5. QED
  BY <1>3, <1>4, Halves

LEMMA ConnectKeeps == RelayInv /\ Request!Connect => RelayInv'
<1> SUFFICES ASSUME RelayInv, Request!Connect PROVE RelayInv'
  OBVIOUS
<1>1. /\ stage = "connecting" /\ stage' = "relaying"
      /\ UNCHANGED <<req, sent, unread, firstRead, m_transparent, m_request, pending, m_isActive>>
  BY Zenon DEF Request!Connect, Request!session
<1>2. Asked' = Asked /\ HeardOf' = HeardOf /\ (Plain' <=> Plain)
  BY <1>1, Zenon DEF Asked, HeardOf, Plain
<1>3. ~ Connected /\ Connected'
  BY <1>1, StagesDiffer, Zenon DEF Connected
<1>4. Waits /\ Sized(Asked, HeardOf, sent)
  BY <1>3, Zenon DEF RelayInv
<1>5. pending = <<>> /\ unread = SubSeq(Asked, HeardOf + 1, sent)
  BY <1>4, Zenon DEF Waits
<1>6. ASSUME Plain PROVE Request!Resent' \in Seq(Pieces) /\ toServer' = Request!Resent'
  <2>1. CASE m_transparent
    <3>1. m_request = firstRead
      BY <1>1, <1>4, <1>6, <2>1, Zenon DEF Waits, Plain
    <3>2. PICK n \in 0 .. Len(m_request) : toServer' = SubSeq(m_request, 1, n) /\ unsent' = Len(m_request) - n
      BY <2>1, Zenon DEF Request!Connect
    <3>3. PICK k : k = Len(firstRead) - (Len(firstRead) - n)
      OBVIOUS
    <3>4. Request!Resent' = SubSeq(firstRead, 1, k)
      BY <1>1, <2>1, <3>1, <3>2, <3>3, Zenon DEF Request!Resent
    <3>5. HeardOf \in Nat
      BY <1>4 DEF Sized
    <3>6. k = n
      BY <3>1, <3>2, <3>3, <3>5 DEF HeardOf
    <3>7. n \in 0 .. HeardOf
      BY <3>1, <3>2, Zenon DEF HeardOf
    <3>8. SubSeq(firstRead, 1, n) \in Seq(Pieces)
      BY <3>7, ResentIs, Zenon
    <3>9. QED
      BY <3>1, <3>2, <3>4, <3>6, <3>8, Zenon
  <2>2. CASE ~ m_transparent
    <3>1. toServer' = <<>>
      BY <1>4, <2>2, Zenon DEF Waits, Request!Connect
    <3>2. Request!Resent' = <<>> /\ <<>> \in Seq(Pieces)
      BY <1>1, <2>2, NothingJoined DEF Request!Resent
    <3>3. QED
      BY <3>1, <3>2
  <2>3. QED
    BY <2>1, <2>2
<1>7. ASSUME Plain PROVE Flows'
  <2>1. PICK x \in Seq(Pieces) : x = Request!Resent' /\ x = toServer'
    BY <1>6, <1>7, Zenon
  <2>2. Carried(Asked, HeardOf, sent, x, x, <<>>, SubSeq(Asked, HeardOf + 1, sent))
    BY <1>4, <2>1, CarryBegins, Zenon
  <2>3. Delivered(Asked, HeardOf, sent, x, x)
    BY <2>2, Zenon DEF Carried, Delivered
  <2>4. QED
    BY <1>1, <1>2, <1>5, <2>1, <2>2, <2>3, Zenon DEF Flows
<1>8. QED
  BY <1>1, <1>2, <1>3, <1>4, <1>5, <1>7, Zenon DEF RelayInv

\* One step of the relay, and what it does not touch.
LEMMA RelayFrame ==
    ASSUME Request!Relay
    PROVE  Settled /\ UNCHANGED <<sent, m_request, m_host, m_port, answered>> /\ (stage' = stage \/ Request!SessionEnds)
BY Zenon DEF Request!Relay, Request!RelayReads, Request!ReadEnds, Request!RelayWrites, Request!WriteFails,
             Request!SessionEnds, Request!session, Request!relay, Settled

LEMMA RelayReadsKeeps == RelayInv /\ Request!RelayReads => RelayInv'
<1> SUFFICES ASSUME RelayInv, Request!RelayReads PROVE RelayInv'
  OBVIOUS
<1>1. /\ stage = "relaying" /\ pending = <<>> /\ m_isActive
      /\ UNCHANGED <<req, firstRead, sent, stage, m_isActive, toServer>> /\ Settled
  BY Zenon DEF Request!RelayReads, Request!Idle, Request!session, Settled
<1>2. PICK n \in 1 .. Len(unread) :
        pending' = SubSeq(unread, 1, n) /\ unread' = SubSeq(unread, n + 1, Len(unread))
  BY Zenon DEF Request!RelayReads, Request!After
<1>3. /\ Asked' = Asked /\ HeardOf' = HeardOf /\ Request!Resent' = Request!Resent
      /\ (Plain' <=> Plain) /\ Connected /\ Connected'
  BY <1>1, SettledKeeps, Zenon DEF Connected
<1>4. ASSUME Flows PROVE Flows'
  <2>1. Carried(Asked, HeardOf, sent, Request!Resent, toServer, <<>>, unread)
    BY <1>1, <1>4, Zenon DEF Flows
  <2>2. Carried(Asked, HeardOf, sent, Request!Resent, toServer, pending', unread')
    BY <1>2, <2>1, CarryReads, Zenon
  <2>3. QED
    BY <1>1, <1>3, <1>4, <2>2, Zenon DEF Flows
<1>5. QED
  BY <1>1, <1>3, <1>4, Zenon DEF RelayInv

LEMMA RelayWritesKeeps == RelayInv /\ Request!RelayWrites => RelayInv'
<1> SUFFICES ASSUME RelayInv, Request!RelayWrites PROVE RelayInv'
  OBVIOUS
<1>1. UNCHANGED <<req, firstRead, sent, unread, stage, m_isActive>> /\ Settled
  BY Zenon DEF Request!RelayWrites, Request!session, Settled
<1>2. PICK n \in 1 .. Len(pending) :
        toServer' = toServer \o SubSeq(pending, 1, n) /\ pending' = SubSeq(pending, n + 1, Len(pending))
  BY Zenon DEF Request!RelayWrites, Request!After
<1>3. stage = "relaying" /\ m_isActive
  <2>1. Len(<<>>) = 0 /\ 1 .. 0 = {}
    OBVIOUS
  <2>2. pending # <<>>
    BY <1>2, <2>1, Zenon
  <2>3. QED
    BY <2>2, Zenon DEF RelayInv
<1>4. /\ Asked' = Asked /\ HeardOf' = HeardOf /\ Request!Resent' = Request!Resent
      /\ (Plain' <=> Plain) /\ Connected /\ Connected'
  BY <1>1, <1>3, SettledKeeps, Zenon DEF Connected
<1>5. Sized(Asked, HeardOf, sent)
  BY Zenon DEF RelayInv
<1>6. ASSUME Flows PROVE Flows'
  <2>1. /\ Carried(Asked, HeardOf, sent, Request!Resent, toServer, pending, unread)
        /\ Request!Resent \in Seq(Pieces)
    BY <1>3, <1>6, Zenon DEF Flows
  <2>2. Carried(Asked, HeardOf, sent, Request!Resent, toServer', pending', unread)
    BY <1>2, <1>5, <2>1, CarryWrites, Zenon
  <2>3. Delivered(Asked, HeardOf, sent, Request!Resent, toServer')
    BY <2>2, Zenon DEF Carried, Delivered
  <2>4. QED
    BY <1>1, <1>4, <2>1, <2>2, <2>3, Zenon DEF Flows
<1>7. QED
  BY <1>1, <1>3, <1>4, <1>5, <1>6, Zenon DEF RelayInv

\* Once something has failed, nothing more has to be carried.
LEMMA RelayEndsKeeps ==
    RelayInv /\ (Request!ReadEnds \/ Request!WriteFails \/ Request!SessionEnds) => RelayInv'
<1> SUFFICES ASSUME RelayInv, Request!ReadEnds \/ Request!WriteFails \/ Request!SessionEnds PROVE RelayInv'
  OBVIOUS
<1>1. UNCHANGED <<req, firstRead, sent, unread, toServer>> /\ Settled
  BY Zenon DEF Request!ReadEnds, Request!WriteFails, Request!SessionEnds, Request!session, Request!relay, Settled
<1>2. /\ pending' = <<>> /\ (stage' = "ended" \/ ~ m_isActive')
      /\ stage' = "relaying" \/ stage' = "ended"
      /\ stage = "relaying"
  BY Zenon DEF Request!ReadEnds, Request!WriteFails, Request!SessionEnds, Request!Idle, Request!relay, RelayInv
<1>3. /\ Asked' = Asked /\ HeardOf' = HeardOf /\ Request!Resent' = Request!Resent
      /\ (Plain' <=> Plain) /\ Connected /\ Connected'
  BY <1>1, <1>2, SettledKeeps, Zenon DEF Connected
<1>4. ASSUME Flows PROVE Flows'
  BY <1>1, <1>2, <1>3, <1>4, StagesDiffer, Zenon DEF Flows
<1>5. QED
  BY <1>1, <1>2, <1>3, <1>4, Zenon DEF RelayInv

LEMMA RelayStep == RelayInv /\ [AdmissionNext]_<<credentials, request>> => RelayInv'
<1> SUFFICES ASSUME RelayInv, [AdmissionNext]_<<credentials, request>> PROVE RelayInv'
  OBVIOUS
<1>1. CASE UNCHANGED request
  BY <1>1, Zenon DEF request, RelayInv, Waits, Flows, Connected, Plain, Asked, HeardOf, Request!Resent
<1>2. CASE Request!Relay
  BY <1>2, RelayReadsKeeps, RelayWritesKeeps, RelayEndsKeeps, Zenon DEF Request!Relay
<1>3. QED
  BY <1>1, <1>2, RequestSteps, SendsKeeps, DetectKeeps, FailKeeps, ConnectKeeps, Zenon

LEMMA InOrder == RelayInv => RelayedInOrder
<1> SUFFICES ASSUME RelayInv, Plain
             PROVE  /\ Request!IsPrefix(toServer, Request!Resent \o Request!Behind)
                    /\ Request!Idle /\ m_isActive /\ unread = <<>> /\ sent = Len(Request!Message(req)) =>
                            toServer = Request!Resent \o Request!Behind
  BY Zenon DEF RelayedInOrder, Request!RelayedInOrder, Plain
<1>1. Sized(Asked, HeardOf, sent) /\ Asked \in Seq(Pieces)
  BY Zenon DEF RelayInv, Sized
<1>2. Request!Behind = SubSeq(Asked, HeardOf + 1, Len(Asked))
  BY Zenon DEF Request!Behind, Request!After, Asked, HeardOf
<1>3. PICK w : w = SubSeq(Asked, HeardOf + 1, Len(Asked))
  OBVIOUS
<1>4. CASE Connected
  <2>1. Flows
    BY <1>4, Zenon DEF RelayInv
  <2>2. Request!Resent \in Seq(Pieces) /\ Delivered(Asked, HeardOf, sent, Request!Resent, toServer)
    BY <2>1, Zenon DEF Flows
  <2>3. IsPrefix(toServer, Request!Resent \o w)
    BY <1>1, <1>3, <2>2, DeliveredInOrder, Zenon
  <2>4. ASSUME Request!Idle, m_isActive, unread = <<>>, sent = Len(Asked)
        PROVE  toServer = Request!Resent \o w
    <3>1. Carried(Asked, HeardOf, sent, Request!Resent, toServer, <<>>, unread)
      BY <2>1, <2>4, Zenon DEF Flows, Request!Idle
    <3>2. QED
      BY <1>1, <1>3, <2>2, <2>4, <3>1, DeliveredInOrder, Zenon
  <2>5. QED
    BY <1>2, <1>3, <2>3, <2>4, SameText, Zenon DEF Asked
<1>5. CASE ~ Connected
  <2>1. toServer = <<>> /\ unsent = 0
    BY <1>5, Zenon DEF RelayInv, Waits
  <2>2. HeardOf \in Nat /\ Len(Asked) \in Nat /\ HeardOf <= Len(Asked) /\ Len(Asked) <= Len(Asked)
    BY <1>1 DEF Sized
  <2>3. w \in Seq(Pieces)
    <3>1. HeardOf <= HeardOf
      BY <2>2
    <3>2. QED
      BY <1>1, <1>3, <2>2, <3>1, Adjacent, Zenon
  <2>4. Request!Resent \in Seq(Pieces)
    <3>1. HeardOf \in 0 .. HeardOf /\ Len(firstRead) - 0 = HeardOf
      BY <2>2 DEF HeardOf
    <3>2. SubSeq(firstRead, 1, HeardOf) \in Seq(Pieces)
      BY <3>1, ResentIs, Zenon
    <3>3. <<>> \in Seq(Pieces)
      OBVIOUS
    <3>4. QED
      BY <2>1, <3>1, <3>2, <3>3, Zenon DEF Request!Resent
  <2>5. <<>> \in Seq(Pieces) /\ Request!Resent \o w \in Seq(Pieces)
    BY <2>3, <2>4, Associate, NothingJoined, Zenon
  <2>6. IsPrefix(<<>>, <<>> \o (Request!Resent \o w))
    BY <2>5, BeginningOf, Zenon
  <2>7. IsPrefix(toServer, Request!Resent \o w)
    BY <2>1, <2>5, <2>6, NothingJoined, Zenon
  <2>8. ~ Request!Idle
    BY <1>5, Zenon DEF Request!Idle, Connected
  <2>9. QED
    BY <1>2, <1>3, <2>7, <2>8, SameText, Zenon
<1>6. QED
  BY <1>4, <1>5

\* For every request and every size of the buffer, however the client cuts what it
\* has to say into segments, however much each read and each write moves, and
\* wherever a write or a read fails: what has reached the server is, in order and
\* once, of a page whose first read is a string the part of it that was resent, and
\* then what comes behind the first read, up to the point where a write failed, or
\* all that has been read if none did.  The part of the message that has been sent is at
\* every moment at the server, with the relay and in the socket, in this order.
THEOREM NothingLostBetweenThreads == AdmissionSpec => []RelayedInOrder
BY InOrder, RelayInit, RelayStep, PTL DEF AdmissionSpec

-----------------------------------------------------------------------------
(* The host that is connected to. *)

PortIs(r, p) == Request!NamedPort(r) < 65536 => p = Request!NamedPort(r)

\* The line was in the first read, and names a port only if it is a tunnel's.
LineRead(fr) ==
    /\ Request!IsRelayed(req) /\ Len(fr) >= Len(Request!RequestLine(req))
    /\ Request!Tunnels(req) \/ req.port = Request!NoPort

HostInv ==
    Request!Detected /\ LineRead(firstRead) =>
        m_host = <<req.host>> /\ PortIs(req, m_port) /\ m_transparent = ~ Request!Tunnels(req)

LEMMA PortKept ==
    ASSUME NEW r \in Requests, Request!IsRelayed(r)
    PROVE  PortIs(r, Request!SetPort(Request!NamedPort(r)))
<1>1. \A x \in DOMAIN Request!Number : Request!Number[x] \in Nat
  BY SMT DEF Request!Number
<1>2. r.port \in DOMAIN Request!Number \/ r.port = Request!NoPort
  BY RequestsAssumption, Zenon
<1>3. Request!NamedPort(r) \in Nat
  <2>1. 80 \in Nat
    BY SMT
  <2>2. QED
    BY <1>1, <1>2, <2>1, Zenon DEF Request!NamedPort
<1>4. QED
  BY <1>3, SMT DEF PortIs, Request!SetPort

LEMMA HostInit == AdmissionInit => HostInv
<1> SUFFICES ASSUME AdmissionInit PROVE ~ Request!Detected
  BY Zenon DEF HostInv
<1>1. QED
  BY DEF AdmissionInit, Request!Init, Request!Detected

\* What is parsed begins with the line if all of it has been read.
LEMMA BeginsWithLine ==
    ASSUME NEW fr, req \in Requests, fr \in Seq(Pieces), fr = SubSeq(Asked, 1, Len(fr)), Len(fr) <= Len(Asked),
           LineRead(fr), NEW buf \in Request!Strings(fr)
    PROVE  Begins(req, buf)
<1>1. PICK l : l = Request!RequestLine(req)
  OBVIOUS
<1>2. PICK m : m = Asked
  OBVIOUS
<1>3. /\ l \in Seq(Pieces) /\ m \in Seq(Pieces) /\ Len(l) \in Nat /\ Len(m) \in Nat /\ Len(l) <= Len(m)
      /\ \A j \in 1 .. Len(l) : m[j] = l[j]
  BY <1>1, <1>2, MessageShape, Zenon DEF Asked
<1>4. PICK k \in Nat : k = Len(l)
  BY <1>3
<1>5. k <= Len(fr)
  <2>1. Len(fr) >= k
    BY <1>1, <1>4, Zenon DEF LineRead
  <2>2. QED
    BY <2>1
<1>6. \A j \in 1 .. k : fr[j] = l[j]
  <2>1. PICK n \in Nat : n = Len(fr)
    BY LenProperties, Zenon
  <2>2. fr = SubSeq(m, 1, n) /\ n <= Len(m)
    BY <1>2, <2>1, Zenon
  <2>3. \A j \in 1 .. n : fr[j] = m[j]
    BY <1>3, <2>2, HeadAt
  <2>4. \A j \in 1 .. k : j \in 1 .. n
    BY <1>5, <2>1
  <2>5. QED
    BY <1>3, <1>4, <2>3, <2>4, Zenon
<1>7. \A j \in 1 .. k : fr[j] # Request!NUL
  BY <1>1, <1>4, <1>6, NoZeroInLine, Zenon DEF LineRead
<1>8. buf \in Seq(Pieces) /\ k <= Len(buf) /\ \A j \in 1 .. k : buf[j] = fr[j]
  BY <1>5, <1>7, StringOf, Zenon
<1>9. QED
  BY <1>1, <1>4, <1>6, <1>8, Zenon DEF Begins

LEMMA HostStep == RelayInv /\ RelayInv' /\ HostInv /\ [AdmissionNext]_<<credentials, request>> => HostInv'
<1> SUFFICES ASSUME RelayInv, RelayInv', HostInv, [AdmissionNext]_<<credentials, request>> PROVE HostInv'
  OBVIOUS
<1>1. ASSUME UNCHANGED <<req, firstRead, m_host, m_port, m_transparent>>, Request!Detected' => Request!Detected
      PROVE  HostInv'
  BY <1>1, Zenon DEF HostInv, LineRead
<1>2. CASE Request!Relay
  <2>1. UNCHANGED <<req, firstRead, m_host, m_port, m_transparent>> /\ (stage' = stage \/ stage = "relaying")
    BY <1>2, RelayFrame, Zenon DEF Settled, Request!SessionEnds, Request!Idle
  <2>2. Request!Detected' => Request!Detected
    BY <2>1, Zenon DEF Request!Detected
  <2>3. QED
    BY <1>1, <2>1, <2>2, Zenon
<1>3. CASE Request!ClientSends \/ Request!Connect \/ Request!ConnectFails \/ Request!DetectFails
  <2>1. UNCHANGED <<req, firstRead, m_host, m_port, m_transparent>>
    BY <1>3, Zenon DEF Request!ClientSends, Request!Connect, Request!ConnectFails, Request!DetectFails,
                       Request!session
  <2>2. stage' = stage \/ stage = "connecting" \/ stage' = "failed"
    BY <1>3, Zenon DEF Request!ClientSends, Request!Connect, Request!ConnectFails, Request!DetectFails
  <2>3. Request!Detected' => Request!Detected
    BY <2>2 DEF Request!Detected
  <2>4. QED
    BY <1>1, <2>1, <2>3, Zenon
<1>4. CASE UNCHANGED request
  BY <1>1, <1>4, Zenon DEF request, Request!Detected
<1>5. CASE Request!Detect
  <2>1. req' = req /\ firstRead' = ReadOf(unread)
    BY <1>5, Zenon DEF Request!Detect, Request!Read, ReadOf
  <2>2. SUFFICES ASSUME Request!Detected', LineRead(firstRead')
                 PROVE  /\ m_host' = <<req.host>>
                        /\ PortIs(req, m_port')
                        /\ m_transparent' = ~ Request!Tunnels(req)
    BY <2>1, Zenon DEF HostInv, LineRead
  <2>3. req \in Requests /\ Request!IsRelayed(req) /\ (Request!Tunnels(req) \/ req.port = Request!NoPort)
    BY <2>2, Zenon DEF RelayInv, LineRead
  <2>4. stage' # "failed"
    BY <2>2 DEF Request!Detected
  <2>5. PICK buf \in Request!Strings(firstRead') :
          /\ m_host' = Request!HostOf(buf) /\ m_port' = Request!SetPort(Request!PortOf(buf))
          /\ m_transparent' = Request!IsTransparent(buf)
    BY <1>5, <2>4, Zenon DEF Request!Detect
  <2>6. Begins(req, buf)
    <3>1. Sized(Asked, HeardOf', sent') /\ firstRead' = SubSeq(Asked, 1, HeardOf')
      BY <2>1, Zenon DEF RelayInv, Asked
    <3>2. Asked \in Seq(Pieces) /\ HeardOf' \in Nat /\ HeardOf' <= Len(Asked)
      BY <3>1 DEF Sized
    <3>3. firstRead' \in Seq(Pieces)
      BY <3>1, <3>2, Halves, Zenon
    <3>4. HeardOf' = Len(firstRead')
      BY Zenon DEF HeardOf
    <3>5. QED
      BY <2>2, <2>3, <3>1, <3>2, <3>3, <3>4, BeginsWithLine, Zenon
  <2>7. Request!HostOf(buf) = <<req.host>> /\ Request!PortOf(buf) = Request!NamedPort(req)
    BY <2>3, <2>6, DetectsTunnel, DetectsPage, Zenon
  <2>8. Request!IsTransparent(buf) = ~ Request!Tunnels(req)
    <3>1. Request!IsTransparent(buf) <=> ~ Request!Tunnels(req)
      BY <2>3, <2>6, DetectsMode, Zenon
    <3>2. QED
      BY <3>1, SMT DEF Request!IsTransparent, Request!Tunnels
  <2>9. PortIs(req, Request!SetPort(Request!NamedPort(req)))
    BY <2>3, PortKept, Zenon
  <2>10. QED
    BY <2>5, <2>7, <2>8, <2>9, Zenon
<1>6. QED
  BY <1>2, <1>3, <1>4, <1>5, RequestSteps, Zenon

\* For every request whose line is in the first read, and however much of its
\* headers and of its body comes with it: the host and the port that a client
\* names in a CONNECT, or in the url of a page without a port, are what the
\* session is connected to.
THEOREM ConnectsToTheHostNamed == AdmissionSpec => []HostAsNamed
<1>1. HostInv => HostAsNamed
  BY SMT DEF HostInv, LineRead, PortIs, HostAsNamed, Request!HostAsNamed
<1>2. QED
  BY <1>1, HostInit, HostStep, RelayInit, RelayStep, PTL DEF AdmissionSpec

=============================================================================
