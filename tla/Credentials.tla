----------------------------- MODULE Credentials -----------------------------
(***************************************************************************)
(* AuthManager::Authenticate: the credentials of a Proxy-Authorization     *)
(* header are decoded from Base64 (Base64Decode, one step for each pass of *)
(* its loop), split into a name and a password with strchr and sscanf, and *)
(* looked up.  Characters and bytes are numbers, as in the code.           *)
(***************************************************************************)
EXTENDS Text, FiniteSets

CONSTANTS
    Sources,  \* the credentials that clients send: sequences of characters
    m_users,  \* the users: [name, password], sequences of bytes
    Texts,    \* texts that clients encode
    Modulus   \* 2^32, where tmp wraps; TLC, whose numbers end below it, gets less

ASSUME SourcesAssumption == \A s \in Sources : s \in Seq(1 .. 255)
ASSUME TextsAssumption == \A s \in Texts : s \in Seq(1 .. 255)
ASSUME ModulusAssumption == Modulus \in Nat /\ Modulus >= 256 * 256 * 256 /\ Modulus % 64 = 0

Pad == 61    \* =
Colon == 58
Space == 32
Blanks == {Space} \cup 9 .. 13

\* The words that ConfigFile reads are not empty and have no blanks; a name
\* ends at the first colon of its line.
ASSUME UsersAssumption ==
    /\ \A u \in m_users :
        /\ u.name # <<>> /\ u.name \in Seq(1 .. 255 \ (Blanks \cup {Colon}))
        /\ u.password # <<>> /\ u.password \in Seq(1 .. 255 \ Blanks)
    /\ \A u, v \in m_users : u.name = v.name => u = v

VARIABLES
    source,  \* the argument
    idx,     \* characters that have been read
    tmp,     \* the group of four that is being put together, 32 bits
    dst,     \* the bytes written
    pc,      \* "decode", then "invalid" (a null pointer) or "decoded", then "done"
    username \* the user that is authenticated, empty if there is none

vars == <<source, idx, tmp, dst, pc, username>>

Init ==
    /\ source \in Sources
    /\ idx = 0 /\ tmp = 0 /\ dst = <<>>
    /\ pc = "decode" /\ username = <<>>

-----------------------------------------------------------------------------
(* Base64Decode. *)

Letters == 65 .. 90 \cup 97 .. 122 \cup 48 .. 57 \cup {43, 47}

\* A-Z, a-z, 0-9, + and /.
Sextet(in) ==
    IF in \in 65 .. 90 THEN in - 65
    ELSE IF in \in 97 .. 122 THEN in - 97 + 26
    ELSE IF in \in 48 .. 57 THEN in - 48 + 52
    ELSE IF in = 43 THEN 62
    ELSE IF in = 47 THEN 63
    ELSE 0

size == (Len(source) * 3 + 3) \div 4

\* Mutant: no room is added.
AllocatedExactly == size

\* The bytes allocated, all zero.
Allocated == size + 3

\* tmp |= c: the low six bits are free after the shift.
AddSextet(in) == IF in = Pad THEN tmp ELSE tmp + Sextet(in)

\* tmp <<= 6.
ShiftLeft(t) == 64 * (t % (Modulus \div 64))

ThreeBytes(t) == <<(t \div 65536) % 256, (t \div 256) % 256, t % 256>>

\* Mutant: the group is not cleared.
DecodeKeepsGroup ==
    /\ pc = "decode" /\ idx < Len(source)
    /\ LET in == source[idx + 1]
           t  == AddSextet(in)
       IN  /\ in \in Letters \cup {Pad}
           /\ IF (idx + 1) % 4 = 0
              THEN dst' = dst \o ThreeBytes(t) /\ tmp' = t
              ELSE UNCHANGED dst /\ tmp' = ShiftLeft(t)
    /\ idx' = idx + 1
    /\ UNCHANGED <<source, pc, username>>

Decode ==
    /\ pc = "decode" /\ idx < Len(source)
    /\ LET in == source[idx + 1]
           t  == AddSextet(in)
       IN  /\ in \in Letters \cup {Pad}
           /\ IF (idx + 1) % 4 = 0
              THEN dst' = dst \o ThreeBytes(t) /\ tmp' = 0
              ELSE UNCHANGED dst /\ tmp' = ShiftLeft(t)
    /\ idx' = idx + 1
    /\ UNCHANGED <<source, pc, username>>

InvalidCharacter ==
    /\ pc = "decode" /\ idx < Len(source)
    /\ source[idx + 1] \notin Letters \cup {Pad}
    /\ idx' = idx + 1
    /\ pc' = "invalid"
    /\ UNCHANGED <<source, tmp, dst, username>>

EndOfSource ==
    /\ pc = "decode" /\ idx = Len(source)
    /\ pc' = IF idx % 4 # 0 THEN "invalid" ELSE "decoded"
    /\ UNCHANGED <<source, idx, tmp, dst, username>>

-----------------------------------------------------------------------------
(* Authenticate. *)

\* The bytes as a string: they end at the first zero.
credString == Before(dst, strchr(dst, 0))

\* The first colon becomes a blank.
SplitAtColon(s) == IF strchr(s, Colon) = 0 THEN s ELSE ReplaceAt(s, strchr(s, Colon), Space)

Authenticate_i(user, pass) == \E u \in m_users : u.name = user /\ u.password = pass

Authenticate ==
    /\ pc = "decoded"
    /\ LET creds == SplitAtColon(credString)
           user == Word(creds, Blanks)
           pass == Word(AfterWord(creds, Blanks), Blanks)
       IN  username' = IF Authenticate_i(user, pass) THEN user ELSE <<>>
    /\ pc' = "done"
    /\ UNCHANGED <<source, idx, tmp, dst>>

\* The caller has the answer: false for "invalid", true for "done".
Returned == pc \in {"invalid", "done"} /\ UNCHANGED vars

Next == Decode \/ InvalidCharacter \/ EndOfSource \/ Authenticate \/ Returned

Spec == Init /\ [][Next]_vars

-----------------------------------------------------------------------------
(* Correctness. *)

\* The bytes are written inside the buffer, and at least one zero is left
\* behind them to end the string, whatever the source and its length.
InBuffer == Len(dst) < Allocated

SextetAt(i) == IF source[i] = Pad THEN 0 ELSE Sextet(source[i])

\* Each three bytes are the twenty-four bits of the four characters they stand
\* for: no bit is lost in the shifts of tmp and none is left over from the
\* group before.
GroupsOfFour ==
    \A k \in 0 .. (Len(dst) \div 3) - 1 :
        256 * (256 * dst[3 * k + 1] + dst[3 * k + 2]) + dst[3 * k + 3] =
            64 * (64 * (64 * SextetAt(4 * k + 1) + SextetAt(4 * k + 2)) + SextetAt(4 * k + 3))
                + SextetAt(4 * k + 4)

\* Base64 as RFC 4648 has it, in the other direction.
Letter(v) == CHOOSE c \in Letters : Sextet(c) = v

Byte(text, i) == IF i <= Len(text) THEN text[i] ELSE 0

Encode(text) ==
    [i \in 1 .. 4 * ((Len(text) + 2) \div 3) |->
        LET k == (i - 1) \div 4
            j == (i - 1) % 4
            bits == 65536 * Byte(text, 3 * k + 1) + 256 * Byte(text, 3 * k + 2) + Byte(text, 3 * k + 3)
        IN  IF j > Len(text) - 3 * k THEN Pad ELSE Letter((bits \div 64^(3 - j)) % 64)]

Encoded == {<<Encode(text), text>> : text \in Texts}

\* The text that a client has encoded as the source, if it is one.
TextsOf(src) == {e[2] : e \in {x \in Encoded : x[1] = src}}

\* What a client encodes comes out as it went in, and is never refused; a
\* source of the wrong length or with any other character is.
DecodesText ==
    /\ pc = "invalid" => TextsOf(source) = {}
    /\ pc = "done" =>
        /\ \A text \in TextsOf(source) : credString = text
        /\ Len(source) % 4 = 0 /\ \A i \in DOMAIN source : source[i] \in Letters \cup {Pad}

=============================================================================
