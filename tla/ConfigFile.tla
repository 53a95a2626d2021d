----------------------------- MODULE ConfigFile -----------------------------
(***************************************************************************)
(* ConfigFile::LoadData, which reads the configuration line by line into   *)
(* a ConfigData, and GetSection, with which main() reads it.               *)
(*                                                                         *)
(* A line is a sequence of pieces: a blank, a character that means         *)
(* something to the parser, or a run of characters that do not.  Words are *)
(* shorter than the buffers of the code.  The steps are taken by Startup.  *)
(***************************************************************************)
EXTENDS Text, FiniteSets

CONSTANTS
    Documents,  \* what the file may say: sequences of the items below
    Words,      \* the names of sections and keys that are looked up
    Garbage     \* a word that nobody wrote: the content of a buffer before it is written

Blank == " "
Blanks == {Blank}

(***************************************************************************)
(* The items of a file and the line that each one is written as.  A value  *)
(* is a word, a sequence of pieces without blanks.                         *)
(***************************************************************************)
JoinedBy(comma, values) ==
    LET from[i \in 1 .. Len(values)] ==
            IF i = Len(values) THEN values[i] ELSE values[i] \o comma \o from[i + 1]
    IN  from[1]

Line(item) ==
    CASE item.kind = "section" -> <<"[">> \o item.name \o <<"]">>
      [] item.kind = "entry"   -> <<Blank>> \o item.key \o <<Blank, ":">>
                                    \o JoinedBy(<<",", Blank>>, item.values) \o item.comment
      [] item.kind = "stray"   -> <<Blank, "stray", ",">>
      [] item.kind = "blank"   -> <<Blank>>
      [] item.kind = "comment" -> <<"#", "[", "a", "]", "k", ":", "v">>

Lines(doc) == [i \in DOMAIN doc |-> Line(doc[i])]

VARIABLES
    document,     \* history: what the file says
    pc,           \* "open", then "line" and "values" in turn, then "loaded", "destroyed"
    line,         \* lines that have been read
    m_data,       \* the sections, in the order they were added
    sectionName,  \* the buffers of LoadData
    keyName,
    value,
    valuetmp      \* what is left of the line

vars == <<document, pc, line, m_data, sectionName, keyName, value, valuetmp>>

Init ==
    /\ document \in Documents
    /\ pc = "open" /\ line = 0 /\ m_data = <<>>
    /\ sectionName = <<>> /\ keyName = Garbage /\ value = Garbage /\ valuetmp = <<>>

-----------------------------------------------------------------------------
(* ConfigData, ConfigSection and MultiValueAttribute. *)

\* The place of the member of a list that has the name, or 0.
Find(list, n) == SelectInSeq(list, LAMBDA x : x.name = n)

AddSection(data, n) ==
    IF Find(data, n) # 0 THEN data ELSE Append(data, [name |-> n, attributes |-> <<>>])

GetAttribute(attributes, k) ==
    IF Find(attributes, k) # 0 THEN attributes ELSE Append(attributes, [name |-> k, values |-> <<>>])

\* FindSection(s).GetAttribute(k).AddValue(v)
AddValue(data, s, k, v) ==
    LET found == AddSection(data, s)
        i == Find(found, s)
        attributes == GetAttribute(found[i].attributes, k)
        j == Find(attributes, k)
    IN  [found EXCEPT ![i].attributes = [attributes EXCEPT ![j].values = Append(@, v)]]

-----------------------------------------------------------------------------
(* LoadData. *)

\* fopen() fails, and nothing is read.
NoFile ==
    /\ pc = "open"
    /\ pc' = "loaded"
    /\ UNCHANGED <<document, line, m_data, sectionName, keyName, value, valuetmp>>

Open ==
    /\ pc = "open"
    /\ pc' = "line"
    /\ UNCHANGED <<document, line, m_data, sectionName, keyName, value, valuetmp>>

\* What a "%s" leaves in a buffer: the word, or, if there is none, what was
\* there.  The buffers of keys and values are not initialised and are gone
\* after every line: what is left of them is the same words by chance.
Scan(text, buffer) == IF Word(text, Blanks) # <<>> THEN Word(text, Blanks) ELSE buffer
ScanLocal(text, buffer) ==
    IF Word(text, Blanks) # <<>> THEN {Word(text, Blanks)} ELSE {buffer, Garbage}

\* The line after the comment, which may begin anywhere, is cut off.
LineBuf(i) == LET l == Lines(document)[i] IN Before(l, strchr(l, "#"))

IsSection(l) == strchr(l, "[") # 0 /\ strrchr(l, "]") # 0

\* The text behind the "[", up to the last "]" if that comes later.
InBrackets(l) ==
    LET text == After(l, strchr(l, "["))
    IN  Before(text, strrchr(text, "]"))

\* getline() returns -1 also when it cannot read on, and nobody looks why.
ReadFails ==
    /\ pc = "line"
    /\ pc' = "loaded"
    /\ UNCHANGED <<document, line, m_data, sectionName, keyName, value, valuetmp>>

EndOfFile ==
    /\ pc = "line" /\ line = Len(document)
    /\ pc' = "loaded"
    /\ UNCHANGED <<document, line, m_data, sectionName, keyName, value, valuetmp>>

\* Without a name between the brackets sscanf returns EOF, not 0: the section
\* stays what it was.
SectionLine ==
    /\ pc = "line" /\ line < Len(document) /\ IsSection(LineBuf(line + 1))
    /\ sectionName' = Scan(InBrackets(LineBuf(line + 1)), sectionName)
    /\ m_data' = AddSection(m_data, sectionName')
    /\ line' = line + 1
    /\ UNCHANGED <<document, pc, keyName, value, valuetmp>>

\* A line without a colon: one with a word in it ends the file.
OtherLine ==
    /\ pc = "line" /\ line < Len(document) /\ ~ IsSection(LineBuf(line + 1))
    /\ strchr(LineBuf(line + 1), ":") = 0
    /\ pc' = IF Word(LineBuf(line + 1), Blanks) # <<>> THEN "loaded" ELSE "line"
    /\ line' = line + 1
    /\ UNCHANGED <<document, m_data, sectionName, keyName, value, valuetmp>>

KeyLine ==
    /\ pc = "line" /\ line < Len(document) /\ ~ IsSection(LineBuf(line + 1))
    /\ LET l == LineBuf(line + 1)
           colon == strchr(l, ":")
       IN  /\ colon # 0
           /\ keyName' \in ScanLocal(Before(l, colon), keyName)
           /\ valuetmp' = After(l, colon)
    /\ value' \in {value, Garbage}
    /\ pc' = "values"
    /\ line' = line + 1
    /\ UNCHANGED <<document, m_data, sectionName>>

\* Mutant: the last piece of the line is not stored.
NextValueDropsLast ==
    /\ pc = "values"
    /\ value' = Scan(Before(valuetmp, strchr(valuetmp, ",")), value)
    /\ IF strchr(valuetmp, ",") = 0
       THEN pc' = "line" /\ valuetmp' = <<>> /\ UNCHANGED m_data
       ELSE /\ valuetmp' = After(valuetmp, strchr(valuetmp, ",")) /\ UNCHANGED pc
            /\ m_data' = AddValue(m_data, sectionName, keyName, value')
    /\ UNCHANGED <<document, line, sectionName, keyName>>

\* One piece of the line, up to the next comma or the end.
NextValue ==
    /\ pc = "values"
    /\ value' = Scan(Before(valuetmp, strchr(valuetmp, ",")), value)
    /\ m_data' = AddValue(m_data, sectionName, keyName, value')
    /\ IF strchr(valuetmp, ",") = 0 THEN pc' = "line" /\ valuetmp' = <<>>
       ELSE valuetmp' = After(valuetmp, strchr(valuetmp, ",")) /\ UNCHANGED pc
    /\ UNCHANGED <<document, line, sectionName, keyName>>

\* ConfigFile::GetSection adds the section it does not find.  main() reads the
\* attributes from a copy.
GetSection(s) ==
    /\ pc = "loaded"
    /\ m_data' = AddSection(m_data, s)
    /\ UNCHANGED <<document, pc, line, sectionName, keyName, value, valuetmp>>

\* The end of DoConfig, and of the ConfigFile in it.
Destroyed ==
    /\ pc = "loaded"
    /\ pc' = "destroyed" /\ m_data' = <<>>
    /\ sectionName' = <<>> /\ keyName' = Garbage /\ value' = Garbage /\ valuetmp' = <<>>
    /\ UNCHANGED <<document, line>>

LoadData == Open \/ EndOfFile \/ SectionLine \/ OtherLine \/ KeyLine \/ NextValue

-----------------------------------------------------------------------------
(* Reading the configuration. *)

Attributes(s) == LET i == Find(m_data, s) IN IF i = 0 THEN <<>> ELSE m_data[i].attributes

\* GetValue(0), GetValue(1), ... until it returns false.
ValuesOf(s, k) ==
    LET i == Find(Attributes(s), k) IN IF i = 0 THEN <<>> ELSE Attributes(s)[i].values

-----------------------------------------------------------------------------
(* Correctness. *)

\* The place of the first stray line, or 0.
FirstStray == SelectInSeq(document, LAMBDA x : x.kind = "stray")

\* How many items count: those before a stray line.
ItemsThatCount == IF FirstStray = 0 THEN Len(document) ELSE FirstStray - 1

\* How many of them have been read.
ItemsRead == IF FirstStray = 0 \/ FirstStray > line THEN line ELSE FirstStray - 1

\* The name in the last section line before item i, if there is one.
SectionAt(doc, i) ==
    LET named == {j \in 1 .. i : doc[j].kind = "section" /\ doc[j].name # <<>>}
    IN  IF named = {} THEN <<>> ELSE doc[Max(named)].name

IsEntryOf(doc, i, s, k) == doc[i].kind = "entry" /\ doc[i].key = k /\ SectionAt(doc, i) = s

\* What the first n items say of a key, in all the parts of the section and all
\* its lines; a value may be missing between two commas or behind the colon.
Written(doc, n, s, k) ==
    LET upto[i \in 0 .. Len(doc)] ==
            IF i = 0 THEN <<>>
            ELSE IF IsEntryOf(doc, i, s, k) THEN upto[i - 1] \o doc[i].values ELSE upto[i - 1]
    IN  upto[n]

\* Where a value is missing there may be anything.
Fits(values, written) ==
    /\ Len(values) = Len(written)
    /\ \A i \in DOMAIN written : written[i] # <<>> => values[i] = written[i]

AtLine == pc = "line" \/ (pc = "loaded" /\ line # 0)

IsDistinct(list) == \A i, j \in DOMAIN list : list[i].name = list[j].name => i = j

\* A section is in the list once and a key is in its section once, in the order
\* in which they come first.  main() takes every user and every domain file from
\* such a list, and would define one twice.
EnumeratedOnce ==
    /\ IsDistinct(m_data)
    /\ \A i \in DOMAIN m_data : IsDistinct(m_data[i].attributes)
    /\ \A s \in Words : \A i, j \in DOMAIN Attributes(s) :
        i < j => \E m \in 1 .. line :
            /\ IsEntryOf(document, m, s, Attributes(s)[i].name)
            /\ \A n \in 1 .. m : ~ IsEntryOf(document, n, s, Attributes(s)[j].name)

\* After every line, and for as long as the configuration is read, each key of
\* each section has the values that the file says up to there, each in its place:
\* also when the parts of a section are apart, a key comes again, its values go
\* on after comments and blank lines, or one is missing.  A stray line ends the
\* file.  And who goes through the lists by position meets everything once.
LoadedAsWritten ==
    /\ AtLine => \A s, k \in Words : Fits(ValuesOf(s, k), Written(document, ItemsRead, s, k))
    /\ EnumeratedOnce

=============================================================================
