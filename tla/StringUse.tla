---- MODULE StringUse ----
\* A text is rewritten again and again, cut into pieces and joined, and data is
\* appended to it, by the functions of util/string/strutil; or it is escaped,
\* something follows it, and it is read back; or words are stemmed by the
\* Porter stemmer (porter_stemmer.cc), whose object keeps the word it works on
\* and is shared by threads as the search index does (search_index.h).
EXTENDS Strings, FiniteSets

CONSTANTS
  Texts,       \* the strings that are rewritten
  Escaped,     \* the strings that are escaped
  Followers,   \* what follows an escaped string in a stream
  Needles,     \* words that are looked for
  Separators,  \* sets of separators
  Parts,       \* limits on the number of pieces
  Chunks,      \* data that is appended
  Limit,       \* size limit of the string it is appended to
  MaxSteps,    \* bound on the steps
  Threads,     \* threads that call StemTerm() of one object
  Words,       \* words that are stemmed
  Examples,    \* the words of the comment on step1ab(), and what it says of them
  Literals,    \* the literals of the stemmer's code: a function from their names
  MaxCalls     \* bound on the calls of the stemmer

VARIABLES
  text,        \* the string
  before,      \* the string before it was cut
  list,        \* its pieces
  last,        \* the last operation
  given,       \* all data that was to be appended
  steps,
  writer,      \* which function has escaped the string: "off" if none will,
               \* "stem" if words are stemmed instead
  encoded,     \* the string escaped
  rest,        \* what follows it
  reader, decoded,   \* which function has read it, and what
  buffer,      \* buffer[t]: the word of a thread's call of the stemmer
  term,        \* term[t]: the word it was called with
  at,          \* at[t]: the next step of the call, "idle" or "done"
  z,           \* the stemmer: whose buffer b is, its end k, an offset j
  calls

cutVars == <<before, list, last, given, steps>>
escapeVars == <<writer, encoded, rest, reader, decoded>>
stemVars == <<buffer, term, at, z, calls>>
vars == <<text, cutVars, escapeVars, stemVars>>

\* ---- the stemmer -----------------------------------------------------------


B(w, i) == IF i + 1 \in DOMAIN w.b THEN w.b[i + 1] ELSE 0
Named(name) == Literals[name][1]

RECURSIVE cons(_, _)
cons(w, i) ==
  IF B(w, i) \in {Named("a"), Named("e"), Named("i"), Named("o"), Named("u")} THEN FALSE
  ELSE IF B(w, i) = Named("y") THEN i = 0 \/ ~cons(w, i - 1)
  ELSE TRUE

\* The number of times a consonant follows a vowel up to j.
m(w) == Cardinality({i \in 1..w.j : ~cons(w, i - 1) /\ cons(w, i)})
vowelinstem(w) == \E i \in 0..w.j : ~cons(w, i)
doublec(w, j) == j >= 1 /\ B(w, j) = B(w, j - 1) /\ cons(w, j)
cvc(w, i) ==
  i >= 2 /\ cons(w, i) /\ ~cons(w, i - 1) /\ cons(w, i - 2) /\ B(w, i) \notin {Named("w"), Named("x"), Named("y")}

Ends(w, name) ==
  LET s == Literals[name] IN Len(s) <= w.k + 1 /\ \A i \in DOMAIN s : B(w, w.k - Len(s) + i) = s[i]
\* The stemmer after ends(): j is the end of what is before the suffix.
Ended(w, name) == IF Ends(w, name) THEN [w EXCEPT !.j = w.k - Len(Literals[name])] ELSE w

\* setto(): the letters behind j.
setto(w, name) ==
  LET s == Literals[name]
  IN  [w EXCEPT !.b = [i \in DOMAIN @ |-> IF i - 1 \in (w.j + 1)..(w.j + Len(s)) THEN s[i - 1 - w.j] ELSE @[i]],
                !.k = w.j + Len(s)]
r_(w, name) == IF m(w) > 0 THEN setto(w, name) ELSE w

Plural(w) ==
  IF B(w, w.k) # Named("s") THEN w
  ELSE IF Ends(w, "sses") THEN [Ended(w, "sses") EXCEPT !.k = @ - 2]
  ELSE IF Ends(w, "ies") THEN setto(Ended(w, "ies"), "i")
  ELSE IF B(w, w.k - 1) # Named("s") THEN [w EXCEPT !.k = @ - 1]
  ELSE w

\* The end of a word without its -ed or -ing.
Restored(w) ==
  IF Ends(w, "at") THEN setto(Ended(w, "at"), "ate")
  ELSE IF Ends(w, "bl") THEN setto(Ended(w, "bl"), "ble")
  ELSE IF Ends(w, "iz") THEN setto(Ended(w, "iz"), "ize")
  ELSE IF doublec(w, w.k)
       THEN IF B(w, w.k - 1) \in {Named("l"), Named("s"), Named("z")} THEN w ELSE [w EXCEPT !.k = @ - 1]
  ELSE IF m(w) = 1 /\ cvc(w, w.k) THEN setto(w, "e") ELSE w

step1ab(w) ==
  LET p == Plural(w)
      d == Ended(p, IF Ends(p, "ed") THEN "ed" ELSE "ing")
  IN  IF Ends(p, "eed")
      THEN IF m(Ended(p, "eed")) > 0 THEN [Ended(p, "eed") EXCEPT !.k = @ - 1] ELSE Ended(p, "eed")
      ELSE IF (Ends(p, "ed") \/ Ends(p, "ing")) /\ vowelinstem(d) THEN Restored([d EXCEPT !.k = d.j]) ELSE d

step1c(w) ==
  LET y == Ended(w, "y") IN IF Ends(w, "y") /\ vowelinstem(y) THEN [y EXCEPT !.b[w.k + 1] = Named("i")] ELSE y

\* The suffixes in the order of the cases, and what they become.
Rules2 == <<<<"ational", "ate">>, <<"tional", "tion">>, <<"enci", "ence">>, <<"anci", "ance">>, <<"izer", "ize">>, <<"bli", "ble">>,
  <<"alli", "al">>, <<"entli", "ent">>, <<"eli", "e">>, <<"ousli", "ous">>, <<"ization", "ize">>, <<"ation", "ate">>, <<"ator", "ate">>,
  <<"alism", "al">>, <<"iveness", "ive">>, <<"fulness", "ful">>, <<"ousness", "ous">>, <<"aliti", "al">>, <<"iviti", "ive">>,
  <<"biliti", "ble">>, <<"logi", "log">>>>
Rules3 == <<<<"icate", "ic">>, <<"ative", "">>, <<"alize", "al">>, <<"iciti", "ic">>, <<"ical", "ic">>, <<"ful", "">>, <<"ness", "">>>>
Rules4 == <<"al", "ance", "ence", "er", "ic", "able", "ible", "ant", "ement", "ment", "ent", "ion", "ou", "ism", "ate", "iti", "ous", "ive", "ize">>

Earliest(S) == CHOOSE i \in S : \A k \in S : i <= k
Replaced(w, rules) ==
  LET found == {i \in DOMAIN rules : Ends(w, rules[i][1])}
      rule == rules[Earliest(found)]
  IN  IF found = {} THEN w ELSE r_(Ended(w, rule[1]), rule[2])
step2(w) == Replaced(w, Rules2)
step3(w) == Replaced(w, Rules3)
step4(w) ==
  LET found == {i \in DOMAIN Rules4 : Ends(w, Rules4[i]) /\ (Rules4[i] = "ion" => B(w, w.k - 3) \in {Named("s"), Named("t")})}
      e == Ended(w, Rules4[Earliest(found)])
  IN  IF found = {} THEN w ELSE IF m(e) > 1 THEN [e EXCEPT !.k = e.j] ELSE e
step5(w) ==
  LET v == [w EXCEPT !.j = w.k]
      e == IF B(v, v.k) = Named("e") /\ (m(v) > 1 \/ (m(v) = 1 /\ ~cvc(v, v.k - 1))) THEN [v EXCEPT !.k = @ - 1] ELSE v
  IN  IF B(e, e.k) = Named("l") /\ doublec(e, e.k) /\ m(e) > 1 THEN [e EXCEPT !.k = @ - 1] ELSE e

Step(name, w) ==
  CASE name = "step1ab" -> step1ab(w) [] name = "step1c" -> step1c(w) [] name = "step2" -> step2(w)
    [] name = "step3" -> step3(w) [] name = "step4" -> step4(w) [] name = "step5" -> step5(w)
After == [step1ab |-> "step1c", step1c |-> "step2", step2 |-> "step3", step3 |-> "step4", step4 |-> "step5", step5 |-> "return"]
First == CHOOSE t \in Threads : TRUE

\* ---- behaviour -------------------------------------------------------------

Rewrites == {"trim", "trimmed", "lines", "last word", "tags", "name", "capitals", "sentence", "letters", "junk"}
Rewritten(op, s) ==
  CASE op = "trim" -> Trim(s)                [] op = "trimmed" -> GetTrimmedString(s)
    [] op = "lines" -> TrimLines(s)          [] op = "last word" -> RemoveLastWord(s)
    [] op = "tags" -> StripTags(s)           [] op = "name" -> NormalizeName(s)
    [] op = "capitals" -> Capitalize(s)      [] op = "sentence" -> AllUpperToAllLower(s)
    [] op = "letters" -> ExtractText(s, 32)  [] op = "junk" -> ReplaceJunkMultiByteChars(s)

\* The writers, and the readers of what each writes.
Writers == {"C", "JSON", "stream C", "stream JSON", "HTML", "Base64", "Base64 lines"}
Quoting == {"C", "JSON", "stream C", "stream JSON"}
Readers(w) == IF w \in Quoting THEN {"strutil", "stream"} ELSE {w}
Encode(w, s) ==
  CASE w = "C" -> EscapeString_C_or_JSON(s, FALSE) [] w = "JSON" -> EscapeString_C_or_JSON(s, TRUE)
    [] w = "stream C" -> EscapeStringToStream(s, FALSE) [] w = "stream JSON" -> EscapeStringToStream(s, TRUE)
    [] w = "HTML" -> EscapeString_HTML(s)
    [] OTHER -> EncodeString_Base64(s, w = "Base64 lines")
Whole(s) == [bytes |-> 0, result |-> s]
Decode(r, s) ==
  CASE r = "strutil" -> UnescapeString_C(s) [] r = "stream" -> UnEscapeQuotedStringFromStream(s, {44})
    [] r = "HTML" -> Whole(UnescapeString_HTML(s)) [] OTHER -> Whole(DecodeString_Base64(s))

Init ==
  /\ \/ text \in Texts /\ writer = "off"
     \/ text \in Escaped /\ writer = "none"
     \/ text = <<>> /\ writer = "stem"
  /\ encoded = <<>> /\ rest = <<>> /\ reader = "none" /\ decoded = Whole(<<>>)
  /\ before = <<>> /\ list = <<>> /\ last = <<"none">> /\ given = <<>> /\ steps = 0
  /\ buffer = [t \in Threads |-> <<>>] /\ term = [t \in Threads |-> <<>>]
  /\ at = [t \in Threads |-> "idle"]
  /\ z = [owner |-> First, k |-> -1, j |-> -1]
  /\ calls = 0

Rewrite(op) ==
  /\ writer = "off" /\ steps < MaxSteps /\ list = <<>> /\ (op = "tags" => text # <<>>)
  /\ text' = Rewritten(op, text) /\ last' = <<"rewrite">>
  /\ before' = <<>> /\ given' = <<>> /\ steps' = steps + 1
  /\ UNCHANGED <<list, escapeVars, stemVars>>

\* The pieces, up to n and the rest.
Cut(seps, n, allow_empty) ==
  /\ writer = "off" /\ steps < MaxSteps /\ list = <<>>
  /\ list' = SplitStringNParts(text, seps, n, allow_empty)
  /\ last' = <<"cut", seps, n, allow_empty>>
  /\ before' = text /\ given' = <<>> /\ steps' = steps + 1
  /\ UNCHANGED <<text, escapeVars, stemVars>>

Glue(seps) ==
  /\ writer = "off" /\ steps < MaxSteps /\ list # <<>> /\ Cardinality(seps) = 1
  /\ text' = JoinString(list, <<CHOOSE c \in seps : TRUE>>, TRUE) /\ list' = <<>>
  /\ last' = <<"glue", seps>> \o Tail(last)
  /\ steps' = steps + 1
  /\ UNCHANGED <<before, given, escapeVars, stemVars>>

AppendData(data) ==
  /\ writer = "off" /\ steps < MaxSteps /\ list = <<>> /\ Len(text) <= Limit
  /\ text' = AppendDataToString(data, Limit, text)
  /\ given' = (IF last = <<"append">> THEN given ELSE text) \o data
  /\ last' = <<"append">>
  /\ before' = <<>> /\ steps' = steps + 1
  /\ UNCHANGED <<list, escapeVars, stemVars>>

Write(w) ==
  /\ writer = "none" /\ writer' = w
  /\ encoded' = Encode(w, text)
  /\ UNCHANGED <<text, cutVars, rest, reader, decoded, stemVars>>

\* Something follows in the stream.
Follow(more) ==
  /\ writer \in Quoting /\ reader = "none" /\ rest = <<>>
  /\ rest' = more
  /\ UNCHANGED <<text, cutVars, writer, encoded, reader, decoded, stemVars>>

Read(r) ==
  /\ writer \in Writers /\ reader = "none" /\ reader' = r
  /\ decoded' = Decode(r, encoded \o rest)
  /\ UNCHANGED <<text, cutVars, writer, encoded, rest, stemVars>>

\* StemTerm() and the beginning of stem(): short words stay as they are.
StemTerm(t, word) ==
  /\ writer = "stem" /\ at[t] \in {"idle", "done"} /\ calls < MaxCalls
  /\ calls' = calls + 1
  /\ buffer' = [buffer EXCEPT ![t] = word] /\ term' = [term EXCEPT ![t] = word]
  /\ IF Len(word) <= 2 THEN at' = [at EXCEPT ![t] = "done"] /\ UNCHANGED z
     ELSE at' = [at EXCEPT ![t] = "step1ab"] /\ z' = [z EXCEPT !.owner = t, !.k = Len(word) - 1]
  /\ UNCHANGED <<text, cutVars, escapeVars>>

\* A step works on whatever word the object has.
Stem(t) ==
  /\ writer = "stem" /\ at[t] \in DOMAIN After
  /\ LET w == Step(at[t], [b |-> buffer[z.owner], k |-> z.k, j |-> z.j])
     IN  /\ buffer' = [buffer EXCEPT ![z.owner] = w.b]
         /\ z' = [z EXCEPT !.k = w.k, !.j = w.j]
  /\ at' = [at EXCEPT ![t] = After[at[t]]]
  /\ UNCHANGED <<term, calls, text, cutVars, escapeVars>>

\* The buffer is cut to the end in the object.
Return(t) ==
  /\ writer = "stem" /\ at[t] = "return"
  /\ buffer' = [buffer EXCEPT ![t] = SubSeq(@, 1, z.k + 1)]
  /\ at' = [at EXCEPT ![t] = "done"]
  /\ UNCHANGED <<term, z, calls, text, cutVars, escapeVars>>

Next ==
  \/ \E op \in Rewrites : Rewrite(op)
  \/ \E seps \in Separators, n \in Parts, allow_empty \in BOOLEAN : Cut(seps, n, allow_empty)
  \/ \E seps \in Separators : Glue(seps)
  \/ \E data \in Chunks : AppendData(data)
  \/ \E w \in Writers : Write(w)
  \/ \E more \in Followers : Follow(more)
  \/ \E t \in Threads : Stem(t) \/ Return(t) \/ \E word \in Words : StemTerm(t, word)
  \/ writer \in Writers /\ \E r \in Readers(writer) : Read(r)

Spec == Init /\ [][Next]_vars

\* ---- properties ------------------------------------------------------------

\* A text that is rewritten and in one piece.
Uncut == writer = "off" /\ list = <<>>

IsAscii(s) == \A i \in DOMAIN s : s[i] < 128
Rev(s) == [i \in DOMAIN s |-> s[Len(s) + 1 - i]]
Mirrored(v) == Rev([k \in DOMAIN v |-> Rev(v[k])])
NonEmpty(v) == SelectSeq(v, LAMBDA e : e # <<>>)

\* Cutting loses nothing but separators: the pieces of Split() joined again are
\* the text; the pieces of the other functions are those of Split(), trimmed or
\* without the empty ones; with a limit the first pieces are the same and the
\* rest is whole; and the functions from the end mirror those from the
\* beginning.
CutsRejoin ==
  Uncut => \A seps \in Separators, n \in Parts :
    LET all == Split(text, seps)
        cut == SplitStringNParts(text, seps, n, FALSE)
        unlimited == SplitStringNParts(text, seps, Len(text) + 1, FALSE)
        sep == CHOOSE c \in seps : TRUE
    IN  /\ Cardinality(seps) = 1 => Join(all, <<sep>>) = text
        /\ unlimited = NonEmpty(all) /\ SplitSkip(text, seps) = NonEmpty(all)
        /\ SplitStringNParts(text, seps, Len(text) + 1, TRUE) = (IF all[Len(all)] = <<>> THEN SubSeq(all, 1, Len(all) - 1) ELSE all)
        /\ Len(cut) <= n + 1
        /\ \A k \in DOMAIN cut : k <= n => cut[k] = unlimited[k]
        /\ Len(cut) = n + 1 => StartsWith(Rev(text), Rev(cut[n+1]), 1)
        /\ \A allow_empty \in BOOLEAN :
             RSplitStringNParts(text, seps, n, allow_empty) = Mirrored(SplitStringNParts(Rev(text), seps, n, allow_empty))
        /\ NonEmpty(BreakUpString(text, sep)) = NonEmpty([k \in DOMAIN Split(text, {sep}) |-> GetTrimmedString(Split(text, {sep})[k])])
        /\ ReplaceAllOf(text, <<sep>>, <<1, 1>>) = Join(Split(text, {sep}), <<1, 1>>)
        /\ NonEmpty(ParseStringPair(text, sep)) = NonEmpty(SplitStringNParts(text, {sep}, 1, TRUE))

\* Cutting with empty pieces and joining with the same separator gives the text
\* back, up to a separator at its end.
GluedBack ==
  (last[1] = "glue" /\ last[2] = last[3] /\ last[5]) => text = before \/ text \o <<CHOOSE c \in last[2] : TRUE>> = before

\* Names and words agree: the normal form of a name is its words joined by a
\* space and, of ASCII texts, the same name; a word is contained that is one of
\* them; a string without its last word has its other words; and no two texts
\* are the same name whose letters and digits differ.
NamesAgree ==
  Uncut =>
  LET words == NormalizeNameIntoWords(text)
  IN  /\ NormalizeName(text) = Join(words, Space)
      /\ IsAscii(text) => SameName(text, NormalizeName(text)) /\ AlphaNumericContent(text) = FlattenSeq(words)
      /\ \A w \in Needles :
           /\ IsAscii(text) => (ContainsWord(text, w) <=> \E k \in DOMAIN words : EqualIgnoreCase(words[k], w))
           /\ SameName(text, w) <=> Upper(SelectSeq(text, IS_ALPHANUMERIC)) = Upper(SelectSeq(w, IS_ALPHANUMERIC))
           /\ IsPrefixOf(w, text) => \E k \in 0..Len(text) : EqualIgnoreCase(Part(text, 1, k), w)
      /\ IsAscii(text) /\ Tokenize(text) # <<>> => Append(Tokenize(RemoveLastWord(text)), Tokenize(text)[Len(Tokenize(text))]) = Tokenize(text)
      /\ ExtractText(text, 32) = Join(SplitSkip(Lower(text), {c \in 0..127 : ~IS_LETTER(c)}), Space)

\* What is clean stays as it is: cleaning twice is cleaning once. Cleaning
\* keeps the letters and digits of a text, changes at most their case, and
\* leaves no tag; the capitals of a text do not depend on those it had.
CleanOnce ==
  Uncut =>
  /\ \A op \in Rewrites \ {"last word", "tags", "junk"} : Rewritten(op, Rewritten(op, text)) = Rewritten(op, text)
  /\ text # <<>> => \A i, k \in DOMAIN StripTags(text) : StripTags(text)[i] = 60 /\ StripTags(text)[k] = 62 => k < i
  /\ IsAscii(text) =>
       \A op \in {"trim", "trimmed", "lines", "name", "capitals", "sentence"} : SameName(Rewritten(op, text), text)
  /\ EqualIgnoreCase(Capitalize(text), text)
  /\ IsAscii(text) => FixCapitalization(Upper(text)) = Capitalize(text)
  /\ \A i \in DOMAIN Split(text, {10}) :
       LET line == Split(text, {10})[i] IN i < Len(Split(text, {10})) \/ line # <<>> => Split(Indent(text, 1), {10})[i] = Space \o line
  /\ GetTrimmedString(TrimLines(text)) = GetTrimmedString(text)
  /\ RemoveAllSpaces(text) = <<>> <=> GetTrimmedString(text) = <<>>

\* The edit distance is the number of single edits from one string to the
\* other: it is 0 for equal strings only, every edit changes it by at most one,
\* and one that is not 0 is one less after some edit.
Edits(s, C) ==
  {SubSeq(s, 1, i - 1) \o SubSeq(s, i + 1, Len(s)) : i \in DOMAIN s}
    \cup {[s EXCEPT ![i] = c] : i \in DOMAIN s, c \in C}
    \cup {SubSeq(s, 1, i) \o <<c>> \o SubSeq(s, i + 1, Len(s)) : i \in 0..Len(s), c \in C}
EditsCounted ==
  Uncut /\ Len(text) <= 3 =>
    \A w \in Needles :
      LET d == EditDistance(text, w)
          near == {EditDistance(t, w) : t \in Edits(text, {w[k] : k \in DOMAIN w})}
      IN  /\ d = 0 <=> text = w
          /\ \A e \in near : e \in (d - 1)..(d + 1)
          /\ d > 0 => d - 1 \in near

\* Appended data stops at the limit, once and for all: the string is what was
\* given up to the limit, whatever came in which pieces.
AppendsToLimit == last = <<"append">> => text = Part(given, 1, Limit)

\* A field is the number that its characters spell, whatever spaces pad it.
FieldsRead ==
  LET r == GetFixedWidthInteger(text, Len(text))
      core == GetTrimmedString(text)
  IN  Uncut /\ core # <<>> /\ (\A k \in DOMAIN core : IS_DIGIT(core[k])) =>
        r.success /\ r.value = GetFixedWidthInteger(<<43>> \o core, Len(core) + 1).value
          /\ -r.value = GetFixedWidthInteger(<<32, 45>> \o core \o <<65>>, Len(core) + 3).value

\* The characters of a text of whole characters of up to three bytes; <<>> is
\* no such text, unless it is empty.
RECURSIVE CharactersOf(_)
CharactersOf(s) ==
  IF s = <<>> THEN <<>>
  ELSE LET len == IF s[1] < 128 THEN 1 ELSE More(s[1]) + 1
           head == Part(s, 1, len)
       IN  <<head>> \o CharactersOf(SubSeq(s, len + 1, Len(s)))
Valid(s) ==
  \A i \in DOMAIN CharactersOf(s) :
    LET c == CharactersOf(s)[i]
    IN  \/ Len(c) = 1 /\ c[1] < 128
        \/ Len(c) = 2 /\ c[1] \in 194..223 /\ c[2] \in 128..191 /\ ~(c[1] = 194 /\ c[2] \in 145..148)
        \/ Len(c) = 3 /\ c[1] \in 224..239 /\ c[2] \in 128..191 /\ c[3] \in 128..191 /\ (c[1] = 224 => c[2] >= 160)

\* What is escaped is read back: in the style of C every string, by the readers
\* of either library; in that of JSON by the reader of the stream every string
\* of UTF-8 characters of up to 16 bits outside of 0x91 to 0x94, and by that of
\* strutil every ASCII string; HTML and Base64 every string. A reader stops at
\* the end of the string, whatever follows it.
RoundTrips ==
  reader # "none" =>
    /\ \/ writer \notin {"JSON", "stream JSON"}
       \/ reader = "stream" /\ Valid(text)
       \/ \A i \in DOMAIN text : text[i] < 128
       => decoded.result = text
    /\ writer \in Quoting => decoded.bytes = Len(encoded)

\* A string in the style of JSON has only printable ASCII characters, so that
\* it has no end of a line, and neither has one of C.
Printed ==
  writer \in Quoting =>
    \A i \in DOMAIN encoded : encoded[i] >= 32 /\ (writer \in {"JSON", "stream JSON"} => encoded[i] < 128)

\* The stem of a word by an object that nobody else has used.
StemOf(word) ==
  LET run(w, name) == Step(name, w)
      w == FoldLeft(run, [b |-> word, k |-> Len(word) - 1, j |-> -1], <<"step1ab", "step1c", "step2", "step3", "step4", "step5">>)
  IN  IF Len(word) <= 2 THEN word ELSE SubSeq(w.b, 1, w.k + 1)

\* "This library encapsulates Porter Stemming Algorithm into a more C++ friendly
\* thread safe class" (porter_stemmer.h): a word is stemmed as it is alone,
\* whatever the object stemmed before. It is not so when two threads use the
\* object at once, as those that search an index do.
StemsAlone == \A t \in Threads : at[t] = "done" => buffer[t] = StemOf(term[t])

\* "Stemming never increases word length, so 0 <= k' <= k" (porter_stemmer.cc),
\* nor does it leave nothing of a word, and in between nothing is written
\* behind the word.
NeverLonger ==
  \A t \in Threads :
    /\ at[t] # "idle" /\ z.owner = t /\ Len(term[t]) > 2 => z.k \in 0..(Len(term[t]) - 1)
    /\ at[t] = "done" => Len(buffer[t]) <= Len(term[t]) /\ (term[t] # <<>> => buffer[t] # <<>>)

\* "step1ab(z) gets rid of plurals and -ed or -ing. e.g." (porter_stemmer.cc):
\* it does so with the words of that comment.
AsExplained ==
  \A t \in Threads :
    at[t] = "step1c" /\ term[t] \in DOMAIN Examples => SubSeq(buffer[t], 1, z.k + 1) = Examples[term[t]]
====
