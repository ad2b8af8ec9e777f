---- MODULE Strings ----
\* The functions of util/string/strutil that clean, compare, cut and join
\* strings, and how strings are escaped and read: in the style of C and of
\* JSON, by strutil and by util/serial/encoding, as HTML and as Base64.
\*
\* A character is its code, a string a sequence of codes. A char is signed, so
\* that the bytes of a character that is not ASCII are below a space, and taken
\* for one, wherever the code compares with ' '.
EXTENDS Integers, Sequences, SequencesExt

CONSTANTS
  Special,     \* words with capitals of their own, such as "US" and "de"
  Junk,        \* pairs of badly converted characters and what they stand for
  LineLength   \* characters of a line of Base64, 76 in the code

Printable == " !\"#$%&'()*+,-./0123456789:;<=>?@ABCDEFGHIJKLMNOPQRSTUVWXYZ[\\]^_ abcdefghijklmnopqrstuvwxyz{|}~"

\* The string of a literal (without the back quote, 96).
Ascii(literal) ==
  [k \in 1..Len(literal) |->
     31 + (CHOOSE i \in 1..Len(Printable) : i # 65 /\ SubSeq(Printable, i, i) = SubSeq(literal, k, k))]

IS_DIGIT(c) == c \in 48..57
IS_LETTER(c) == c \in 65..90 \cup 97..122
IS_HEXDIGIT(c) == c \in 48..57 \cup 65..70 \cup 97..102
IS_ALPHANUMERIC(c) == IS_DIGIT(c) \/ IS_LETTER(c)
IS_ALPHANUMERIC_INTL(c) == IS_ALPHANUMERIC(c) \/ c >= 128
IsSpace(c) == c <= 32 \/ c >= 128   \* a char that is at most ' '

ToUpper(c) == IF c \in 97..122 THEN c - 32 ELSE c
ToLower(c) == IF c \in 65..90 THEN c + 32 ELSE c

\* The character at a position; what follows the last one is '\0'.
At(s, i) == IF i \in 1..Len(s) THEN s[i] ELSE 0
\* Up to n characters from a position on.
Part(s, i, n) == SubSeq(s, i, IF i + n - 1 <= Len(s) THEN i + n - 1 ELSE Len(s))
StartsWith(s, prefix, i) == Part(s, i, Len(prefix)) = prefix

\* The first position from i on of a character outside, or inside, of S, and
\* one more than the length when there is none.
FindNotIn(s, S, i) ==
  LET found == {k \in i..Len(s) : s[k] \notin S} IN IF found = {} THEN Len(s) + 1 ELSE CHOOSE k \in found : \A l \in found : k <= l
FindIn(s, S, i) ==
  LET found == {k \in i..Len(s) : s[k] \in S} IN IF found = {} THEN Len(s) + 1 ELSE CHOOSE k \in found : \A l \in found : k <= l

Spaces == {c \in 1..255 : IsSpace(c)}
SkipSpaces(s, i) == FindNotIn(s, Spaces, i)
NameCharacters == {c \in 0..255 : IS_ALPHANUMERIC_INTL(c)}
SkipNonAlphaNumeric(s, i) == FindIn(s, NameCharacters, i)
SkipAlphaNumeric(s, i) == FindNotIn(s, NameCharacters, i)

Space == <<32>>

\* ---- trimming and cleaning -------------------------------------------------

\* The part of a string from its first to its last character that is not in S.
Inner(s, S) ==
  LET kept == {k \in DOMAIN s : s[k] \notin S}
  IN  IF kept = {} THEN <<>> ELSE SubSeq(s, CHOOSE i \in kept : \A k \in kept : i <= k, CHOOSE j \in kept : \A k \in kept : k <= j)
UpToLast(s, S) ==
  LET kept == {k \in DOMAIN s : s[k] \notin S} IN IF kept = {} THEN <<>> ELSE SubSeq(s, 1, CHOOSE j \in kept : \A k \in kept : k <= j)
Blanks == Spaces \cup {0}

Trim(s) == Inner(s, {32})
GetTrimmedString(s) == Inner(s, Blanks)
RemoveTrailingSpaces(s) == UpToLast(s, Blanks)
RemoveAllSpaces(s) == SelectSeq(s, LAMBDA c : ~IsSpace(c))
AlphaNumericContent(s) == SelectSeq(s, IS_ALPHANUMERIC_INTL)

\* Empty lines go, the spaces before the first line stay.
TrimLines(s) ==
  LET first == FindNotIn(s, Blanks, 1)
      s1 == CHOOSE i \in 1..first : (\A k \in i..(first-1) : s[k] = 32) /\ (i > 1 => s[i-1] # 32)
      end == Len(UpToLast(s, Blanks))
      newline == \E k \in (IF end >= s1 THEN end + 1 ELSE s1)..Len(s) : s[k] = 10
  IN  SubSeq(s, s1, end) \o (IF newline THEN <<13, 10>> ELSE <<>>)

\* The last word and the spaces around it go.
RemoveLastWord(s) ==
  LET t == UpToLast(s, Blanks) IN RemoveTrailingSpaces(UpToLast(t, {c \in 0..255 : ~IsSpace(c)}))

\* From the end to the beginning: a '>' ends a tag and the next '<' begins it.
RECURSIVE StripFrom(_, _, _)
StripFrom(s, i, end) ==
  IF i = 0 THEN s
  ELSE IF end = 0 /\ s[i] = 62 THEN StripFrom(s, i - 1, i)
  ELSE IF end # 0 /\ s[i] = 60 THEN StripFrom(SubSeq(s, 1, i - 1) \o SubSeq(s, end + 1, Len(s)), i - 1, 0)
  ELSE StripFrom(s, i - 1, end)
StripTags(s) == StripFrom(s, Len(s), 0)

Indent(s, n) ==
  FlattenSeq([i \in DOMAIN s |-> (IF i = 1 \/ At(s, i - 1) = 10 THEN [k \in 1..n |-> 32] ELSE <<>>) \o <<s[i]>>])

RECURSIVE ReplaceFrom(_, _, _, _)
ReplaceFrom(s, i, from, to) ==
  IF i > Len(s) THEN <<>>
  ELSE IF StartsWith(s, from, i) THEN to \o ReplaceFrom(s, i + Len(from), from, to)
  ELSE <<s[i]>> \o ReplaceFrom(s, i + 1, from, to)
ReplaceAllOf(s, from, to) == ReplaceFrom(s, 1, from, to)

\* The first pair that matches is replaced.
RECURSIVE ReplaceJunkFrom(_, _)
ReplaceJunkFrom(s, i) ==
  LET found == IF At(s, i) = 195 THEN {k \in DOMAIN Junk : StartsWith(s, Junk[k][1], i)} ELSE {}
      k == CHOOSE k \in found : \A l \in found : k <= l
  IN  IF i > Len(s) THEN <<>>
      ELSE IF found # {} THEN Junk[k][2] \o ReplaceJunkFrom(s, i + Len(Junk[k][1]))
      ELSE <<s[i]>> \o ReplaceJunkFrom(s, i + 1)
ReplaceJunkMultiByteChars(s) == ReplaceJunkFrom(s, 1)

\* Letters in lower case; each run of other characters becomes one dummy,
\* which is no letter.
ExtractText(s, dummy) ==
  LET letter(c) == IS_LETTER(c) \/ c >= 128
      step(r, c) == IF letter(c) THEN Append(r, ToLower(c)) ELSE IF r = <<>> \/ r[Len(r)] = dummy THEN r ELSE Append(r, dummy)
      r == FoldLeft(step, <<>>, s)
  IN  IF r # <<>> /\ r[Len(r)] = dummy THEN SubSeq(r, 1, Len(r) - 1) ELSE r

\* ---- case ------------------------------------------------------------------

Upper(s) == [i \in DOMAIN s |-> ToUpper(s[i])]
Lower(s) == [i \in DOMAIN s |-> ToLower(s[i])]
ContainsLowerCase(s) == \E i \in DOMAIN s : s[i] \in 97..122
EqualIgnoreCase(s1, s2) == Lower(s1) = Lower(s2)

FixSpecialCapitalization(s, to, end) ==
  LET start == end - Len(to) + 1
  IN  IF start >= 1 /\ ~IS_LETTER(At(s, start - 1)) /\ EqualIgnoreCase(SubSeq(s, start, end), to)
      THEN SubSeq(s, 1, start - 1) \o to \o SubSeq(s, end + 1, Len(s)) ELSE s

CapitalizeAt(s, i) ==
  LET prev == At(s, i - 1)
      c == IF IS_LETTER(s[i]) /\ ~IS_LETTER(prev) /\ ~IS_DIGIT(prev) /\ prev # 39 THEN ToUpper(s[i]) ELSE ToLower(s[i])
      t == [s EXCEPT ![i] = c]
  IN  IF i = Len(s) \/ (IS_LETTER(c) /\ ~IS_LETTER(s[i+1]))
      THEN FoldLeft(LAMBDA r, to : FixSpecialCapitalization(r, to, i), t, Special) ELSE t
Capitalize(s) == FoldLeft(CapitalizeAt, s, [i \in DOMAIN s |-> i])
FixCapitalization(s) == IF s # <<>> /\ ~ContainsLowerCase(s) THEN Capitalize(s) ELSE s

\* The first letter of each sentence stays.
AllUpperToAllLower(s) ==
  LET letter(k) == s[k] \in 65..90
      first(i) == ~\E k \in 1..(i-1) : letter(k) /\ \A l \in k..(i-1) : s[l] # 46
  IN  IF ContainsLowerCase(s) THEN s ELSE [i \in DOMAIN s |-> IF letter(i) /\ ~first(i) THEN ToLower(s[i]) ELSE s[i]]

\* ---- words and names -------------------------------------------------------

IsPrefixOf(s1, s2) == Len(s1) <= Len(s2) /\ EqualIgnoreCase(s1, Part(s2, 1, Len(s1)))

AlphaNumerics == {c \in 0..127 : IS_ALPHANUMERIC(c)}
WordBegins(s, i) == IS_ALPHANUMERIC(At(s, i)) /\ ~IS_ALPHANUMERIC(At(s, i - 1))

\* A plausible slip: the end of the word is not looked at.
ContainsWord_Prefix(haystack, needle) ==
  \E i \in DOMAIN haystack : WordBegins(haystack, i) /\ EqualIgnoreCase(Part(haystack, i, Len(needle)), needle)

ContainsWord(haystack, needle) ==
  \E i \in DOMAIN haystack :
    /\ WordBegins(haystack, i)
    /\ EqualIgnoreCase(Part(haystack, i, Len(needle)), needle)
    /\ ~IS_ALPHANUMERIC(At(haystack, i + Len(needle)))

\* Both strings are walked along at once.
RECURSIVE SameFrom(_, _, _, _)
SameFrom(s1, s2, i, j) ==
  LET a == FindIn(s1, AlphaNumerics, i)
      b == FindIn(s2, AlphaNumerics, j)
  IN  ToUpper(At(s1, a)) = ToUpper(At(s2, b)) /\ (a > Len(s1) \/ SameFrom(s1, s2, a + 1, b + 1))
SameName(s1, s2) == SameFrom(s1, s2, 1, 1)

RECURSIVE WordsFrom(_, _)
WordsFrom(s, i) ==
  LET start == SkipNonAlphaNumeric(s, i)
      end == SkipAlphaNumeric(s, start)
  IN  IF start > Len(s) THEN <<>> ELSE <<SubSeq(s, start, end - 1)>> \o WordsFrom(s, end)
NormalizeNameIntoWords(s) == WordsFrom(s, 1)

\* One space for what lies between two words.
RECURSIVE NormalizeFrom(_, _)
NormalizeFrom(s, i) ==
  LET next == SkipNonAlphaNumeric(s, i)
  IN  IF i > Len(s) THEN <<>>
      ELSE IF IS_ALPHANUMERIC_INTL(s[i]) THEN <<s[i]>> \o NormalizeFrom(s, i + 1)
      ELSE (IF next > Len(s) THEN <<>> ELSE Space) \o NormalizeFrom(s, next)
NormalizeName(s) == NormalizeFrom(s, SkipNonAlphaNumeric(s, 1))

EditDistance(s1, s2) ==
  LET Least(S) == CHOOSE m \in S : \A n \in S : m <= n
      d[i \in 0..Len(s1), j \in 0..Len(s2)] ==
        IF i = 0 THEN j ELSE IF j = 0 THEN i
        ELSE Least({d[i-1, j] + 1, d[i, j-1] + 1, d[i-1, j-1] + (IF s1[i] = s2[j] THEN 0 ELSE 1)})
  IN  d[Len(s1), Len(s2)]

\* The value of a field of the first characters, and whether it is a number
\* (which must fit into its type).
GetFixedWidthInteger(s, length) ==
  LET t == RemoveAllSpaces(Part(s, 1, length))
      signed == At(t, 1) \in {43, 45}
      from == IF signed THEN 2 ELSE 1
      digits == SubSeq(t, from, FindNotIn(t, 48..57, from) - 1)
      r == FoldLeft(LAMBDA n, c : n * 10 + (c - 48), 0, digits)
  IN  [success |-> digits # <<>>, value |-> IF At(t, 1) = 45 THEN -r ELSE r]

\* ---- cutting and joining ---------------------------------------------------

\* The pieces between separators; empty ones too.
RECURSIVE SplitFrom(_, _, _)
SplitFrom(s, i, seps) ==
  LET pos == FindIn(s, seps, i)
  IN  <<SubSeq(s, i, pos - 1)>> \o (IF pos > Len(s) THEN <<>> ELSE SplitFrom(s, pos + 1, seps))
Split(s, seps) == SplitFrom(s, 1, seps)

RECURSIVE SplitSkipFrom(_, _, _)
SplitSkipFrom(s, i, seps) ==
  LET first == FindNotIn(s, seps, i)
      pos == FindIn(s, seps, first)
  IN  IF first > Len(s) THEN <<>> ELSE <<SubSeq(s, first, pos - 1)>> \o SplitSkipFrom(s, pos, seps)
SplitSkip(s, seps) == SplitSkipFrom(s, 1, seps)
Tokenize(s) == SplitSkip(s, {32} \cup 9..13)

\* Up to n pieces and the rest; an empty rest is left out.
RECURSIVE PartsFrom(_, _, _, _, _)
PartsFrom(s, i, seps, n, allow_empty) ==
  LET next == FindIn(s, seps, i)
  IN  IF i > Len(s) THEN <<>>
      ELSE IF n = 0 THEN <<SubSeq(s, i, Len(s))>>
      ELSE IF ~allow_empty /\ next = i THEN PartsFrom(s, i + 1, seps, n, allow_empty)
      ELSE <<SubSeq(s, i, next - 1)>> \o PartsFrom(s, next + 1, seps, n - 1, allow_empty)
SplitStringNParts(s, seps, n, allow_empty) == PartsFrom(s, 1, seps, n, allow_empty)

\* The same from the end.
RECURSIVE RPartsFrom(_, _, _, _, _)
RPartsFrom(s, start, seps, n, allow_empty) ==
  LET found == {k \in 1..start : s[k] \in seps}
      next == IF found = {} THEN 0 ELSE CHOOSE k \in found : \A l \in found : l <= k
  IN  IF start <= 0 THEN <<>>
      ELSE IF n = 0 THEN <<SubSeq(s, 1, start)>>
      ELSE IF ~allow_empty /\ next = start THEN RPartsFrom(s, start - 1, seps, n, allow_empty)
      ELSE RPartsFrom(s, next - 1, seps, n - 1, allow_empty) \o <<SubSeq(s, next + 1, start)>>
RSplitStringNParts(s, seps, n, allow_empty) == RPartsFrom(s, Len(s), seps, n, allow_empty)

\* Trimmed pieces; nothing of an empty string.
BreakUpString(s, sep) ==
  LET v == [k \in DOMAIN Split(s, {sep}) |-> GetTrimmedString(Split(s, {sep})[k])] IN IF v = <<<<>>>> THEN <<>> ELSE v

ParseStringPair(s, sep) ==
  LET pos == FindIn(s, {sep}, 1) IN <<SubSeq(s, 1, pos - 1), SubSeq(s, pos + 1, Len(s))>>

Join(v, sep) == FlattenSeq([k \in DOMAIN v |-> IF k = 1 THEN v[k] ELSE sep \o v[k]])
JoinString(v, sep, allow_empty) == Join(IF allow_empty THEN v ELSE SelectSeq(v, LAMBDA e : e # <<>>), sep)

\* AppendDataToString(): what the limit leaves of the data.
AppendDataToString(data, limit, result) ==
  LET free == limit - Len(result)
  IN  IF limit < 0 \/ Len(data) <= free THEN result \o data ELSE result \o SubSeq(data, 1, free)

\* ---- escaping and encoding -------------------------------------------------

Quote == 34
Backslash == 92

\* ---- escaping --------------------------------------------------------------

Hex(n) == IF n < 10 THEN 48 + n ELSE 55 + n
TwoDigitHex(c) == <<Hex(c \div 16), Hex(c % 16)>>
FourDigitHex(c) == TwoDigitHex(c \div 256) \o TwoDigitHex(c % 256)

UnicodeEscaped(c) ==
  Ascii("\\u") \o FourDigitHex(CASE c = 145 -> 96 [] c = 146 -> 39 [] c \in {147, 148} -> Quote [] OTHER -> c)
OctalEscaped(c) == <<Backslash, 48 + (c \div 64), 48 + ((c % 64) \div 8), 48 + (c % 8)>>
JSONEncode8Bit(s) == FlattenSeq([i \in DOMAIN s |-> UnicodeEscaped(s[i])])

\* Code points of more than 16 bits become two.
CodePointEscaped(code) ==
  IF code <= 65535 THEN UnicodeEscaped(code) ELSE UnicodeEscaped(code \div 65536) \o UnicodeEscaped(code % 65536)

\* The letters of the escaped characters, for writing; a reader knows '/' too.
Letter == <<<<8, "b">>, <<9, "t">>, <<10, "n">>, <<12, "f">>, <<13, "r">>, <<34, "\"">>, <<92, "\\">>>>
EscapeCharacter(c, json) ==
  LET known == {k \in DOMAIN Letter : Letter[k][1] = c}
  IN  IF known # {} THEN <<Backslash>> \o Ascii(Letter[CHOOSE k \in known : TRUE][2])
      ELSE IF c >= 32 THEN <<c>>
      ELSE IF json THEN UnicodeEscaped(c) ELSE OctalEscaped(c)

\* How many bytes follow the first byte of an UTF-8 character, and its bits.
More(c) == CASE c >= 252 -> 5 [] c >= 248 -> 4 [] c >= 240 -> 3 [] c >= 224 -> 2 [] OTHER -> 1
FirstBits(c) == c % (2 ^ (6 - More(c)))

\* EncodeMultiByteUTF8Char(): a first byte within a character begins another;
\* the bytes of what is no character are escaped one by one.
RECURSIVE ScanUTF8(_, _, _, _)
ScanUTF8(s, i, code, more) ==
  LET c == At(s, i)
  IN  IF c < 128 THEN [count |-> i - 1, whole |-> FALSE]
      ELSE IF c >= 254 \/ (c < 192 /\ more = 0) THEN [count |-> i, whole |-> FALSE]
      ELSE IF c >= 192 THEN ScanUTF8(s, i + 1, FirstBits(c), More(c))
      ELSE IF more = 1 THEN [count |-> i, whole |-> TRUE, code |-> code * 64 + (c % 64)]
      ELSE ScanUTF8(s, i + 1, code * 64 + (c % 64), more - 1)
EncodeMultiByteUTF8Char(s) ==
  LET r == ScanUTF8(s, 1, 0, 0)
  IN  <<IF r.whole THEN CodePointEscaped(r.code) ELSE JSONEncode8Bit(SubSeq(s, 1, r.count)), r.count>>

RECURSIVE EscapeFrom(_, _, _)
EscapeFrom(s, i, json) ==
  IF i > Len(s) THEN <<Quote>>
  ELSE IF s[i] >= 128 /\ json
       THEN LET p == EncodeMultiByteUTF8Char(SubSeq(s, i, Len(s))) IN p[1] \o EscapeFrom(s, i + p[2], json)
       ELSE EscapeCharacter(s[i], json) \o EscapeFrom(s, i + 1, json)
EscapeStringToStream(s, json) == <<Quote>> \o EscapeFrom(s, 1, json)

\* EscapeString_C_or_JSON() of strutil: the same, but a character whose last
\* bytes are missing at the end of the string is left out.
EscapeStep(a, c, json) ==
  LET u == Append(a.unencoded, c)
      code == a.buf * 64 + (c % 64)
      flushed(bytes) == [s |-> a.s \o JSONEncode8Bit(bytes), unencoded |-> <<>>, buf |-> 0, more |-> 0]
  IN  IF ~json \/ c < 128
      THEN [flushed(IF a.more > 0 THEN a.unencoded ELSE <<>>) EXCEPT !.s = @ \o EscapeCharacter(c, json)]
      ELSE IF c >= 254 \/ (c < 192 /\ a.more = 0) THEN flushed(u)
      ELSE IF c >= 192 THEN [a EXCEPT !.unencoded = u, !.buf = FirstBits(c), !.more = More(c)]
      ELSE IF a.more > 1 THEN [a EXCEPT !.unencoded = u, !.buf = code, !.more = @ - 1]
      ELSE [s |-> a.s \o CodePointEscaped(code), unencoded |-> <<>>, buf |-> 0, more |-> 0]
EscapeString_C_or_JSON(s, json) ==
  FoldLeft(LAMBDA a, c : EscapeStep(a, c, json), [s |-> <<Quote>>, unencoded |-> <<>>, buf |-> 0, more |-> 0], s).s \o <<Quote>>

\* ---- unescaping ------------------------------------------------------------

Unletter(c) ==
  LET known == {k \in DOMAIN Letter : Ascii(Letter[k][2])[1] = c}
  IN  IF c = 47 THEN <<47>> ELSE IF known = {} THEN <<>> ELSE <<Letter[CHOOSE k \in known : TRUE][1]>>

Digit(c) == IF IS_DIGIT(c) THEN c - 48 ELSE ToUpper(c) - 55
Number(s, base) == FoldLeft(LAMBDA n, c : n * base + Digit(c), 0, s)

\* UnescapeString_C() of strutil: the number of bytes read and the string. A
\* code point of 256 or more is left out. (After a '\' at the end of the input
\* the code reads on behind it.)
RECURSIVE UnescapeFrom(_, _, _)
UnescapeFrom(s, i, result) ==
  LET c == At(s, i)
      n == At(s, i + 1)
      hex == Part(s, i + 2, 4)
      d == Number(hex, 16)
      octal == Part(s, i + 1, 3)
      digits(t, len, Is(_)) == Len(t) = len /\ \A k \in DOMAIN t : Is(t[k])
  IN  IF c = 0 THEN [bytes |-> i - 1, result |-> result]
      ELSE IF c = Quote THEN [bytes |-> i, result |-> result]
      ELSE IF c # Backslash THEN UnescapeFrom(s, i + 1, Append(result, c))
      ELSE IF Unletter(n) # <<>> THEN UnescapeFrom(s, i + 2, result \o Unletter(n))
      ELSE IF n = 117 /\ digits(hex, 4, IS_HEXDIGIT) THEN UnescapeFrom(s, i + 6, IF d >= 256 THEN result ELSE Append(result, d))
      ELSE IF n # 117 /\ digits(octal, 3, IS_DIGIT) THEN UnescapeFrom(s, i + 4, Append(result, Number(octal, 8) % 256))
      ELSE UnescapeFrom(s, i + 2, result)
UnescapeString_C(input) ==
  LET i == SkipSpaces(input, 1)
  IN  IF At(input, i) # Quote THEN [bytes |-> 0, result |-> <<>>] ELSE UnescapeFrom(input, i + 1, <<>>)

DecodeMultiByteUTf8CodePoint(d) ==
  CASE d < 128 -> <<d>>
    [] d \in 128..2047 -> <<192 + (d \div 64), 128 + (d % 64)>>
    [] OTHER -> <<224 + (d \div 4096), 128 + ((d \div 64) % 64), 128 + (d % 64)>>

\* UnEscapeCharacter() after the '\': the bytes read and the characters. What
\* is read of a code that is not all digits is its beginning.
Leading(s, Is(_)) == SubSeq(s, 1, FindNotIn(s, {c \in 0..255 : Is(c)}, 1) - 1)
IsOctal(c) == c \in 48..55
UnEscapeCharacter(s, i) ==
  LET c == At(s, i)
  IN  IF i > Len(s) THEN [next |-> i, res |-> <<>>, fail |-> TRUE]
      ELSE IF Unletter(c) # <<>> THEN [next |-> i + 1, res |-> Unletter(c), fail |-> FALSE]
      ELSE LET len == IF c = 117 THEN 5 ELSE 3
           IN  IF i + len - 1 > Len(s) THEN [next |-> Len(s) + 1, res |-> <<>>, fail |-> TRUE]
               ELSE [next |-> i + len, fail |-> FALSE,
                     res |-> IF c = 117 THEN DecodeMultiByteUTf8CodePoint(Number(Leading(SubSeq(s, i + 1, i + 4), IS_HEXDIGIT), 16))
                             ELSE <<Number(Leading(SubSeq(s, i, i + 2), IsOctal), 8) % 256>>]

\* UnEscapeStringToNextQuote(), and UnEscapeStringFromStream() up to one of the
\* delimiters, which is not read.
RECURSIVE UnEscapeTo(_, _, _, _)
UnEscapeTo(s, i, ends, res) ==
  LET c == At(s, i)
      e == UnEscapeCharacter(s, i + 1)
  IN  IF i > Len(s) THEN [bytes |-> Len(s), result |-> res, ok |-> FALSE]
      ELSE IF c \in ends THEN [bytes |-> IF ends = {Quote} THEN i ELSE i - 1, result |-> res, ok |-> TRUE]
      ELSE IF c # Backslash THEN UnEscapeTo(s, i + 1, ends, Append(res, c))
      ELSE IF e.fail THEN [bytes |-> Len(s), result |-> res, ok |-> FALSE]
      ELSE UnEscapeTo(s, e.next, ends, res \o e.res)

\* UnEscapeQuotedStringFromStream(); isspace() skips only the ASCII spaces.
UnEscapeQuotedStringFromStream(s, fallback) ==
  LET i == FindNotIn(s, {32} \cup 9..13, 1)
  IN  IF i > Len(s) THEN [bytes |-> Len(s), result |-> <<>>, ok |-> FALSE]
      ELSE IF s[i] = Quote THEN UnEscapeTo(s, i + 1, {Quote}, <<>>)
      ELSE IF fallback = {} THEN [bytes |-> i, result |-> <<>>, ok |-> TRUE]
      ELSE UnEscapeTo(s, i, fallback, <<>>)

\* ---- HTML ------------------------------------------------------------------

Entities == <<<<"&lt;", "<">>, <<"&gt;", ">">>, <<"&amp;", "&">>, <<"&nbsp;", " ">>, <<"&quot;", "\"">>, <<"&apos;", "'">>,
  <<"&reg;", "(R)">>, <<"&Eacute;", "E">>, <<"&eacute;", "e">>, <<"&lsquo;", "">>, <<"&rsquo;", "'">>, <<"&acirc;", "a">>,
  <<"&uuml;", "u">>, <<"&ndash;", "-">>, <<"&euro;", "euro ">>>>
EscapeString_HTML(s) ==
  FlattenSeq([i \in DOMAIN s |-> CASE s[i] = 60 -> Ascii("&lt;") [] s[i] = 62 -> Ascii("&gt;") [] s[i] = 38 -> Ascii("&amp;") [] OTHER -> <<s[i]>>])

\* The position behind an escape that is not known and is left out, or 0.
UnknownEnd(s, i) ==
  LET first == i + 1
      j == IF IS_ALPHANUMERIC(At(s, first)) \/ At(s, first) = 35 THEN FindNotIn(s, {c \in 0..255 : IS_ALPHANUMERIC(c)}, first + 1) ELSE first
  IN  IF At(s, j) = 59 THEN j + 1 ELSE 0

RECURSIVE UnescapeHTMLFrom(_, _)
UnescapeHTMLFrom(s, i) ==
  LET known == IF At(s, i) = 38 THEN {k \in DOMAIN Entities : StartsWith(s, Ascii(Entities[k][1]), i)} ELSE {}
      k == CHOOSE e \in known : TRUE
  IN  IF i > Len(s) THEN <<>>
      ELSE IF known # {} THEN (IF k = 10 THEN <<96>> ELSE Ascii(Entities[k][2])) \o UnescapeHTMLFrom(s, i + Len(Entities[k][1]))
      ELSE IF s[i] = 38 /\ UnknownEnd(s, i) # 0 THEN UnescapeHTMLFrom(s, UnknownEnd(s, i))
      ELSE <<s[i]>> \o UnescapeHTMLFrom(s, i + 1)
UnescapeString_HTML(s) == UnescapeHTMLFrom(s, 1)

\* ---- Base64 ----------------------------------------------------------------

Base64Chars == Ascii("ABCDEFGHIJKLMNOPQRSTUVWXYZabcdefghijklmnopqrstuvwxyz0123456789+/")
Equals == 61

Group(s, i, fillers) ==
  LET n == s[i] * 65536 + (IF fillers < 2 THEN s[i+1] * 256 ELSE 0) + (IF fillers < 1 THEN s[i+2] ELSE 0)
      char(k) == Base64Chars[((n \div (64 ^ k)) % 64) + 1]
  IN  <<char(3), char(2), IF fillers = 2 THEN Equals ELSE char(1), IF fillers >= 1 THEN Equals ELSE char(0)>>
RECURSIVE EncodeFrom(_, _, _)
EncodeFrom(s, i, split_line) ==
  LET fillers == IF i + 2 <= Len(s) THEN 0 ELSE i + 2 - Len(s)
      out == (4 * (i - 1)) \div 3
      newline == IF split_line /\ i > 1 /\ out % LineLength = 0 THEN <<10>> ELSE <<>>
  IN  IF i > Len(s) THEN <<>> ELSE newline \o Group(s, i, fillers) \o EncodeFrom(s, i + 3, split_line)
EncodeString_Base64(s, split_line) == EncodeFrom(s, 1, split_line)

RECURSIVE DecodeFrom(_, _, _)
DecodeFrom(s, i, result) ==
  LET chars == [k \in 0..3 |-> At(s, i + k)]
      value(c) == IF c = Equals THEN 0 ELSE (CHOOSE v \in 1..64 : Base64Chars[v] = c) - 1
      n == value(chars[0]) * 262144 + value(chars[1]) * 4096 + value(chars[2]) * 64 + value(chars[3])
      fillers == Len(SelectSeq(<<chars[0], chars[1], chars[2], chars[3]>>, LAMBDA c : c = Equals))
      next == SkipSpaces(s, i + 4)
      bytes == <<n \div 65536>> \o (IF fillers <= 1 THEN <<(n \div 256) % 256>> ELSE <<>>) \o (IF fillers = 0 THEN <<n % 256>> ELSE <<>>)
  IN  IF i > Len(s) THEN result
      ELSE IF \/ \E k \in 0..3 : chars[k] # Equals /\ \A v \in 1..64 : Base64Chars[v] # chars[k]
              \/ fillers > 0 /\ (next <= Len(s) \/ fillers > 2)
           THEN <<>>
      ELSE DecodeFrom(s, next, result \o bytes)
DecodeString_Base64(s) == DecodeFrom(s, SkipSpaces(s, 1), <<>>)
====
