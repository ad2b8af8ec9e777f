---- MODULE CsvText ----
\* Files of comma separated values: structs are written with a header line by
\* util/file/csvwriter.h and util/serial/serializer_csv.h, or by hand or by
\* other programs, lines are inserted, and the file is read by
\* util/file/csvreader.h or, field by field, by util/file/field_reader.h. A
\* file is a sequence of lines.
EXTENDS Strings

CONSTANTS
  Names,        \* the names of the fields of the struct
  Tables,       \* structs that are written, with the types of their fields:
                \* "str", "int" or "bool"
  Delimiters,
  Inserted      \* lines that are inserted by hand

VARIABLES
  table,        \* the structs
  delim,
  file,         \* the lines of the file, <<>> before it is written
  writer,       \* "none", "code" or "program"
  hand,         \* the line that was inserted, if one was
  got           \* what was read

vars == <<table, delim, file, writer, hand, got>>

types == table.types
structs == table.structs

Bom == <<239, 187, 191>>
Hash == 35

\* ---- writing ---------------------------------------------------------------

Has(s, c) == \E i \in DOMAIN s : s[i] = c
Digits(n) == LET d[k \in Nat] == IF k < 10 THEN <<48 + k>> ELSE d[k \div 10] \o <<48 + (k % 10)>> IN d[n]

\* SerializeCSV: strings are escaped, a bool is 0 or 1.
PrintField(type, v) ==
  CASE type = "str" -> EscapeString_C_or_JSON(v, FALSE)
    [] type = "int" -> IF v < 0 THEN <<45>> \o Digits(-v) ELSE Digits(v)
    [] type = "bool" -> IF v THEN <<49>> ELSE <<48>>
ToCSV(kinds, values) == Join([k \in DOMAIN values |-> PrintField(kinds[k], values[k])], <<delim>>)
MakeCSVHeader == ToCSV([k \in DOMAIN Names |-> "str"], BreakUpString(Join(Names, <<32, 124, 32>>), 124))

\* Another program quotes a field where it must, and doubles the quotes in it.
Doubled(s) == FlattenSeq([i \in DOMAIN s |-> IF s[i] = Quote THEN <<Quote, Quote>> ELSE <<s[i]>>])
Quoted(s) == <<Quote>> \o Doubled(s) \o <<Quote>>
ProgramField(s) == IF \E i \in DOMAIN s : s[i] \in {delim, Quote} THEN Quoted(s) ELSE s

\* ---- reading a struct from a line ------------------------------------------

\* strtol(): the number and the position behind it.
Strtol(s) ==
  LET i == FindNotIn(s, {32} \cup 9..13, 1)
      from == IF At(s, i) \in {43, 45} THEN i + 1 ELSE i
      end == FindNotIn(s, 48..57, from)
  IN  IF end = from THEN [v |-> 0, end |-> 1]
      ELSE [v |-> (IF At(s, i) = 45 THEN -1 ELSE 1) * Number(SubSeq(s, from, end - 1), 10), end |-> end]

\* Parse(): the value of a field up to its first '\0', and where it ends.
ParseField(type, field) ==
  LET s == SubSeq(field, 1, FindIn(field, {0}, 1) - 1)
  IN  CASE type = "str" -> [ok |-> TRUE, v |-> s, end |-> Len(s) + 1]
        [] type = "int" -> LET n == Strtol(s) IN [ok |-> TRUE, v |-> n.v, end |-> n.end]
        [] type = "bool" -> IF IsPrefixOf(Ascii("true"), s) THEN [ok |-> TRUE, v |-> TRUE, end |-> 5]
                            ELSE IF IsPrefixOf(Ascii("false"), s) THEN [ok |-> TRUE, v |-> FALSE, end |-> 6]
                            ELSE [ok |-> FALSE, v |-> FALSE, end |-> 1]
EndOrComment(s, i) == At(s, SkipSpaces(s, i)) \in {0, Hash}

\* operator|: a delimiter, but before the first field, and a field.
Field(st, type, line) ==
  LET first == IF st.values = <<>> THEN st.ptr ELSE st.ptr + 1
      s == SkipSpaces(line, first)
      u == UnescapeString_C(SubSeq(line, s, Len(line)))
      quoted == At(line, s) = Quote
      end == FindIn(line, {delim}, s)
      Parsed(field, p) ==
        [ok |-> p.ok /\ EndOrComment(field, p.end),
         values |-> Append(st.values, p.v),
         ptr |-> FindNotIn(line, Spaces \ {delim}, IF quoted THEN s + u.bytes ELSE end)]
      Parse(field) == Parsed(field, ParseField(type, field))
  IN  IF ~st.ok THEN st
      ELSE IF st.values # <<>> /\ At(line, st.ptr) # delim THEN [st EXCEPT !.ok = FALSE]
      ELSE Parse(IF quoted THEN u.result ELSE SubSeq(line, s, end - 1))
ReadFields(kinds, line) ==
  LET Ended(st) == [st EXCEPT !.ok = @ /\ EndOrComment(line, st.ptr)]
  IN  Ended(FoldLeft(LAMBDA a, type : Field(a, type, line), [ok |-> TRUE, ptr |-> 1, values |-> <<>>], kinds))
CheckHeaderLine(line) ==
  LET Same(r) == r.ok /\ \A k \in DOMAIN Names : SameName(r.values[k], Names[k])
  IN  Same(ReadFields([k \in DOMAIN Names |-> "str"], line))

\* ---- CSVReader -------------------------------------------------------------

\* GetEntry(): an entry with an odd number of quotes goes on in the next line.
Odd(line) == Len(SelectSeq(line, LAMBDA c : c = Quote)) % 2 = 1
RECURSIVE Entries(_, _, _, _)
Entries(lines, i, line, multiple_line_ok) ==
  IF i > Len(lines) THEN IF line = <<>> THEN <<>> ELSE <<line>>
  ELSE LET l == line \o lines[i]
       IN  IF multiple_line_ok /\ Odd(l) THEN Entries(lines, i + 1, l, multiple_line_ok)
           ELSE <<l>> \o Entries(lines, i + 1, <<>>, multiple_line_ok)

Ignored(line) == LET t == GetTrimmedString(line) IN t = <<>> \/ t[1] = Hash

\* Structs up to the first line with an error are kept.
ReadCSV(multiple_line_ok) ==
  LET entries == Entries(file, 1, <<>>, multiple_line_ok)
      header == IF StartsWith(entries[1], Bom, 1) THEN SubSeq(entries[1], 4, Len(entries[1])) ELSE entries[1]
      Store(st, r) == [ok |-> r.ok, structs |-> IF r.ok THEN Append(st.structs, r.values) ELSE st.structs]
      step(st, line) == IF ~st.ok \/ Ignored(line) THEN st ELSE Store(st, ReadFields(types, line))
  IN  IF entries = <<>> THEN [ok |-> TRUE, structs |-> <<>>]
      ELSE FoldLeft(step, [ok |-> CheckHeaderLine(header), structs |-> <<>>], Tail(entries))

\* ---- the readers of fields -------------------------------------------------

\* Empty fields stay, but at the end of the line.
DelimitedTokens(line) ==
  LET all == Split(line, {delim}) IN IF all[Len(all)] = <<>> THEN SubSeq(all, 1, Len(all) - 1) ELSE all

\* FindNextEscapedToken(): a field in quotes, which are doubled in it or follow
\* a '\'. What is not well formed becomes an empty field, the last one.
RECURSIVE EscapedToken(_, _, _)
EscapedToken(line, pos, token) ==
  LET next == FindIn(line, {Quote}, pos)
      text == token \o SubSeq(line, pos, next - 1)
      follows == At(line, next + 1)
      past == Len(line) + 1
  IN  IF pos > Len(line) THEN [token |-> token, next |-> pos]
      ELSE IF next > Len(line) THEN [token |-> <<>>, next |-> past]
      ELSE IF next = Len(line) THEN [token |-> text, next |-> past]
      ELSE IF follows = delim THEN [token |-> text, next |-> next + 2]
      ELSE IF follows = Quote THEN EscapedToken(line, next + 2, Append(text, Quote))
      ELSE IF line[next-1] = Backslash THEN EscapedToken(line, next + 1, Append(SubSeq(text, 1, Len(text) - 1), Quote))
      ELSE [token |-> <<>>, next |-> past]
DelimitedToken(line, pos) ==
  LET next == FindIn(line, {delim}, pos) IN [token |-> SubSeq(line, pos, next - 1), next |-> next + 1]
UnEscapeString(s) == ReplaceAllOf(s, <<Backslash, Quote>>, <<Quote>>)
RECURSIVE TokensFrom(_, _)
TokensFrom(line, pos) ==
  LET t == IF line[pos] = Quote THEN EscapedToken(line, pos + 1, <<>>) ELSE DelimitedToken(line, pos)
  IN  IF pos > Len(line) THEN <<>> ELSE <<UnEscapeString(t.token)>> \o TokensFrom(line, t.next)
EscapedTokens(line) == TokensFrom(line, 1)

\* ParseTags(), ParseLine() until it fails, and Get() of each tag: the fields of
\* the structs that have them. Lines that are empty or begin with '#' are
\* skipped.
NoCR(line) == IF line # <<>> /\ line[Len(line)] = 13 THEN SubSeq(line, 1, Len(line) - 1) ELSE line
ReadTagged(escaped) ==
  LET Tokens(l) == IF escaped THEN EscapedTokens(l) ELSE DelimitedTokens(l)
      first == IF StartsWith(file[1], Bom, 1) THEN SubSeq(file[1], 4, Len(file[1])) ELSE file[1]
      data == SelectSeq(Tail(file), LAMBDA l : l # <<>> /\ l[1] # Hash)
      get(d, n) == IF n \in DOMAIN d THEN <<d[n]>> ELSE <<>>
      Tagged(tags) ==
        LET field(tag) == LET found == {k \in DOMAIN tags : tags[k] = tag} IN IF found = {} THEN 0 ELSE CHOOSE k \in found : \A l \in found : l <= k
        IN  [ok |-> \A k \in DOMAIN Names : field(Names[k]) # 0,
             structs |-> [i \in DOMAIN data |-> [k \in DOMAIN Names |-> get(Tokens(NoCR(data[i])), field(Names[k]))]]]
  IN  Tagged(Tokens(NoCR(first)))

\* ---- behaviour -------------------------------------------------------------

Init == table \in Tables /\ delim \in Delimiters /\ file = <<>> /\ writer = "none" /\ hand = <<>> /\ got = [by |-> "none"]

\* CSVWriter::Write()
Write ==
  /\ file = <<>>
  /\ file' = <<Bom \o MakeCSVHeader>> \o [k \in DOMAIN structs |-> ToCSV(types, structs[k])]
  /\ writer' = "code"
  /\ UNCHANGED <<table, delim, hand, got>>

\* Another program writes the strings of the structs, none with a line in it,
\* with lines that end in "\r\n".
ProgramWrites ==
  LET line(fields) == Join([k \in DOMAIN fields |-> ProgramField(fields[k])], <<delim>>) \o <<13>>
      strings(s) == [k \in DOMAIN s |-> IF types[k] = "str" THEN s[k] ELSE PrintField(types[k], s[k])]
  IN  /\ file = <<>>
      /\ \A k \in DOMAIN structs, f \in DOMAIN types : types[f] = "str" => ~Has(structs[k][f], 10)
      /\ file' = <<line(Names)>> \o [k \in DOMAIN structs |-> line(strings(structs[k]))]
      /\ writer' = "program"
      /\ UNCHANGED <<table, delim, hand, got>>

InsertLine(line, k) ==
  /\ file # <<>> /\ hand = <<>> /\ got.by = "none" /\ k \in 1..Len(file)
  /\ file' = SubSeq(file, 1, k) \o <<line>> \o SubSeq(file, k + 1, Len(file))
  /\ hand' = <<line>>
  /\ UNCHANGED <<table, delim, writer, got>>

Read(multiple_line_ok) ==
  /\ writer = "code" /\ got.by = "none"
  /\ got' = [by |-> "reader", multi |-> multiple_line_ok, read |-> ReadCSV(multiple_line_ok)]
  /\ UNCHANGED <<table, delim, file, writer, hand>>

ReadFieldwise(escaped) ==
  /\ writer = "program" /\ got.by = "none"
  /\ got' = [by |-> IF escaped THEN "escaped" ELSE "plain", read |-> ReadTagged(escaped)]
  /\ UNCHANGED <<table, delim, file, writer, hand>>

Next ==
  \/ Write
  \/ ProgramWrites
  \/ \E line \in Inserted, k \in 1..3 : InsertLine(line, k)
  \/ \E multiple_line_ok \in BOOLEAN : Read(multiple_line_ok)
  \/ \E escaped \in BOOLEAN : ReadFieldwise(escaped)

Spec == Init /\ [][Next]_vars

\* ---- properties ------------------------------------------------------------

NoNul(s) == \A i \in DOMAIN s : s[i] # 0

\* The structs that are written are read, all and in order, whatever empty
\* lines and comments are inserted, and even where entries may have several
\* lines, if the quotes of each line are even, escaped ones too; but strings
\* end at a '\0', and a bool, which is written as 0 or 1, is not read.
StructsRead ==
  got.by = "reader" /\ ~(got.multi /\ \E k \in DOMAIN file : Odd(file[k])) =>
    /\ (\A k \in DOMAIN types : types[k] # "bool") \/ structs = <<>> => got.read.ok
    /\ \A k \in DOMAIN got.read.structs, f \in DOMAIN types :
         got.read.structs[k][f] = (IF types[f] = "str" THEN LET s == structs[k][f] IN SubSeq(s, 1, FindIn(s, {0}, 1) - 1) ELSE structs[k][f])
    /\ got.read.ok => Len(got.read.structs) = Len(structs)

\* The fields of a file that another program wrote are read: by the plain reader
\* those without delimiters and quotes, by the other one those without a '\'
\* before a quote. A last field that is empty is missing, and a line that is to
\* be skipped is empty or begins with '#'.
Simple(s) == ~Has(s, delim) /\ ~Has(s, Quote) /\ ~Has(s, 13)
FieldsFound ==
  got.by \in {"plain", "escaped"} =>
    LET good(s) == IF got.by = "plain" THEN Simple(s) ELSE ~\E i \in DOMAIN s : s[i] = Backslash /\ At(s, i + 1) = Quote
        strings(s) == [k \in DOMAIN s |-> IF types[k] = "str" THEN s[k] ELSE PrintField(types[k], s[k])]
        skipped == hand = <<>> \/ hand[1] = <<>> \/ hand[1][1] = Hash
        lines == {k \in DOMAIN structs : strings(structs[k])[1] = <<>> \/ strings(structs[k])[1][1] # Hash}
    IN  (\A k \in DOMAIN structs, f \in DOMAIN types : good(strings(structs[k])[f])) /\ lines = DOMAIN structs /\ skipped =>
          /\ got.read.ok
          /\ Len(got.read.structs) = Len(structs)
          /\ \A k \in DOMAIN structs, f \in DOMAIN types :
               got.read.structs[k][f] = <<strings(structs[k])[f]>> \/ (strings(structs[k])[f] = <<>> /\ got.read.structs[k][f] = <<>>)

\* UnescapeString_CSV() of strutil: the bytes read, and the string.
RECURSIVE UnescapeCSVFrom(_, _, _)
UnescapeCSVFrom(s, i, result) ==
  IF At(s, i) = 0 THEN [bytes |-> i - 1, result |-> result]
  ELSE IF s[i] # Quote THEN UnescapeCSVFrom(s, i + 1, Append(result, s[i]))
  ELSE IF At(s, i + 1) = Quote THEN UnescapeCSVFrom(s, i + 2, Append(result, Quote))
  ELSE [bytes |-> i, result |-> result]
UnescapeString_CSV(s) ==
  LET i == SkipSpaces(s, 1) IN IF At(s, i) # Quote THEN [bytes |-> 0, result |-> <<>>] ELSE UnescapeCSVFrom(s, i + 1, <<>>)

\* A string in doubled quotes is read back, up to the quote that ends it.
QuotedRead ==
  \A k \in DOMAIN structs, f \in DOMAIN types :
    types[f] = "str" /\ NoNul(structs[k][f]) =>
      UnescapeString_CSV(<<32>> \o Quoted(structs[k][f]) \o <<delim, Quote>>) = [bytes |-> Len(Quoted(structs[k][f])) + 1, result |-> structs[k][f]]
====
