---------------------------- MODULE SearchIndex ----------------------------
(***************************************************************************)
(* SearchIndex (util/index/search_index.h): texts are indexed by term and  *)
(* document, saved to a file, and loaded by a later process, which only    *)
(* recreates the table of blobs by indexing the same texts again.  Search, *)
(* the merging of matches that are close and the choice of snippets are    *)
(* operators on that state.  A text is a sequence of words and a range a   *)
(* pair of word positions; Stem is NormalizeTerm().  A CompactRange, an    *)
(* id for an offset and a size, is the word position itself.  The context  *)
(* of a snippet is a number of words on either side, not of characters.    *)
(***************************************************************************)
EXTENDS Integers, Sequences, FiniteSets, FiniteSetsExt, SequencesExt

CONSTANTS Docs,
          Text,               \* of each text, the words
          TextOrder,          \* texts by type and address, the order of Blobs
          Stem,               \* of each word, the term
          StopWords,          \* terms that are not indexed
          Synonyms,           \* of each term, the terms it is expanded to
          Size,               \* of each word, its characters
          Ln,                 \* external: natural logarithms, in thousandths
          MaxBetween,         \* words between two matches that are merged
          MergeThreshold,     \* snippet_merge_threshold, in characters
          Context,            \* words shown before and after a match
          Multiplier,         \* close_proximity_score_multiplier
          MaxSubsnippets,     \* max_subsnippets
          MaxQuery,           \* max_query_length
          Queries,            \* sequences of words
          MaxBlobs,           \* bound on the calls of IndexBlob by a process
          MaxContent          \* bound on what an index is made of

VARIABLES blobs,              \* BlobToId(): the texts by id
          ranges,             \* RangeStorage()
          index,              \* index_: by term and document, LocationInfos
          term_freq,          \* term_freq_ by term and document
          state,              \* expected_num_blobs_, index_blob_only_, done_
          file,               \* the index file, or an empty sequence
          content,            \* history: what index_ was made of, in order
          names,              \* history: the texts that its blob ids were given
                              \* to; empty once a file met another order
          calls

memory == <<blobs, ranges, index, term_freq, state, content, names, calls>>

vars == <<memory, file>>

Fresh == [expected |-> 0, blob_only |-> FALSE, done |-> FALSE]

Init ==
  /\ blobs = <<>> /\ ranges = <<>> /\ index = <<>> /\ term_freq = <<>>
  /\ state = Fresh /\ content = <<>> /\ names = <<>> /\ calls = 0 /\ file = <<>>

-----------------------------------------------------------------------------
Texts == DOMAIN Text

Indexable(term) == term \notin StopWords

Terms(t) == {Stem[Text[t][p]] : p \in DOMAIN Text[t]}

\* The positions of a term in a text, in order.
Positions(t, term) ==
  SetToSortSeq({p \in DOMAIN Text[t] : Stem[Text[t][p]] = term}, LAMBDA a, b : a < b)

\* Blob(): an id for a text that has none.
BlobId(t) == IF \E i \in DOMAIN blobs : blobs[i] = t
             THEN CHOOSE i \in DOMAIN blobs : blobs[i] = t ELSE Len(blobs) + 1

\* UpdateIdf(): the terms that are not indexed count too.
UpdateIdf(d, t) ==
  term_freq' = [x \in DOMAIN term_freq \cup {<<term, d>> : term \in Terms(t)} |->
                  (IF x \in DOMAIN term_freq THEN term_freq[x] ELSE 0) +
                  (IF x[2] = d THEN Len(SelectSeq(Text[t], LAMBDA w : Stem[w] = x[1])) ELSE 0)]

\* The ranges of each term go to the common storage; a LocationInfo has the
\* offset of the first and their number.
AddRanges(terms, t, d) ==
  LET all == FoldLeft(LAMBDA acc, term : acc \o Positions(t, term), ranges, terms)
      At(k) == FoldLeft(LAMBDA acc, term : acc + Len(Positions(t, term)), Len(ranges),
                        SubSeq(terms, 1, k - 1))
      Info(k) == [blob |-> BlobId(t), offset |-> At(k), size |-> Len(Positions(t, terms[k]))]
      Old(x) == IF x \in DOMAIN index THEN index[x] ELSE <<>>
  IN  /\ ranges' = all
      /\ index' = [x \in DOMAIN index \cup {<<term, d>> : term \in ToSet(terms)} |->
                     Old(x) \o (IF x[2] = d /\ \E k \in DOMAIN terms : terms[k] = x[1]
                                THEN <<Info(CHOOSE k \in DOMAIN terms : terms[k] = x[1])>> ELSE <<>>)]

IndexBlob(d, t) ==
  /\ ~state.done /\ calls < MaxBlobs
  /\ calls' = calls + 1
  /\ blobs' = IF BlobId(t) > Len(blobs) THEN Append(blobs, t) ELSE blobs
  /\ \/ /\ state.blob_only
        /\ UNCHANGED <<ranges, index, term_freq, content, names>>
     \/ /\ ~state.blob_only /\ Len(content) < MaxContent
        /\ UpdateIdf(d, t)
        /\ AddRanges(SetToSeq({term \in Terms(t) : Indexable(term)}), t, d)
        /\ content' = Append(content, <<d, t>>)
        /\ names' = IF BlobId(t) > Len(blobs) THEN Append(names, t) ELSE names
  /\ UNCHANGED <<state, file>>

\* An index file that does not fit the blobs ends the process.
Finalize ==
  /\ ~state.done
  /\ state.blob_only => state.expected = Len(blobs)
  /\ state' = [expected |-> Len(blobs), blob_only |-> FALSE, done |-> TRUE]
  /\ names' = IF state.blob_only /\ names # blobs THEN <<>> ELSE names
  /\ UNCHANGED <<blobs, ranges, index, term_freq, content, calls, file>>

Reopen ==
  /\ state.done
  /\ state' = [state EXCEPT !.blob_only = FALSE, !.done = FALSE]
  /\ UNCHANGED <<blobs, ranges, index, term_freq, content, names, calls, file>>

\* Everything but the table of blobs; names and content are history.
SaveIndex ==
  /\ state.done
  /\ file' = <<[index |-> index, freq |-> term_freq, ranges |-> ranges,
                expected |-> state.expected, names |-> names, content |-> content]>>
  /\ UNCHANGED memory

\* Whatever was indexed before is replaced, but for the table of blobs.
LoadIndex ==
  /\ file # <<>> /\ ~state.done
  /\ index' = file[1].index /\ term_freq' = file[1].freq /\ ranges' = file[1].ranges
  /\ state' = [state EXCEPT !.expected = file[1].expected, !.blob_only = TRUE]
  /\ content' = file[1].content /\ names' = file[1].names
  /\ UNCHANGED <<blobs, calls, file>>

\* The process ends and another one starts.
Restart ==
  /\ calls > 0
  /\ blobs' = <<>> /\ ranges' = <<>> /\ index' = <<>> /\ term_freq' = <<>>
  /\ state' = Fresh /\ content' = <<>> /\ names' = <<>> /\ calls' = 0
  /\ UNCHANGED file

Next ==
  \/ \E d \in Docs, t \in Texts : IndexBlob(d, t)
  \/ Finalize \/ Reopen \/ SaveIndex \/ LoadIndex \/ Restart

Spec == Init /\ [][Next]_vars

-----------------------------------------------------------------------------
\* ProcessQuery(): the terms of a query, each followed by its synonyms.
ProcessQuery(q) ==
  FoldLeft(LAMBDA acc, w : acc \o <<Stem[w]>> \o Synonyms[Stem[w]], <<>>,
           SubSeq(q, 1, Min({Len(q), MaxQuery})))

\* Search() for one document.
Search(d, terms) ==
  [term \in {x \in ToSet(terms) : <<x, d>> \in DOMAIN index} |-> index[<<term, d>>]]

\* Idf(), in thousandths: the quotient is that of integers.
Idf(term) ==
  LET freq == {x \in DOMAIN term_freq : x[1] = term}
  IN  IF freq = {} THEN 10
      ELSE 10 + Ln[Cardinality({x[2] : x \in DOMAIN term_freq}) \div Cardinality(freq)]

\* The matches of a document in a text, one per occurrence, by position.
Matches(found, t) ==
  LET Of(term) == UNION {{[text |-> t, b |-> ranges[li.offset + k], e |-> ranges[li.offset + k],
                           score |-> Idf(term)] : k \in 1 .. li.size} :
                         li \in {x \in ToSet(found[term]) : blobs[x.blob] = t}}
  IN  SetToSortSeq(UNION {Of(term) : term \in DOMAIN found}, LAMBDA x, y : x.b < y.b)

\* The characters from the end of x to the begin of y: the words between them,
\* and one character between two words.
Gap(x, y) == FoldFunctionOnSet(+, y.b - x.e, [p \in DOMAIN Text[x.text] |-> Size[Text[x.text][p]]],
                               x.e + 1 .. y.b - 1)

Close(x, y) == 0 < Gap(x, y) /\ Gap(x, y) < MergeThreshold /\ y.b - x.e - 1 <= MaxBetween

\* Mutant of MergeNext: the merged range ends where the first one did.
MergeNext_KeepEnd(acc, y) ==
  IF acc = <<>> \/ ~Close(Last(acc), y) THEN Append(acc, y)
  ELSE Append(Front(acc), [Last(acc) EXCEPT !.score = (Last(acc).score + y.score) * Multiplier])

MergeNext(acc, y) ==
  IF acc = <<>> \/ ~Close(Last(acc), y) THEN Append(acc, y)
  ELSE Append(Front(acc), [Last(acc) EXCEPT !.e = y.e, !.score = (Last(acc).score + y.score) * Multiplier])

\* GenerateCandidateMatches() for one text.
Candidates(found, t) == FoldLeft(MergeNext, <<>>, Matches(found, t))

\* The candidates of all texts, in the order of the map of Blobs.
AllCandidates(found) == FoldLeft(LAMBDA acc, t : acc \o Candidates(found, t), <<>>, TextOrder)

Count(s, x) == Len(SelectSeq(s, LAMBDA y : y = x))

\* GenerateSnippet(): the best scores give a limit for each score, which the
\* candidates use up in their order.
Chosen(cands) ==
  LET scores == [i \in DOMAIN cands |-> cands[i].score]
      top == SubSeq(SortSeq(scores, LAMBDA a, b : a > b), 1, Min({MaxSubsnippets, Len(scores)}))
  IN  {i \in DOMAIN cands : Count(SubSeq(scores, 1, i), scores[i]) <= Count(top, scores[i])}

Words(c) == SubSeq(Text[c.text], c.b, c.e)

\* GenerateSubSnippet(): the words around a candidate, and where they begin.
From(c) == Max({1, c.b - Context})
Excerpt(c) == SubSeq(Text[c.text], From(c), Min({Len(Text[c.text]), c.e + Context}))

\* The strings that are highlighted in the i-th of the candidates: all
\* occurrences, and what was merged and shown so far.
UniqueTerms(found, cands, i) ==
  {Words(cands[j]) : j \in {k \in Chosen(cands) : k <= i}} \cup
  {Words(m) : m \in UNION {ToSet(Matches(found, t)) : t \in Texts}}

\* HighlightTerms(): where a string is found from left to right, each time
\* behind the last one.
Occurrences(words, s) ==
  LET There(i) == i + Len(s) - 1 <= Len(words) /\ SubSeq(words, i, i + Len(s) - 1) = s
  IN  FoldLeft(LAMBDA at, i : IF There(i) /\ \A j \in at : j + Len(s) <= i THEN at \cup {i} ELSE at,
               {}, [i \in DOMAIN words |-> i])

\* A tag where an occurrence begins, and one where it ends; only one of each at
\* a place.
Begins(words, phrases) == UNION {Occurrences(words, s) : s \in phrases}
Ends(words, phrases) == UNION {{i + Len(s) - 1 : i \in Occurrences(words, s)} : s \in phrases}

SubSnippet(found, cands, i) ==
  LET words == Excerpt(cands[i])
      phrases == UniqueTerms(found, cands, i)
  IN  [words |-> words, begins |-> Begins(words, phrases), ends |-> Ends(words, phrases)]

\* GenerateSnippet(): of those that are the same the first is kept, and no other
\* takes the place of the rest.
Snippet(found, cands) ==
  LET sub == [i \in Chosen(cands) |-> SubSnippet(found, cands, i)]
  IN  [i \in {i \in DOMAIN sub : \A j \in DOMAIN sub : j < i => sub[j] # sub[i]} |-> sub[i]]

-----------------------------------------------------------------------------
TypeOK ==
  /\ blobs \in Seq(Texts) /\ state.done \in BOOLEAN
  /\ \A x \in DOMAIN index : \A i \in DOMAIN index[x] :
       index[x][i].offset + index[x][i].size <= Len(ranges)

\* The texts were indexed in the order in which the index file was made.
SameOrder == names = blobs

\* A search finds every occurrence of its terms in the texts of the document
\* and nothing else, also in a process that has loaded its index and after
\* Reopen(), if the texts were indexed in the order of the file.
SearchExact ==
  state.done /\ SameOrder =>
    \A d \in Docs, q \in Queries, t \in Texts :
      LET terms == ProcessQuery(q)
          found == Search(d, terms)
          all == {p \in DOMAIN Text[t] : /\ \E i \in DOMAIN content : content[i] = <<d, t>>
                                         /\ Stem[Text[t][p]] \in ToSet(terms) \ StopWords}
          cands == Candidates(found, t)
      IN  /\ {m.b : m \in ToSet(Matches(found, t))} = all
          \* each occurrence is in one candidate, and neighbours are not close
          /\ \A p \in all : Cardinality({i \in DOMAIN cands : cands[i].b <= p /\ p <= cands[i].e}) = 1
          /\ \A i \in 1 .. Len(cands) - 1 : ~Close(cands[i], cands[i + 1])

\* A snippet is made of the best candidates, as many as it may have; each of them
\* is shown, those that look the same once; and in each the tags are balanced and
\* the candidate is between two of them.
SnippetsBest ==
  state.done /\ SameOrder =>
    \A d \in Docs, q \in Queries :
      LET found == Search(d, ProcessQuery(q))
          cands == AllCandidates(found)
          chosen == Chosen(cands)
          snippet == Snippet(found, cands)
      IN  /\ Cardinality(chosen) = Min({MaxSubsnippets, Len(cands)})
          /\ \A i \in chosen, j \in DOMAIN cands \ chosen : cands[i].score >= cands[j].score
          /\ \A i \in chosen :
               Cardinality({j \in DOMAIN snippet : snippet[j] = SubSnippet(found, cands, i)}) = 1
          /\ \A i \in DOMAIN snippet :
               /\ Cardinality(snippet[i].begins) = Cardinality(snippet[i].ends)
               /\ cands[i].b - From(cands[i]) + 1 \in snippet[i].begins
               /\ cands[i].e - From(cands[i]) + 1 \in snippet[i].ends
=============================================================================
