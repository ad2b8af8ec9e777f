---- MODULE RegionData ----
\* The region data of util/region_data: countries, states, cities, attractions
\* and neighborhoods, each read from a file into a storage with indices by
\* name, by code and by place (region.h), and the lookups over them. A name is
\* a sequence of words, so that "york pa" of a city named york in pa and that
\* of a city named york pa are the same key, as they are in the code; a code is
\* a name of at most one word; a place is a pair of a latitude and a longitude.
\* An item is its position in the file.
\*
\* Other behaviours make the names of cities and attractions from those of
\* several data sources (region.h, cities.h, alternate_names.cc, synonyms.h,
\* utils.cc): a city is parsed from a source and gets its normalized and
\* alternate names, the cities that are one are merged, and at the end the
\* alternate names are rewritten for the index. Apostrophes, parentheses and
\* commas are words of a raw name, which normalization removes.
EXTENDS Integers, Sequences, SequencesExt, FiniteSets, TLC, Functions

CONSTANTS
  Lower,          \* the words that NormalizeString() makes of a word
  Abbreviations,  \* the file name.csv: pairs of a word and its abbreviation
  Joined,         \* the word that two words around an apostrophe make without it
  StopWords,      \* the stop words of two or three letters
  SynonymPairs,   \* pairs of synonyms, the second preferred
  Sources,        \* the cities of the data sources
  Attractions,    \* the attractions of the data sources
  MaxMerges,      \* how many cities are merged at most
  Worlds,         \* the contents of the files, one of which is read
  Rank,           \* the position of a word in alphabetical order
  SimilarNames,   \* the pairs of names within the minimum edit distance
  ThreeChars,     \* the normalized codes of three characters
  Grid,           \* the size of the grid cells of a manager
  ZoomGrid,       \* that of the zoom levels of the neighborhoods, of index_info.dat
  MaxItems,       \* the most items of a key of the name index of a manager, 0 for any number
  HalfTurn,       \* 180 degrees of longitude
  MinScore, MinDistance,     \* region_cities_dedup_min_score and _min_distance
  MaxCityError, MinHotels,   \* region_data_neighborhood_max_city_error and _min_num_hotels
  NameQueries, Places, Maxes, Radiuses, AttractionQueries, CodeQueries, CityQueries

VARIABLES
  world,          \* the files
  loaded,         \* the managers whose Instance() has been created
  name_index,     \* of each manager, from a key to the items
  latlong_index,  \* of each manager, from a cell to the items
  neighborhood_latlong_indices,   \* of each zoom level, from a cell to the neighborhoods
  hid_location_range_map, location_list,   \* the neighborhoods of the hotels
  storage,        \* the neighborhoods that utils::Neighborhoods keeps, with their cities
  call,           \* the last lookup and its result
  stage,          \* how far the names of a city are, "off" where regions are looked up
  region, merged, \* the city, and the sources it was merged from
  attraction      \* the attraction whose names were written

dataVars == <<world, loaded, name_index, latlong_index, neighborhood_latlong_indices, hid_location_range_map, location_list, storage, call>>
namingVars == <<stage, region, merged, attraction>>
vars == <<dataVars, namingVars>>

NoName == <<>>

\* ---- normalization and abbreviation ----------------------------------------

NormalizeString(name) == FlattenSeq([i \in DOMAIN name |-> Lower[name[i]]])

\* The last line of the file for a word or an abbreviation stands.
Replace(word, from, to) ==
  LET lines == {i \in DOMAIN Abbreviations : Abbreviations[i][from] = word}
  IN  IF lines = {} THEN word ELSE Abbreviations[CHOOSE i \in lines : \A j \in lines : j <= i][to]
ReplaceAllCompletions(name) == [i \in DOMAIN name |-> Replace(name[i], 1, 2)]
ReplaceAllAbbreviations(name) == [i \in DOMAIN name |-> Replace(name[i], 2, 1)]

\* ---- alternate_names.cc, synonyms.h and utils.cc ---------------------------

RECURSIVE SkipApostrophe(_)
SkipApostrophe(name) ==
  IF \E i \in DOMAIN name : name[i] = "'"
  THEN LET i == CHOOSE k \in DOMAIN name : name[k] = "'" /\ \A j \in 1..(k-1) : name[j] # "'"
       IN  IF i > 1 /\ i < Len(name)
           THEN SkipApostrophe(SubSeq(name, 1, i-2) \o <<Joined[<<name[i-1], name[i+1]>>]>> \o SubSeq(name, i+2, Len(name)))
           ELSE SkipApostrophe(SubSeq(name, 1, i-1) \o SubSeq(name, i+1, Len(name)))
  ELSE name

\* The synonym of a word, or with preferred_only that of one that is not the
\* preferred of its pair.
Synonym(word, preferred_only) ==
  LET first == {p \in SynonymPairs : p[1] = word}
      second == {p \in SynonymPairs : p[2] = word /\ ~preferred_only}
  IN  IF first # {} THEN (CHOOSE p \in first : TRUE)[2]
      ELSE IF second # {} THEN (CHOOSE p \in second : TRUE)[1] ELSE word
ReplaceWithSynonym(name, preferred_only) == [i \in DOMAIN name |-> Synonym(name[i], preferred_only)]

ExtractNonStopWords(name) == SelectSeq(name, LAMBDA w : w \notin StopWords)

\* NormalizeName(): expanded, with the preferred synonyms.
NormalizeName(name) == ReplaceWithSynonym(ReplaceAllAbbreviations(NormalizeString(name)), TRUE)

\* The variants of the names: the abbreviated ones, also without the stop
\* words, and each of these also with its synonyms.
CityVariants(city) ==
  LET abbreviated == {ReplaceAllCompletions(name) : name \in city.alternates \cup {NormalizeString(city.name)}}
      short == abbreviated \cup ({ExtractNonStopWords(name) : name \in abbreviated} \ {NoName})
  IN  short \cup {ReplaceWithSynonym(name, FALSE) : name \in short}

\* ExtractParenthesized(): what is outside and what is inside the first "(" and
\* the last ")", each followed by what comes after.
Position(name, mark, last) ==
  LET at_ == {i \in DOMAIN name : name[i] = mark}
  IN  IF at_ = {} THEN 0 ELSE CHOOSE i \in at_ : \A j \in at_ : IF last THEN j <= i ELSE i <= j
ExtractParenthesized(name) ==
  LET pos == Position(name, "(", FALSE)
      right == Position(name, ")", TRUE)
      trailing == SubSeq(name, right + 1, Len(name))
  IN  IF right = 0 THEN {SubSeq(name, 1, pos - 1), SubSeq(name, pos + 1, Len(name))}
      ELSE {SubSeq(name, 1, pos - 1) \o trailing, SubSeq(name, pos + 1, right - 1) \o trailing}

\* GetAlternateNames(): what follows the first comma before what precedes it,
\* and the name without its brackets.
GetAlternateNames(name) ==
  LET comma == Position(name, ",", FALSE)
      begins == {i \in DOMAIN name : name[i] \in {"(", "["}}
      begin == CHOOSE i \in begins : \A j \in begins : i <= j
      ends == {i \in begin..Len(name) : name[i] \in {")", "]"}}
      end == CHOOSE i \in ends : \A j \in ends : i <= j
      without == SubSeq(name, 1, begin - 1) \o IF ends = {} THEN <<>> ELSE SubSeq(name, end + 1, Len(name))
  IN  (IF comma \in 2..(Len(name) - 1)
       THEN {NormalizeString(SubSeq(name, comma + 1, Len(name)) \o SubSeq(name, 1, comma - 1))} ELSE {})
      \cup (IF begins = {} THEN {} ELSE {NormalizeString(without)})

\* ---- merging (region.h, cities.h) ------------------------------------------

AddAlternateName(r, name) ==
  IF name = NoName THEN r ELSE [r EXCEPT !.alternates = (@ \cup {name}) \ {NormalizeString(r.name)}]

WriteNormalizedAndAlternateCityNames(r) ==
  [AddAlternateName(r, NormalizeString(SkipApostrophe(r.name))) EXCEPT !.normalized_name = NormalizeName(r.name)]

MergeAlternateNamesFrom(r, from, name, other) ==
  ((r.alternates \cup from.alternates \cup {other}) \ {NoName}) \ {NormalizeString(name)}

\* tRegion::MergeFrom(): the name and the place of a higher priority stand; the
\* other name becomes an alternate one.
RegionMergeFrom(r, from) ==
  LET higher == r.priority < from.priority
      renamed == (r.name = NoName \/ higher) /\ from.name # NoName
      name == IF renamed THEN from.name ELSE r.name
      other == IF renamed THEN r.normalized_name ELSE from.normalized_name
  IN  [r EXCEPT !.name = name,
                !.normalized_name = IF renamed THEN from.normalized_name ELSE @,
                !.place = IF (@ = NoName \/ higher) /\ from.place # NoName THEN from.place ELSE @,
                !.alternates = MergeAlternateNamesFrom(r, from, name, other),
                !.priority = IF higher THEN from.priority ELSE @]

\* tCity::MergeFrom() compares the priorities when that of the merged region
\* has been raised, so that only an empty code is filled.
CityMergeFrom(r, from) ==
  LET base == RegionMergeFrom(r, from)
      higher == base.priority < from.priority
      code(f) == IF (base[f] = NoName \/ higher) /\ from[f] # NoName THEN from[f] ELSE base[f]
  IN  [base EXCEPT !.state = code("state"), !.country = code("country"), !.metro = code("metro")]

\* ---- indices ---------------------------------------------------------------

None == 0
Inf == 1000000
Managers == {"country", "state", "city", "attraction", "nbr"}
Item(m, i) == world[m][i]
Items(m) == DOMAIN world[m]

Retrieve(index, key) == IF key \in DOMAIN index THEN index[key] ELSE {}

\* AddToIndex(): an item that a key has already is not added again, and none
\* when the key has its most items.
AddToIndex(index, item, keys, max) ==
  [key \in DOMAIN index \cup keys |->
     IF key \in keys /\ (max = 0 \/ Cardinality(Retrieve(index, key)) < max)
     THEN Retrieve(index, key) \cup {item} ELSE Retrieve(index, key)]

BuildIndex(index, m, keys, max) ==
  FoldLeft(LAMBDA acc, i : AddToIndex(acc, i, keys[i], max), index, [i \in Items(m) |-> i])

\* RetrieveUnique(): of the items with the code, the process having ended when
\* there are two.
Unique(S) == IF S = {} THEN None ELSE CHOOSE i \in S : TRUE

AlternateKeys(m, i) == {NormalizeString(name) : name \in Item(m, i).alternates}

\* BuildNameIndex(): the names first, then the alternate names, as only the
\* first are kept of a key.
BuildNameIndex(m) ==
  LET names == [i \in Items(m) |-> {NormalizeString(Item(m, i).name)}]
      alternates == [i \in Items(m) |-> AlternateKeys(m, i)]
  IN  BuildIndex(BuildIndex(<<>>, m, names, MaxItems[m]), m, alternates, MaxItems[m])

\* Division in C++ rounds to zero.
Quotient(a, b) == IF a >= 0 THEN a \div b ELSE -((-a) \div b)
Cell(at, size) == <<Quotient(at[1], size), Quotient(at[2], size)>>

BuildLatLongIndex(m) ==
  BuildIndex(<<>>, m, [i \in Items(m) |-> {Cell(Item(m, i).at, Grid[m])}], 0)

\* The surface distance, on a flat map that ends where it begins.
Abs(n) == IF n < 0 THEN -n ELSE n
SurfaceDistance(p, q) ==
  LET lon == Abs(p[2] - q[2])
      around == IF lon > HalfTurn THEN 2 * HalfTurn - lon ELSE lon
  IN  (p[1] - q[1]) * (p[1] - q[1]) + around * around

has_lat_long(r) == r.at # <<0, 0>>

\* ---- codes -----------------------------------------------------------------

CountryByCode(code, type) ==
  LET c == NormalizeString(code)
  IN  Unique({i \in Items("country") : c # <<>> /\ NormalizeString(Item("country", i)[type]) = c})

CountryByCodeMatchAny(code) ==
  IF NormalizeString(code) \in ThreeChars THEN CountryByCode(code, "iso3")
  ELSE IF CountryByCode(code, "iso2") # None THEN CountryByCode(code, "iso2")
  ELSE CountryByCode(code, "fips")

\* The index of codes has the codes of a state with its country; PQ is another
\* code of QC.
StateCodes(s, type) ==
  {NormalizeString(s[type])} \cup
  IF type = "iso" /\ NormalizeString(s.iso) = <<"qc">> /\ NormalizeString(s.country) = <<"ca">> THEN {<<"pq">>} ELSE {}

StateByIndex(code, country, type) ==
  Unique({i \in Items("state") : /\ code \in StateCodes(Item("state", i), type)
                                 /\ NormalizeString(Item("state", i).country) = country})

\* A FIPS code that is not found with the country is looked for with the same
\* country again, when that is the FIPS code of one.
StateByCode(input_code, input_country, type) ==
  LET code == NormalizeString(input_code)
      country == NormalizeString(input_country)
  IN  IF code = <<>> \/ country = <<>> THEN None ELSE StateByIndex(code, country, type)

StateByCodeMatchAny(code, country) ==
  IF StateByCode(code, country, "iso") # None THEN StateByCode(code, country, "iso")
  ELSE StateByCode(code, country, "fips")

StateByNameAndCountryCode(name, country) ==
  LET key == NormalizeString(ReplaceAllAbbreviations(name))
  IN  Unique({i \in Items("state") :
        /\ key \in AlternateKeys("state", i) \cup {NormalizeString(Item("state", i).name)}
        /\ NormalizeString(Item("state", i).country) = NormalizeString(country)})

\* country_code_matcher: territories that have had codes of their own match.
ChinaCodes == {<<"hk">>, <<"tw">>, <<"mo">>}
USCodes == {<<"usa">>, <<"vi">>, <<"gu">>, <<"pr">>, <<"mp">>, <<"as">>, <<"um">>}
CountryCodesMatch(left, right) ==
  LET l == NormalizeString(left)
      r == NormalizeString(right)
  IN  \/ l = r
      \/ l = <<"cn">> /\ r \in ChinaCodes
      \/ r = <<"cn">> /\ l \in ChinaCodes
      \/ {l, r} \cap {<<"cn">>} = {} /\ l = <<"us">> /\ r \in USCodes
      \/ {l, r} \cap {<<"cn">>} = {} /\ r = <<"us">> /\ l \in USCodes

\* ---- names -----------------------------------------------------------------

\* The order of strings: by the first word that differs, a beginning first.
Before(a, b) ==
  \E n \in 0..Len(a) :
     /\ n <= Len(b) /\ \A i \in 1..n : a[i] = b[i]
     /\ \/ n = Len(a) /\ n < Len(b)
        \/ n < Len(a) /\ n < Len(b) /\ Rank[a[n+1]] < Rank[b[n+1]]

ListPriority(country) == IF country = <<"US">> THEN 0 ELSE IF country = <<"CA">> THEN 1 ELSE 2

\* The fields the comparator of a manager compares after the priority of the
\* country, in their order.
CountryOf(m, r) == IF m = "country" THEN r.iso2 ELSE r.country
CountryFields == <<"name">>
StateFields == <<"name", "country", "iso">>
NbrFields == <<"name", "mcd", "state", "id">>
AttractionFields == <<"name", "state", "country">>
Fields(m) == CASE m = "country" -> CountryFields [] m = "state" -> StateFields [] m = "nbr" -> NbrFields
               [] m = "attraction" -> AttractionFields [] OTHER -> <<"name", "state", "country">>

OrderByName(m, a, b) ==
  LET pa == IF m = "nbr" THEN 0 ELSE ListPriority(CountryOf(m, a))
      pb == IF m = "nbr" THEN 0 ELSE ListPriority(CountryOf(m, b))
      differ == {k \in DOMAIN Fields(m) : a[Fields(m)[k]] # b[Fields(m)[k]]}
      f == Fields(m)[CHOOSE k \in differ : \A l \in differ : k <= l]
  IN  IF pa # pb THEN pa < pb ELSE differ # {} /\ Before(a[f], b[f])

\* The default comparators: cities by score, neighborhoods by the number of
\* their hotels, the most first, and equal ones by name.
Count(m, r) == CASE m = "city" -> r.score [] m = "nbr" -> r.hotels [] OTHER -> 0
Comparator(m, i, j) ==
  LET a == Item(m, i)
      b == Item(m, j)
  IN  IF Count(m, a) # Count(m, b) THEN Count(m, a) > Count(m, b) ELSE OrderByName(m, a, b)

\* The comparators tell the items of Worlds apart. (Of two attractions that
\* compare equal each is said to come before the other, and the sort of such
\* a list is undefined.)
SortResults(m, result, max) ==
  LET sorted == SortSeq(result, LAMBDA i, j : Comparator(m, i, j))
  IN  SubSeq(sorted, 1, IF Len(sorted) > max THEN max ELSE Len(sorted))

\* Region::Dedup() removes what has been seen. Of the cities of a country, one
\* with a low score is a duplicate of an earlier one that is near and has a
\* similar name, which may be a duplicate itself.
Seen(result) == FoldLeft(LAMBDA acc, i : IF i \in Range(acc) THEN acc ELSE Append(acc, i), <<>>, result)
DuplicateOf(c, better) ==
  /\ c.country = better.country /\ c.score <= MinScore
  /\ has_lat_long(c) /\ has_lat_long(better)
  /\ SurfaceDistance(better.at, c.at) <= MinDistance
  /\ c.name = better.name \/ {c.name, better.name} \in SimilarNames
Dedup(m, result) ==
  LET seen == Seen(result)
      dup(k) == m = "city" /\ \E j \in 1..(k-1) : DuplicateOf(Item(m, seen[k]), Item(m, seen[j]))
  IN  SelectSeq(seen, LAMBDA i : ~dup(CHOOSE k \in DOMAIN seen : seen[k] = i))

\* LookupByName(): the items of the name and of its abbreviation, sorted, cut
\* to the most that are wanted, and only then without duplicates. A country
\* that is not found by its name is looked for by its code.
FoundByName(m, s, abbreviated, max) ==
  IF s = <<>> THEN <<>>
  ELSE Dedup(m, SortResults(m, SetToSeq(Retrieve(name_index[m], s))
                               \o (IF abbreviated = s THEN <<>> ELSE SetToSeq(Retrieve(name_index[m], abbreviated))), max))
OrByCode(m, result, code) == IF m = "country" /\ result = <<>> /\ code # None THEN <<code>> ELSE result
LookupByName(m, name, max) ==
  OrByCode(m, FoundByName(m, NormalizeString(name), ReplaceAllCompletions(NormalizeString(name)), max),
           CountryByCodeMatchAny(name))

First(seq) == IF seq = <<>> THEN None ELSE seq[1]

\* The keys a city is found by besides its names.
CityKeys(i) ==
  LET c == Item("city", i)
      name == NormalizeString(c.name)
      sc == NormalizeString(c.state)
      cc == NormalizeString(c.country)
      s == StateByCode(sc, cc, "iso")
      k == CountryByCode(cc, "iso2")
      sn == IF s = None THEN <<>> ELSE NormalizeString(Item("state", s).name)
      cn == IF k = None THEN <<>> ELSE NormalizeString(Item("country", k).name)
      usa == IF cc = <<"us">> THEN {<<"usa">>} ELSE {}
      some(S) == S \ {<<>>}
      byState == some({sc, IF sc = <<>> THEN <<>> ELSE sn})
      byCountry == some({cc, cn}) \cup usa
      both == IF sc = <<>> \/ cc = <<>> THEN {}
              ELSE {sc \o cc} \cup
                   (IF sn = <<>> THEN {}
                    ELSE {sn \o cc} \cup
                         (IF cn = <<>> THEN {} ELSE {sc \o x : x \in {cn} \cup usa} \cup {sn \o x : x \in {cn} \cup usa}))
  IN  IF name = <<>> THEN {} ELSE {name \o x : x \in byState \cup byCountry \cup both}

CityByNameAndCode(name, state, country) ==
  LET or(whole) == IF whole # None \/ state = <<>> \/ country = <<>> THEN whole
                   ELSE First(LookupByName("city", name \o country, 1))
  IN  or(First(LookupByName("city", name \o state \o country, 1)))

\* NormalizeAndLookup(): the country, by a code or by its name; the state in
\* it; and the city in these, or else the cities of the name that are in no
\* other state or country as far as these are known.
CountryOfQuery(code, country_str) == IF code # None THEN code ELSE First(LookupByName("country", country_str, 1))
StateOfQuery(country, code, state_str, cc) ==
  IF country = None THEN None ELSE IF code # None THEN code ELSE StateByNameAndCountryCode(state_str, cc)
Fitting(cities, country, cc, state, sc) ==
  SelectSeq(cities, LAMBDA i : /\ ~(state # None /\ Item("city", i).state # <<>> /\ sc # <<>> /\ Item("city", i).state # sc)
                               /\ country # None => CountryCodesMatch(Item("city", i).country, cc))
LookupIn(city, country, cc, state, sc, exact) ==
  IF exact # None THEN <<exact>> ELSE Fitting(LookupByName("city", city, Inf), country, cc, state, sc)
LookupInState(city, country, cc, state, sc) ==
  LookupIn(city, country, cc, state, sc, IF state = None THEN None ELSE CityByNameAndCode(city, sc, cc))
LookupInCountry(city, country, cc, state) == LookupInState(city, country, cc, state, Item("state", state).iso)
LookupOf(city, state_str, country, cc) ==
  LookupInCountry(city, country, cc, StateOfQuery(country, StateByCode(state_str, cc, "iso"), state_str, cc))
LookupWithCountry(city, state_str, country) == LookupOf(city, state_str, country, Item("country", country).iso2)
NormalizeAndLookup(city, state_str, country_str) ==
  LookupWithCountry(city, state_str, CountryOfQuery(CountryByCodeMatchAny(country_str), country_str))

\* GetNearestTo(): the first of the nearest.
GetNearestTo(m, at, candidates) ==
  LET d(k) == SurfaceDistance(at, Item(m, candidates[k]).at)
      nearest == {k \in DOMAIN candidates : \A l \in DOMAIN candidates : d(k) < d(l) \/ (d(k) = d(l) /\ k <= l)}
  IN  IF candidates = <<>> THEN None ELSE candidates[CHOOSE k \in nearest : TRUE]

FindCity(city, state, country, at, max_error) ==
  LET Close(nearest) ==
        IF nearest = None \/ SurfaceDistance(at, Item("city", nearest).at) > max_error THEN None ELSE nearest
      Nearest(candidates) == Close(GetNearestTo("city", at, candidates))
  IN  Nearest(NormalizeAndLookup(city, state, country))

\* ---- places ----------------------------------------------------------------

NearCells(at, size) == LET c == Cell(at, size) IN {<<c[1] + i, c[2] + j>> : i, j \in {-1, 0, 1}}

\* The items of an index in the nine cells around a place, each in one cell.
Nearby(index, at, size) == UNION {Retrieve(index, cell) : cell \in NearCells(at, size)}

\* partial_sort() by the distance; equal distances are in any order, here that
\* of the file or its reverse.
SortByDistance(m, S, at, tie) ==
  SortSeq(SetToSeq(S), LAMBDA i, j : LET d(k) == SurfaceDistance(at, Item(m, k).at)
                                     IN  d(i) < d(j) \/ (d(i) = d(j) /\ tie * i < tie * j))

Trim(result, max) == SubSeq(result, 1, IF Len(result) > max THEN max ELSE Len(result))

LookupByLatLong(m, at, max, radius, tie) ==
  LET near == {i \in Nearby(latlong_index[m], at, Grid[m]) :
                 /\ Abs(Item(m, i).at[1] - at[1]) < Grid[m] /\ Abs(Item(m, i).at[2] - at[2]) < Grid[m]
                 /\ SurfaceDistance(at, Item(m, i).at) <= radius}
  IN  Dedup(m, Trim(SortByDistance(m, near, at, tie), max))

FindByLatLong(m, at, tie) == First(LookupByLatLong(m, at, 1, Inf, tie))

\* ---- neighborhoods ---------------------------------------------------------

NbrKeys(i) ==
  LET n == Item("nbr", i)
  IN  {NormalizeString(n.name)}
      \cup (IF n.mcd # <<>> THEN {NormalizeString(n.name \o n.mcd)} ELSE {})
      \cup (IF n.state # <<>> THEN {NormalizeString(n.name \o n.mcd \o n.state)} ELSE {})

\* The zoom levels have grids of their own; a neighborhood without hotels, or
\* of a level below 3, is in none.
Zooms == {Item("nbr", i).zoom : i \in Items("nbr")}
ZoomCells(i, zoom) ==
  LET n == Item("nbr", i)
  IN  IF n.hotels = 0 \/ n.zoom < 3 \/ n.zoom # zoom THEN {} ELSE {Cell(n.at, ZoomGrid[zoom])}
ZoomIndices == [z \in Zooms |-> BuildIndex(<<>>, "nbr", [i \in Items("nbr") |-> ZoomCells(i, z)], 0)]

NbrById(id) == Unique({i \in Items("nbr") : Item("nbr", i).id = id /\ Item("nbr", i).zoom >= 3})

\* BuildHidToLocationMap(): the lines of a hotel follow each other. A line that
\* cannot be parsed ends the reading; a neighborhood that is not known is left
\* out.
ReadHidLine(acc, line) ==
  LET known == NbrById(line.id)
      new == line.hid # acc.seq_hid
      range == IF new THEN <<Len(acc.list), 0>> ELSE acc.ranges[line.hid]
  IN  [list |-> IF known = None THEN acc.list ELSE Append(acc.list, known), seq_hid |-> line.hid,
       ranges |-> (line.hid :> <<range[1], range[2] + IF known = None THEN 0 ELSE 1>>) @@ acc.ranges]

HidLines ==
  LET bad == {k \in DOMAIN world.hids : world.hids[k].hid = -1}
  IN  IF bad = {} THEN world.hids ELSE SubSeq(world.hids, 1, (CHOOSE k \in bad : \A l \in bad : k <= l) - 1)

LookupByHid(hid) ==
  IF hid \notin DOMAIN hid_location_range_map THEN <<>>
  ELSE LET p == hid_location_range_map[hid]
       IN  IF p[1] + p[2] > Len(location_list) THEN <<>> ELSE SubSeq(location_list, p[1] + 1, p[1] + p[2])

\* LookupByLatLong() of the neighborhoods: for each zoom level the nearest, cut
\* after the duplicates are removed. A radius below 0 is none.
NbrByLatLong(at, max, radius, min_hotels, tie) ==
  LET near(z) == {i \in Nearby(neighborhood_latlong_indices[z], at, ZoomGrid[z]) :
                    /\ Item("nbr", i).hotels >= min_hotels
                    /\ Abs(Item("nbr", i).at[1] - at[1]) <= ZoomGrid[z] /\ Abs(Item("nbr", i).at[2] - at[2]) <= ZoomGrid[z]
                    /\ radius > 0 => SurfaceDistance(at, Item("nbr", i).at) <= radius}
      levels == {z \in Zooms : near(z) # {}}
  IN  IF max = 0 \/ radius = 0 THEN <<>>
      ELSE [z \in levels |-> Trim(Dedup("nbr", SortByDistance("nbr", near(z), at, tie)), max)]

\* RetrieveNeighborhood(): with the city and the state, with one of them, or alone.
RetrieveNeighborhood(name, mcd, state, max) ==
  LET tries == <<name \o mcd \o state, name \o mcd, name \o state, name>>
  IN  FoldLeft(LAMBDA acc, n : IF acc = <<>> THEN LookupByName("nbr", n, max) ELSE acc, <<>>, tries)

\* The city of a neighborhood is one that is found, and is in its state and its
\* country.
CityOfNeighborhood(n) ==
  IF n.state = <<>> \/ n.country = <<>> THEN None
  ELSE LET Same(c) ==
             IF c # None /\ n.state = Item("city", c).state /\ n.country = Item("city", c).country THEN c ELSE None
       IN  Same(FindCity(n.mcd, n.state, n.country, n.at, MaxCityError))

\* utils::Neighborhoods::Initialize(): those with hotels that are not named
\* after their city, not in the blacklist, and have a city.
Kept(i) ==
  LET n == Item("nbr", i)
  IN  /\ n.hotels >= MinHotels /\ NormalizeString(n.name) # NormalizeString(n.mcd)
      /\ n.id \notin world.blacklist /\ CityOfNeighborhood(n) # None

\* ---- attractions -----------------------------------------------------------

\* LookupByNameEx(): of the attractions that are found by name those whose
\* country, state and city, as far as they are known, are the ones asked for.
CodeOfState(s) == IF s = None THEN <<>> ELSE Item("state", s).iso
KnownCodes(c, state) ==
  IF c = None THEN [known |-> FALSE, country |-> <<>>, state |-> <<>>]
  ELSE [known |-> TRUE, country |-> Item("country", c).iso2,
        state |-> CodeOfState(StateByCode(state, Item("country", c).iso2, "iso"))]
AttractionFits(a, city, state, country, codes, t) ==
  /\ a.country # <<>> => IF codes.known THEN CountryCodesMatch(a.country, codes.country)
                         ELSE country # <<>> => CountryCodesMatch(a.country, country)
  /\ a.state # <<>> => IF codes.state # <<>> THEN a.state = codes.state
                       ELSE state # <<>> => NormalizeString(a.state) = NormalizeString(state)
  /\ IF a.city_eid # None /\ t # None THEN a.city_eid = t
     ELSE a.city # <<>> /\ city # <<>> /\ t = None => NormalizeString(a.city) = NormalizeString(city)
CityOfCodes(city, codes) ==
  IF city = <<>> \/ ~codes.known THEN None ELSE CityByNameAndCode(city, codes.state, codes.country)
AttractionsIn(name, city, state, country, max, codes, t) ==
  SelectSeq(LookupByName("attraction", name, max),
            LAMBDA i : AttractionFits(Item("attraction", i), city, state, country, codes, t))
LookupByNameEx(name, city, state, country, max) ==
  LET In(codes) == AttractionsIn(name, city, state, country, max, codes, CityOfCodes(city, codes))
  IN  In(KnownCodes(IF country = <<>> THEN None ELSE CountryByCodeMatchAny(country), state))

\* ---- ids of names ----------------------------------------------------------

\* GetIdFromName(): the nearest of those with the name, or without a place the
\* one at the top.
NearestOrFirst(m, items, at) ==
  IF items = <<>> THEN None ELSE IF at = <<0, 0>> THEN items[1] ELSE GetNearestTo(m, at, items)
GetIdFromName(m, name, at) == IF name = <<>> THEN None ELSE NearestOrFirst(m, LookupByName(m, name, Inf), at)

\* GetLocationIdFromName(): a city, a neighborhood or an attraction.
WithManager(m, id) == IF id = None THEN <<>> ELSE <<m, id>>
GetLocationIdFromName(name, at) ==
  FoldLeft(LAMBDA acc, m : IF acc = <<>> THEN WithManager(m, GetIdFromName(m, name, at)) ELSE acc,
           <<>>, <<"city", "nbr", "attraction">>)

\* ---- behaviour -------------------------------------------------------------

Init ==
  /\ loaded = {}
  /\ name_index = [m \in Managers |-> <<>>]
  /\ latlong_index = <<>> /\ neighborhood_latlong_indices = <<>>
  /\ hid_location_range_map = <<>> /\ location_list = <<>> /\ storage = <<>>
  /\ call = [op |-> "none"]
  /\ \/ stage = "off" /\ world \in Worlds /\ region = NoName /\ merged = <<>>
     \/ /\ stage = "merge" /\ world = <<>>
        /\ \E s \in Sources : region = WriteNormalizedAndAlternateCityNames(s) /\ merged = <<s>>
  /\ attraction = NoName

\* Countries: an alternate name that another country has ends the process.
LoadCountries ==
  /\ stage = "off" /\ "country" \notin loaded
  /\ \A key \in DOMAIN BuildNameIndex("country") : Cardinality(BuildNameIndex("country")[key]) = 1
  /\ loaded' = loaded \cup {"country"}
  /\ name_index' = [name_index EXCEPT !["country"] = BuildNameIndex("country")]
  /\ latlong_index' = ("country" :> BuildLatLongIndex("country")) @@ latlong_index
  /\ UNCHANGED <<world, neighborhood_latlong_indices, hid_location_range_map, location_list, storage, call, namingVars>>

\* States: besides the names the codes are in the name index.
LoadStates ==
  /\ stage = "off" /\ "state" \notin loaded
  /\ loaded' = loaded \cup {"state"}
  /\ LET codes == [i \in Items("state") |-> StateCodes(Item("state", i), "iso") \ {<<>>}]
     IN  name_index' = [name_index EXCEPT !["state"] = BuildIndex(BuildNameIndex("state"), "state", codes, MaxItems["state"])]
  /\ UNCHANGED <<world, latlong_index, neighborhood_latlong_indices, hid_location_range_map, location_list, storage, call, namingVars>>

\* Cities: with the keys of name, state and country. The states and the
\* countries are created before their names are used.
LoadCities ==
  /\ stage = "off" /\ {"country", "state"} \subseteq loaded /\ "city" \notin loaded
  /\ loaded' = loaded \cup {"city"}
  /\ name_index' = [name_index EXCEPT !["city"] = BuildIndex(BuildNameIndex("city"), "city", [i \in Items("city") |-> CityKeys(i)], MaxItems["city"])]
  /\ latlong_index' = ("city" :> BuildLatLongIndex("city")) @@ latlong_index
  /\ UNCHANGED <<world, neighborhood_latlong_indices, hid_location_range_map, location_list, storage, call, namingVars>>

LoadAttractions ==
  /\ stage = "off" /\ "attraction" \notin loaded
  /\ loaded' = loaded \cup {"attraction"}
  /\ name_index' = [name_index EXCEPT !["attraction"] = BuildNameIndex("attraction")]
  /\ latlong_index' = ("attraction" :> BuildLatLongIndex("attraction")) @@ latlong_index
  /\ UNCHANGED <<world, neighborhood_latlong_indices, hid_location_range_map, location_list, storage, call, namingVars>>

LoadNeighborhoods ==
  LET hids == FoldLeft(ReadHidLine, [list |-> <<>>, ranges |-> <<>>, seq_hid |-> -1], HidLines)
  IN  /\ stage = "off" /\ "nbr" \notin loaded
      /\ loaded' = loaded \cup {"nbr"}
      /\ name_index' = [name_index EXCEPT !["nbr"] = BuildIndex(<<>>, "nbr", [i \in Items("nbr") |-> NbrKeys(i)], MaxItems["nbr"])]
      /\ neighborhood_latlong_indices' = ZoomIndices
      /\ hid_location_range_map' = hids.ranges /\ location_list' = hids.list
      /\ UNCHANGED <<world, latlong_index, storage, call, namingVars>>

LoadUtilsNeighborhoods ==
  /\ stage = "off" /\ {"nbr", "city"} \subseteq loaded /\ "utils" \notin loaded
  /\ \A i \in Items("nbr") : Kept(i) => Item("nbr", i).zoom >= 4
  /\ loaded' = loaded \cup {"utils"}
  /\ LET Stored(kept) == [k \in DOMAIN kept |->
                            [nbr |-> kept[k], city |-> CityOfNeighborhood(Item("nbr", kept[k]))]]
     IN  storage' = Stored(SelectSeq([i \in Items("nbr") |-> i], Kept))
  /\ UNCHANGED <<world, name_index, latlong_index, neighborhood_latlong_indices, hid_location_range_map, location_list, call, namingVars>>

Ready == stage = "off" /\ loaded = Managers \cup {"utils"} /\ call.op = "none"

Answer(c) == call' = c /\ UNCHANGED <<world, loaded, name_index, latlong_index, neighborhood_latlong_indices, hid_location_range_map, location_list, storage, namingVars>>

AskName(m, name, max) ==
  /\ Ready
  /\ Answer([op |-> "name", m |-> m, name |-> name, max |-> max, res |-> LookupByName(m, name, max)])

AskPlace(m, at, max, radius, tie) ==
  /\ Ready
  /\ Answer([op |-> "place", m |-> m, at |-> at, max |-> max, radius |-> radius,
             res |-> LookupByLatLong(m, at, max, radius, tie), nearest |-> FindByLatLong(m, at, tie)])

AskNeighborhood(at, max, radius, tie) ==
  /\ Ready
  /\ Answer([op |-> "zoom", at |-> at, max |-> max, radius |-> radius, res |-> NbrByLatLong(at, max, radius, MinHotels, tie)])

AskAttraction(q, max) ==
  /\ Ready
  /\ Answer([op |-> "attraction", q |-> q, res |-> LookupByNameEx(q.name, q.city, q.state, q.country, max),
             nbrs |-> RetrieveNeighborhood(q.name, q.city, q.state, max)])

AskState(q) ==
  /\ Ready
  /\ Answer([op |-> "state", q |-> q, any |-> StateByCodeMatchAny(q.state, q.country),
             country |-> CountryByCodeMatchAny(q.country)])

AskCity(q, at) ==
  /\ Ready
  /\ Answer([op |-> "city", q |-> q, at |-> at, res |-> NormalizeAndLookup(q.city, q.state, q.country),
             found |-> FindCity(q.city, q.state, q.country, at, MaxCityError)])

AskId(name, at) ==
  /\ Ready
  /\ Answer([op |-> "id", name |-> name, at |-> at, res |-> GetLocationIdFromName(name, at)])

\* ---- names ----------------------------------------------------------------

Merge(s) ==
  /\ stage = "merge" /\ Len(merged) < MaxMerges
  /\ merged' = Append(merged, s)
  /\ region' = CityMergeFrom(region, WriteNormalizedAndAlternateCityNames(s))
  /\ UNCHANGED <<attraction, stage, dataVars>>

\* RewriteAlternateCityNames()
Rewrite ==
  /\ stage = "merge"
  /\ stage' = "written"
  /\ region' = [region EXCEPT !.alternates = CityVariants(region) \ {NormalizeString(region.name)}]
  /\ UNCHANGED <<attraction, merged, dataVars>>

\* WriteNormalizedAndAlternateAttractionNames(): an assertion fails for a name
\* that begins with its parenthesis, or closes one before it.
WriteAttraction(a) ==
  LET pos == Position(a.name, "(", FALSE)
      names == IF pos = 0 THEN {a.name} ELSE ExtractParenthesized(a.name)
      all == {NormalizeString(n) : n \in names} \cup {NormalizeString(SkipApostrophe(n)) : n \in names}
  IN  /\ stage = "written" /\ stage' = "attraction"
      /\ pos # 1 /\ (pos # 0 /\ Position(a.name, ")", TRUE) # 0 => pos < Position(a.name, ")", TRUE))
      /\ attraction' = [name |-> a.name, city |-> a.city, normalized_name |-> NormalizeString(a.name),
                        alternates |-> all \ {NormalizeString(a.name), NormalizeString(a.city), NoName},
                        other |-> GetAlternateNames(a.name)]
      /\ UNCHANGED <<region, merged, dataVars>>

Next ==
  \/ Rewrite \/ (\E s \in Sources : Merge(s)) \/ (\E a \in Attractions : WriteAttraction(a))
  \/ LoadCountries \/ LoadStates \/ LoadCities \/ LoadAttractions \/ LoadNeighborhoods \/ LoadUtilsNeighborhoods
  \/ \E m \in Managers, name \in NameQueries, max \in Maxes : AskName(m, name, max)
  \/ \E m \in {"country", "city", "attraction"}, at \in Places, max \in Maxes, radius \in Radiuses, tie \in {1, -1} :
       AskPlace(m, at, max, radius, tie)
  \/ \E at \in Places, max \in Maxes, radius \in Radiuses, tie \in {1, -1} : AskNeighborhood(at, max, radius, tie)
  \/ \E q \in AttractionQueries, max \in Maxes : AskAttraction(q, max)
  \/ \E q \in CodeQueries : AskState(q)
  \/ \E q \in CityQueries, at \in Places : AskCity(q, at)
  \/ \E name \in NameQueries, at \in Places : AskId(name, at)

Spec == Init /\ [][Next]_vars

\* ---- properties ------------------------------------------------------------

\* The names that a user may know a region by.
Names(m, i) ==
  LET r == Item(m, i)
      own == {NormalizeString(r.name)} \cup (IF m = "nbr" THEN {} ELSE AlternateKeys(m, i))
      s == IF m = "city" THEN StateByCode(r.state, r.country, "iso") ELSE None
      c == IF m = "city" THEN CountryByCode(r.country, "iso2") ELSE None
      parts(code, other) == {<<>>, NormalizeString(code)} \cup other
  IN  CASE m = "city" ->
             own \cup {NormalizeString(r.name) \o x \o y :
               x \in parts(r.state, IF s = None THEN {} ELSE {NormalizeString(Item("state", s).name)}),
               y \in parts(r.country, (IF c = None THEN {} ELSE {NormalizeString(Item("country", c).name)})
                                      \cup (IF NormalizeString(r.country) = <<"us">> THEN {<<"usa">>} ELSE {}))}
        [] m = "state" -> own \cup StateCodes(r, "iso")
        [] m = "country" -> own \cup {NormalizeString(r[f]) : f \in {"iso2", "iso3", "fips"}}
        [] m = "nbr" -> {NormalizeString(r.name), NormalizeString(r.name \o r.mcd), NormalizeString(r.name \o r.mcd \o r.state)}
        [] OTHER -> own

KnownAs(m, i, name) ==
  name # <<>> /\ {NormalizeString(name), ReplaceAllCompletions(NormalizeString(name))} \cap Names(m, i) # {}

\* LookupByName() returns regions of the name, or of its abbreviation, the best
\* first and none twice; with no limit every city is found under all its names
\* with its state and country, unless it is taken for a better one nearby.
NamesFound ==
  call.op = "name" =>
    LET m == call.m
    IN  /\ \A k \in DOMAIN call.res : KnownAs(m, call.res[k], call.name)
        /\ \A k, l \in DOMAIN call.res : k < l => Comparator(m, call.res[k], call.res[l])
        /\ Len(call.res) <= call.max \/ m = "country"
        /\ call.max = Inf /\ m = "city" =>
             \A i \in Items(m) :
               KnownAs(m, i, call.name) /\ (Item(m, i).state = <<>> \/ StateByCode(Item(m, i).state, Item(m, i).country, "iso") # None)
               => \/ i \in Range(call.res)
                  \/ \E j \in Items(m) : /\ KnownAs(m, j, call.name) /\ Comparator(m, j, i)
                                         /\ DuplicateOf(Item(m, i), Item(m, j))

\* LookupByLatLong() returns the nearest regions, in the order of their
\* distance; what it leaves out is too far, farther than as many as were
\* wanted, or a city that is taken for another. The map ends at 180 degrees.
NearestFound ==
  call.op = "place" =>
    LET m == call.m
        d(i) == SurfaceDistance(call.at, Item(m, i).at)
        reached(i) == /\ Abs(Item(m, i).at[1] - call.at[1]) < Grid[m] /\ Abs(Item(m, i).at[2] - call.at[2]) < Grid[m]
                      /\ d(i) <= call.radius
    IN  /\ \A k \in DOMAIN call.res : reached(call.res[k])
        /\ \A k, l \in DOMAIN call.res : k < l => call.res[k] # call.res[l] /\ d(call.res[k]) <= d(call.res[l])
        /\ Len(call.res) <= call.max
        /\ \A i \in Items(m) : reached(i) =>
             \/ i \in Range(call.res)
             \/ Cardinality({j \in Items(m) \ {i} : reached(j) /\ d(j) <= d(i)}) >= call.max
             \/ m = "city" /\ \E j \in Items(m) : d(j) <= d(i) /\ DuplicateOf(Item(m, i), Item(m, j))

\* The neighborhoods of a place, by zoom level: as many of the nearest ones
\* with hotels as are wanted.
ZoomsFound ==
  call.op = "zoom" /\ call.max > 0 /\ call.radius > 0 =>
    LET d(i) == SurfaceDistance(call.at, Item("nbr", i).at)
        reached(i, z) == LET n == Item("nbr", i)
                         IN  /\ n.zoom = z /\ n.hotels >= MinHotels /\ n.hotels > 0
                             /\ Abs(n.at[1] - call.at[1]) <= ZoomGrid[z] /\ Abs(n.at[2] - call.at[2]) <= ZoomGrid[z] /\ d(i) <= call.radius
    IN  \A z \in Zooms \ {0, 1, 2} :
          LET got == IF z \in DOMAIN call.res THEN Range(call.res[z]) ELSE {}
              all == {i \in Items("nbr") : reached(i, z)}
          IN  /\ got \subseteq all /\ Cardinality(got) = IF Cardinality(all) > call.max THEN call.max ELSE Cardinality(all)
              /\ \A i \in got, j \in all \ got : d(i) <= d(j)

\* A hotel has the known neighborhoods of its lines of the file, in their
\* order, when the lines of a hotel follow each other.
HotelsKept ==
  "nbr" \in loaded =>
    \A hid \in {HidLines[k].hid : k \in DOMAIN HidLines} :
      LET own == SelectSeq(HidLines, LAMBDA line : line.hid = hid /\ NbrById(line.id) # None)
      IN  LookupByHid(hid) = [k \in DOMAIN own |-> NbrById(own[k].id)]

\* A neighborhood is kept with a city of its own state and country, no farther
\* than the largest error; what is found for a city and a country is in that
\* country, unless its code is also one of a state.
CitiesBelong ==
  /\ \A k \in DOMAIN storage :
       LET n == Item("nbr", storage[k].nbr)
           c == Item("city", storage[k].city)
       IN  n.state = c.state /\ n.country = c.country /\ SurfaceDistance(n.at, c.at) <= MaxCityError
  /\ call.op = "city" =>
       LET country == CountryByCodeMatchAny(call.q.country)
           cc == Item("country", country).iso2
       IN  /\ call.found # None => /\ call.found \in Range(call.res)
                                   /\ SurfaceDistance(call.at, Item("city", call.found).at) <= MaxCityError
           /\ country # None /\ (\A i \in Items("state") : NormalizeString(cc) \notin StateCodes(Item("state", i), "iso"))
              => \A k \in DOMAIN call.res : CountryCodesMatch(Item("city", call.res[k]).country, cc)

\* An attraction that is found for a city, a state and a country is in none
\* that is known to be another.
AttractionsBelong ==
  call.op = "attraction" =>
    \A k \in DOMAIN call.res :
      LET a == Item("attraction", call.res[k])
          country == CountryByCodeMatchAny(call.q.country)
          state == IF country = None THEN None ELSE StateByCode(call.q.state, Item("country", country).iso2, "iso")
      IN  /\ KnownAs("attraction", call.res[k], call.q.name)
          /\ country # None /\ a.country # <<>> => CountryCodesMatch(a.country, Item("country", country).iso2)
          /\ state # None /\ a.state # <<>> => a.state = Item("state", state).iso

\* What the index has of a city, and how LookupByName() finds it.
IndexKeys(r) == r.alternates \cup {NormalizeString(r.name)}
Found(r, name) == {name, ReplaceAllCompletions(name)} \cap IndexKeys(r) # {}

\* No merged city loses its names: each normalized and alternate name of every
\* source is a name of the merged city (MergeAlternateNamesFrom(), region.h),
\* and once the names are rewritten the city is found by each of them and
\* without its stop words (RewriteAlternateCityNames(), alternate_names.cc).
NamesKept ==
  \A s \in Range(merged) :
    \A n \in ({NormalizeName(s.name)} \cup s.alternates) \ {NoName} :
      IF stage = "merge" THEN n \in region.alternates \cup {NormalizeString(region.name), region.normalized_name}
      ELSE /\ Found(region, n)
           /\ ExtractNonStopWords(ReplaceAllCompletions(n)) \in IndexKeys(region) \cup {NoName}

\* The merged city has the name and the priority of the highest priority, the
\* first of equal ones, and the codes of the first source that has them.
FirstStands ==
  LET best == {i \in DOMAIN merged : \A j \in DOMAIN merged :
                 merged[i].priority > merged[j].priority \/ (merged[i].priority = merged[j].priority /\ i <= j)}
      having(f) == {i \in DOMAIN merged : merged[i][f] # NoName}
      first(f) == IF having(f) = {} THEN NoName ELSE merged[CHOOSE i \in having(f) : \A j \in having(f) : i <= j][f]
  IN  stage # "off" =>
      /\ \A i \in best : region.priority = merged[i].priority /\ (merged[i].name # NoName => region.name = merged[i].name)
      /\ \A f \in {"state", "country", "metro"} : region[f] = first(f)

\* "we must not allow a city name as an alternate name": an attraction is found
\* by what is in and outside of the parentheses of its name, but not by the
\* name of its city (WriteNormalizedAndAlternateAttractionNames()).
AttractionNotCity ==
  stage = "attraction" => NormalizeString(attraction.city) \notin attraction.alternates \ {attraction.normalized_name}
====
