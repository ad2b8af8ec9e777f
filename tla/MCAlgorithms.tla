---------------------------- MODULE MCAlgorithms ----------------------------
(***************************************************************************)
(* The data structures and algorithms, on small inputs of which one is     *)
(* worked on in a behaviour. A behaviour ends with its input.              *)
(***************************************************************************)
EXTENDS Integers, Sequences, TLC

CONSTANTS Ids, none, HeapKeys, HeapValues, Estimates, Modes, sf1, sf2, pa1,
          pa2, inn, wifi, spa, gone

Item(id, score) == [id |-> id, index_score |-> score]
FoundItems == {<<>>, <<Item(sf1, 0), Item(gone, 3), Item(sf2, 5)>>,
               <<Item(pa1, 4), Item(pa2, 2), Item(inn, 1)>>}
Suggestion(name, type, base, place, ann) ==
  [name |-> name, city |-> type = 1, hotel |-> type = 2, type |-> type, base_score |-> base,
   place |-> place, ann |-> ann, country |-> IF ann = <<>> THEN "" ELSE ann[Len(ann)]]
Falcon == sf1 :> Suggestion("sf", 1, 2, 11, <<"ca", "us">>) @@
          sf2 :> Suggestion("sf", 1, 1, 12, <<"tx", "us">>) @@
          pa1 :> Suggestion("par", 1, 2, 13, <<"tx", "fr">>) @@
          pa2 :> Suggestion("par", 1, 1, 14, <<"07", "fr">>) @@
          inn :> Suggestion("par", 2, 1, 15, <<"x", "ca", "us">>) @@
          wifi :> Suggestion("wifi", 3, 1, 0, <<>>) @@ spa :> Suggestion("spa", 3, 2, 9, <<>>)
AttributeIndex == sf1 :> <<Item(wifi, 1)>> @@ "default" :> <<Item(spa, 0), Item(wifi, 1)>>
TwiddlerParams == <<[kind |-> "boost", required |-> TRUE, weight |-> 1, op |-> "*"],
                    [kind |-> "identity", required |-> FALSE, weight |-> 2, op |-> "+"]>>
DomainBoost == [c \in {"us", "fr", ""} |-> CASE c = "us" -> 3 [] c = "fr" -> 1 [] OTHER -> 2]
CountryName == [c \in {"us", "fr"} |-> IF c = "fr" THEN "France" ELSE "United States"]
StateName == [s \in {"ca", "tx", "07"} |->
                CASE s = "ca" -> "California" [] s = "tx" -> "Texas" [] s = "07" -> "Sept"]
Chars == INSTANCE Strings WITH Special <- <<>>, Junk <- <<>>, LineLength <- 76
EscapeTexts == UNION {[1..n -> {0, 34, 38, 55, 60, 92, 169, 195}] : n \in 0..2} \cup {<<195, 169, 38, 108, 116, 59>>, <<226, 130, 172, 195>>, <<240, 159, 152, 128>>, <<226, 130, 34>>, <<194, 146>>, <<255, 195, 169>>,
  <<92, 117, 48, 48, 53, 55>>, <<1, 127, 128, 200, 255, 254, 63>>, <<38, 35, 49, 59, 38, 113, 59>>, <<224, 164, 129, 32>>, <<248, 136, 128, 128, 128>>}
CsvStrings == {<<>>, <<0>>, <<10, 97>>, <<34>>, <<35, 44>>, <<92, 34>>, <<195, 169>>, <<32, 9>>, <<97, 44, 34, 34>>, <<34, 92>>, <<13>>}
CsvStructs == {<<<<s, 0>>>> : s \in CsvStrings} \cup {<<<<s, -12>>, <<t, 103>>>> : s \in {<<34>>, <<97, 44, 34, 34>>}, t \in {<<>>, <<34>>, <<35, 44>>}} \cup {<<>>}
CsvTables == {[types |-> <<"str", "int">>, structs |-> t] : t \in CsvStructs} \cup {[types |-> <<"bool", "str">>, structs |-> t] : t \in {<<>>, <<<<TRUE, <<97>>>>>>}}
SplitTexts == UNION {[1..n -> {97, 32, 44}] : n \in 0..2} \cup {<<32>> \o s \o <<32>> : s \in [1..2 -> {66, 32, 62}]} \cup {Chars!Ascii("<b>x</b> > <"), Chars!Ascii("the usa, of de'LA"), Chars!Ascii("A.BC D.E"), Chars!Ascii("ab:c,,:d,"), Chars!Ascii("a-b  -1 bB"), <<195, 131, 194, 169, 195, 169, 32, 65>>, <<32, 10, 32, 195, 169, 65, 10, 32, 10>>, Chars!Ascii(" 12 3 ")}
StemParts == {"sses", "ies", "i", "eed", "ed", "ing", "at", "ate", "bl", "ble", "iz", "ize", "e", "y", "ational", "tional", "tion", "enci", "ence", "anci", "ance", "izer", "bli", "alli", "al", "entli", "ent", "eli", "ousli", "ous", "ization", "ation", "ator", "alism", "iveness", "ive", "fulness", "ful", "ousness", "aliti", "iviti", "biliti", "logi", "log", "icate", "ic", "ative", "", "alize", "iciti", "ical", "ness", "er", "able", "ible", "ant", "ement", "ment", "ion", "ou", "ism", "iti", "a", "o", "u", "w", "x", "s", "l", "z", "t"}
StemLiterals == [p \in StemParts |-> Chars!Ascii(p)]
Said == "caresses" :> "caress" @@ "ponies" :> "poni" @@ "ties" :> "ti" @@ "caress" :> "caress" @@ "cats" :> "cat" @@ "feed" :> "feed" @@ "agreed" :> "agree" @@ "disabled" :> "disable" @@ "matting" :> "mat" @@ "mating" :> "mate" @@ "meeting" :> "meet" @@ "milling" :> "mill" @@ "messing" :> "mess" @@ "meetings" :> "meet"
StemExamples == [w \in {Chars!Ascii(s) : s \in DOMAIN Said} |-> Chars!Ascii(Said[CHOOSE s \in DOMAIN Said : Chars!Ascii(s) = w])]
StemWords == DOMAIN StemExamples \cup {Chars!Ascii(s) : s \in {"relational", "hopefulness", "sky", "happy", "controll", "adoption", "ies", "sing", "y", "ion", "generalization", "snowed", "ability"}}
RegionWords == <<"AB", "CA", "MX", "NY", "ON", "QC", "US", "cafe", "california", "canada", "london", "mexico", "new", "ontario", "saint", "soho", "springs", "st", "usa", "york">>
Folded == "CA" :> "ca" @@ "MX" :> "mx" @@ "NY" :> "ny" @@ "ON" :> "on" @@ "QC" :> "qc" @@ "US" :> "us" @@ "CAN" :> "can" @@ "PQ" :> "pq" @@ "AB" :> "ab" @@ "CF" :> "cf"
  @@ "London" :> "london" @@ "York" :> "york" @@ "Saint" :> "saint" @@ "St." :> "st" @@ "Ko" :> "ko" @@ "La" :> "la" @@ "O" :> "o" @@ "Hare" :> "hare" @@ "OHare" :> "ohare" @@ "Big" :> "big" @@ "Ben" :> "ben"
NbrIds == <<"n1", "n2", "n3", "n4", "n5", "n6">>
Plain == {RegionWords[k] : k \in DOMAIN RegionWords} \cup {NbrIds[k] : k \in DOMAIN NbrIds} \cup {Folded[w] : w \in DOMAIN Folded} \cup {"koh", "street"}
Lowered == [w \in DOMAIN Folded \cup Plain \cup {"(", ")", "'", ","} |->
  IF w \in {"(", ")", "'", ","} THEN <<>> ELSE IF w \in DOMAIN Folded THEN <<Folded[w]>> ELSE <<w>>]
Place(list, w) == IF \E k \in DOMAIN list : list[k] = w THEN CHOOSE k \in DOMAIN list : list[k] = w ELSE 0
Ranked == [w \in DOMAIN Lowered |-> Place(RegionWords, w) + Place(NbrIds, w)]
Country(name, iso2, iso3, fips, at) == [name |-> <<name>>, alternates |-> {}, iso2 |-> <<iso2>>, iso3 |-> <<iso3>>, fips |-> fips, at |-> at]
State(name, iso, country) == [name |-> <<name>>, alternates |-> {}, iso |-> <<iso>>, fips |-> <<"CF">>, country |-> <<country>>]
City(name, alternates, state, country, score, at) == [name |-> name, alternates |-> alternates, state |-> state, country |-> country, score |-> score, at |-> at]
Nbr(id, name, mcd, state, zoom, hotels, at) == [id |-> <<id>>, name |-> <<name>>, mcd |-> mcd, state |-> state, country |-> <<"US">>, zoom |-> zoom, hotels |-> hotels, at |-> at]
Sight(name, city, eid, state, country, at) == [name |-> <<name>>, alternates |-> {}, city |-> city, city_eid |-> eid, state |-> state, country |-> country, at |-> at]
Hid(hid, id) == [hid |-> hid, id |-> <<id>>]
World == [
  country |-> <<Country("usa", "US", "usa", <<"US">>, <<3, -5>>), Country("canada", "CA", "can", <<"CA">>, <<5, -5>>), Country("mexico", "MX", "mx", <<>>, <<1, -6>>)>>,
  state |-> <<State("california", "CA", "US"), State("new", "NY", "US"), State("ontario", "ON", "CA"), State("york", "QC", "CA")>>,
  city |-> <<City(<<"london">>, {<<"York">>}, <<"ON">>, <<"CA">>, 9, <<4, -3>>), City(<<"London">>, {}, <<"CA">>, <<"US">>, 10, <<3, -6>>),
             City(<<"new", "york">>, {<<"ny">>}, <<"NY">>, <<"US">>, 8, <<3, -2>>), City(<<"york">>, {}, <<"NY">>, <<"US">>, 3, <<3, -1>>),
             City(<<"st", "springs">>, {}, <<>>, <<"US">>, 4, <<-1, 7>>), City(<<"saint", "springs">>, {<<"st", "springs">>}, <<>>, <<"US">>, 3, <<-1, 6>>),
             City(<<"london">>, {}, <<>>, <<"US">>, 2, <<3, -7>>), City(<<"london">>, {}, <<"AB">>, <<"MX">>, 1, <<0, 0>>)>>,
  attraction |-> <<Sight("cafe", <<"london">>, 1, <<"ON">>, <<"CA">>, <<4, -4>>), Sight("cafe", <<"london">>, 0, <<>>, <<"US">>, <<3, -6>>), Sight("cafe", <<>>, 3, <<"NY">>, <<"US">>, <<-1, -8>>)>>,
  nbr |-> <<Nbr("n1", "soho", <<"new", "york">>, <<"NY">>, 4, 2, <<3, -2>>), Nbr("n2", "york", <<"york">>, <<"NY">>, 5, 3, <<3, -1>>),
            Nbr("n3", "soho", <<"london">>, <<"NY">>, 5, 1, <<3, -5>>), Nbr("n4", "soho", <<"London">>, <<"ON">>, 2, 0, <<4, -3>>),
            Nbr("n5", "soho", <<"springs">>, <<>>, 4, 5, <<3, 0>>), Nbr("n6", "cafe", <<"new", "york">>, <<"NY">>, 4, 5, <<2, -1>>)>>,
  hids |-> <<Hid(7, "n1"), Hid(7, "n4"), Hid(7, "n5"), Hid(9, "n9"), Hid(8, "n2"), Hid(-1, "n1"), Hid(6, "n1")>>,
  blacklist |-> {<<"n6">>}]
Town(name, alternates, state, metro, place, priority) == [name |-> name, alternates |-> alternates, normalized_name |-> <<>>, state |-> state, country |-> <<"US">>, metro |-> metro, place |-> place, priority |-> priority]
Towns == {Town(<<"St.", "Hare">>, {<<"hare">>}, <<>>, <<"m1">>, <<1, 1>>, 0), Town(<<"O", "'", "Hare">>, {}, <<"s1">>, <<>>, <<>>, 1),
            Town(<<"Ko", "La">>, {<<"la">>, <<"saint", "koh">>}, <<"s2">>, <<"m2">>, <<2, 2>>, 2), Town(<<"Saint", "Hare">>, {}, <<>>, <<>>, <<1, 2>>, 1), Town(<<>>, {<<"street", "ben">>}, <<>>, <<>>, <<>>, 2)}
Sights == {[name |-> n, city |-> <<"London">>] : n \in {<<"Big", "Ben", "(", "London", ")">>, <<"O", "'", "Hare", "(", "La", ")", "Big">>, <<"Big", "(", "Ben">>, <<"(", "Big", ")">>, <<"Big", ",", "London">>, <<"London">>}}
Num == [kind |-> "int"]
Str == [kind |-> "str"]
F(id, name, T, init) == [id |-> id, name |-> <<name>>, type |-> T, init |-> init]
Flag(x) == [flag |-> x]
Struct(vars_list) == [kind |-> "struct", vars |-> vars_list]
Sub1 == Struct(<<F(1, "x", Num, 0)>>)
Sub2 == Struct(<<Flag("DEFAULT_CUSTOM"), F(2, "y", Str, <<3>>), Flag("DEFAULT_ZERO"), F(1, "x", Num, 5)>>)
Vec(T) == [kind |-> "vec", of |-> T]
Schema == [old |-> Struct(<<F(1, "n", Num, 0), F(2, "s", Str, <<>>), F(5, "sub", Vec(Sub1), <<>>)>>),
       new |-> Struct(<<Flag("SERIALIZE_TYPEINFO"), Flag("DEFAULT_CUSTOM"), F(1, "n", Num, 7),
                        Flag("DEFAULT_ZERO"), F(5, "sub", Vec(Sub2), <<>>),
                        F(3, "f", [kind |-> "float"], 9), F(4, "p", [kind |-> "ptr", of |-> Str], <<>>),
                        F(6, "m", [kind |-> "map", of |-> [kind |-> "bool"]], <<>>), Flag("DEFAULT_CUSTOM"),
                        F(7, "q", [kind |-> "pair", first |-> Num, second |-> Num], <<1, 2>>)>>),
       strict |-> Struct(<<Flag("SERIALIZE_REQUIRED"), F(2, "s", Str, <<>>), Flag("SERIALIZE_OPTIONAL"), F(8, "b", [kind |-> "bool"], TRUE)>>),
       blob |-> Struct(<<F(5, "sub", [kind |-> "blob"], <<>>), F(1, "n", Num, 0)>>)]
Token(c) == [t |-> c]
Structs == [old |-> {[id \in {1,2,5} |-> CASE id = 1 -> -9 [] id = 2 -> <<0, 12>> [] id = 5 -> <<[i \in {1} |-> 100], [i \in {1} |-> 0]>>],
                [id \in {1,2,5} |-> CASE id = 1 -> 0 [] id = 2 -> <<>> [] id = 5 -> <<>>]},
       new |-> {[id \in {1,3,4,5,6,7} |-> CASE id = 1 -> 70 [] id = 3 -> 33 [] id = 4 -> <<>> [] id = 5 -> <<[i \in {1,2} |-> IF i = 1 THEN -1 ELSE <<7>>]>>
                  [] id = 6 -> <<<<<<1>>, TRUE>>, <<<<2>>, FALSE>>>> [] id = 7 -> <<4, -4>>],
                [id \in {1,3,4,5,6,7} |-> CASE id = 1 -> 1 [] id = 3 -> 0 [] id = 4 -> <<<<5, 6>>>> [] id = 5 -> <<>>
                  [] id = 6 -> <<>> [] id = 7 -> <<0, 0>>]},
       strict |-> {[id \in {2, 8} |-> IF id = 2 THEN <<1>> ELSE TRUE]},
       blob |-> {[id \in {1,5} |-> IF id = 1 THEN 2 ELSE <<>>],
                 [id \in {1,5} |-> IF id = 1 THEN 3 ELSE <<Token("["), Token("{"), [t |-> "string", v |-> <<"x">>], Token(":"), [t |-> "number", v |-> 8], Token("}"), Token("]")>>]}]
Versions == {"old", "new", "strict"}
Cases == ({"binary", "rpc", "json"} \X Versions \X Versions) \cup {<<"raw", v, v>> : v \in Versions} \cup {<<"json", "blob", v>> : v \in {"blob", "strict"}}
Keys == {<<[letter |-> "a", upper |-> TRUE]>>, <<[letter |-> "a", upper |-> FALSE]>>,
         <<[letter |-> "b", upper |-> TRUE], [letter |-> "a", upper |-> FALSE]>>}
Space == [a |-> 2, b |-> 3]
Text == [x1 |-> <<"free", "tubs", "cat", "dog", "gratis", "of">>,
         x2 |-> <<"the", "tub", "cat", "dog", "gratis", "dog">>]
Size == [w \in {"free", "tubs", "cat", "dog", "of", "the", "tub", "gratis"} |->
           CASE w \in {"free", "tubs"} -> 4 [] w = "of" -> 2 [] w = "gratis" -> 6 [] OTHER -> 3]
Stem == [w \in {"free", "tubs", "cat", "dog", "of", "the", "tub", "gratis"} |->
           IF w = "tubs" THEN "tub" ELSE w]
Synonyms == [w \in {"free", "cat", "dog", "of", "the", "tub", "gratis"} |->
               CASE w = "free" -> <<"gratis">> [] w = "gratis" -> <<"free">> [] OTHER -> <<>>]
Queries == {<<"tub", "free">>, <<"dog">>, <<"the", "cat">>, <<"cat", "gratis", "dog">>}
Leaves == {[starts |-> {1}, len |-> 3], 
           [starts |-> {0, 2, 4}, len |-> 1],
           [starts |-> {1, 4}, ends |-> {3, 6}], [starts |-> {0, 1}, len |-> 3]}
Edges == {<<"s", "a">>, <<"s", "b">>, <<"s", "t">>, <<"a", "b">>, <<"b", "a">>, <<"b", "t">>}
Starts == {<<1970, 1, 1>>, <<1971, 12, 31>>, <<1999, 12, 20>>, <<2000, 2, 28>>, <<2015, 2, 1>>,
           <<2016, 2, 29>>, <<2099, 12, 1>>, <<2100, 2, 27>>, <<2399, 6, 1>>}
Steps == {1, -1, 7, -19, -20, 49, 50, 400, -366}
PointTexts == {<<<<"y", 2015>>>>, <<<<"M", 2>>>>, <<<<"w", 53>>>>, <<<<"t", 2>>>>, <<<<"d", 31>>>>, <<<<"h", 1>>>>, <<<<"m", 0>>>>, <<<<"s", 1>>>>,
 <<<<"w", 53>>, <<"t", 1>>>>, <<<<"w", 9>>, <<"m", 1>>>>, <<<<"f", 23>>>>, <<<<"f", 51>>>>, <<<<"l", 57>>, <<"h", 0>>>>, <<<<"M", 2>>, <<"l", 12>>>>,
 <<<<"y", 2016>>, <<"M", 2>>, <<"d", 29>>>>, <<<<"y", 2016>>, <<"f", 55>>>>, <<<<"y", 2015>>, <<"w", 53>>, <<"t", 1>>>>,
 <<<<"d", 30>>, <<"m", 1>>>>, <<<<"h", 0>>, <<"s", 1>>>>, <<<<"t", 7>>, <<"h", 1>>, <<"m", 0>>, <<"s", 0>>>>, <<<<"M", 12>>, <<"d", 31>>, <<"h", 1>>>>,
 <<<<"z", 1>>>>, <<<<"t", 1>>, <<"z", 2>>>>, <<<<"t", 2>>, <<"z", 1>>>>, <<<<"M", 5>>, <<"z", 1>>>>, <<<<"y", 2016>>, <<"z", 2>>>>, <<<<"d", 31>>, <<"z", 1>>>>, <<<<"l", 12>>, <<"z", 2>>>>, <<<<"w", 9>>, <<"z", 1>>>>,
 <<<<"M", 13>>>>, <<<<"M", 257>>>>, <<<<"h", 1>>, <<"z", 1>>>>, <<<<"M", 2>>, <<"d", 30>>>>, <<<<"f", 61>>>>, <<<<"f", 5>>>>, <<<<"z", 3>>>>, <<<<"d", 5>>, <<"f", 21>>>>, <<<<"w", -1>>>>, <<>>}
Skies == {[dark |-> {}, skipped |-> {}], [dark |-> {<<2015, 2, 28>>, <<2015, 3, 1>>}, skipped |-> {<<2016, 6, 6>>, <<2016, 2, 29>>}]}
Currents == {<<1970, 5, 5, 1, 0, 0>>} \cup {day \o time :
  day \in {<<2014, 12, 31>>, <<2015, 2, 28>>, <<2016, 2, 29>>, <<1971, 1, 1>>},
  time \in {<<0, 0, 0>>, <<1, 0, 1>>}}
ZonePoint(month, n, h, mn) == [month |-> month, n |-> n, h |-> h, mn |-> mn]
DomainUS == [start |-> ZonePoint(3, 2, 2, 0), end |-> ZonePoint(11, 1, 2, 0)]
DomainNewfoundland == [start |-> ZonePoint(3, 2, 0, 1), end |-> ZonePoint(11, 1, 0, 1)]
DomainNone == [start |-> ZonePoint(1, 1, 0, 0), end |-> ZonePoint(1, 1, 0, 0)]
ZoneOf(id, sign, hour, minute, dst, dom) == [id |-> id, sign |-> sign, hour |-> hour, minute |-> minute, dst |-> dst, domain |-> dom]
ZoneList == <<ZoneOf(1, "-", 8, 0, 2, DomainUS), ZoneOf(3, "-", 7, 0, 0, DomainUS), ZoneOf(11, "-", 3, 1, 2, DomainNewfoundland), ZoneOf(18, "+", 10, 0, 0, DomainUS), ZoneOf(23, "-", 8, 0, 2, DomainUS), ZoneOf(20, "+", 0, 0, 0, DomainNone)>>
UnitsTo(year, yday, hour) == (((year - 1970) * 365 + (year - 1969) \div 4 + yday) * 24 + hour) * 4
ZoneInstants == {UnitsTo(2016, 72, 10) + i : i \in -4..4} \cup {UnitsTo(2016, 310, 9) + i : i \in -4..4} \cup {UnitsTo(2016, 72, 3) + i : i \in 0..2} \cup {UnitsTo(2016, 310, 3) + i : i \in -4..1} \cup {100, UnitsTo(2038, 18, 99), UnitsTo(2015, 364, 23) + 3}
ZoneDurations == {<<0, 0, 1, 0, 0, 0>>, <<1, 1, 0, 30, 0, 0>>, <<0, -13, 0, 0, -3, 0>>, <<0, 0, 0, 0, 0, 0>>}
Config == <<[size |-> 4, n |-> 2], [size |-> 8, n |-> 2]>>
Ages == {-2, 0, 1, 5, 9}

VARIABLES which, s_at, s_asked, s_response, s_enable_instant, g_flow,
          g_response, g_secondary, g_reader, b_h, b_val, b_erased, b_kv,
          b_offer, b_res, b_mode, d_tree, d_answer, a_graph, a_fwd, a_rev,
          a_run, f_zone, f_t, f_local, f_last, f_steps, p_sky, p_text,
          p_current, p_fuzzy, p_trial, p_next, p_point, p_get_next, p_newtime,
          p_at, l_triggers_map, l_header, l_left, l_element, l_log_status,
          l_iters, l_ran, l_at, c_now, c_binsets, c_happened, g_world,
          g_loaded, g_name_index, g_latlong_index,
          g_neighborhood_latlong_indices, g_hid_location_range_map,
          g_location_list, g_storage, g_call, g_stage, g_region, g_merged,
          g_attraction, i_storage, i_locked, i_call, i_index, i_heavy,
          i_wanted, i_raced, i_removed, i_calls, k_kind, k_converted, k_data,
          k_its, k_holds, k_result, k_given, k_writes, o_unique,
          o_block_size, o_partial_usage, o_obj, o_collection, o_result,
          x_blobs, x_ranges, x_index, x_term_freq, x_state, x_file, x_content,
          x_names, x_calls, z_format, z_writer, z_reader, z_sent, z_stream,
          z_got, z_pos, z_received, v_table, v_delim, v_file, v_writer,
          v_hand, v_got, u_text, u_before, u_list, u_last, u_given, u_steps,
          u_writer, u_encoded, u_rest, u_reader, u_decoded, u_buffer, u_term,
          u_at, u_z, u_calls   \* which: the component that runs

Ranking == INSTANCE SuggestRanking WITH
  at <- s_at, asked <- s_asked, response <- s_response,
  enable_instant <- s_enable_instant, Ids <- Ids, Kids <- {"x", "y"},
  Scores <- {1, 2}, Whole <- 2, Shares <- {0, 1}, Types <- {1, 2},
  MaxAsked <- 3, MaxCandidates <- 1, MinSecondary <- 2, Multiplier <- 2

Flow == INSTANCE SuggestFlow WITH
  flow <- g_flow, response <- g_response, secondary <- g_secondary,
  reader <- g_reader, Indexed <- FoundItems, Falcon <- Falcon,
  AttributeIndex <- AttributeIndex, Twiddlers <- TwiddlerParams,
  Boost <- DomainBoost, User <- "us", CountryName <- CountryName,
  StateName <- StateName, Numeric <- {"07"}, asked <- 2, MaxCandidates <- 1,
  MinSecondary <- 2, Multiplier <- 2

Best == INSTANCE BestN WITH
  h <- b_h, val <- b_val, erased <- b_erased, kv <- b_kv, offer <- b_offer,
  res <- b_res, mode <- b_mode, Keys <- HeapKeys, Values <- HeapValues,
  Capacity <- 3

Domain == INSTANCE TimeDomain WITH
  tree <- d_tree, answer <- d_answer, Leaves <- Leaves, MaxTime <- 6,
  Iterations <- 50

Search == INSTANCE AStar WITH
  graph <- a_graph, fwd <- a_fwd, rev <- a_rev, run <- a_run,
  Nodes <- <<"s", "a", "b", "t">>, Edges <- Edges, Costs <- {1, 3},
  None <- none, Src <- "s", Dst <- "t", Estimates <- Estimates,
  Modes <- Modes, Consistent <- TRUE

Zoned == INSTANCE Timezones WITH
  zone <- f_zone, t <- f_t, local <- f_local, last <- f_last,
  steps <- f_steps, Hours <- 24, Minutes <- 2, Seconds <- 2,
  Zones <- ZoneList, Used <- {1, 11, 18}, Instants <- ZoneInstants,
  INFINITE_PAST <- 100, INFINITE_FUTURE <- UnitsTo(2038, 18, 99),
  Multiples <- {3, 7}, Cushions <- {1, 5},
  Clocks <- {<<0, 0, 0>>, <<2, 1, 0>>}, Increments <- {-1, 3, 100},
  Durations <- ZoneDurations,
  Domains <- {[start |-> 1, end |-> 3], [start |-> 9, end |-> 17], [start |-> 20, end |-> 2]},
  MaxSteps <- 1

Point == INSTANCE GenericPoint WITH
  sky <- p_sky, text <- p_text, current <- p_current, fuzzy <- p_fuzzy,
  trial <- p_trial, next <- p_next, point <- p_point, get_next <- p_get_next,
  newtime <- p_newtime, at <- p_at, Hours <- 2, Minutes <- 2, Seconds <- 2,
  Texts <- PointTexts, Currents <- Currents, Starts <- Starts, Steps <- Steps,
  MaxDays <- 420, SunClock <- <<<<0, 1, 0>>, <<1, 0, 1>>>>, Skies <- Skies

Log == INSTANCE LogTriggers WITH
  triggers_map <- l_triggers_map, header <- l_header, left <- l_left,
  element <- l_element, log_status <- l_log_status, iters <- l_iters,
  ran <- l_ran, at <- l_at, Triggers <- {"good", "bad"}, Priorities <- {1, 2},
  IntMax <- 3, MaxTriggers <- 3, MaxLogs <- 2

Count == INSTANCE Counter WITH
  now <- c_now, binsets <- c_binsets, happened <- c_happened,
  Config <- Config, Events <- {"e"}, Ages <- Ages, MaxNow <- 36, Delays <- {1}

Regions == INSTANCE RegionData WITH
  world <- g_world, loaded <- g_loaded, name_index <- g_name_index,
  latlong_index <- g_latlong_index,
  neighborhood_latlong_indices <- g_neighborhood_latlong_indices,
  hid_location_range_map <- g_hid_location_range_map,
  location_list <- g_location_list, storage <- g_storage, call <- g_call,
  stage <- g_stage, region <- g_region, merged <- g_merged,
  attraction <- g_attraction,
  Worlds <- {World, [World EXCEPT !.hids = <<>>, !.blacklist = {}]},
  Lower <- Lowered, Rank <- Ranked,
  Abbreviations <- <<<<"street", "st">>, <<"saint", "st">>>>,
  SimilarNames <- {{<<"london">>, <<"London">>}, {<<"new">>, <<"ny">>}, {<<"st", "springs">>, <<"saint", "springs">>}},
  ThreeChars <- {<<"usa">>, <<"can">>},
  Grid <- [country |-> 4, city |-> 2, attraction |-> 3],
  ZoomGrid <- (3 :> 3 @@ 4 :> 2 @@ 5 :> 1 @@ 2 :> 4),
  MaxItems <- [country |-> 2, state |-> 2, city |-> 0, attraction |-> 2, nbr |-> 2],
  HalfTurn <- 8, MinScore <- 5, MinDistance <- 1, MaxCityError <- 4,
  MinHotels <- 1,
  NameQueries <- {<<"London">>, <<"york", "NY">>, <<"new", "york", "usa">>, <<"london", "CA">>, <<"saint", "springs">>, <<"St.", "springs">>, <<"can">>, <<"cafe">>, <<"soho", "new", "york">>, <<"york", "new", "US">>, <<"PQ">>, <<"MX">>, <<>>},
  Joined <- (<<"O", "Hare">> :> "OHare"), StopWords <- {"la", "ko", "koh"},
  SynonymPairs <- {<<"ko", "koh">>}, Sources <- Towns, Attractions <- Sights,
  MaxMerges <- 4,
  Places <- {<<3, -2>>, <<3, -5>>, <<-1, 7>>, <<0, 0>>, <<0, -1>>, <<-1, -8>>},
  Maxes <- {1, 2, 1000000}, Radiuses <- {0, 2, 1000000},
  AttractionQueries <- {[name |-> n, city |-> c, state |-> s, country |-> k] : n \in {<<"cafe">>, <<"soho">>}, c \in {<<"london">>, <<"new", "york">>, <<>>}, s \in {<<"NY">>, <<"ON">>, <<>>}, k \in {<<"US">>, <<"CA">>, <<"AB">>, <<>>}},
  CodeQueries <- {[state |-> s, country |-> c] : s \in {<<"PQ">>, <<"CF">>, <<"NY">>, <<>>}, c \in {<<"CA">>, <<"US">>, <<"can">>, <<"MX">>}},
  CityQueries <- {[city |-> c, state |-> s, country |-> k] : c \in {<<"london">>, <<"new", "york">>}, s \in {<<"ON">>, <<"QC">>, <<"new">>, <<>>}, k \in {<<"US">>, <<"CA">>, <<"mexico">>, <<"AB">>}}

Strings == INSTANCE StringIndex WITH
  storage <- i_storage, locked <- i_locked, call <- i_call, index <- i_index,
  heavy <- i_heavy, wanted <- i_wanted, raced <- i_raced,
  removed <- i_removed, calls <- i_calls, Threads <- {1, 2}, Values <- {7},
  Letters <- {"a", "b"}, Keys <- Keys, Space <- Space, BlockSize <- 4,
  MaxItems <- 1, MaxCalls <- 3

Kept == INSTANCE Stores WITH
  kind <- k_kind, converted <- k_converted, data <- k_data, its <- k_its,
  holds <- k_holds, result <- k_result, given <- k_given,
  writes <- k_writes,  Kinds <- {"map", "hash", "leveldb", "writer"},
  Keys <- {1, 2}, Values <- {"v", "w"}, StoreKey <- <<2, 1>>,
  Clients <- {1, 2}, MaxIterators <- 1, MaxWrites <- 3

Placed == INSTANCE Collections WITH
  unique <- o_unique, block_size <- o_block_size,
  partial_usage <- o_partial_usage, obj <- o_obj, collection <- o_collection,
  result <- o_result, Signatures <- {1, 2}, Contents <- {"x", "y"},
  InitialSize <- 1, MaxBlock <- 2, MaxObjects <- 4

Searches == INSTANCE SearchIndex WITH
  blobs <- x_blobs, ranges <- x_ranges, index <- x_index,
  term_freq <- x_term_freq, state <- x_state, file <- x_file,
  content <- x_content, names <- x_names, calls <- x_calls, Docs <- {1, 2},
  Text <- Text, TextOrder <- <<"x1", "x2">>, Stem <- Stem,
  StopWords <- {"of", "the"}, Synonyms <- Synonyms, Size <- Size,
  Ln <- <<0, 693>>, MaxBetween <- 1, MergeThreshold <- 7, Context <- 1,
  Multiplier <- 2, MaxSubsnippets <- 2, MaxQuery <- 2, Queries <- Queries,
  MaxBlobs <- 2, MaxContent <- 2

Serial == INSTANCE Serializer WITH
  format <- z_format, writer <- z_writer, reader <- z_reader, sent <- z_sent,
  stream <- z_stream, got <- z_got, pos <- z_pos, received <- z_received,
  Schema <- Schema, Values <- Structs, Cases <- Cases

Csv == INSTANCE CsvText WITH
  table <- v_table, delim <- v_delim, file <- v_file, writer <- v_writer,
  hand <- v_hand, got <- v_got,
  Names <- <<Chars!Ascii("name"), Chars!Ascii("num")>>, Tables <- CsvTables,
  Delimiters <- {44, 9},
  Inserted <- {<<>>, Chars!Ascii(" #x,\""), Chars!Ascii("# \"\",1")},
  Special <- <<>>, Junk <- <<>>, LineLength <- 76

Strutil == INSTANCE StringUse WITH
  text <- u_text, before <- u_before, list <- u_list, last <- u_last,
  given <- u_given, steps <- u_steps, writer <- u_writer,
  encoded <- u_encoded, rest <- u_rest, reader <- u_reader,
  decoded <- u_decoded, buffer <- u_buffer, term <- u_term, at <- u_at,
  z <- u_z, calls <- u_calls, Texts <- SplitTexts,
  Needles <- {<<97>>, <<98, 97>>, <<66, 66, 49>>, <<97, 49>>},
  Separators <- {{44}, {58, 32}}, Parts <- {1, 2},
  Chunks <- {<<97, 98>>, <<>>, <<49>>}, Limit <- 5,
  Special <- <<Chars!Ascii("US"), Chars!Ascii("USA"), Chars!Ascii("de"), Chars!Ascii("la")>>,
  Junk <- <<<<<<195, 131, 194, 169>>, <<195, 169>>>>>>, MaxSteps <- 2,
  Escaped <- EscapeTexts, Followers <- {<<34>>, <<44, 34>>, <<92>>, <<49>>},
  LineLength <- 8, Threads <- {1}, Words <- StemWords,
  Examples <- StemExamples, Literals <- StemLiterals, MaxCalls <- 2

RankingVars == <<s_at, s_asked, s_response, s_enable_instant>>
FlowVars == <<g_flow, g_response, g_secondary, g_reader>>
BestVars == <<b_h, b_val, b_erased, b_kv, b_offer, b_res, b_mode>>
DomainVars == <<d_tree, d_answer>>
SearchVars == <<a_graph, a_fwd, a_rev, a_run>>
ZonedVars == <<f_zone, f_t, f_local, f_last, f_steps>>
PointVars == <<p_sky, p_text, p_current, p_fuzzy, p_trial, p_next, p_point,
               p_get_next, p_newtime, p_at>>
LogVars == <<l_triggers_map, l_header, l_left, l_element, l_log_status,
             l_iters, l_ran, l_at>>
CountVars == <<c_now, c_binsets, c_happened>>
RegionsVars == <<g_world, g_loaded, g_name_index, g_latlong_index,
                 g_neighborhood_latlong_indices, g_hid_location_range_map,
                 g_location_list, g_storage, g_call, g_stage, g_region,
                 g_merged, g_attraction>>
StringsVars == <<i_storage, i_locked, i_call, i_index, i_heavy, i_wanted,
                 i_raced, i_removed, i_calls>>
KeptVars == <<k_kind, k_converted, k_data, k_its, k_holds, k_result,
              k_given, k_writes>>
PlacedVars == <<o_unique, o_block_size, o_partial_usage, o_obj, o_collection,
                o_result>>
SearchesVars == <<x_blobs, x_ranges, x_index, x_term_freq, x_state, x_file,
                  x_content, x_names, x_calls>>
SerialVars == <<z_format, z_writer, z_reader, z_sent, z_stream, z_got, z_pos,
                z_received>>
CsvVars == <<v_table, v_delim, v_file, v_writer, v_hand, v_got>>
StrutilVars == <<u_text, u_before, u_list, u_last, u_given, u_steps, u_writer,
                 u_encoded, u_rest, u_reader, u_decoded, u_buffer, u_term,
                 u_at, u_z, u_calls>>

allVars == <<which, RankingVars, FlowVars, BestVars, DomainVars, SearchVars, ZonedVars, PointVars, LogVars, CountVars, RegionsVars, StringsVars, KeptVars, PlacedVars, SearchesVars, SerialVars, CsvVars, StrutilVars>>

AllInit ==
  /\ which \in {"ranking", "flow", "best", "domain", "astar", "zones", "point", "log", "counter", "regions", "strings", "stores", "collections", "search", "serial", "csv", "texts"}
  /\ IF which = "ranking" THEN Ranking!Init
     ELSE s_at = 0 /\ s_asked = 0 /\ s_response = 0 /\ s_enable_instant = 0
  /\ IF which = "flow" THEN Flow!Init
     ELSE g_flow = 0 /\ g_response = 0 /\ g_secondary = 0 /\ g_reader = 0
  /\ IF which = "best" THEN Best!Init
     ELSE b_h = 0 /\ b_val = 0 /\ b_erased = 0 /\ b_kv = 0 /\ b_offer = 0 /\ b_res = 0 /\ b_mode = 0
  /\ IF which = "domain" THEN Domain!Init
     ELSE d_tree = 0 /\ d_answer = 0
  /\ IF which = "astar" THEN Search!Init
     ELSE a_graph = 0 /\ a_fwd = 0 /\ a_rev = 0 /\ a_run = 0
  /\ IF which = "zones" THEN Zoned!Init
     ELSE f_zone = 0 /\ f_t = 0 /\ f_local = 0 /\ f_last = 0 /\ f_steps = 0
  /\ IF which = "point" THEN Point!Init
     ELSE p_sky = 0 /\ p_text = 0 /\ p_current = 0 /\ p_fuzzy = 0 /\ p_trial = 0 /\ p_next = 0 /\ p_point = 0 /\ p_get_next = 0 /\ p_newtime = 0 /\ p_at = 0
  /\ IF which = "log" THEN Log!Init
     ELSE l_triggers_map = 0 /\ l_header = 0 /\ l_left = 0 /\ l_element = 0 /\ l_log_status = 0 /\ l_iters = 0 /\ l_ran = 0 /\ l_at = 0
  /\ IF which = "counter" THEN Count!Init
     ELSE c_now = 0 /\ c_binsets = 0 /\ c_happened = 0
  /\ IF which = "regions" THEN Regions!Init
     ELSE g_world = 0 /\ g_loaded = 0 /\ g_name_index = 0 /\ g_latlong_index = 0 /\ g_neighborhood_latlong_indices = 0 /\ g_hid_location_range_map = 0 /\ g_location_list = 0 /\ g_storage = 0 /\ g_call = 0 /\ g_stage = 0 /\ g_region = 0 /\ g_merged = 0 /\ g_attraction = 0
  /\ IF which = "strings" THEN Strings!Init
     ELSE i_storage = 0 /\ i_locked = 0 /\ i_call = 0 /\ i_index = 0 /\ i_heavy = 0 /\ i_wanted = 0 /\ i_raced = 0 /\ i_removed = 0 /\ i_calls = 0
  /\ IF which = "stores" THEN Kept!Init
     ELSE k_kind = 0 /\ k_converted = 0 /\ k_data = 0 /\ k_its = 0 /\ k_holds = 0 /\ k_result = 0 /\ k_given = 0 /\ k_writes = 0
  /\ IF which = "collections" THEN Placed!Init
     ELSE o_unique = 0 /\ o_block_size = 0 /\ o_partial_usage = 0 /\ o_obj = 0 /\ o_collection = 0 /\ o_result = 0
  /\ IF which = "search" THEN Searches!Init
     ELSE x_blobs = 0 /\ x_ranges = 0 /\ x_index = 0 /\ x_term_freq = 0 /\ x_state = 0 /\ x_file = 0 /\ x_content = 0 /\ x_names = 0 /\ x_calls = 0
  /\ IF which = "serial" THEN Serial!Init
     ELSE z_format = 0 /\ z_writer = 0 /\ z_reader = 0 /\ z_sent = 0 /\ z_stream = 0 /\ z_got = 0 /\ z_pos = 0 /\ z_received = 0
  /\ IF which = "csv" THEN Csv!Init
     ELSE v_table = 0 /\ v_delim = 0 /\ v_file = 0 /\ v_writer = 0 /\ v_hand = 0 /\ v_got = 0
  /\ IF which = "texts" THEN Strutil!Init
     ELSE u_text = 0 /\ u_before = 0 /\ u_list = 0 /\ u_last = 0 /\ u_given = 0 /\ u_steps = 0 /\ u_writer = 0 /\ u_encoded = 0 /\ u_rest = 0 /\ u_reader = 0 /\ u_decoded = 0 /\ u_buffer = 0 /\ u_term = 0 /\ u_at = 0 /\ u_z = 0 /\ u_calls = 0

AllNext ==
  /\ UNCHANGED which
  /\ \/ /\ which = "ranking" /\ Ranking!Next
        /\ UNCHANGED <<FlowVars, BestVars, DomainVars, SearchVars, ZonedVars,
                       PointVars, LogVars, CountVars, RegionsVars,
                       StringsVars, KeptVars, PlacedVars, SearchesVars,
                       SerialVars, CsvVars, StrutilVars>>
     \/ /\ which = "flow" /\ Flow!Next
        /\ UNCHANGED <<RankingVars, BestVars, DomainVars, SearchVars,
                       ZonedVars, PointVars, LogVars, CountVars, RegionsVars,
                       StringsVars, KeptVars, PlacedVars, SearchesVars,
                       SerialVars, CsvVars, StrutilVars>>
     \/ /\ which = "best" /\ Best!Next
        /\ UNCHANGED <<RankingVars, FlowVars, DomainVars, SearchVars,
                       ZonedVars, PointVars, LogVars, CountVars, RegionsVars,
                       StringsVars, KeptVars, PlacedVars, SearchesVars,
                       SerialVars, CsvVars, StrutilVars>>
     \/ /\ which = "domain" /\ Domain!Next
        /\ UNCHANGED <<RankingVars, FlowVars, BestVars, SearchVars, ZonedVars,
                       PointVars, LogVars, CountVars, RegionsVars,
                       StringsVars, KeptVars, PlacedVars, SearchesVars,
                       SerialVars, CsvVars, StrutilVars>>
     \/ /\ which = "astar" /\ Search!Next
        /\ UNCHANGED <<RankingVars, FlowVars, BestVars, DomainVars, ZonedVars,
                       PointVars, LogVars, CountVars, RegionsVars,
                       StringsVars, KeptVars, PlacedVars, SearchesVars,
                       SerialVars, CsvVars, StrutilVars>>
     \/ /\ which = "zones" /\ Zoned!Next
        /\ UNCHANGED <<RankingVars, FlowVars, BestVars, DomainVars,
                       SearchVars, PointVars, LogVars, CountVars, RegionsVars,
                       StringsVars, KeptVars, PlacedVars, SearchesVars,
                       SerialVars, CsvVars, StrutilVars>>
     \/ /\ which = "point" /\ Point!Next
        /\ UNCHANGED <<RankingVars, FlowVars, BestVars, DomainVars,
                       SearchVars, ZonedVars, LogVars, CountVars, RegionsVars,
                       StringsVars, KeptVars, PlacedVars, SearchesVars,
                       SerialVars, CsvVars, StrutilVars>>
     \/ /\ which = "log" /\ Log!Next
        /\ UNCHANGED <<RankingVars, FlowVars, BestVars, DomainVars,
                       SearchVars, ZonedVars, PointVars, CountVars,
                       RegionsVars, StringsVars, KeptVars, PlacedVars,
                       SearchesVars, SerialVars, CsvVars, StrutilVars>>
     \/ /\ which = "counter" /\ Count!Next
        /\ UNCHANGED <<RankingVars, FlowVars, BestVars, DomainVars,
                       SearchVars, ZonedVars, PointVars, LogVars, RegionsVars,
                       StringsVars, KeptVars, PlacedVars, SearchesVars,
                       SerialVars, CsvVars, StrutilVars>>
     \/ /\ which = "regions" /\ Regions!Next
        /\ UNCHANGED <<RankingVars, FlowVars, BestVars, DomainVars,
                       SearchVars, ZonedVars, PointVars, LogVars, CountVars,
                       StringsVars, KeptVars, PlacedVars, SearchesVars,
                       SerialVars, CsvVars, StrutilVars>>
     \/ /\ which = "strings" /\ Strings!Next
        /\ UNCHANGED <<RankingVars, FlowVars, BestVars, DomainVars,
                       SearchVars, ZonedVars, PointVars, LogVars, CountVars,
                       RegionsVars, KeptVars, PlacedVars, SearchesVars,
                       SerialVars, CsvVars, StrutilVars>>
     \/ /\ which = "stores" /\ Kept!Next
        /\ UNCHANGED <<RankingVars, FlowVars, BestVars, DomainVars,
                       SearchVars, ZonedVars, PointVars, LogVars, CountVars,
                       RegionsVars, StringsVars, PlacedVars, SearchesVars,
                       SerialVars, CsvVars, StrutilVars>>
     \/ /\ which = "collections" /\ Placed!Next
        /\ UNCHANGED <<RankingVars, FlowVars, BestVars, DomainVars,
                       SearchVars, ZonedVars, PointVars, LogVars, CountVars,
                       RegionsVars, StringsVars, KeptVars, SearchesVars,
                       SerialVars, CsvVars, StrutilVars>>
     \/ /\ which = "search" /\ Searches!Next
        /\ UNCHANGED <<RankingVars, FlowVars, BestVars, DomainVars,
                       SearchVars, ZonedVars, PointVars, LogVars, CountVars,
                       RegionsVars, StringsVars, KeptVars, PlacedVars,
                       SerialVars, CsvVars, StrutilVars>>
     \/ /\ which = "serial" /\ Serial!Next
        /\ UNCHANGED <<RankingVars, FlowVars, BestVars, DomainVars,
                       SearchVars, ZonedVars, PointVars, LogVars, CountVars,
                       RegionsVars, StringsVars, KeptVars, PlacedVars,
                       SearchesVars, CsvVars, StrutilVars>>
     \/ /\ which = "csv" /\ Csv!Next
        /\ UNCHANGED <<RankingVars, FlowVars, BestVars, DomainVars,
                       SearchVars, ZonedVars, PointVars, LogVars, CountVars,
                       RegionsVars, StringsVars, KeptVars, PlacedVars,
                       SearchesVars, SerialVars, StrutilVars>>
     \/ /\ which = "texts" /\ Strutil!Next
        /\ UNCHANGED <<RankingVars, FlowVars, BestVars, DomainVars,
                       SearchVars, ZonedVars, PointVars, LogVars, CountVars,
                       RegionsVars, StringsVars, KeptVars, PlacedVars,
                       SearchesVars, SerialVars, CsvVars>>

AllSpec == AllInit /\ [][AllNext]_allVars

-----------------------------------------------------------------------------
\* A suggest reply has no more suggestions than were asked for and none twice,
\* every child follows its parent, no primary suggestion overtakes a better
\* one, the list is not empty when its top is looked at, and FixPositions()
\* drops nothing (suggestions.cc).
RankingKeepsAll ==
  [](which = "ranking" => Ranking!TypeOK /\ Ranking!AtLeastOne /\
    Ranking!WellFormed /\ Ranking!ParentsRanked) /\ [][which = "ranking" =>
    Ranking!Rearranged]_RankingVars

\* The twiddlers and the attribute algorithm read a list that is rearranged
\* under them only after a timeout; the scores of a list are multiplied with
\* what the same twiddlers say for each completion, all of them if none was
\* late; and cities of one name are told apart in the reply (suggestions.cc,
\* suggest_twiddler_group.cc, suggest_method_utils.cc).
FlowUnraced ==
  which = "flow" => (Flow!UnracedInTime /\ Flow!AllOrNone /\ Flow!ToldApart)

\* The heap is ordered and its items know their positions after every push(),
\* pop() and update(); over it "Maintains the best n items in a streaming
\* model", as long as nothing is inserted after a GetBestN(), which returns all
\* items, the best first (ra_heap.h, best_n.h). The open list is a heap apart
\* from the closed nodes; with a consistent heuristics no ASSERT fails and
\* closed nodes have the cost of the best path; a one-way search ends with the
\* lowest cost, or with -1; and the plan is a path whose steps add up to the
\* cost returned (astar.h, nodelist.h).
BestFound ==
  (which = "best" => Best!OrderedUnerased /\ Best!PositionsKnown /\
    Best!KeepsBestFresh /\ Best!HeapOfMap /\ Best!ResultSorted) /\ (which =
    "astar" => Search!OpenIsHeap /\ Search!ClosedFinal /\ Search!OneWayBest
    /\ Search!PlanIsPath)

\* CheckTime() tells whether a time is in the set of the expression and where
\* the set changes before and after it, GetNextDomain() finds the first domain
\* after it, whole, and a copy, which is printed and parsed, is the same
\* expression (timedomain.h); the date after any steps, short or long, is the
\* one that many days after the first (localtime.cc, calendarutil.cc); and
\* every round of a search for a point moves the time, passes over no time that
\* matches, and ends at one that does; it ends at the sunrise or sunset of a
\* matching day if that is asked for; and a copy of a point, which is printed
\* and parsed, is the same (sharppoint.cc, genericpoint.cc). A time is shown as
\* the clocks of a zone show it, read back as the time it was, and moved to
\* midnights and hours that are there, on either side of each change to and
\* from daylight saving time (timezone.cc, utime.h, localtime.h, timeutil.cc).
TimesExact ==
  [](which = "domain" => Domain!BoundariesExact /\ Domain!NextDomainExact /\
    Domain!IntoDomain /\ Domain!CopySame) /\ [](which = "point" =>
    Point!DaysAdd /\ Point!MonthBack /\ Point!FoundMatches /\
    Point!TrialsSuffice /\ Point!FuzzyExact /\ Point!CopySame) /\ [][which =
    "point" => Point!PassesNothing]_PointVars /\ [](which = "zones" =>
    Zoned!LocalExact /\ Zoned!UniversalExact /\ Zoned!ThereAndBack /\
    Zoned!ZonesKnown /\ Zoned!PrintedIsRead /\ Zoned!DomainAround) /\
    [][which = "zones" => Zoned!LandsExactly /\
    Zoned!MovesExactly]_ZonedVars

\* Each registered trigger that wants an element has run exactly once, by
\* priority and, of equal ones, CategoryAction before Category before All; and
\* what an element is taken for never follows from the elements before it
\* (log_manager.cc). An event that is counted is in the metrics of every
\* interval longer than its age by the largest bin, and of none shorter by more
\* than one bin of each set; totals are those of the bins, and no event is in
\* two (counter.cc).
EventsHandled ==
  (which = "log" => Log!MergedInOrder /\ Log!OwnStatus) /\ (which =
    "counter" => Count!TotalsMatch /\ Count!LastX)

\* Strings are stored once, within their blocks, unless two threads store the
\* same one at once; and an index retrieves the items of a key, whatever its
\* case, and the other index the same (stringstorage.h, index.h). A search
\* finds the occurrences of its terms and nothing else, also from a saved
\* index, if the texts come in the order of the file; close matches are merged,
\* and a snippet is made of the best of them, each that looks the same once, and
\* highlighted (search_index.h). A region is found by
\* its names with its state and country and by its place, the best or nearest
\* first and as many as are wanted, and what is found belongs where it is said
\* to (region.h, cities.cc, neighborhoods.cc, attractions.cc); and cities that
\* are merged keep all their names (region.h, alternate_names.cc). A map and the
\* writer of a table keep the value that was inserted first, leveldb the last,
\* and it is found under its key, in the order of the keys of the clients where
\* the store has one, and an iterator shows every element that stays (store.h,
\* stl_store.h, leveldb_store.h, sst_reader.h, sst_writer.h,
\* store_converter.h); a collection has no object twice, and its objects stay
\* where they are until all are destroyed, each once (collection.h,
\* memory_block.h).
IndexesFind ==
  (which = "strings" => Strings!TypeOK /\ Strings!StoredOnce /\
    Strings!RetrievesAll) /\ (which = "search" => Searches!TypeOK /\
    Searches!SearchExact /\ Searches!SnippetsBest) /\ (which = "regions" =>
    Regions!NamesFound /\ Regions!NearestFound /\ Regions!ZoomsFound /\
    Regions!HotelsKept /\ Regions!CitiesBelong /\ Regions!AttractionsBelong
    /\ Regions!NamesKept /\ Regions!FirstStands /\
    Regions!AttractionNotCity) /\ (which = "stores" => Kept!InsertsKept /\
    Kept!BoundsExact /\ Kept!ShowsElement /\ Kept!IterationWhole) /\ (which
    = "collections" => Placed!NoDuplicates /\ Placed!PlacedOnce)

\* A struct is read as it was written, up to the fields that only one side
\* knows, and what follows it is read from where it ends, in each format;
\* nothing is read from a part of a message, and an RPC message that is
\* complete by its size can be read (serializer_binary.cc, serializer_json.cc,
\* serializer.h). A string that is escaped is read back, also with something
\* behind it, by the reader of either library if it can hold it (strutil.cc,
\* encoding.cc). The structs of a CSV file are read as they were written,
\* whatever is inserted between them, and so are the fields of other files
\* (csvreader.h, csvwriter.h, serializer_csv.h, field_reader.h).
WrittenIsRead ==
  (which = "serial" => Serial!VersionsAgree /\ Serial!NoPartRead) /\ (which
    = "texts" => Strutil!RoundTrips /\ Strutil!Printed) /\ (which = "csv" =>
    Csv!StructsRead /\ Csv!FieldsFound /\ Csv!QuotedRead)

\* Strings that are cut are whole when they are joined, and the ways to cut
\* them agree; names that are the same have the same words; cleaning twice is
\* cleaning once; and data is appended up to the limit and not beyond, and
\* counted (strutil.cc, strutil.h). A word has the same stem whatever was
\* stemmed before, never longer than the word, and that of the comment
\* (porter_stemmer.cc).
TextsExact ==
  (which = "texts" => Strutil!CutsRejoin /\ Strutil!GluedBack /\
    Strutil!NamesAgree /\ Strutil!CleanOnce /\ Strutil!EditsCounted /\
    Strutil!AppendsToLimit /\ Strutil!FieldsRead /\ Strutil!StemsAlone /\
    Strutil!NeverLonger /\ Strutil!AsExplained)

-----------------------------------------------------------------------------
\* The behaviours of the heap only, and those of the searches.
HeapSpec ==
  AllInit /\ which = "best" /\ b_mode = "calls" /\
  [][/\ Best!Next
     /\ UNCHANGED <<which, RankingVars, FlowVars, DomainVars, SearchVars,
                    ZonedVars, PointVars, LogVars, CountVars, RegionsVars,
                    StringsVars, KeptVars, PlacedVars, SearchesVars,
                    SerialVars, CsvVars, StrutilVars>>]_allVars

SearchSpec ==
  AllInit /\ which = "astar" /\
  [][/\ Search!Next
     /\ UNCHANGED <<which, RankingVars, FlowVars, BestVars, DomainVars,
                    ZonedVars, PointVars, LogVars, CountVars, RegionsVars,
                    StringsVars, KeptVars, PlacedVars, SearchesVars,
                    SerialVars, CsvVars, StrutilVars>>]_allVars

\* erase() keeps the heap in order, as the comment "Heapify downwords to fix the
\* heap." says (ra_heap.h).
HeapOrdered == which = "best" => Best!HeapOrdered

\* "If a plan has been found, return value will be the lowest cost"
\* (astar2way.h).
TwoWayBest == which = "astar" => Search!TwoWayBest
=============================================================================
