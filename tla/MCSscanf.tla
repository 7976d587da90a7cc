---------------------------------- MODULE MCSscanf ----------------------------------
(* One player and one script, and the calls: every text of up to four (or   *)
(* five) characters of a small alphabet with formats of up to three fields, *)
(* words with everything that must be escaped, arrays and enumerations with *)
(* inputs of every length, and one format for each specifier that is left   *)
EXTENDS Sscanf

MCNames == {<<"b", "o">>}
MCBots == {}
MCGarbage == {<<>>}
MCPublics == {<<"colour">>}

Joined(parts, between) ==
  FoldLeft(LAMBDA t, part : IF t = <<>> THEN part ELSE t \o between \o part, <<>>, parts)
Concat(parts) == Joined(parts, <<>>)

Digit(n) == <<Ascii[17 + n]>>
SeqsOf(S, least, most) == UNION {[1..n -> S] : n \in least..most}

(* Where the parts begin of which the first is at p, and where they end *)
Places(p, parts) == FoldLeft(LAMBDA at, part : Append(at, Last(at) + Len(part)), <<p>>, parts)

(* Fields *)
FieldsCall(specs, text) ==
  [kind |-> "fields", specs |-> specs, text |-> text,
   format |-> <<"p", "<", ",", ">">> \o Concat([k \in 1..Len(specs) |-> FieldFormat[specs[k]]]),
   at |-> Places(5, [k \in 1..Len(specs) |-> FieldFormat[specs[k]]]),
   params |-> Cardinality({k \in 1..Len(specs) : specs[k] # "q"})]
FieldsCalls ==
  {FieldsCall(specs, text) :
     specs \in {<<"d", "I">>, <<"I", "d">>, <<"d", "I", "d">>, <<"I", "I", "q">>, <<"q", "d">>},
     text \in SeqsOf({"1", ",", " ", "x"}, 0, 4)}
  \cup {FieldsCall(<<"d", "I", "I">>, text) : text \in SeqsOf({"1", ","}, 5, 6)}

MiddleCalls ==
  {[kind |-> "middle", params |-> 3,
    format |-> <<"p", "<", ",", ">", "s", "I", "(", "4", "2", ")", "i">>,
    text |-> <<"h", "e", "l", "l", "o", ",", " ", ",", " ", "1", "0">>]}

(* Words *)
WordsCall(words, by) ==
  LET spelled == [k \in 1..Len(words) |-> Spelled(words[k], by)]
      from == IF by = " " THEN 1 ELSE 5
      starts == Places(1, [k \in 1..Len(words) |-> Concat(spelled[k]) \o <<by>>])
  IN  [kind |-> "words", words |-> words, by |-> by, digits |-> <<"4">>, size |-> 4, params |-> Len(words),
       text |-> Joined([k \in 1..Len(words) |-> Concat(spelled[k])], <<by>>),
       letters |-> [k \in 1..Len(words) |-> Places(starts[k], spelled[k])],
       format |-> (IF by = " " THEN <<>> ELSE <<"p", "<", by, ">">>)
                  \o Concat([k \in 1..Len(words) |-> <<"s", "[", "4", "]">>]),
       at |-> Places(from, [k \in 1..Len(words) |-> <<"s", "[", "4", "]">>])]
WordsCalls ==
  {WordsCall(words, by) :
     words \in SeqsOf({<<"a">>, <<"\\">>, <<"a", " ", ",">>, <<"\\", ",", "a">>, <<"a", "b", "c", "d">>}, 1, 2)
               \cup SeqsOf({<<",">>, <<" ", "\\">>}, 3, 3),
     by \in {" ", ","}}
  \cup {WordsCall(words, ",") : words \in {<< <<"a", "b", "c", "\\">>, <<"b">> >>, << <<"b">>, <<"a", "b", "c", ",">> >>}}

(* A delimiter for which there is no room *)
LongWordsCalls == {WordsCall(<< <<"a", "b", "c", by, "d">>, <<"b">> >>, by) : by \in {" ", ","}}

(* Arrays and enumerations *)
GivenCall(kind, before, given, after, values) ==
  LET spelled(ns) == [k \in 1..Len(ns) |-> Digit(ns[k])]
  IN  [kind |-> kind, given |-> given, values |-> values, params |-> 1,
       valueNumerals |-> spelled(values), givenNumerals |-> spelled(given),
       text |-> Concat(Listed(spelled(values), " ")),
       valuesAt |-> Places(1, Listed(spelled(values), " ")),
       format |-> before \o Concat(Listed(spelled(given), ",")) \o <<")">> \o after,
       givenAt |-> Places(Len(before) + 1, Listed(spelled(given), ","))]

ArrayCall(given, values, length) ==
  GivenCall("array", <<"A", "<", "i", ">", "(">>, given, <<"[">> \o Digit(length) \o <<"]">>, values)
  @@ [length |-> length, digits |-> Digit(length)]
ArrayCalls ==
  {ArrayCall(given, values, length) : given \in SeqsOf({1, 3}, 1, 2), values \in SeqsOf({0, 8}, 0, 3), length \in 3..4}

EnumCall(entries, n) ==
  LET readers == Cardinality({k \in 1..Len(entries) : entries[k] # "-"})
      given == [k \in 1..readers |-> k]
      values == [k \in 1..IF n < readers THEN n ELSE readers |-> k + 4]
      parts == [k \in 1..Len(entries) |-> EntryFormat[entries[k]]]
  IN  GivenCall("enum", <<"E", "<">> \o Concat(parts) \o <<">", "(">>, given, <<>>, values)
      @@ [entries |-> entries, at |-> Places(3, parts)]
EnumCalls ==
  {EnumCall(entries, n) : entries \in {e \in SeqsOf({"i", "q", "-"}, 1, 4) : e[Len(e)] # "-"},
                          n \in 0..3}

(* Every other specifier, with an input and with none, or a short one *)
Other(fmt, text, params) == [kind |-> "other", format |-> fmt, text |-> text, params |-> params]
OtherFormats == {
  <<"u", "d">>, <<"U", "(", "0", ")", "d">>, <<"u", "[", "2", "]">>, <<"q">>, <<"r", "%", " ", "d">>,
  <<"p", "<", ",", ">", "U", "(", "0", ")", "[", "2", "]", "d">>,
  <<"p", "<", ",", ">", "U", "(", "0", ")", "[", "1", "]", "d">>,
  <<"?", "<", "OLD_DEFAULT_NAME", "=", "1", ">", "U", "(", "b", "o", ")">>,
  <<"?", "<", "MATCH_NAME_PARTIAL", "=", "1", ">", "u", "[", "1", "]">>,
  <<"P", "<", ",", ";", ">", "h", "?", "<", "SSCANF_QUIET", "=", "1", ">", "N", "(", "0", "x", "f", ")">>,
  <<"P", ",", "d">>,
  <<"S", "(", "b", ")", "[", "3", "]", "'", "o", "'", "d">>,
  <<"p", "<", ",", ">", "S", "(", "b", ",", "c", ")", "d">>,
  <<"K", "<", "colour", ">", "(", "5", ")", "k", "<", "colour", ">">>,
  <<"K", "<", "weapon", ">", "(", ")">>,
  <<"{", "d", "}", "A", "<", "s", "[", "3", "]", ">", "(", "b", "o", ")", "[", "2", "]">>,
  <<"a", "<", "k", "<", "colour", ">", ">", "[", "2", "]">>,
  <<"e", "<", "s", "[", "3", "]", "i", ">">>,
  <<"E", "<", "p", "<", ",", ">", "i", "i", ">", "(", "1", ",", "2", ")", "I", "(", "3", ")">>,
  <<"l", "c", "G", "(", "NAN", ")">>, <<"d", "'", "b">>, <<"f", "b">>,
  <<"P", "<", ",", ")", ">", "U", "(", "0", ")", "[", "2", "]", "d">>,
  <<"P", "<", ",", ")", ">", "U", "(", "0", ")", "[", "1", "]", "d">>,
  <<"A", "<", "i", ">", "(", "1", ")">>, <<"a", "<", "-", ">", "[", "2", "]">>,
  <<"E", "<", "i", "i", ">", "(", "1", ")">>, <<"e", "i">>, <<"K", "(", "0", ")">>,
  <<"'", "o", "'", "d">>, <<"d", "?", "d">> }
OtherTexts == {<<>>, <<"SOH">>, <<"b">>, <<"b", "o">>, <<",">>, <<"1", ",", "2">>, <<"1", " ", "b", "o", " ", "1">>,
               <<"0", ",", ",", "b", "o">>}
(* An option of one call, and a length that it does not allow *)
OptionCalls == {
  Other(<<"p", "<", ",", ">", "?", "<", "OLD_DEFAULT_NAME", "=", "1", ">", "U", "(", "0", ")", "[", "2", "]">>,
        <<",">>, 1),
  Other(<<"?", "<", "MATCH_NAME_PARTIAL", "=", "1", ">", "u", "[", "1", "]">>, <<"b">>, 1)}
OtherCalls == {Other(fmt, text, n) : fmt \in OtherFormats, text \in OtherTexts, n \in {1, 2, 3}}

MCCalls == FieldsCalls \cup WordsCalls \cup LongWordsCalls \cup ArrayCalls \cup EnumCalls \cup OtherCalls
====================================================================================
