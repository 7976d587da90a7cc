---------------------------------- MODULE Sscanf ----------------------------------
(***************************************************************************)
(* The native sscanf (n_sscanf of src/plugins/sscanf-2.8.2/sscanf/         *)
(* sscanf.cpp), one specifier at a time: while there is input and          *)
(* somewhere to save it a specifier reads from the input ("main"); the     *)
(* destinations that are left then get their defaults ("defaults").  The   *)
(* call runs on the thread of the server, so that no player comes or goes  *)
(* before it returns.                                                      *)
(*                                                                         *)
(* Formats without a default where one belongs, for which the code saves   *)
(* an uninitialised value, are not called with.                            *)
(***************************************************************************)
EXTENDS SscanfGroups

CONSTANTS Calls,     \* what scripts call sscanf with: records of format, text and params
          NoCall     \* there is no call

VARIABLES
  phase,         \* idle, main, defaults or ended
  call,
  f, s,          \* the positions in the format and in the text
  doSave,        \* outside of a quiet section?
  saved,         \* what went into the destinations so far
  delim,         \* what g_cDelim points to
  defaultOpts,
  result,
  turns          \* of the loops, so far

callVars == <<phase, call, f, s, doSave, saved, delim, defaultOpts, result, turns>>
vars == <<players, gOptions, callVars>>

ASSUME CallsAssumption ==
  /\ NoCall \notin Calls
  /\ \A c \in Calls : /\ c.params \in Nat
                      /\ c.format \in Seq(ToSet(c.format)) /\ c.text \in Seq(ToSet(c.text))

(***************************************************************************)
(* What is said of a call beside its format and text: of which parts they  *)
(* were built, and where those begin.  Only the properties read it.        *)
(***************************************************************************)
(* The parts stand in the text one after the other, the k-th from at[k] on *)
Parts(text, at, parts) ==
  /\ DOMAIN at = 1..Len(parts) + 1
  /\ \A k \in 1..Len(parts) :
       /\ at[k + 1] = at[k] + Len(parts[k])
       /\ \A j \in 1..Len(parts[k]) : Ch(text, at[k] + j - 1) = parts[k][j]

(* From p on there is part, and the text goes on *)
Within(text, p, part) == \A j \in 1..Len(part) : Ch(text, p + j - 1) = part[j]

FieldFormat == [d |-> <<"d">>, q |-> <<"{", "d", "}">>, I |-> <<"I", "(", "7", ")">>]

(* Fields: any text without a sign, and for each field a specifier *)
ASSUME FieldsAssumption ==
  \A c \in Calls : c.kind = "fields" =>
    /\ c.specs \in Seq(DOMAIN FieldFormat)
    /\ c.params = Cardinality({k \in 1..Len(c.specs) : c.specs[k] # "q"})
    /\ \A q \in 1..Len(c.text) : c.text[q] \notin {"+", "-", "SOH", NUL}
    /\ Within(c.format, 1, <<"p", "<", ",", ">">>) /\ c.at[1] = 5
    /\ Parts(c.format, c.at, [k \in 1..Len(c.specs) |-> FieldFormat[c.specs[k]]])
    /\ c.at[Len(c.specs) + 1] = Len(c.format) + 1

(* Words, of any letters and any length: what would end one, and what      *)
(* escapes, is escaped.                                                    *)
Spelled(word, by) == [j \in 1..Len(word) |-> IF word[j] \in {"\\", " ", by} THEN <<"\\", word[j]>> ELSE <<word[j]>>]

(* A decimal numeral, as a cell holds the number *)
Number(digits) == Wrap(FoldLeft(LAMBDA n, c : 10 * n + (Code[c] - 48), 0, digits))

Numeral(digits) == digits \in Seq(Dec) /\ digits # <<>>

ASSUME WordsAssumption ==
  \A c \in Calls : c.kind = "words" =>
    /\ c.params = Len(c.words)
    /\ Numeral(c.digits) /\ c.size = Number(c.digits) /\ c.size > 0
    /\ c.by \notin {"\\", NUL}
    /\ IF c.by = " " THEN c.at[1] = 1 ELSE Within(c.format, 1, <<"p", "<", c.by, ">">>) /\ c.at[1] = 5
    /\ Parts(c.format, c.at, [k \in 1..Len(c.words) |-> <<"s", "[">> \o c.digits \o <<"]">>])
    /\ c.at[Len(c.words) + 1] = Len(c.format) + 1
    /\ \A k \in 1..Len(c.words) :
         LET n == Len(c.words[k])
             last == k = Len(c.words)
         IN  /\ c.words[k] \in Seq(ToSet(c.words[k])) /\ n > 0
             /\ \A j \in 1..n : c.words[k][j] # NUL
             /\ Parts(c.text, c.letters[k], Spelled(c.words[k], c.by))
             /\ c.letters[k][1] = IF k = 1 THEN 1 ELSE c.letters[k - 1][Len(c.words[k - 1]) + 1] + 1
             /\ IF last THEN c.letters[k][n + 1] = Len(c.text) + 1 ELSE Ch(c.text, c.letters[k][n + 1]) = c.by
    /\ c.text # <<"SOH">>

(* Numerals, with a separator between them *)
Listed(numerals, between) ==
  [k \in 1..Len(numerals) |-> IF k < Len(numerals) THEN numerals[k] \o <<between>> ELSE numerals[k]]

AreNumerals(numerals) == numerals \in Seq(Seq(Dec)) /\ \A k \in 1..Len(numerals) : Numeral(numerals[k])

Numbers(numerals) == [k \in 1..Len(numerals) |-> Number(numerals[k])]

(* Values, with a space between them, are the text; defaults, with a comma *)
(* between them, and a bracket after them, are in the format from p on.    *)
Given(c, p) ==
  /\ c.params = 1
  /\ AreNumerals(c.valueNumerals) /\ c.values = Numbers(c.valueNumerals)
  /\ Parts(c.text, c.valuesAt, Listed(c.valueNumerals, " "))
  /\ c.valuesAt[1] = 1 /\ c.valuesAt[Len(c.values) + 1] = Len(c.text) + 1
  /\ AreNumerals(c.givenNumerals) /\ c.given = Numbers(c.givenNumerals) /\ c.given # <<>>
  /\ Parts(c.format, c.givenAt, Listed(c.givenNumerals, ","))
  /\ c.givenAt[1] = p /\ Ch(c.format, c.givenAt[Len(c.given) + 1]) = ")"

(* Arrays *)
ASSUME ArraysAssumption ==
  \A c \in Calls : c.kind = "array" =>
    LET close == c.givenAt[Len(c.given) + 1]
    IN  /\ Within(c.format, 1, <<"A", "<", "i", ">", "(">>) /\ Given(c, 6)
        /\ Numeral(c.digits) /\ c.length = Number(c.digits) /\ c.length > 0
        /\ Within(c.format, close + 1, <<"[">> \o c.digits \o <<"]">>)
        /\ Len(c.format) = close + Len(c.digits) + 2

(* Enumerations: an entry is read (i), or read and not saved (q), or left  *)
(* as it is (-), though not the last                                       *)
EntryFormat == [e \in {"i", "q", "-"} |-> CASE e = "i" -> <<"i">> [] e = "q" -> <<"{", "i", "}">> [] e = "-" -> <<"-", "i">>]

ASSUME EnumsAssumption ==
  \A c \in Calls : c.kind = "enum" =>
    LET close == c.at[Len(c.entries) + 1]
    IN  /\ c.entries \in Seq(DOMAIN EntryFormat) /\ c.entries # <<>> /\ Last(c.entries) # "-"
        /\ Within(c.format, 1, <<"E", "<">>) /\ c.at[1] = 3
        /\ Parts(c.format, c.at, [k \in 1..Len(c.entries) |-> EntryFormat[c.entries[k]]])
        /\ Within(c.format, close, <<">", "(">>) /\ Given(c, close + 2)
        /\ Len(c.given) = Cardinality({k \in 1..Len(c.entries) : c.entries[k] # "-"})
        /\ Len(c.format) = c.givenAt[Len(c.given) + 1]

format == call.format
Letter == Ch(format, f)

(* A null string of CallRemoteFunction is an empty one *)
Corrected(text) == IF text = <<"SOH">> THEN <<>> ELSE text
string == Corrected(call.text)

\* Mutant: one destination too many.
MoreOrLast == Len(saved) <= call.params \/ ~doSave

More == Len(saved) < call.params \/ ~doSave
Reading(cs) == phase = "main" /\ More /\ Ch(string, s) # NUL /\ Letter \in cs
Defaulting(cs) == phase = "defaults" /\ More /\ Letter \in cs

(***************************************************************************)
(* What an action may do.                                                  *)
(***************************************************************************)
Save(v) == saved' = IF doSave THEN Append(saved, v) ELSE saved

(* A specifier has read up to q; one spacer after it is skipped in main *)
Move(nf, q) == f' = nf /\ s' = IF phase = "main" THEN SkipOneSpacer(delim', string, q) ELSE s

Read(v, nf, q) == UNCHANGED <<phase, doSave, delim, result, gOptions>> /\ Save(v) /\ Move(nf, q)

(* RestoreOpts, and then the answer *)
Return(r) ==
  /\ phase' = "ended" /\ result' = r
  /\ gOptions' = defaultOpts
  /\ UNCHANGED <<f, s, doSave, saved, delim>>

(* The answer alone: the code has a plain return here *)
ReturnAtOnce ==
  /\ phase' = "ended" /\ result' = "FAIL"
  /\ UNCHANGED <<f, s, doSave, saved, delim, gOptions>>

Pass(nf) == f' = nf /\ UNCHANGED <<phase, s, doSave, saved, delim, result, gOptions>>

(***************************************************************************)
(* The beginning: the script is one that has initialised the plugin.       *)
(***************************************************************************)
Call(c) ==
  LET quiet == Ch(c.format, 1) = "{"
  IN  /\ phase = "idle" /\ pending = Quiet
      /\ scripts # {} /\ g_iTrueMax # 0
      /\ phase' = "main" /\ call' = c
      /\ f' = IF quiet THEN 2 ELSE 1
      /\ doSave' = ~quiet
      /\ s' = SkipWhitespace(Corrected(c.text), 1)
      /\ saved' = <<>> /\ delim' = {" "}
      /\ defaultOpts' = gOptions /\ result' = "none" /\ turns' = 0
      /\ UNCHANGED <<players, gOptions>>

(***************************************************************************)
(* Specifiers that read from the input.                                    *)
(***************************************************************************)
FormatEnds == Reading({NUL}) /\ Return("TRUE")

Required ==
  /\ Reading(SimpleRequired)
  /\ \E r \in {Do(Letter, delim, string, s)} :
       IF r.ok THEN Read(r.v, f + 1, r.p) ELSE Return("FAIL")

Absent == IsDelimiter(delim, Ch(string, s))

(* At a delimiter there is nothing: the default, which is read with the    *)
(* same delimiters.  Otherwise it is a required one.                       *)
Optional ==
  /\ Reading(SimpleOptional)
  /\ IF Absent
     THEN \E default \in {DoDefault(Letter, delim, format, f + 1)} : Read(default.v, default.p, s)
     ELSE \E r \in {Do(Letter, delim, string, s)} :
            IF r.ok THEN Read(r.v, SkipDefault(format, f + 1), r.p) ELSE Return("FAIL")

(* { and } open and close a section that is read and not saved *)
QuietSection ==
  /\ Reading({"{", "}"}) \/ Defaulting({"{", "}"})
  /\ doSave' = (Letter = "}") /\ f' = f + 1
  /\ UNCHANGED <<phase, s, saved, delim, result, gOptions>>

(* P<,;> and p<,> *)
Delimiters ==
  /\ Reading({"P"})
  /\ \E t \in {GetMultiType(format, f + 1)} :
       IF t.ok THEN /\ delim' = ToSet(t.v) /\ f' = t.p
                    /\ UNCHANGED <<phase, s, doSave, saved, result, gOptions>>
       ELSE ReturnAtOnce

Delimiter ==
  /\ Reading({"p"})
  /\ \E t \in {GetSingleType(format, f + 1)} :
       /\ delim' = {t.v} /\ f' = t.p
       /\ UNCHANGED <<phase, s, doSave, saved, result, gOptions>>

(* A string: the last of the format takes all that is left *)
Strings == {"z", "Z", "s", "S"}

StringDefault ==
  /\ Reading(Strings \ {"s"}) /\ Absent
  /\ \E r \in {DoSD(delim, format, f + 1)} :
       IF r.ok THEN Read(r.v, r.p, s)
       ELSE /\ UNCHANGED <<phase, doSave, saved, delim, result, gOptions>>
            /\ Move(r.p, s)

String ==
  /\ Reading(Strings) /\ (Letter # "s" => ~Absent)
  /\ \E length \in {GetLength(format, IF Letter = "s" THEN f + 1 ELSE SkipDefaultEx(format, f + 1), FALSE)} :
     LET last == \/ Ch(format, length.p) = NUL
                 \/ ~doSave /\ Ch(format, length.p) = "}" /\ Ch(format, length.p + 1) = NUL
     IN  \E r \in {DoS(delim, string, s, length.v, last)} : Read(CutTo(r.v, length.v), length.p, r.p)


(* The default of a player, and its length if it is a list of players: a   *)
(* list of one.                                                            *)
UserDefault(c, options, d, p) ==
  LET Ending(r) == [v |-> r.v, p |-> GetReturnDefault(d, format, r.p)]
  IN  Ending(DefaultUser(c, "n", options, d, format, FindDefaultStart(format, p).p))

UserAbsent ==
  /\ Reading({"U", "Q", "R"}) /\ Absent
  /\ \E default \in {UserDefault(Letter, gOptions, delim, f + 1)} :
     \E length \in {GetLength(format, default.p, TRUE)} :
       IF Ch(format, default.p) # "[" THEN Read(default.v, default.p, s)
       ELSE IF "OLD_DEFAULT_NAME" \in gOptions \/ length.v < 2 THEN ReturnAtOnce
       ELSE Read(<<default.v, INVALID>>, length.p, s)

User ==
  /\ Reading(DOMAIN Kind) /\ (Letter \in {"U", "Q", "R"} => ~Absent)
  /\ \E next \in {IF Letter = Kind[Letter] THEN f + 1 ELSE SkipDefault(format, f + 1)} :
     \E length \in {GetLength(format, next, TRUE)} :
     \E user \in {GetUserString(delim, string, s, g_iTrueMax)} :
       IF Ch(format, next) # "[" THEN Read(DoUser(Kind[Letter], gOptions, user, 0).v, next, user.p)
       ELSE IF length.v < 2 THEN ReturnAtOnce
       ELSE Read(UserList(Kind[Letter], gOptions, user, length.v), length.p, user.p)

(* The type and the defaults of a group.  An optional one with nothing     *)
(* between its brackets is a required one.                                 *)
GroupDefaults(p) == IF Letter \in {"A", "E"} THEN Defaults(format, p) ELSE NoDefaults(p)

(* A group got what it asked for, or has defaults for the rest *)
Content(new, defaulted) == new.ret = "TRUE" \/ (new.ret = "CONT" /\ defaulted)

(* The cells of an array: the input over the defaults.  In the defaults    *)
(* nothing is read from the input.                                         *)
ArrayCells(type, size, length, defaulted, old) ==
  LET last == \/ Ch(format, length.p) = NUL
              \/ ~doSave /\ Ch(format, length.p) = "}" /\ Ch(format, length.p + 1) = NUL
      after == IF defaulted /\ type[1] \in {"k", "K"} THEN CutAt(type, GetMultiType(type, 2)) ELSE type
  IN  IF phase = "defaults" THEN Read(old, length.p, s)
      ELSE \E new \in {ArrayInput(after, size, gOptions, delim, string, s, length.v, doSave, last)} :
           IF Content(new, defaulted) THEN Read(Over(new.cells, old), length.p, new.p) ELSE Return("FAIL")

Array ==
  /\ Reading({"A", "a"}) \/ Defaulting({"A"})
  /\ \E multi \in {GetMultiType(format, f + 1)} : \E opts \in {GroupDefaults(multi.p)} :
     \E type \in {Plain(multi.v)} : \E length \in {GetLength(format, opts.p, TRUE)} :
     LET defaulted == opts.given /\ (~opts.empty \/ type[1] = "s")
         size == GetLength(type, 2, FALSE).v
     IN  IF \/ ~multi.ok \/ length.v = 0
            \/ (defaulted \/ phase = "main") /\ Ch(type, 1) \notin ArrayTypes
         THEN Return("FAIL")
         ELSE \E old \in {IF defaulted THEN ArrayDefaults(type, size, gOptions, opts.text, length.v) ELSE <<>>} :
              ArrayCells(type, size, length, defaulted, old)

(* The delimiter of an enumeration stays *)
ReadEnum(cells, nf, d, q) ==
  /\ delim' = d
  /\ UNCHANGED <<phase, doSave, result, gOptions>>
  /\ Save(cells) /\ Move(nf, q)

Enum ==
  /\ Reading({"E", "e"}) \/ Defaulting({"E"})
  /\ \E multi \in {GetMultiType(format, f + 1)} : \E opts \in {GroupDefaults(multi.p)} :
     LET defaulted == opts.given /\ ~opts.empty
         none == [ret |-> "TRUE", cells |-> <<>>, outer |-> delim, rest |-> multi.v]
     IN  \E old \in {IF multi.ok /\ defaulted
                     THEN DoEnumValues(multi.v, gOptions, {",", ")"}, delim, opts.text, 1, doSave, TRUE)
                     ELSE none} :
         IF ~multi.ok \/ old.ret # "TRUE" THEN Return("FAIL")
         ELSE IF phase = "defaults" THEN ReadEnum(old.cells, opts.p, old.outer, s)
         ELSE \E new \in {DoEnumValues(old.rest, gOptions, old.outer, old.outer, string, s, doSave, FALSE)} :
              IF Content(new, defaulted) THEN ReadEnum(Over(new.cells, old.cells), opts.p, new.outer, new.p)
              ELSE Return("FAIL")

Kustom ==
  /\ Reading({"K", "k"}) \/ Defaulting({"K"})
  /\ \E r \in {DoK(gOptions, delim, format, f + 1, IF phase = "main" THEN string ELSE <<>>, s, Letter = "K")} :
       IF r.ok THEN Read(r.v, r.fp, r.p) ELSE Return("FAIL")

(* 'a literal' is searched for *)
SearchLiteral ==
  /\ Reading({"'"})
  /\ \E lit \in {Literal(format, f + 1)} : \E hit \in {Find(string, s, lit.needle)} :
       IF hit = 0 THEN Return("FAIL")
       ELSE UNCHANGED <<phase, doSave, saved, delim, result, gOptions>> /\ Move(lit.p, hit + lit.size)

(* ?<OPTION=1>, for the rest of the call.  The name of an option is one    *)
(* symbol.                                                                 *)
Option ==
  /\ Reading({"?"})
  /\ \E t \in {GetMultiType(format, f + 1)} :
       IF t.ok THEN /\ gOptions' = IF Ch(t.v, 1) \in Options /\ Ch(t.v, 2) = "="
                                   THEN WithOption(gOptions, t.v[1], Ch(t.v, 3) # "0") ELSE gOptions
                    /\ f' = t.p
                    /\ UNCHANGED <<phase, s, doSave, saved, delim, result>>
       ELSE ReturnAtOnce

Specifiers == Simple \cup DOMAIN Kind \cup Strings
              \cup {NUL, "{", "}", "P", "p", "A", "a", "E", "e", "K", "k", "'", "?"}

\* Mutant: what is not known is not passed over.
IgnoredForEver ==
  /\ phase \in {"main", "defaults"} /\ More /\ (phase = "main" => Ch(string, s) # NUL)
  /\ Letter \notin Specifiers
  /\ Pass(f)

(* Spaces, percent signs and what sscanf does not know *)
Ignored ==
  /\ phase \in {"main", "defaults"} /\ More /\ (phase = "main" => Ch(string, s) # NUL)
  /\ Letter \notin Specifiers
  /\ Pass(f + 1)

(***************************************************************************)
(* The rest of the format when there is no more input.                     *)
(***************************************************************************)
InputEnds ==
  /\ phase = "main" /\ (Ch(string, s) = NUL \/ ~More)
  /\ phase' = "defaults" /\ delim' = {")"}
  /\ UNCHANGED <<f, s, doSave, saved, result, gOptions>>

FormatEndsEarly == Defaulting({NUL}) /\ Return("TRUE")

Default ==
  /\ Defaulting(SimpleOptional)
  /\ \E r \in {DoDefault(Letter, delim, format, f + 1)} : Read(r.v, r.p, s)

DefaultString ==
  /\ Defaulting({"S", "z", "Z"})
  /\ \E r \in {DoSD(delim, format, f + 1)} : IF r.ok THEN Read(r.v, r.p, s) ELSE Pass(r.p)

(* One player only, whatever length follows: the length is passed over *)
DefaultPlayer ==
  /\ Defaulting({"U", "Q", "R"})
  /\ \E r \in {UserDefault(Letter, gOptions, delim, f + 1)} : Read(r.v, r.p, s)

(* Delimiters and options are discarded *)
Discarded ==
  /\ Defaulting({"P", "p", "?"})
  /\ Pass(IF Letter = "p" THEN GetSingleType(format, f + 1).p ELSE GetMultiType(format, f + 1).p)

LiteralPassed == Defaulting({"'"}) /\ Pass(PastIfAny(format, FirstUnescaped(format, f + 1, "'")))

Missing ==
  /\ Defaulting(SimpleRequired \cup {"a", "e", "k", "q", "r", "s", "u"})
  /\ Return("FAIL")

(* Nothing is left to be saved; what is left of the format is only warned of *)
Finished == phase = "defaults" /\ ~More /\ Return("TRUE")

Work ==
  \/ FormatEnds \/ Required \/ Optional \/ QuietSection \/ Delimiters \/ Delimiter
  \/ StringDefault \/ String
  \/ UserAbsent \/ User \/ Array \/ Enum \/ Kustom \/ SearchLiteral \/ Option \/ Ignored
  \/ InputEnds \/ FormatEndsEarly \/ Default \/ DefaultString \/ DefaultPlayer \/ Discarded
  \/ LiteralPassed \/ Missing \/ Finished

WorkStep == Work /\ turns' = turns + 1 /\ UNCHANGED <<players, call, defaultOpts>>

\* Mutant: a new call finds the destinations of the one before.
ReturnedKeepsCall ==
  /\ phase = "ended"
  /\ phase' = "idle"
  /\ f' = 1 /\ s' = 1 /\ doSave' = TRUE /\ saved' = <<>> /\ delim' = {" "}
  /\ defaultOpts' = {} /\ result' = "none" /\ turns' = 0
  /\ UNCHANGED <<players, gOptions, call>>

(* The script has its answer *)
Returned ==
  /\ phase = "ended"
  /\ phase' = "idle" /\ call' = NoCall
  /\ f' = 1 /\ s' = 1 /\ doSave' = TRUE /\ saved' = <<>> /\ delim' = {" "}
  /\ defaultOpts' = {} /\ result' = "none" /\ turns' = 0
  /\ UNCHANGED <<players, gOptions>>

Init ==
  /\ PlayersInit
  /\ phase = "idle" /\ call = NoCall
  /\ f = 1 /\ s = 1 /\ doSave = TRUE /\ saved = <<>> /\ delim = {" "}
  /\ defaultOpts = {} /\ result = "none" /\ turns = 0

Next ==
  \/ \E c \in Calls : Call(c)
  \/ WorkStep
  \/ Returned
  \/ phase = "idle" /\ PlayersNext /\ UNCHANGED callVars

Spec == Init /\ [][Next]_vars
(***************************************************************************)
(* Properties.  What a call should give is worked out from what its format *)
(* was built of, which a call carries with it (its specs, words, values,   *)
(* entries and the defaults given): not with the readers above.            *)
(***************************************************************************)
TypeOK ==
  /\ PlayersTypeOK
  /\ phase \in {"idle", "main", "defaults", "ended"}
  /\ f \in Nat \ {0} /\ s \in Nat \ {0}
  /\ doSave \in BOOLEAN /\ turns \in Nat
  /\ DOMAIN saved = 1..Len(saved)
  /\ defaultOpts \subseteq Options
  /\ result \in {"none", "TRUE", "FAIL"}
  /\ (phase = "idle" <=> call = NoCall) /\ (phase = "ended" <=> result # "none")

(* sscanf never writes to a destination that the script did not give: not  *)
(* after a quiet section ends, not in an optional one, not with a format   *)
(* that has more specifiers than there are destinations.                   *)
NeverPastTheDestinations == phase # "idle" => Len(saved) <= call.params

(* The options of a format end with its call ("Save the default options so *)
(* we can have local modifications", sscanf.cpp:239), wherever it ends:    *)
(* the next call starts with the options that the scripts chose.  Several  *)
(* ways to fail forget them.                                               *)
OptionsRestored == phase = "ended" => gOptions = defaultOpts

(* Every call comes to an end, whatever its format and text: no turn of    *)
(* the two loops leaves both the place in the format and the phase as they *)
(* were, or goes back (and no call is stuck: the run looks for deadlocks). *)
EndsInTime == phase # "idle" => turns <= Len(format) + 2

(***************************************************************************)
(* Fields: numbers between explicit delimiters.                            *)
(***************************************************************************)
(* A separator is a comma with any spaces around it, or the first of some  *)
(* spaces alone.                                                           *)
Separators(t) ==
  LET alone(q) == /\ t[q] = " " /\ q > 1 /\ t[q - 1] \notin {" ", ","}
                  /\ \E b \in q + 1..Len(t) : /\ t[b] \notin {" ", ","}
                                            /\ \A m \in q..b - 1 : t[m] = " "
  IN  {q \in 1..Len(t) : t[q] = "," \/ alone(q)}

(* The field after k - 1 separators: from its first to its last character *)
InField(t, k) ==
  {q \in 1..Len(t) : t[q] \notin {" ", ","} /\ Cardinality({r \in Separators(t) : r < q}) = k - 1}

Field(t, k) ==
  LET in == InField(t, k)
  IN  IF in = {} THEN <<>> ELSE SubSeq(t, Min(in), Max(in))

(* Of a required number (d), one that is not saved (q) and an optional one *)
(* (I): the field k, if it is there; an empty last field is not            *)
FieldOf(spec, t, k) ==
  LET last == Cardinality(Separators(t)) + 1
      there == k <= last /\ ~(k = last /\ Field(t, k) = <<>>)
      default == Number(<<"7">>)
  IN  IF ~there THEN [ok |-> spec = "I", v |-> default]
      ELSE IF Field(t, k) = <<>> THEN [ok |-> TRUE, v |-> IF spec = "I" THEN default ELSE 0]
      ELSE [ok |-> \A m \in 1..Len(Field(t, k)) : Field(t, k)[m] \in Dec, v |-> Number(Field(t, k))]

Wanted(specs) == {k \in 1..Len(specs) : specs[k] # "q"}

(* Those that are reached before every destination is filled *)
Checked(specs) == {k \in 1..Len(specs) : \E m \in Wanted(specs) : k <= m}

(* A list of fields gives one number for each specifier, an empty or a     *)
(* missing field the default of its own specifier and of no other; it      *)
(* fails when a field is not a number or a required one is missing.        *)
FieldsAreRead ==
  phase = "ended" /\ call.kind = "fields" =>
    LET of(k) == FieldOf(call.specs[k], call.text, k)
        kept == Wanted(call.specs)
    IN  IF \A k \in Checked(call.specs) : of(k).ok
        THEN /\ result = "TRUE" /\ Len(saved) = Cardinality(kept)
             /\ \A k \in kept : saved[Cardinality({m \in kept : m <= k})] = of(k).v
        ELSE result = "FAIL"

(* The example of sscanf.cpp:150 for default values in the middle of a     *)
(* string: hello, then the default 42, then 10 (violated: the string skips *)
(* the delimiter after it, and the loop the one after that).               *)
MiddleDefaults ==
  phase = "ended" /\ call.kind = "middle" =>
    result = "TRUE" /\ saved = << <<"h", "e", "l", "l", "o">>, 42, 10>>

(***************************************************************************)
(* Words and groups.                                                       *)
(***************************************************************************)
AreReadBack(c) == result = "TRUE" /\ saved = [k \in 1..Len(c.words) |-> CutTo(c.words[k], c.size)]

(* The destinations hold every space and delimiter of their words, though  *)
(* perhaps not the rest of them.  The last word may have any.              *)
SpacersFit(c) ==
  \A k \in 1..Len(c.words) - 1 : \A j \in 1..Len(c.words[k]) : c.words[k][j] \in {" ", c.by} => j < c.size

(* Words written with their spaces, delimiters and backslashes escaped are *)
(* read back as they were, each up to the size of its destination, if the  *)
(* destinations hold what is escaped: past the end of a destination the    *)
(* code looks for no backslash (specifiers.cpp:283), and a delimiter that  *)
(* is escaped there ends the word.                                         *)
WordsSurvive == phase = "ended" /\ call.kind = "words" /\ SpacersFit(call) => AreReadBack(call)

(* An array is the values, then the defaults, then the series that the     *)
(* last two defaults begin.                                                *)
ArraysAreFilled ==
  phase = "ended" /\ call.kind = "array" =>
    LET n == Len(call.given)
        step == IF n = 1 THEN 0 ELSE call.given[n] - call.given[n - 1]
        cell(k) == IF k <= Len(call.values) THEN call.values[k]
                   ELSE IF k <= n THEN call.given[k]
                   ELSE Wrap(call.given[n] + (k - n) * step)
    IN  result = "TRUE" /\ saved = << [k \in 1..call.length |-> cell(k)] >>

(* An enumeration gives every entry its value, or its own default when the *)
(* input is too short; a - entry keeps what it had, a quiet one has none.  *)
EnumsAreFilled ==
  phase = "ended" /\ call.kind = "enum" =>
    LET upTo(S, k) == Cardinality({m \in S : m <= k})
        read == {k \in 1..Len(call.entries) : call.entries[k] # "-"}
        kept == {k \in 1..Len(call.entries) : call.entries[k] # "q"}
        cell(k) == IF call.entries[k] = "-" THEN Untouched
                   ELSE IF upTo(read, k) <= Len(call.values) THEN call.values[upTo(read, k)]
                   ELSE call.given[upTo(read, k)]
    IN  /\ result = "TRUE" /\ Len(saved) = 1 /\ Len(saved[1]) = Cardinality(kept)
        /\ \A k \in kept : saved[1][upTo(kept, k)] = cell(k)

(* Arrays and enumerations are filled from the input first and from their  *)
(* defaults for the rest.                                                  *)
GroupsAreFilled == ArraysAreFilled /\ EnumsAreFilled
===================================================================================
