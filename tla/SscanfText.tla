------------------------------- MODULE SscanfText -------------------------------
(***************************************************************************)
(* What the sscanf plugin does to text (src/plugins/sscanf-2.8.2/sscanf,   *)
(* files utils.cpp, data.cpp and the readers of specifiers.cpp): spacers   *)
(* and delimiters, numbers of every base, words, strings, and the pieces   *)
(* of a format, which are defaults in round brackets, types in angle       *)
(* brackets and lengths in square ones.                                    *)
(*                                                                         *)
(* A text is a sequence of characters and a char pointer is a position in  *)
(* it; the position after the last character holds NUL.  A reader returns  *)
(* a record: v is the value, p the position after it, ok whether the       *)
(* reader was content.  The plugin edits its texts in place: a terminator  *)
(* it writes is a subsequence here, and where a text is read again after   *)
(* that, SscanfGroups keeps what the first reading left.  A word that a    *)
(* reader knows as a whole (false, INFINITY, the name of an option) is one *)
(* symbol of the text.  A set of delimiters stands for the string that     *)
(* g_cDelim points to.                                                     *)
(***************************************************************************)
EXTENDS Integers, Sequences, SequencesExt

CONSTANT Half       \* a cell of the virtual machine holds -Half .. Half - 1

ASSUME HalfAssumption == Half \in Nat \ {0}

NUL == "NUL"
SSCANF_MAX_LENGTH == 32

Ascii == << " ", "!", "\"", "#", "$", "%", "&", "'", "(", ")", "*", "+", ",",
  "-", ".", "/", "0", "1", "2", "3", "4", "5", "6", "7", "8", "9", ":", ";",
  "<", "=", ">", "?", "@", "A", "B", "C", "D", "E", "F", "G", "H", "I", "J",
  "K", "L", "M", "N", "O", "P", "Q", "R", "S", "T", "U", "V", "W", "X", "Y",
  "Z", "[", "\\", "]", "^", "_", "grave", "a", "b", "c", "d", "e", "f", "g", "h",
  "i", "j", "k", "l", "m", "n", "o", "p", "q", "r", "s", "t", "u", "v", "w",
  "x", "y", "z", "{", "|", "}", "~" >>

(* The number of a character, as a cell holds it *)
Code == [c \in {Ascii[i] : i \in 1..Len(Ascii)} \cup {NUL} |->
           IF c = NUL THEN 0 ELSE 31 + CHOOSE i \in 1..Len(Ascii) : Ascii[i] = c]

Ch(s, p) == IF p \in 1..Len(s) THEN s[p] ELSE NUL

(* The first position from p on whose character satisfies Stop, or the end *)
FirstAt(s, p, Stop(_)) ==
  LET hits == {q \in p..Len(s) : Stop(s[q])}
  IN  IF hits # {} THEN CHOOSE q \in hits : \A r \in hits : q <= r
      ELSE IF p > Len(s) THEN p ELSE Len(s) + 1

(***************************************************************************)
(* Spacers: whitespace, which the NUL is too, and the explicit delimiters. *)
(***************************************************************************)
IsWhitespace(c) == c \in {" ", NUL}
IsDelimiter(delim, c) == c \in delim
IsDefaultDelimiter(delim) == delim = {" "}
IsSpacer(delim, c) == IsWhitespace(c) \/ IsDelimiter(delim, c)
IsStringEnd(delim, c) ==
  IF IsDefaultDelimiter(delim) THEN IsWhitespace(c) ELSE c = NUL \/ IsDelimiter(delim, c)

SkipWhitespace(s, p) == FirstAt(s, p, LAMBDA c : ~IsWhitespace(c))
FindSpacer(delim, s, p) == FirstAt(s, p, LAMBDA c : IsSpacer(delim, c))

\* Mutant: all the spacers are skipped, as in SkipSpacer.
SkipAllSpacers(delim, s, p) == FirstAt(s, p, LAMBDA c : ~IsSpacer(delim, c))

SkipOneSpacer(delim, s, p) ==
  LET q == SkipWhitespace(s, p)
  IN  IF IsDelimiter(delim, Ch(s, q)) THEN SkipWhitespace(s, q + 1) ELSE q

GetReturn(delim, s, p) == IsSpacer(delim, Ch(s, p))

GetReturnDefault(delim, s, p) ==
  LET q == SkipWhitespace(s, p)
  IN  IF IsDelimiter(delim, Ch(s, q)) THEN q + 1 ELSE q

(***************************************************************************)
(* Numbers.  A cell wraps.                                                 *)
(***************************************************************************)
Wrap(n) == ((n + Half) % (2 * Half)) - Half

Bin == {"0", "1"}
Oct == Bin \cup {"2", "3", "4", "5", "6", "7"}
Dec == Oct \cup {"8", "9"}
Hex == Dec \cup {"a", "b", "c", "d", "e", "f", "A", "B", "C", "D", "E", "F"}

DigitOf(c) == Code[c] - (IF c \in Dec THEN 48 ELSE IF Code[c] > 96 THEN 87 ELSE 55)

(* The run of digits at p, times sign *)
Digits(s, p, digits, base, sign) ==
  LET e == FirstAt(s, p, LAMBDA c : c \notin digits)
  IN  [v |-> Wrap(sign * FoldLeft(LAMBDA n, c : Wrap(n * base + DigitOf(c)), 0,
                                  SubSeq(s, p, e - 1))),
       p |-> e]

Sign(s, p) == IF Ch(s, p) = "-" THEN -1 ELSE 1
Unsigned(s, p) == IF Ch(s, p) \in {"-", "+"} THEN p + 1 ELSE p
BareSign(s, p, digits) == Ch(s, p) \in {"-", "+"} /\ Ch(s, p + 1) \notin digits

Nothing(p) == [v |-> 0, p |-> p]

GetDec(s, p) == IF BareSign(s, p, Dec) THEN Nothing(p)
                ELSE Digits(s, Unsigned(s, p), Dec, 10, Sign(s, p))

GetOct(s, p) == IF BareSign(s, p, Oct) THEN Nothing(p)
                ELSE Digits(s, Unsigned(s, p), Oct, 8, Sign(s, p))

GetHex(s, p) ==
  LET q == Unsigned(s, p)
      prefixed == Ch(s, q) = "0" /\ Ch(s, q + 1) \in {"x", "X"}
      start == IF prefixed THEN q + 2 ELSE q
  IN  IF BareSign(s, p, Dec) THEN Nothing(p)
      ELSE IF Ch(s, start) \in Hex THEN Digits(s, start, Hex, 16, Sign(s, p))
      ELSE Nothing(IF prefixed THEN start - 1 ELSE start)

GetBool(s, p) ==
  LET prefixed == Ch(s, p) = "0" /\ Ch(s, p + 1) \in {"b", "B"}
      start == IF prefixed THEN p + 2 ELSE p
  IN  IF Ch(s, start) \in Bin THEN Digits(s, start, Bin, 2, 1)
      ELSE Nothing(IF prefixed THEN start - 1 ELSE start)

(* A number in any base.  A lone zero is left behind as the value 0 at the *)
(* position after it, and a negative binary number is not one.             *)
GetNumber(s, p) ==
  LET q == Unsigned(s, p)
      second == Ch(s, q + 1)
  IN  IF BareSign(s, p, Dec) THEN Nothing(p)
      ELSE IF Ch(s, q) \notin Dec THEN Nothing(q)
      ELSE IF Ch(s, q) # "0" THEN Digits(s, q, Dec, 10, Sign(s, p))
      ELSE IF second \in {"x", "X"} THEN
             IF Ch(s, q + 2) \in Hex THEN Digits(s, q + 2, Hex, 16, Sign(s, p)) ELSE Nothing(q + 1)
      ELSE IF second \in {"b", "B"} THEN
             IF Sign(s, p) = 1 /\ Ch(s, q + 2) \in Bin THEN Digits(s, q + 2, Bin, 2, 1) ELSE Nothing(q + 1)
      ELSE IF second \in Oct THEN Digits(s, q + 1, Oct, 8, Sign(s, p))
      ELSE IF second \in Dec THEN Digits(s, q + 1, Dec, 10, Sign(s, p))
      ELSE Nothing(q + 1)

(* Zeros and the word false are false, whatever else there is is true *)
GetLogical(delim, s, p) ==
  LET e == FindSpacer(delim, s, p + 1)
      isFalse == \/ Ch(s, p) = "0" /\ \A q \in p + 1..e - 1 : s[q] = "0"
                 \/ Ch(s, p) = "false" /\ e = p + 1
  IN  [v |-> IF isFalse THEN 0 ELSE 1, p |-> e]

(* A float is known by its whole part; the special ones by their words *)
Special == [NAN |-> 3 * Half, NAN_E |-> 4 * Half, INFINITY |-> 5 * Half,
            NEG_INFINITY |-> 6 * Half, NEGATIVE_INFINITY |-> 6 * Half]

StrToD(s, p) == IF BareSign(s, p, Dec) THEN Nothing(p)
                ELSE Digits(s, Unsigned(s, p), Dec, 10, Sign(s, p))

GetSpecial(s, p) ==
  CASE Ch(s, p) \in DOMAIN Special -> [v |-> Special[Ch(s, p)], p |-> p + 1]
    [] Ch(s, p) = "-" /\ Ch(s, p + 1) = "INFINITY" -> [v |-> Special.NEG_INFINITY, p |-> p + 2]
    [] OTHER -> StrToD(s, p)

(* One character; a backslash escapes a spacer and itself.  The end of the *)
(* text counts as a spacer here (IsWhitespace, utils.cpp:237): behind a    *)
(* backslash that ends it, the code reads on past its terminator.  What is *)
(* there is not known, and the model has the text end again.               *)
GetChar(delim, s, p) ==
  LET next == Ch(s, p + 1)
  IN  IF Ch(s, p) # "\\" THEN [v |-> Code[Ch(s, p)], p |-> p + 1]
      ELSE IF IsSpacer(delim, next) THEN [v |-> Code[next], p |-> p + 2]
      ELSE IF next = "\\" THEN [v |-> Code["\\"], p |-> p + 2]
      ELSE [v |-> Code["\\"], p |-> p + 1]

(* The reader of each simple specifier, in either case *)
Get(sp, delim, s, p) ==
  CASE sp \in {"i", "d", "I", "D"} -> GetDec(s, p)
    [] sp \in {"n", "N"} -> GetNumber(s, p)
    [] sp \in {"h", "x", "H", "X"} -> GetHex(s, p)
    [] sp \in {"o", "O"} -> GetOct(s, p)
    [] sp \in {"b", "B"} -> GetBool(s, p)
    [] sp \in {"l", "L"} -> GetLogical(delim, s, p)
    [] sp \in {"c", "C"} -> GetChar(delim, s, p)
    [] sp \in {"f", "F"} -> StrToD(s, p)
    [] sp \in {"g", "G"} -> GetSpecial(s, p)

SimpleRequired == {"l", "b", "n", "c", "i", "d", "h", "x", "o", "f", "g"}
SimpleOptional == {"L", "B", "N", "C", "I", "D", "H", "X", "O", "F", "G"}

(* A value must end at a spacer, except a logical one, which always does *)
Do(sp, delim, s, p) ==
  LET Ending(r) == [ok |-> sp \in {"l", "L"} \/ GetReturn(delim, s, r.p), v |-> r.v, p |-> r.p]
  IN  Ending(Get(sp, delim, s, p))

(***************************************************************************)
(* A string of fewer than length characters: all that is left, or up to    *)
(* the next spacer or delimiter, which is skipped with it.  A backslash    *)
(* escapes what would end the string, while there is room.                 *)
(***************************************************************************)
EndsString(delim, all, c) == CASE all -> c = NUL
                               [] OTHER -> IsStringEnd(delim, c)

\* Mutant: a backslash does not escape itself.
EscapableSpacer(delim, all, c) == IsWhitespace(c) \/ IsDelimiter(delim, c)

Escapable(delim, all, c) == \/ c = "\\"
                            \/ IsWhitespace(c)
                            \/ (all \/ ~IsDefaultDelimiter(delim)) /\ IsDelimiter(delim, c)

DoS(delim, s, p, length, all) ==
  LET Step(a, q) ==
        IF a.end # 0 THEN a
        ELSE IF a.literal THEN [a EXCEPT !.literal = FALSE, !.out = Append(@, s[q])]
        ELSE IF EndsString(delim, all, s[q]) THEN [a EXCEPT !.end = q]
        ELSE IF a.i + 1 >= length THEN [a EXCEPT !.i = @ + 1]
        ELSE IF s[q] = "\\" /\ Ch(s, q + 1) = NUL THEN [a EXCEPT !.end = q + 1]
        ELSE IF s[q] = "\\" /\ Escapable(delim, all, Ch(s, q + 1)) THEN
               [a EXCEPT !.i = @ + 1, !.literal = TRUE]
        ELSE [a EXCEPT !.i = @ + 1, !.out = Append(@, s[q])]
      End(out, e) == [v |-> out, e |-> e, p |-> IF Ch(s, e) = NUL THEN e ELSE e + 1]
      Read(a) == End(a.out, IF a.end = 0 THEN Len(s) + 1 ELSE a.end)
  IN  Read(FoldLeft(Step, [i |-> 0, out |-> <<>>, literal |-> FALSE, end |-> 0],
                    [k \in 1..Len(s) - p + 1 |-> p + k - 1]))

(* A word that may be the number of a player: any other word is max.  An   *)
(* empty word is number 0.                                                 *)
GetUserString(delim, s, p, max) ==
  LET Number(word) == FoldLeft(LAMBDA n, c : (n * 10 + DigitOf(c)) % (2 * Half), 0, word)
      Up(e, word) == [v |-> IF \A k \in 1..Len(word) : word[k] \in Dec THEN Number(word) ELSE max,
                      p |-> e, word |-> word]
      To(e) == Up(e, SubSeq(s, p, e - 1))
  IN  To(FindSpacer(delim, s, p))

(***************************************************************************)
(* The pieces of a format.                                                 *)
(***************************************************************************)
(* Is the character at q escaped by an odd run of backslashes after a? *)
EscapedAt(f, a, q) ==
  Cardinality({r \in a..q - 1 : \A t \in r..q - 1 : f[t] = "\\"}) % 2 = 1

(* The first c from a on that is not escaped, or the end *)
FirstUnescaped(f, a, c) ==
  LET hits == {q \in a..Len(f) : f[q] = c /\ ~EscapedAt(f, a, q)}
  IN  IF hits = {} THEN Len(f) + 1 ELSE CHOOSE q \in hits : \A r \in hits : q <= r

PastIfAny(f, q) == IF Ch(f, q) = NUL THEN q ELSE q + 1

FindDefaultStart(f, p) ==
  IF Ch(f, p) = "(" THEN [ok |-> TRUE, p |-> SkipWhitespace(f, p + 1)] ELSE [ok |-> FALSE, p |-> p]

(* The first character of a default is skipped unseen *)
SkipDefault(f, p) ==
  LET start == FindDefaultStart(f, p)
  IN  IF start.ok THEN PastIfAny(f, FirstAt(f, start.p + 1, LAMBDA c : c = ")")) ELSE p

SkipDefaultEx(f, p) ==
  IF Ch(f, p) = "(" THEN PastIfAny(f, FirstUnescaped(f, p, ")")) ELSE p

GetSingleType(f, p) ==
  CASE Ch(f, p) = "<" /\ Ch(f, p + 1) # NUL /\ Ch(f, p + 2) = ">" -> [v |-> f[p + 1], p |-> p + 3]
    [] Ch(f, p) = NUL -> [v |-> " ", p |-> p]
    [] OTHER -> [v |-> Ch(f, p), p |-> p + 1]

(* What is between angle brackets.  A < inside opens one level more, and   *)
(* hides the character after it.                                           *)
GetMultiType(f, p) ==
  LET Step(a, k) ==
        LET escape == Ch(f, a.p) = "\\" /\ ~a.escape
            q == a.p + 1
            next == IF escape THEN [a EXCEPT !.p = q]
                    ELSE IF a.nested /\ Ch(f, q) = ">" THEN [a EXCEPT !.p = q + 1, !.nested = FALSE]
                    ELSE IF ~a.nested /\ Ch(f, q) = "<" THEN [a EXCEPT !.p = q + 1, !.nested = TRUE]
                    ELSE [a EXCEPT !.p = q]
        IN  IF a.done THEN a
            ELSE [next EXCEPT !.escape = escape,
                    !.done = \/ Ch(f, next.p) = NUL
                             \/ ~next.nested /\ ~escape /\ Ch(f, next.p) = ">"]
      Between(q) == IF Ch(f, q) = NUL THEN [ok |-> FALSE, v |-> <<>>, p |-> q]
                    ELSE [ok |-> TRUE, v |-> SubSeq(f, p + 1, q - 1), p |-> q + 1]
  IN  IF Ch(f, p) # "<" THEN [ok |-> FALSE, v |-> <<>>, p |-> p]
      ELSE Between(FoldLeft(Step, [p |-> p, escape |-> FALSE, nested |-> FALSE, done |-> FALSE],
                            [k \in 1..Len(f) |-> k]).p)

SkipLength(f, p) ==
  IF Ch(f, p) = "[" THEN PastIfAny(f, FirstAt(f, p + 1, LAMBDA c : c = "]")) ELSE p

(* A length in square brackets: 0 is an error where one is required *)
GetLength(f, p, error) ==
  LET none == IF error THEN 0 ELSE SSCANF_MAX_LENGTH
      Size(r) == [v |-> IF r.v <= 0 THEN none ELSE r.v,
                  p |-> PastIfAny(f, FirstAt(f, r.p, LAMBDA c : c = "]"))]
  IN  IF Ch(f, p) # "[" THEN [v |-> none, p |-> p] ELSE Size(GetDec(f, p + 1))

(* The default of a simple specifier, with the delimiters in force *)
DoDefault(sp, delim, f, p) ==
  LET start == FindDefaultStart(f, p)
      Ending(r) == [v |-> r.v, p |-> GetReturnDefault(delim, f, r.p)]
  IN  IF start.ok THEN Ending(Get(sp, delim, f, start.p)) ELSE Nothing(p)

(* The default of a string and the length after it.  The server cuts the   *)
(* copy at the length.  A default that is longer is left without a         *)
(* terminator (specifiers.cpp:872-876), which the copy does not reach; the *)
(* one that is written lands length - 1 pointers behind the variable of    *)
(* the caller that holds its place.  What that overwrites is not modelled, *)
(* nor a length of 1, with which it is the place itself.                   *)
CutTo(v, size) == IF Len(v) < size THEN v ELSE SubSeq(v, 1, size - 1)

DoSD(delim, f, p) ==
  LET start == FindDefaultStart(f, p)
      Sized(v, length) == [ok |-> TRUE, v |-> CutTo(v, length.v), p |-> length.p]
      Closed(r) == Sized(r.v, IF IsDelimiter(delim, Ch(f, r.e)) THEN GetLength(f, r.p, FALSE)
                              ELSE [v |-> SSCANF_MAX_LENGTH, p |-> r.p])
  IN  IF start.ok THEN Closed(DoS(delim, f, start.p, Len(f) + 2, FALSE))
      ELSE [ok |-> FALSE, v |-> <<>>, p |-> p]
=================================================================================
