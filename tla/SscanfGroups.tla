------------------------------- MODULE SscanfGroups -------------------------------
(***************************************************************************)
(* The specifiers of sscanf that hold others (src/plugins/sscanf-2.8.2/    *)
(* sscanf, files array.cpp, enum.cpp, kustom.cpp and GetJaggedSlot of      *)
(* data.cpp): arrays A<i>(10, 11)[5], enumerations E<ifs[32]d>(...) and    *)
(* the types that a script parses itself, K<name>(...).                    *)
(*                                                                         *)
(* An array or an enumeration is read twice, first from its defaults,      *)
(* then from the input over them.  A group returns the cells it wrote,     *)
(* from the first on; Untouched is a cell that keeps what the script had   *)
(* in it.  A string is one cell here, followed by untouched ones.          *)
(*                                                                         *)
(* The plugin ends the pieces of a format by writing a NUL over the        *)
(* character after them.  The second reading sees the NULs of the first:   *)
(* that is what after and rest are for.                                    *)
(*                                                                         *)
(* Out of the model, for no format may hold them: defaults that follow a   *)
(* special float (arithmetic on infinities), and a string without room for *)
(* a character.                                                            *)
(***************************************************************************)
EXTENDS SscanfPlayers

CONSTANTS Untouched,   \* the contents of a cell that sscanf does not write
          Publics      \* the names of the publics sscanf_<name> of the script

ASSUME UntouchedAssumption == Untouched \notin Int

Times(v, n) == [k \in 1..n |-> v]

(* What is written over old *)
Over(new, old) ==
  [k \in 1..IF Len(new) > Len(old) THEN Len(new) ELSE Len(old) |->
     IF k \in DOMAIN new /\ (new[k] # Untouched \/ k \notin DOMAIN old) THEN new[k] ELSE old[k]]

(* A string as a script's array of size cells gets it *)
StringCells(v, size) == <<CutTo(v, size)>> \o Times(Untouched, size - 1)

(***************************************************************************)
(* Single values, players included.                                        *)
(***************************************************************************)
Simple == SimpleRequired \cup SimpleOptional
Kind == [u |-> "u", U |-> "u", q |-> "q", Q |-> "q", r |-> "r", R |-> "r"]
Floats == {"f", "F", "g", "G"}

ReadUser(sp, options, delim, s, p) ==
  LET Found(user) == [ok |-> TRUE, v |-> DoUser(Kind[sp], options, user, 0).v, p |-> user.p]
  IN  Found(GetUserString(delim, s, p, g_iTrueMax))

(* The default of a player is a name or a number *)
DefaultUser(sp, number, options, delim, s, p) ==
  IF "OLD_DEFAULT_NAME" \in options THEN ReadUser(sp, options, delim, s, p)
  ELSE [Do(number, delim, s, p) EXCEPT !.ok = TRUE]

ReadValue(sp, defaults, options, delim, s, p) ==
  IF sp \in Simple THEN Do(sp, delim, s, p)
  ELSE IF defaults THEN DefaultUser(sp, "i", options, delim, s, p)
  ELSE ReadUser(sp, options, delim, s, p)

(***************************************************************************)
(* The defaults of a group: what is in the round brackets, if any, without *)
(* the closing one.                                                        *)
(***************************************************************************)
NoDefaults(p) == [given |-> FALSE, empty |-> TRUE, text |-> <<>>, p |-> p]

Defaults(f, p) ==
  LET start == SkipWhitespace(f, p + 1)
      Until(close) == [given |-> TRUE, empty |-> close = start /\ Ch(f, close) = ")",
                       text |-> SubSeq(f, start, close - 1), p |-> PastIfAny(f, close)]
  IN  IF Ch(f, p) # "(" THEN NoDefaults(p)
      ELSE Until(FirstUnescaped(f, start, ")"))

(***************************************************************************)
(* Types of the script: a word goes to the public sscanf_<type>, which is  *)
(* external, and its result into the cell.  An unknown type is only a      *)
(* warning.                                                                *)
(***************************************************************************)
CallPublic(type, word) == <<type, word>>

KustomDefault(type, options, opts) ==
  IF opts.empty THEN 0
  ELSE IF "OLD_DEFAULT_KUSTOM" \notin options THEN GetNumber(opts.text, 1).v
  ELSE IF type \in Publics THEN CallPublic(type, opts.text)
  ELSE 0

DoK(options, delim, f, fp, s, p, optional) ==
  LET Result(ok, v, nf, q) == [ok |-> ok, v |-> v, fp |-> nf, p |-> q]
      Word(type, nf, r) == Result(TRUE, CallPublic(type, r.v), nf, r.p)
      Typed(type, opts) ==
        IF IsStringEnd(delim, Ch(s, p)) THEN
               Result(optional, IF optional THEN KustomDefault(type, options, opts) ELSE Untouched, opts.p, p)
        ELSE IF type \notin Publics THEN Result(TRUE, Untouched, opts.p, p)
        ELSE Word(type, opts.p, DoS(delim, s, p, Len(s) + 2, FALSE))
      Found(multi) == IF multi.ok THEN Typed(multi.v, IF optional THEN Defaults(f, multi.p) ELSE NoDefaults(multi.p))
                      ELSE Result(FALSE, Untouched, multi.p, p)
  IN  Found(GetMultiType(f, fp))

(***************************************************************************)
(* Arrays.                                                                 *)
(***************************************************************************)
(* Where a slot of an array of arrays begins and how long it is: up to the *)
(* next slot that begins after it, or the end of them all                  *)
GetJaggedSlot(starts, size, slot) ==
  LET ends == {starts[k] : k \in DOMAIN starts} \cup {Len(starts) * size}
      after == {e \in ends : e > starts[slot]}
  IN  CHOOSE e \in after : \A t \in after : e <= t

SlotLength(length, size, slot) ==
  LET starts == [k \in 1..length |-> (k - 1) * size]
  IN  GetJaggedSlot(starts, size, slot) - starts[slot]

(* By how much a default differs from the one before it: what the series   *)
(* goes on by when the defaults run out                                    *)
Difference(sp, cells, v) ==
  IF cells = <<>> \/ sp \in {"l", "L", "k", "K"} \cup DOMAIN Kind THEN 0
  ELSE IF sp \in {"g", "G"} /\ \E w \in DOMAIN Special : v = Special[w] THEN 0
  ELSE IF sp \in Floats THEN v - cells[Len(cells)]
  ELSE Wrap(v - cells[Len(cells)])

\* Mutant: the last default again, not the series.
GoOnAlike(sp, read, length) ==
  read.cells \o Times(IF read.cells = <<>> THEN 0 ELSE read.cells[Len(read.cells)], length - Len(read.cells))

GoOn(sp, read, length) ==
  LET Following(v) == IF sp \in Floats THEN v + read.diff ELSE Wrap(v + read.diff)
      Step(cells, k) == Append(cells, Following(IF cells = <<>> THEN 0 ELSE cells[Len(cells)]))
  IN  FoldLeft(Step, read.cells, Times(0, length - Len(read.cells)))

(* One value after the other, each with a spacer after it *)
Values(Read(_), delim, s, p, length, sp) ==
  LET Note(a, r) ==
        IF ~r.ok THEN [a EXCEPT !.stop = TRUE, !.p = r.p]
        ELSE [a EXCEPT !.cells = Append(@, r.v), !.p = SkipOneSpacer(delim, s, r.p),
                       !.diff = Difference(sp, a.cells, r.v)]
      Step(a, k) == IF a.stop \/ Ch(s, a.p) = NUL THEN a ELSE Note(a, Read(a.p))
  IN  FoldLeft(Step, [stop |-> FALSE, cells |-> <<>>, p |-> p, diff |-> 0], Times(0, length))

ArrayTypes == Simple \cup DOMAIN Kind \cup {"k", "K", "s"}

(* The strings of an array, of which the last may take all that is left *)
ArrayStrings(size, delim, s, p, length, saves, whole) ==
  LET Note(a, r) == [a EXCEPT !.cells = @ \o StringCells(r.v, size), !.p = SkipOneSpacer(delim, s, r.p)]
      Step(a, k) ==
        IF Ch(s, a.p) = NUL THEN a
        ELSE Note(a, DoS(delim, s, a.p, IF saves THEN SlotLength(length, size, k) ELSE Len(s) + 2,
                         whole /\ k = length))
  IN  FoldLeft(Step, [cells |-> <<>>, p |-> p], [k \in 1..length |-> k])

(* From the input: TRUE when the array is full, CONT when the input ended  *)
(* before it was, FAIL when a value was none                               *)
ArrayInput(type, size, options, delim, s, p, length, saves, whole) ==
  LET sp == type[1]
      ReadOne(q) == IF sp \in {"k", "K"} THEN DoK(options, delim, type, 2, s, q, FALSE)
                    ELSE ReadValue(sp, FALSE, options, delim, s, q)
      Done(full, read) ==
        [ret |-> IF full THEN "TRUE" ELSE IF Ch(s, read.p) = NUL THEN "CONT" ELSE "FAIL",
         cells |-> read.cells, p |-> read.p]
      Strings(read) == Done(Len(read.cells) = length * size, read)
      Others(read) == Done(Len(read.cells) = length, read)
  IN  IF sp = "s" THEN Strings(ArrayStrings(size, delim, s, p, length, saves, whole))
      ELSE Others(Values(ReadOne, delim, s, p, length, sp))

(* The cells of the defaults: the values given, then a series.  A string   *)
(* and a type of the script are given once.                                *)
ArrayDefaults(type, size, options, text, length) ==
  LET sp == type[1]
      ReadOne(q) == ReadValue(sp, TRUE, options, {",", ")"}, text, q)
      Series(read) == IF Ch(text, read.p) # NUL THEN read.cells ELSE GoOn(sp, read, length)
      Same(one) == IF one.ok THEN Times(one.v, length) ELSE <<>>
      Each(v) == FoldLeft(LAMBDA cells, k : cells \o StringCells(v, size), <<>>, Times(0, length))
  IN  CASE sp = "s" -> Each(DoS({")"}, text, 1, Len(text) + 2, TRUE).v)
        [] sp \in {"k", "K"} -> Same(DoK(options, {",", ")"}, type, 2, text, 1, FALSE))
        [] OTHER -> Series(Values(ReadOne, {",", ")"}, text, 1, length, sp))

(* A type, or a format, as the first reading leaves it *)
CutAt(text, multi) == IF multi.ok THEN SubSeq(text, 1, multi.p - 2) ELSE text

Plain(type) == IF Ch(type, 1) \in {"S", "z", "Z"} THEN <<"s">> \o Tail(type) ELSE type

(***************************************************************************)
(* A literal: what is between it and the next quote, without the escapes,  *)
(* is searched for.  rest is the format as the plugin leaves it: the       *)
(* characters moved together, and a NUL after them if the quote was there. *)
(***************************************************************************)
Literal(f, p) ==
  LET drops(q, end) == f[q] = "\\" /\ (q + 1 < end /\ f[q + 1] \in {"\\", "'"}) /\ ~EscapedAt(f, p, q)
      Bare(end) == FoldLeft(LAMBDA t, q : IF drops(q, end) THEN t ELSE Append(t, f[q]), <<>>,
                            [k \in 1..end - p |-> p + k - 1])
      Search(lit, end) ==
        IF Ch(f, end) = "'"
        THEN [needle |-> lit, size |-> Len(lit), p |-> end + 1, rest |-> SubSeq(f, 1, p - 1) \o lit]
        ELSE [needle |-> lit \o SubSeq(f, p + Len(lit), Len(f)), size |-> Len(lit), p |-> end, rest |-> f]
      To(end) == Search(Bare(end), end)
  IN  To(FirstUnescaped(f, p, "'"))

(* The first place of the needle from p on, or 0 *)
Find(s, p, needle) ==
  LET hits == {q \in p..Len(s) + 1 : /\ q + Len(needle) - 1 <= Len(s)
                                     /\ SubSeq(s, q, q + Len(needle) - 1) = needle}
  IN  IF hits = {} THEN 0 ELSE CHOOSE q \in hits : \A t \in hits : q <= t

(***************************************************************************)
(* Enumerations.  A reading a is at f in the format and at p in the text   *)
(* s; it has its cells so far, the delimiter in force, the one outside,    *)
(* and what the plugin leaves of the format (rest).                        *)
(***************************************************************************)
NoSuchEntry == {"A", "a", "E", "e", "?"}
Sized == {"s", "S", "z", "Z", "a", "A"}

Fail(a) == [a EXCEPT !.ret = "FAIL"]
Keep(a, cells) == IF a.doSave THEN [a EXCEPT !.cells = @ \o cells] ELSE a
GoTo(a, s, f, q) == [a EXCEPT !.f = f, !.p = SkipOneSpacer(a.delim, s, q)]
Cut(a, format, text) == IF a.rest = format THEN [a EXCEPT !.rest = text] ELSE a

Entry(a, s, f, r) == IF r.ok THEN GoTo(Keep(a, <<r.v>>), s, f, r.p) ELSE Fail(a)

KustomEntry(a, s, r) == Entry(a, s, r.fp, r)

StringEntry(a, s, format, length) ==
  LET Got(r) == GoTo(Keep(a, StringCells(r.v, length.v)), s, length.p, r.p)
  IN  IF length.v = 0 THEN Fail(a)
      ELSE Got(DoS(a.delim, s, a.p, length.v, Ch(format, length.p) = NUL))

LiteralEntry(a, s, format, lit) ==
  LET Hit(q) == IF q = 0 THEN Fail(a) ELSE Cut(GoTo(a, s, lit.p, q + lit.size), format, lit.rest)
  IN  Hit(Find(s, a.p, lit.needle))

(* An entry after a -: its cells stay as they are *)
SkipEntry(a, s, format, c, f) ==
  LET Cells(length) == GoTo(Keep(a, Times(Untouched, length.v)), s, length.p, a.p)
      Type(multi) == Cut(GoTo(Keep(a, <<Untouched>>), s, multi.p, a.p), format, CutAt(format, multi))
  IN  IF c \in {"e", "E"} THEN Fail(a)
      ELSE IF c \in Sized \/ (c \in DOMAIN Kind /\ Ch(format, f) = "[") THEN Cells(GetLength(format, f, TRUE))
      ELSE IF c \in {"k", "K"} THEN Type(GetMultiType(format, f))
      ELSE IF c \in Simple \cup DOMAIN Kind THEN GoTo(Keep(a, <<Untouched>>), s, f, a.p)
      ELSE GoTo(a, s, f, a.p)

(* A p or P in the defaults only changes the delimiter that they will be   *)
(* followed by                                                             *)
Delimited(a, f, d, defaults) ==
  [a EXCEPT !.f = f, !.outer = d, !.delim = IF defaults THEN @ ELSE d]

Multi(a, format, multi, defaults) ==
  IF multi.ok THEN Cut(Delimited(a, multi.p, ToSet(multi.v), defaults), format, CutAt(format, multi))
  ELSE Fail(a)

Single(a, single, defaults) == Delimited(a, single.p, {single.v}, defaults)

(* One entry further *)
EnumStep(format, options, s, saves, defaults, a) ==
  LET c == Ch(format, a.f)
      next == Ch(format, a.f + 1)
      f == a.f + 1
      numeric == defaults /\ "OLD_DEFAULT_KUSTOM" \notin options
      Numeric(multi, r) == [ok |-> TRUE, v |-> r.v, p |-> r.p, fp |-> multi.p]
  IN  IF a.ret # "run" THEN a
      ELSE IF Ch(s, a.p) = NUL THEN
             [a EXCEPT !.ret = IF c = NUL \/ (c = "}" /\ next = NUL) THEN "TRUE" ELSE "CONT"]
      ELSE CASE c = NUL -> [a EXCEPT !.ret = "TRUE"]
        [] c \in Simple \cup DOMAIN Kind ->
             Entry(a, s, IF c \in DOMAIN Kind THEN SkipLength(format, f) ELSE f,
                   ReadValue(c, defaults, options, a.delim, s, a.p))
        [] c \in {"k", "K"} ->
             KustomEntry(a, s, IF numeric THEN Numeric(GetMultiType(format, f), Do("i", a.delim, s, a.p))
                               ELSE DoK(options, a.delim, format, f, s, a.p, FALSE))
        [] c \in {"s", "S", "z", "Z"} -> StringEntry(a, s, format, GetLength(format, f, TRUE))
        [] c = "'" -> LiteralEntry(a, s, format, Literal(format, f))
        [] c = "-" -> SkipEntry(a, s, format, next, f + 1)
        [] c \in {"{", "}"} -> [a EXCEPT !.f = f, !.doSave = saves /\ c = "}"]
        [] c = "P" -> Multi(a, format, GetMultiType(format, f), defaults)
        [] c = "p" -> Single(a, GetSingleType(format, f), defaults)
        [] c \in NoSuchEntry -> Fail(a)
        [] OTHER -> [a EXCEPT !.f = f]

(* One reading of an enumeration: delim is in force for it *)
DoEnumValues(format, options, delim, outer, s, p, saves, defaults) ==
  FoldLeft(LAMBDA a, n : EnumStep(format, options, s, saves, defaults, a),
           [f |-> 1, p |-> p, ret |-> "run", cells |-> <<>>, doSave |-> saves,
            delim |-> delim, outer |-> outer, rest |-> format],
           Times(0, Len(format) + 2))
===================================================================================
